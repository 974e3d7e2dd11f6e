---------------------------- MODULE MCTurnTaking ----------------------------
(* Instance of TurnTaking for TLC: one thread two tenants may open, enough  *)
(* reservations for a reply and a batch, enough credits for one of each.    *)
EXTENDS TurnTaking, TLC

CONSTANTS o1, o2, t1, g1, g2, r1, r2, r3, r4

MCOwners == {o1, o2}
MCThreads == {t1}
MCGroups == {g1, g2}
MCComponents == {"turn-taking", "theoryofmind"}
MCReservationIds == {r1, r2, r3, r4}
MCPriceLists == { [c \in MCComponents |-> 1] }

Symmetry == Permutations(MCOwners) \cup Permutations(MCGroups)
              \cup Permutations(MCReservationIds)
=============================================================================
