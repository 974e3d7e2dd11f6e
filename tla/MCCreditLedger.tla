--------------------------- MODULE MCCreditLedger ---------------------------
(* Instance of CreditLedger for TLC: two tenants and the two components     *)
(* respond() pays for, under two price lists a process may be booted with.  *)
EXTENDS CreditLedger, TLC

CONSTANTS o1, o2, r1, r2, r3

MCOwners == {o1, o2}
MCComponents == {"turn-taking", "theoryofmind"}
MCReservationIds == {r1, r2, r3}
MCPriceLists ==
  { "turn-taking" :> 1 @@ "theoryofmind" :> 2,
    "turn-taking" :> 0 @@ "theoryofmind" :> 3 }

Symmetry == Permutations(MCOwners) \cup Permutations(MCReservationIds)
=============================================================================
