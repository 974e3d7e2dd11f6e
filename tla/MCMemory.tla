------------------------------ MODULE MCMemory ------------------------------
(* Instance of Memory and Recall for TLC: two tenants that use the same     *)
(* scope ids, a message said twice, and texts that contradict each other.   *)
EXTENDS Recall, TLC

CONSTANTS o1, o2, k1, s1, s2

\* Ada works at Acme, Ada works at Bolt, and Ada and Bob work at both.
MCMessages == {"acme", "bolt", "both"}
MCTextOf == [acme |-> "acme", bolt |-> "bolt", both |-> "both"]
MCSubjectsOf == [acme |-> <<"ada">>, bolt |-> <<"ada">>, both |-> <<"ada", "bob">>]
MCBatches == {<<"acme">>, <<"bolt", "acme">>, <<"both">>}

MCQueries == {"ada", "places"}
MCOverlap == [ada |-> [acme |-> 1, bolt |-> 1, both |-> 2],
              places |-> [acme |-> 0, bolt |-> 1, both |-> 1]]

Symmetry == Permutations({o1, o2}) \cup Permutations({s1, s2})
=============================================================================
