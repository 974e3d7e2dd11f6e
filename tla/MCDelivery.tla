----------------------------- MODULE MCDelivery -----------------------------
(* Instances of Delivery for TLC.                                           *)
EXTENDS Delivery, TLC

CONSTANTS g1, g2, s1, s2, s3, c1, c2

\* Two replies in one thread, two clients on it and one on another thread.
MCChannelOf == g1 :> c1 @@ g2 :> c1 @@ s1 :> c1 @@ s2 :> c1 @@ s3 :> c2

Symmetry == Permutations({g1, g2}) \cup Permutations({s1, s2})
=============================================================================
