------------------------------- MODULE MCJobs -------------------------------
(* Instance of Jobs for TLC: two workers, as start_workers() starts them.   *)
EXTENDS Jobs, TLC

CONSTANTS w1, w2, a1
=============================================================================
