--------------------------- MODULE MCReconcileRace ---------------------------
(* Instance of ReconcileRace for TLC: one tenant, one component.            *)
EXTENDS ReconcileRace

CONSTANTS o1, r1, r2

MCPriceLists == { [c \in {"turn-taking"} |-> 1] }
=============================================================================
