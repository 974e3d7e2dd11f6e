---------------------------- MODULE ReconcileRace ----------------------------
(***************************************************************************)
(* The ledger with the operator's reconcile_abandoned(0.0) as the separate *)
(* operating-system process it is.                                         *)
(*                                                                         *)
(* capture, release and reconcile_abandoned read the state of a row, decide*)
(* in Python and write the new state back by primary key.  Nothing holds   *)
(* the row in between: SQLite's driver opens its transaction at the first  *)
(* write, PostgreSQL reads without a lock since none is asked for.  Inside *)
(* the one service process this is harmless, and CreditLedger takes each   *)
(* function as one step; here they are a read and a write.                 *)
(***************************************************************************)
EXTENDS CreditLedger

VARIABLES
  loaded,     \* what the service has read and is about to write
  selected    \* the rows the operator has read and is about to write

raceVars == <<ledgerVars, loaded, selected>>

Nothing == [op |-> "none"]

ReserveRow(o, c, r) ==
  /\ loaded = Nothing
  /\ Reserve(o, c, r)
  /\ UNCHANGED <<loaded, selected>>

\* capture or release has read the row, and it is still reserved.
Load(op, r) ==
  /\ loaded = Nothing
  /\ IsReserved(r)
  /\ loaded' = [op |-> op, id |-> r, row |-> reservation[r]]
  /\ UNCHANGED <<ledgerVars, selected>>

\* capture's writes: the state, the balance, the usage event.
StoreCapture ==
  /\ loaded.op = "capture"
  /\ LET row == loaded.row IN
     /\ reservation' = [reservation EXCEPT ![loaded.id].state = "captured"]
     /\ balance' = [balance EXCEPT ![row.owner] = @ - row.credits]
     /\ usage' = Append(usage, [owner |-> row.owner, component |-> row.component,
                                credits |-> row.credits])
  /\ loaded' = Nothing
  /\ UNCHANGED <<prices, clock, selected>>

StoreRelease ==
  /\ loaded.op = "release"
  /\ reservation' = [reservation EXCEPT ![loaded.id].state = "released"]
  /\ loaded' = Nothing
  /\ UNCHANGED <<balance, usage, prices, clock, selected>>

\* reconcile_abandoned(0.0) selects the abandoned rows ...
OperatorSelects ==
  /\ selected = {}
  /\ selected' = {r \in ReservationIds : Abandoned(r, 0)}
  /\ UNCHANGED <<ledgerVars, loaded>>

\* ... and writes them.
OperatorWrites ==
  /\ selected # {}
  /\ reservation' = [r \in ReservationIds |->
        IF r \in selected THEN [reservation[r] EXCEPT !.state = "released"]
                          ELSE reservation[r]]
  /\ selected' = {}
  /\ UNCHANGED <<balance, usage, prices, clock, loaded>>

Passing == Tick /\ UNCHANGED <<loaded, selected>>

RaceInit == LedgerInit /\ loaded = Nothing /\ selected = {}

RaceNext ==
  \/ \E o \in Owners, c \in Components, r \in ReservationIds : ReserveRow(o, c, r)
  \/ \E r \in ReservationIds : Load("capture", r) \/ Load("release", r)
  \/ StoreCapture \/ StoreRelease
  \/ OperatorSelects \/ OperatorWrites
  \/ Passing

RaceSpec == RaceInit /\ [][RaceNext]_raceVars

-----------------------------------------------------------------------------
\* tests/test_billing_isolation.py: a released reservation never becomes a
\* charge.
ReleasedNeverCharged ==
  [][\A r \in ReservationIds :
       reservation[r].state = "released"
         => reservation'[r].state # "captured"]_raceVars
=============================================================================
