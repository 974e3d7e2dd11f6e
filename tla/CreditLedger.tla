---------------------------- MODULE CreditLedger ----------------------------
(***************************************************************************)
(* The reservation/capture ledger of service/humalike/billing.py.          *)
(*                                                                         *)
(* Each function of billing.py is one database transaction, hence one      *)
(* action.  Who calls them, and in what order, is left open here: callers  *)
(* may capture what they released, release what was captured, reconcile at *)
(* any moment.  TurnTaking drives the same actions in the order of the     *)
(* request handlers.  That a function is one step holds inside the single  *)
(* service process, where nothing suspends it between its read and its     *)
(* write; ReconcileRace splits them for the operator's separate process.   *)
(***************************************************************************)
EXTENDS Integers, FiniteSets, Sequences

CONSTANTS
  Owners,           \* tenants (rows of `owners`)
  Components,       \* billable components (billing.COMPONENTS)
  ReservationIds,   \* the uuids new_uuid() can hand to credit_reservations
  InitialCredits,   \* settings.initial_credits
  PriceLists,       \* the values settings.prices may take, one per boot
  Grace,            \* reconcile_abandoned's older_than_seconds at startup
  MaxClock          \* bound: TLC stops the clock here

ASSUME LedgerAssumption ==
  /\ InitialCredits \in Nat
  /\ PriceLists \subseteq [Components -> Nat]
  /\ Grace \in Nat
  /\ MaxClock \in Nat

VARIABLES
  balance,       \* owners.credits_balance
  reservation,   \* credit_reservations, NoRow where the id is unused
  usage,         \* usage_events in insertion order
  prices,        \* settings.prices of the running process
  clock          \* utcnow()

ledgerVars == <<balance, reservation, usage, prices, clock>>

NoRow == [state |-> "absent"]

Row == [state     : {"reserved", "captured", "released"},
        owner     : Owners,
        component : Components,
        credits   : Nat,
        created   : Nat]

UsageEvent == [owner : Owners, component : Components, credits : Nat]

-----------------------------------------------------------------------------
(* Sums of credits.  A row of n credits stands for the n units <<id, 1>>,   *)
(* ..., <<id, n>>, and a sum of credits is a number of units.               *)

RowsOf(rows, o, st) ==
  {r \in ReservationIds : rows[r].state = st /\ rows[r].owner = o}

Units(rows, o, st) ==
  UNION { {r} \X (1 .. rows[r].credits) : r \in RowsOf(rows, o, st) }

EventsOf(events, o) == {k \in DOMAIN events : events[k].owner = o}

UsageUnits(events, o) ==
  UNION { {k} \X (1 .. events[k].credits) : k \in EventsOf(events, o) }

Reserved(o) == Cardinality(Units(reservation, o, "reserved"))
Captured(o) == Cardinality(Units(reservation, o, "captured"))
Charged(o)  == Cardinality(UsageUnits(usage, o))

-----------------------------------------------------------------------------
(* The transactions of billing.py.                                          *)

\* Bug: the outstanding reservations are not counted.
CanReserveAlone(o, c) == balance[o] >= prices[c]

CanReserve(o, c) == balance[o] - Reserved(o) >= prices[c]

\* reserve: refuse unless the balance covers every outstanding reservation
\* and this one, then insert the row.
Reserve(o, c, r) ==
  /\ CanReserve(o, c)
  /\ reservation[r] = NoRow
  /\ reservation' = [reservation EXCEPT ![r] =
        [state |-> "reserved", owner |-> o, component |-> c,
         credits |-> prices[c], created |-> clock]]
  /\ UNCHANGED <<balance, usage, prices, clock>>

IsReserved(r) == reservation[r].state = "reserved"

\* Bug: capture charges the price of today instead of the row's.
CaptureRepriced(r) ==
  /\ IsReserved(r)
  /\ LET row == reservation[r] IN
     /\ reservation' = [reservation EXCEPT ![r].state = "captured"]
     /\ balance' = [balance EXCEPT ![row.owner] = @ - prices[row.component]]
     /\ usage' = Append(usage, [owner |-> row.owner, component |-> row.component,
                                credits |-> row.credits])
  /\ UNCHANGED <<prices, clock>>

\* Bug: capture does not look at the state, and charges a row again.
CaptureAgain(r) ==
  /\ reservation[r] # NoRow
  /\ LET row == reservation[r] IN
     /\ reservation' = [reservation EXCEPT ![r].state = "captured"]
     /\ balance' = [balance EXCEPT ![row.owner] = @ - row.credits]
     /\ usage' = Append(usage, [owner |-> row.owner, component |-> row.component,
                                credits |-> row.credits])
  /\ UNCHANGED <<prices, clock>>

\* capture: silently nothing unless the row is still reserved.
Capture(r) ==
  /\ IF IsReserved(r)
     THEN LET row == reservation[r] IN
       /\ reservation' = [reservation EXCEPT ![r].state = "captured"]
       /\ balance' = [balance EXCEPT ![row.owner] = @ - row.credits]
       /\ usage' = Append(usage, [owner |-> row.owner,
                                  component |-> row.component,
                                  credits |-> row.credits])
     ELSE UNCHANGED <<reservation, balance, usage>>
  /\ UNCHANGED <<prices, clock>>

\* Bug: release does not look at the state.
ReleaseAnything(r) ==
  /\ reservation[r] # NoRow
  /\ reservation' = [reservation EXCEPT ![r].state = "released"]
  /\ UNCHANGED <<balance, usage, prices, clock>>

\* release: silently nothing unless the row is still reserved.
Release(r) ==
  /\ IF IsReserved(r)
     THEN reservation' = [reservation EXCEPT ![r].state = "released"]
     ELSE UNCHANGED reservation
  /\ UNCHANGED <<balance, usage, prices, clock>>

\* Bug: the reconciliation selects by age alone.
AbandonedByAge(r, age) ==
  reservation[r] # NoRow /\ reservation[r].created < clock - age

Abandoned(r, age) == IsReserved(r) /\ reservation[r].created < clock - age

\* reconcile_abandoned(age): every old enough reserved row, in one commit.
Reconcile(age) ==
  /\ reservation' = [r \in ReservationIds |->
        IF Abandoned(r, age)
        THEN [reservation[r] EXCEPT !.state = "released"]
        ELSE reservation[r]]
  /\ UNCHANGED <<balance, usage, clock>>

\* The ledger's part of the lifespan hook: a process starts with the prices
\* of its environment and reconciles with the default age.
Boot == Reconcile(Grace) /\ prices' \in PriceLists

\* The runbook's reconcile_abandoned(0.0), run from a shell of its own.
OperatorReconcile == Reconcile(0) /\ UNCHANGED prices

Tick ==
  /\ clock < MaxClock
  /\ clock' = clock + 1
  /\ UNCHANGED <<balance, reservation, usage, prices>>

-----------------------------------------------------------------------------
LedgerInit ==
  /\ balance = [o \in Owners |-> InitialCredits]
  /\ reservation = [r \in ReservationIds |-> NoRow]
  /\ usage = << >>
  /\ prices \in PriceLists
  /\ clock = 0

LedgerNext ==
  \/ \E o \in Owners, c \in Components, r \in ReservationIds : Reserve(o, c, r)
  \/ \E r \in ReservationIds : Capture(r)
  \/ \E r \in ReservationIds : Release(r)
  \/ Boot
  \/ OperatorReconcile
  \/ Tick

LedgerSpec == LedgerInit /\ [][LedgerNext]_ledgerVars

-----------------------------------------------------------------------------
(* Properties.                                                              *)

\* Type invariant of the ledger's tables.
LedgerTypeOK ==
  /\ balance \in [Owners -> Int]
  /\ reservation \in [ReservationIds -> Row \cup {NoRow}]
  /\ usage \in Seq(UsageEvent)
  /\ prices \in [Components -> Nat]
  /\ clock \in Nat

\* No owner is ever promised more than it has: the outstanding reservations
\* of reserve() always fit in the balance capture() will draw on, whatever
\* the order of reserves, captures, releases, reconciliations and reprices.
Solvent == \A o \in Owners : Reserved(o) <= balance[o]

\* The balance and the usage projection tell the same story: what an owner
\* has lost is exactly what usage_events charges it, although capture()
\* writes them from a row stored under an older price list.
Conserved == \A o \in Owners : balance[o] + Charged(o) = InitialCredits

\* Every charge is backed by exactly one captured reservation, so no
\* reservation is captured twice and none is captured without its event.
ChargesBacked == \A o \in Owners : Charged(o) = Captured(o)

\* A settled reservation is never touched again: no refund of a capture, no
\* capture of what was released, no change of its credits.
SettledForever ==
  [][\A r \in ReservationIds :
       reservation[r].state \in {"captured", "released"}
         => reservation'[r] = reservation[r]]_ledgerVars

\* The ledger implements the account: see CreditAccount.
Account == INSTANCE CreditAccount WITH
  available <- [o \in Owners |-> balance[o] - Reserved(o)],
  held      <- [o \in Owners |-> Reserved(o)],
  spent     <- [o \in Owners |-> Charged(o)]

\* Every transaction of billing.py is a hold, a spend, a return or invisible
\* to the account's owner.
ImplementsAccount == Account!AccountSpec
=============================================================================
