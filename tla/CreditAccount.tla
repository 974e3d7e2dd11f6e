---------------------------- MODULE CreditAccount ----------------------------
(***************************************************************************)
(* What the credit ledger promises each owner, with no table in sight: a   *)
(* fixed grant of credits is split into what is available, what is held    *)
(* for work in progress, and what has been spent.  Credits move available  *)
(* -> held -> spent or back from held to available; they are never created *)
(* or lost, never spent without having been held, never refunded once      *)
(* spent, and no part is ever negative.                                    *)
(***************************************************************************)
EXTENDS Integers

CONSTANTS
  Owners,          \* tenants; every account belongs to exactly one
  InitialCredits   \* the grant an account is opened with

VARIABLES available, held, spent

accountVars == <<available, held, spent>>

AccountInit ==
  /\ available = [o \in Owners |-> InitialCredits]
  /\ held      = [o \in Owners |-> 0]
  /\ spent     = [o \in Owners |-> 0]

\* Set n available credits of o aside for one command.
Hold(o, n) ==
  /\ n <= available[o]
  /\ available' = [available EXCEPT ![o] = @ - n]
  /\ held'      = [held EXCEPT ![o] = @ + n]
  /\ UNCHANGED spent

\* Turn n held credits of o into a charge.
Spend(o, n) ==
  /\ n <= held[o]
  /\ held'  = [held EXCEPT ![o] = @ - n]
  /\ spent' = [spent EXCEPT ![o] = @ + n]
  /\ UNCHANGED available

\* Give held credits back, to any number of owners at once.
Return ==
  \E n \in [Owners -> 0 .. InitialCredits] :
    /\ \A o \in Owners : n[o] <= held[o]
    /\ held'      = [o \in Owners |-> held[o] - n[o]]
    /\ available' = [o \in Owners |-> available[o] + n[o]]
    /\ UNCHANGED spent

AccountNext ==
  \/ \E o \in Owners, n \in 0 .. InitialCredits : Hold(o, n) \/ Spend(o, n)
  \/ Return

AccountSpec == AccountInit /\ [][AccountNext]_accountVars
=============================================================================
