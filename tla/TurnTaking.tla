----------------------------- MODULE TurnTaking -----------------------------
(***************************************************************************)
(* The commands of routes/turn_taking.py over the credit ledger.           *)
(*                                                                         *)
(* The service is one process with one event loop, and its handlers never  *)
(* await once they hold the thread's lock, so one handler runs at a time.  *)
(* It is still not atomic: it commits several transactions, and between    *)
(* two of them the process may be killed, the next one may raise, time     *)
(* passes, and the operator's reconcile_abandoned(0.0) commits from a      *)
(* process of its own.  Each action below is one transaction of a handler  *)
(* or one step outside it.                                                 *)
(***************************************************************************)
EXTENDS CreditLedger

CONSTANTS
  Threads,      \* thread ids
  Groups,       \* the uuids new_uuid() can hand to reply groups
  MaxEpoch,     \* bound: batches submitted to one thread
  Faults        \* what may go wrong, some of FaultKinds

FaultKinds == {"crash", "operator", "pacing", "database"}

ASSUME TurnAssumption ==
  /\ {"turn-taking", "theoryofmind"} \subseteq Components
  /\ MaxEpoch \in Nat
  /\ Faults \subseteq FaultKinds
  /\ "none" \notin Owners \cup Threads \cup Groups
  /\ ReservationIds \cap Groups = {}

VARIABLES
  thread,     \* rows of `threads`: owner_id and turn_epoch
  reply,      \* per group: its respond RouterTrace and its schedule rows
  outbox,     \* per group: its deliver_reply row
  armed,      \* groups with a task in DeliveryScheduler._tasks
  handler,    \* the handler in progress and the transaction it does next
  process,    \* "up", "down", or "booting" between lifespan's transactions
  crashed,    \* history: reservations held by handlers that were killed
  raised      \* history: what a handler or a delivery task that raised left:
              \* its reservations, and the group scheduled but not armed

tables   == <<thread, reply, outbox>>
history  == <<crashed, raised>>
turnVars == <<tables, armed, handler, process, history>>
vars     == <<ledgerVars, turnVars>>

NoThread == [owner |-> "none", epoch |-> 0]
NoReply  == [owner |-> "none", thread |-> "none", epoch |-> 0,
             status |-> "absent"]

\* A handler at work, and the loop between two handlers.
Handling(step, o, t, e, held) ==
  [step |-> step, owner |-> o, thread |-> t, epoch |-> e, held |-> held,
   group |-> "none"]
Idle == Handling("idle", "none", "none", 0, << >>)

HeldIds(h) == {h.held[i] : i \in DOMAIN h.held}

Serving  == process = "up" /\ handler = Idle
At(step) == process = "up" /\ handler.step = step
Owns(o, t) == thread[t].owner = o

\* What is left to do after a commit: capture what the handler holds, then
\* arm the group it scheduled, if it scheduled one.
Settle(h) ==
  IF h.held # << >> THEN [h EXCEPT !.step = "capture"]
  ELSE IF h.group # "none" THEN [h EXCEPT !.step = "arm"]
  ELSE Idle

-----------------------------------------------------------------------------
\* open_thread: creates the row, or leaves owner and epoch as they are; any
\* other owner is answered 403.
OpenThread(o, t) ==
  /\ Serving
  /\ thread[t] = NoThread
  /\ thread' = [thread EXCEPT ![t].owner = o]
  /\ UNCHANGED <<ledgerVars, reply, outbox, armed, handler, process, history>>

\* submit_messages up to its commit.  skip_decide and media bypass billing;
\* an owner without the credits gets a 402 and nothing has changed.
Submit(o, t) ==
  /\ Serving /\ Owns(o, t)
  /\ thread[t].epoch < MaxEpoch
  /\ \/ /\ handler' = Handling("batch", o, t, thread[t].epoch, << >>)
        /\ UNCHANGED ledgerVars
     \/ \E r \in ReservationIds :
          /\ Reserve(o, "turn-taking", r)
          /\ handler' = Handling("batch", o, t, thread[t].epoch, <<r>>)
  /\ UNCHANGED <<tables, armed, process, history>>

\* The commit of submit_messages: one batch under the next epoch.
CommitBatch ==
  /\ At("batch")
  /\ thread' = [thread EXCEPT ![handler.thread].epoch = handler.epoch + 1]
  /\ handler' = Settle(handler)
  /\ UNCHANGED <<ledgerVars, reply, outbox, armed, process, history>>

\* Bug: respond does not compare turn_epoch with the thread's.
RespondStale(o, t, e) ==
  /\ Serving /\ Owns(o, t)
  /\ \E r \in ReservationIds :
       /\ Reserve(o, "turn-taking", r)
       /\ handler' = Handling("second", o, t, e, <<r>>)
  /\ UNCHANGED <<tables, armed, process, history>>

\* respond for turn_epoch e, up to its first reservation.  A stale epoch is
\* answered superseded, missing credits 402, both with nothing changed.
Respond(o, t, e) ==
  /\ Serving /\ Owns(o, t)
  /\ e = thread[t].epoch
  /\ \E r \in ReservationIds :
       /\ Reserve(o, "turn-taking", r)
       /\ handler' = Handling("second", o, t, e, <<r>>)
  /\ UNCHANGED <<tables, armed, process, history>>

\* Bug: respond captures before the reply is committed.
ReserveSecondAndCharge ==
  /\ At("second")
  /\ \E r \in ReservationIds :
       /\ Reserve(handler.owner, "theoryofmind", r)
       /\ handler' = [handler EXCEPT !.step = "capture", !.held = Append(@, r)]
  /\ UNCHANGED <<tables, armed, process, history>>

\* Its second reservation.
ReserveSecond ==
  /\ At("second")
  /\ \E r \in ReservationIds :
       /\ Reserve(handler.owner, "theoryofmind", r)
       /\ handler' = [handler EXCEPT !.step = "reply", !.held = Append(@, r)]
  /\ UNCHANGED <<tables, armed, process, history>>

\* Bug: the first reservation is not released when the second is refused.
RefuseSecondAndKeep ==
  /\ At("second")
  /\ ~ CanReserve(handler.owner, "theoryofmind")
  /\ handler' = Idle
  /\ UNCHANGED <<ledgerVars, tables, armed, process, history>>

\* InsufficientCredits on the second one: release the first, answer 402.
RefuseSecond ==
  /\ At("second")
  /\ ~ CanReserve(handler.owner, "theoryofmind")
  /\ Release(handler.held[1])
  /\ handler' = Idle
  /\ UNCHANGED <<tables, armed, process, history>>

\* The commit of respond: the trace under the epoch read on entry, one
\* schedule row per bubble and, unless the draft had no bubbles at all, the
\* outbox row that announces them.
CommitReply(g) ==
  /\ At("reply")
  /\ reply[g] = NoReply
  /\ \E status \in {"scheduled", "empty"} :
       LET scheduled == status = "scheduled" IN
       /\ reply' = [reply EXCEPT ![g] =
             [owner |-> handler.owner, thread |-> handler.thread,
              epoch |-> handler.epoch, status |-> status]]
       /\ outbox' = [outbox EXCEPT ![g] = IF scheduled THEN "pending" ELSE @]
       /\ handler' = Settle([handler EXCEPT
                              !.group = IF scheduled THEN g ELSE @])
  /\ UNCHANGED <<ledgerVars, thread, armed, process, history>>

\* billing.capture of the next reservation held.
CaptureNext ==
  /\ At("capture")
  /\ Capture(Head(handler.held))
  /\ handler' = Settle([handler EXCEPT !.held = Tail(@)])
  /\ UNCHANGED <<tables, armed, process, history>>

\* scheduler.schedule_group: the delivery task exists from here on.
Arm ==
  /\ At("arm")
  /\ armed' = armed \cup {handler.group}
  /\ handler' = [handler EXCEPT !.step = "publish"]
  /\ UNCHANGED <<ledgerVars, tables, process, history>>

\* The last transaction of respond, and its answer.
Publish ==
  /\ At("publish")
  /\ outbox' = [outbox EXCEPT ![handler.group] = "processed"]
  /\ handler' = Idle
  /\ UNCHANGED <<ledgerVars, thread, reply, armed, process, history>>

-----------------------------------------------------------------------------
\* A delivery task runs to its end (Delivery has its steps) ...
Deliver(g) ==
  /\ Serving
  /\ g \in armed
  /\ reply' = [reply EXCEPT ![g].status = "delivered"]
  /\ armed' = armed \ {g}
  /\ UNCHANGED <<ledgerVars, thread, outbox, handler, process, history>>

\* ... or the transaction that marks a row delivered raises: the task dies of
\* it, nobody awaits it, and its group has rows left and nobody to send them.
DeliveryDies(g) ==
  /\ "database" \in Faults
  /\ Serving
  /\ g \in armed
  /\ armed' = armed \ {g}
  /\ raised' = raised \cup {g}
  /\ UNCHANGED <<ledgerVars, tables, handler, process, crashed>>

\* The next transaction raises: deliver_times divides by typing_wpm = 0, or
\* the database refuses the commit.  session() rolls it back, the client
\* gets a 500, and whatever the handler had reserved stays reserved.
Raise ==
  /\ process = "up"
  /\ \/ "pacing" \in Faults /\ handler.step = "reply"
     \/ "database" \in Faults /\ handler.step \notin {"idle", "arm"}
  /\ raised' = raised \cup HeldIds(handler) \cup ({handler.group} \ {"none"})
  /\ handler' = Idle
  /\ UNCHANGED <<ledgerVars, tables, armed, process, crashed>>

\* The process is killed: tasks and the running handler are gone.
Crash ==
  /\ "crash" \in Faults
  /\ process # "down"
  /\ process' = "down"
  /\ armed' = {}
  /\ handler' = Idle
  /\ crashed' = crashed \cup HeldIds(handler)
  /\ UNCHANGED <<ledgerVars, tables, raised>>

\* Bug: seed_keys writes every owner's initial balance at every boot.
RestartReseeds ==
  /\ process = "down"
  /\ balance' = [o \in Owners |-> InitialCredits]
  /\ process' = "booting"
  /\ UNCHANGED <<reservation, usage, prices, clock, tables, armed, handler,
                 history>>

\* lifespan: reconcile_abandoned() ...
Restart ==
  /\ process = "down"
  /\ Boot
  /\ process' = "booting"
  /\ UNCHANGED <<tables, armed, handler, history>>

\* Bug: recover takes the groups to arm from the outbox.
RecoverFromOutbox ==
  /\ process = "booting"
  /\ armed' = {g \in Groups : outbox[g] = "pending"}
  /\ outbox' = [g \in Groups |->
                  IF outbox[g] = "pending" THEN "processed" ELSE outbox[g]]
  /\ process' = "up"
  /\ raised' = raised \ Groups
  /\ UNCHANGED <<ledgerVars, thread, reply, handler, crashed>>

\* ... then scheduler.recover(): arm every group with undelivered rows, and
\* mark every outbox row processed.
Recover ==
  /\ process = "booting"
  /\ armed' = {g \in Groups : reply[g].status = "scheduled"}
  /\ outbox' = [g \in Groups |->
                  IF outbox[g] = "pending" THEN "processed" ELSE outbox[g]]
  /\ process' = "up"
  /\ raised' = raised \ Groups
  /\ UNCHANGED <<ledgerVars, thread, reply, handler, crashed>>

\* The runbook's command, at any moment of the service.
Operator ==
  /\ "operator" \in Faults
  /\ OperatorReconcile
  /\ UNCHANGED turnVars

Time == Tick /\ UNCHANGED turnVars

-----------------------------------------------------------------------------
Init ==
  /\ LedgerInit
  /\ thread = [t \in Threads |-> NoThread]
  /\ reply = [g \in Groups |-> NoReply]
  /\ outbox = [g \in Groups |-> "none"]
  /\ armed = {}
  /\ handler = Idle
  /\ process = "up"
  /\ crashed = {} /\ raised = {}

HandlerStep ==
  \/ CommitBatch \/ ReserveSecond \/ RefuseSecond
  \/ \E g \in Groups : CommitReply(g)
  \/ CaptureNext \/ Arm \/ Publish

Next ==
  \/ \E o \in Owners, t \in Threads :
        OpenThread(o, t) \/ Submit(o, t)
          \/ \E e \in 0 .. MaxEpoch : Respond(o, t, e)
  \/ HandlerStep
  \/ \E g \in Groups : Deliver(g) \/ DeliveryDies(g)
  \/ Raise \/ Crash \/ Restart \/ Recover \/ Operator \/ Time

Spec == Init /\ [][Next]_vars

-----------------------------------------------------------------------------
(* Properties.                                                              *)

\* Type invariant of the tables and of the handler that runs over them.
TurnTypeOK ==
  /\ LedgerTypeOK
  /\ thread \in [Threads -> [owner : Owners \cup {"none"}, epoch : 0 .. MaxEpoch]]
  /\ reply \in [Groups -> [owner  : Owners \cup {"none"},
                           thread : Threads \cup {"none"},
                           epoch  : 0 .. MaxEpoch,
                           status : {"absent", "empty", "scheduled", "delivered"}]]
  /\ outbox \in [Groups -> {"none", "pending", "processed"}]
  /\ armed \subseteq Groups
  /\ handler \in [step   : {"idle", "batch", "second", "reply", "capture", "arm",
                            "publish"},
                  owner  : Owners \cup {"none"},
                  thread : Threads \cup {"none"},
                  epoch  : 0 .. MaxEpoch,
                  held   : Seq(ReservationIds),
                  group  : Groups \cup {"none"}]
  /\ process \in {"up", "down", "booting"}
  /\ crashed \subseteq ReservationIds
  /\ raised \subseteq ReservationIds \cup Groups

\* A handler that answers leaves none of its reservations open: what is
\* still reserved belongs to the handler at work, or to one that was killed
\* or raised.  It spans every path of submit_messages and respond: the 402
\* after the first of two reservations, the short circuit, the empty reply.
AnsweredMeansSettled ==
  \A r \in ReservationIds :
    IsReserved(r) => r \in HeldIds(handler) \cup crashed \cup raised

\* No reply is forgotten but by an exception: while the service is up, a
\* committed reply that is not delivered has its task, or the handler that
\* committed it is about to arm it, or an exception since the last boot took
\* that handler or that task (such a reply waits for the next restart: nothing
\* re-arms it while the service runs).  Crashes anywhere in between are
\* covered, because recover() reads the schedule rows themselves.
NoForgottenReply ==
  process = "up" =>
    \A g \in Groups :
      reply[g].status = "scheduled" => g \in armed \cup raised \cup {handler.group}

Batches(o) ==
  UNION { {t} \X (1 .. thread[t].epoch) : t \in {u \in Threads : Owns(o, u)} }
Replies(o) == {g \in Groups : reply[g].owner = o}
Bought(o, c) ==
  {r \in RowsOf(reservation, o, "captured") : reservation[r].component = c}

\* Every captured reservation paid for work that was committed: crashes,
\* refusals and rollbacks never charge for a reply or a batch that does not
\* exist.  (The converse fails by design: a crash before the capture, or the
\* operator's reconciliation during the handler, gives work away.)
ChargesEarned ==
  \A o \in Owners :
    /\ Cardinality(Bought(o, "theoryofmind")) <= Cardinality(Replies(o))
    /\ Cardinality(Bought(o, "turn-taking"))
         <= Cardinality(Replies(o)) + Cardinality(Batches(o))

\* A reply is only ever written for the newest batch: the epoch respond read
\* and checked on entry is still the thread's, several transactions later,
\* when its rows commit.
RepliesAreFresh ==
  [][\A g \in Groups :
       reply[g] = NoReply /\ reply'[g] # NoReply
         => reply'[g].epoch = thread[reply'[g].thread].epoch]_vars

\* Every step of the service is a transaction of the ledger or leaves it
\* alone, so what is proved of the ledger holds of the service.
ImplementsLedger == LedgerSpec
=============================================================================
