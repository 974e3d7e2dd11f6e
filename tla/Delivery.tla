------------------------------ MODULE Delivery ------------------------------
(***************************************************************************)
(* Realtime delivery: the scheduler's task per reply group (scheduler.py), *)
(* the channel registry (fanout.py) and the socket handler (routes/ws.py), *)
(* all on one event loop.                                                  *)
(*                                                                         *)
(* An action is what the loop runs between two suspensions.  A broadcast   *)
(* suspends at every send, so registrations, disconnects, other groups'    *)
(* frames and a crash fall between the sends of one frame.  Sleeping until *)
(* deliver_at is the time a task may spend before its next broadcast.      *)
(***************************************************************************)
EXTENDS Integers, Sequences, FiniteSets

CONSTANTS
  Groups,        \* reply groups respond() may schedule
  Sockets,       \* connections; a client that reconnects is another one
  ChannelOf,     \* the channel of each group's thread and each socket's grant
  MaxBubbles,    \* naturalize() merges down to this many entries
  MaxCrashes,    \* bound on crashes
  MaxActors,     \* bound: groups scheduled and connections accepted, together
  CommitFails    \* whether the transaction marking a row delivered may raise

ASSUME DeliveryAssumption ==
  /\ Groups \cup Sockets \subseteq DOMAIN ChannelOf
  /\ MaxBubbles \in Nat \ {0}
  /\ MaxCrashes \in Nat /\ MaxActors \in Nat
  /\ CommitFails \in BOOLEAN

VARIABLES
  rows,        \* per group: status of its schedule rows, by position
  task,        \* per group: its task in DeliveryScheduler._tasks, if any
  socket,      \* per connection: how far its handler has come
  alive,       \* connections whose client is still there
  registered,  \* sockets in ChannelRegistry._channels
  inbox,       \* per connection: the frames its client has received
  up,          \* whether the process runs
  crashes,     \* number of crashes so far
  sent,        \* history: how often each bubble was broadcast
  tail         \* history: bubbles undelivered at a crash that cut off a client

vars == <<rows, task, socket, alive, registered, inbox, up, crashes, sent,
          tail>>

Attached == [kind |-> "attached"]
Typing(g, on) == [kind |-> "typing", group |-> g, on |-> on]
Message(g, p) == [kind |-> "message", group |-> g, position |-> p]

\* The frames of a task that was given these positions.
Frames(g, positions) ==
  <<Typing(g, TRUE)>>
    \o [i \in DOMAIN positions |-> Message(g, positions[i])]
    \o <<Typing(g, FALSE)>>

\* The positions from k to n, in order.
FromTo(k, n) == [i \in 1 .. n - k + 1 |-> k + i - 1]

NoTask == [todo |-> << >>]
Start(frames) == [todo |-> frames, sending |-> FALSE, to |-> {}]

Running(g) == task[g] # NoTask
Frame(g) == Head(task[g].todo)

\* Bug: the task ends with its last bubble, typing is left on.
AdvanceDropsLast(g) ==
  IF Len(task[g].todo) = 2 THEN NoTask ELSE Start(Tail(task[g].todo))

\* The task's next frame; a task with none left has ended.
Advance(g) ==
  IF Len(task[g].todo) = 1 THEN NoTask ELSE Start(Tail(task[g].todo))

Undelivered(g) == {p \in DOMAIN rows[g] : rows[g][p] = "scheduled"}

\* Bug: a group with undelivered rows is recovered as a whole.
ToRecoverWhole(g) ==
  IF Undelivered(g) = {} THEN << >> ELSE FromTo(1, Len(rows[g]))

\* The order a task sends in, whatever order its entries came in.
Sorted(positions) ==
  [i \in 1 .. Cardinality(positions) |->
     CHOOSE p \in positions :
       Cardinality({q \in positions : q < p}) = i - 1]

\* recover()'s query, and the order its task will send the rows in.
ToRecover(g) == Sorted(Undelivered(g))

WithinBound ==
  Cardinality({g \in Groups : rows[g] # << >>})
    + Cardinality({s \in Sockets : socket[s] # "new"}) < MaxActors

-----------------------------------------------------------------------------
(* scheduler.py                                                             *)

\* respond() schedules n bubbles and arms them (TurnTaking has the steps).
ScheduleGroup(g, n) ==
  /\ up
  /\ rows[g] = << >> /\ WithinBound
  /\ rows' = [rows EXCEPT ![g] = [p \in 1 .. n |-> "scheduled"]]
  /\ task' = [task EXCEPT ![g] = Start(Frames(g, FromTo(1, n)))]
  /\ sent' = [sent EXCEPT ![g] = [p \in 1 .. n |-> 0]]
  /\ UNCHANGED <<socket, alive, registered, inbox, up, crashes, tail>>

\* Bug: the frame goes to the sockets of every channel.
BroadcastEverywhere(g) ==
  /\ Running(g) /\ ~ task[g].sending
  /\ task' = [task EXCEPT ![g].sending = TRUE, ![g].to = registered]
  /\ sent' = IF Frame(g).kind = "message"
             THEN [sent EXCEPT ![g][Frame(g).position] = @ + 1] ELSE sent
  /\ UNCHANGED <<rows, socket, alive, registered, inbox, up, crashes, tail>>

\* registry.broadcast: the sockets a frame goes to are those registered now.
Broadcast(g) ==
  /\ Running(g) /\ ~ task[g].sending
  /\ task' = [task EXCEPT ![g].sending = TRUE,
                          ![g].to = {s \in registered : ChannelOf[s] = ChannelOf[g]}]
  /\ sent' = IF Frame(g).kind = "message"
             THEN [sent EXCEPT ![g][Frame(g).position] = @ + 1] ELSE sent
  /\ UNCHANGED <<rows, socket, alive, registered, inbox, up, crashes, tail>>

\* Bug: the exception of a dead socket ends the whole broadcast.
SendToUntilDead(g, s) ==
  /\ Running(g) /\ task[g].sending
  /\ s \in task[g].to
  /\ IF s \in alive
     THEN /\ inbox' = [inbox EXCEPT ![s] = Append(@, Frame(g))]
          /\ task' = [task EXCEPT ![g].to = @ \ {s}]
          /\ UNCHANGED registered
     ELSE /\ registered' = registered \ {s}
          /\ task' = [task EXCEPT ![g].to = {}]
          /\ UNCHANGED inbox
  /\ UNCHANGED <<rows, socket, alive, up, crashes, sent, tail>>

\* One send_text of a broadcast; a dead socket is unregistered quietly.
SendTo(g, s) ==
  /\ Running(g) /\ task[g].sending
  /\ s \in task[g].to
  /\ task' = [task EXCEPT ![g].to = @ \ {s}]
  /\ IF s \in alive
     THEN /\ inbox' = [inbox EXCEPT ![s] = Append(@, Frame(g))]
          /\ UNCHANGED registered
     ELSE /\ registered' = registered \ {s}
          /\ UNCHANGED inbox
  /\ UNCHANGED <<rows, socket, alive, up, crashes, sent, tail>>

\* Bug: the update names the reply group, all its rows then read delivered.
FrameDoneForGroup(g) ==
  /\ Running(g) /\ task[g].sending /\ task[g].to = {}
  /\ rows' = IF Frame(g).kind = "message"
             THEN [rows EXCEPT ![g] = [p \in DOMAIN @ |-> "delivered"]] ELSE rows
  /\ task' = [task EXCEPT ![g] = Advance(g)]
  /\ UNCHANGED <<socket, alive, registered, inbox, up, crashes, sent, tail>>

\* The frame went out; a message's row is marked delivered.
FrameDone(g) ==
  /\ Running(g) /\ task[g].sending /\ task[g].to = {}
  /\ rows' = IF Frame(g).kind = "message"
             THEN [rows EXCEPT ![g][Frame(g).position] = "delivered"] ELSE rows
  /\ task' = [task EXCEPT ![g] = Advance(g)]
  /\ UNCHANGED <<socket, alive, registered, inbox, up, crashes, sent, tail>>

\* That transaction raises: the task dies of it, nobody awaits the task.
CommitRaises(g) ==
  /\ CommitFails
  /\ Running(g) /\ task[g].sending /\ task[g].to = {}
  /\ Frame(g).kind = "message"
  /\ task' = [task EXCEPT ![g] = NoTask]
  /\ UNCHANGED <<rows, socket, alive, registered, inbox, up, crashes, sent, tail>>

-----------------------------------------------------------------------------
(* routes/ws.py                                                             *)

\* The upgrade completes whatever the grant.
Accept(s) ==
  /\ up /\ socket[s] = "new" /\ WithinBound
  /\ socket' = [socket EXCEPT ![s] = "accepted"]
  /\ alive' = alive \cup {s}
  /\ UNCHANGED <<rows, task, registered, inbox, up, crashes, sent, tail>>

\* A valid grant: register and send the attached frame, without suspending
\* in between because the registry's lock is never held across an await.
Attach(s) ==
  /\ socket[s] = "accepted"
  /\ socket' = [socket EXCEPT ![s] = "open"]
  /\ registered' = registered \cup {s}
  /\ inbox' = IF s \in alive THEN [inbox EXCEPT ![s] = Append(@, Attached)]
                             ELSE inbox
  /\ UNCHANGED <<rows, task, alive, up, crashes, sent, tail>>

\* An expired or garbage grant: close with 4000.
Reject(s) ==
  /\ socket[s] = "accepted"
  /\ socket' = [socket EXCEPT ![s] = "closed"]
  /\ alive' = alive \ {s}
  /\ UNCHANGED <<rows, task, registered, inbox, up, crashes, sent, tail>>

\* The client goes away ...
Hangup(s) ==
  /\ s \in alive
  /\ alive' = alive \ {s}
  /\ UNCHANGED <<rows, task, socket, registered, inbox, up, crashes, sent, tail>>

\* ... and its handler finds out.
Detach(s) ==
  /\ socket[s] = "open" /\ s \notin alive
  /\ socket' = [socket EXCEPT ![s] = "closed"]
  /\ registered' = registered \ {s}
  /\ UNCHANGED <<rows, task, alive, inbox, up, crashes, sent, tail>>

-----------------------------------------------------------------------------
\* The process is killed: tasks, registry and connections are gone.
Crash ==
  /\ up /\ crashes < MaxCrashes
  /\ up' = FALSE
  /\ crashes' = crashes + 1
  /\ task' = [g \in Groups |-> NoTask]
  /\ socket' = [s \in Sockets |->
                  IF socket[s] = "new" THEN "new" ELSE "closed"]
  /\ alive' = {} /\ registered' = {}
  /\ tail' = tail \cup
       UNION { {g} \X Undelivered(g) :
               g \in {h \in Groups : \E s \in registered \cap alive :
                                       ChannelOf[s] = ChannelOf[h]} }
  /\ UNCHANGED <<rows, inbox, sent>>

\* Bug: a group with a delivered bubble is taken for finished.
RecoverUntouched ==
  /\ ~ up
  /\ up' = TRUE
  /\ task' = [g \in Groups |->
                IF Len(ToRecover(g)) < Len(rows[g]) \/ rows[g] = << >>
                THEN NoTask ELSE Start(Frames(g, ToRecover(g)))]
  /\ UNCHANGED <<rows, socket, alive, registered, inbox, crashes, sent, tail>>

\* recover(): a task for every group with scheduled rows, for these rows.
Recover ==
  /\ ~ up
  /\ up' = TRUE
  /\ task' = [g \in Groups |->
                IF ToRecover(g) = << >> THEN NoTask
                                        ELSE Start(Frames(g, ToRecover(g)))]
  /\ UNCHANGED <<rows, socket, alive, registered, inbox, crashes, sent, tail>>

-----------------------------------------------------------------------------
Init ==
  /\ rows = [g \in Groups |-> << >>]
  /\ task = [g \in Groups |-> NoTask]
  /\ socket = [s \in Sockets |-> "new"]
  /\ alive = {} /\ registered = {}
  /\ inbox = [s \in Sockets |-> << >>]
  /\ up = TRUE
  /\ crashes = 0
  /\ sent = [g \in Groups |-> << >>]
  /\ tail = {}

TaskStep(g) ==
  Broadcast(g) \/ (\E s \in Sockets : SendTo(g, s)) \/ FrameDone(g)

Next ==
  \/ \E g \in Groups :
        \/ \E n \in 1 .. MaxBubbles : ScheduleGroup(g, n)
        \/ TaskStep(g) \/ CommitRaises(g)
  \/ \E s \in Sockets :
        Accept(s) \/ Attach(s) \/ Reject(s) \/ Hangup(s) \/ Detach(s)
  \/ Crash \/ Recover

Spec == Init /\ [][Next]_vars

\* The event loop runs every task that is ready, every sleep ends, every
\* send returns or raises, and a supervisor restarts a dead process.
Fairness ==
  /\ \A g \in Groups : WF_vars(TaskStep(g))
  /\ \A s \in Sockets : WF_vars(Detach(s))
  /\ WF_vars(Recover)

FairSpec == Spec /\ Fairness

-----------------------------------------------------------------------------
(* Properties.                                                              *)

\* The frames of one group among these, in their order.
OfGroup(frames, g) ==
  LET taken[n \in 0 .. Len(frames)] ==
        IF n = 0 THEN << >>
        ELSE IF frames[n].kind # "attached" /\ frames[n].group = g
             THEN Append(taken[n - 1], frames[n]) ELSE taken[n - 1]
  IN taken[Len(frames)]

\* What a client sees of one group.
View(s, g) == OfGroup(inbox[s], g)

Segment(part, whole) ==
  \E i, j \in 0 .. Len(whole) : part = SubSeq(whole, i + 1, j)

\* The first frame a client sees is the attached frame, and it sees it once,
\* although its socket is already registered when that frame is sent.  Of each
\* group it then sees an uninterrupted piece of one run of the sequence:
\* typing, the bubbles in order, typing over; nothing skipped, repeated or
\* reordered, whenever it attached, whoever else came and went meanwhile.
\* Groups of other channels it does not see at all.
ViewsAreSegments ==
  \A s \in Sockets :
    /\ \A i \in DOMAIN inbox[s] : inbox[s][i] = Attached <=> i = 1
    /\ \A g \in Groups :
         IF ChannelOf[s] = ChannelOf[g] /\ rows[g] # << >>
         THEN \E k \in 1 .. Len(rows[g]) :
                Segment(View(s, g), Frames(g, FromTo(k, Len(rows[g]))))
         ELSE View(s, g) = << >>

\* A socket that was there before the group and still is has missed nothing
\* of what the task has sent, be it recovered or not: together with
\* ViewsAreSegments, this is the N+3 sequence of spec/03 for each reply.
NothingMissed ==
  \A s \in Sockets, g \in Groups :
    /\ s \in alive /\ socket[s] = "open" /\ View(s, g) # << >>
    /\ Running(g) /\ ~ task[g].sending
    /\ Head(View(s, g)) = Typing(g, TRUE)
    => View(s, g) \o task[g].todo \in
         {Frames(g, FromTo(k, Len(rows[g]))) : k \in DOMAIN rows[g]}

\* What the rows say of a delivery, across crashes too: no delivered row comes
\* after one still scheduled, a row says delivered only after its bubble was
\* broadcast, and a bubble is broadcast again only after a crash.
RowsTellDelivery ==
  \A g \in Groups : \A p \in DOMAIN rows[g] :
    /\ rows[g][p] = "delivered" =>
         sent[g][p] >= 1 /\ \A q \in 1 .. p - 1 : rows[g][q] = "delivered"
    /\ sent[g][p] <= 1 + crashes

\* Once a row says delivered its bubble is never broadcast again, restarts
\* included.
DeliveredOnce ==
  [][\A g \in Groups : \A p \in DOMAIN rows[g] :
       rows[g][p] = "delivered" => sent'[g][p] = sent[g][p]]_vars

\* Every scheduled bubble is eventually marked delivered, crashes or not.
EventuallyDelivered ==
  \A g \in Groups : rows[g] # << >> ~> Undelivered(g) = {}

TypingShown(s, g) == View(s, g) # << >> /\ View(s, g)[Len(View(s, g))] # Typing(g, FALSE)

\* A client that saw a reply start sees its typing indicator cleared, unless
\* it is gone.
TypingClears ==
  \A s \in Sockets, g \in Groups :
    TypingShown(s, g) ~> ~ TypingShown(s, g) \/ s \notin alive

\* docs/runbooks/rollback.md: a restart replays the undelivered tail rather
\* than losing it.  What a crash left undelivered to an attached client is
\* marked delivered only when some client has received it.
TailReplayed ==
  \A x \in tail :
    rows[x[1]][x[2]] = "delivered"
      => \E s \in Sockets : \E i \in DOMAIN inbox[s] :
           inbox[s][i] = Message(x[1], x[2])
=============================================================================
