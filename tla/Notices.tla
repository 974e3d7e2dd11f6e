-------------------------------- MODULE Notices --------------------------------
(***************************************************************************)
(* What the plugin tells its operator (turn_taking/notify.py, and the      *)
(* configuration warning of __init__.py): alerts while the service fails,  *)
(* one message when it recovers, and startup notes that wait for the first *)
(* inbound message, for a home channel, and for a send that succeeds.      *)
(***************************************************************************)
EXTENDS Naturals, FiniteSets

CONSTANTS AlertKinds,     \* auth, quota, unreachable, server, ws
          Digests,        \* distinct sets of configuration problems
          MaxStarts       \* bound

VARIABLES
  cooling,    \* kinds in _last_by_kind whose cooldown is not over
  active,     \* _active_kinds
  loopKnown,  \* state.LOOP was captured by an inbound message
  failing,    \* history: kinds of the failures since the last success
  posting,    \* kinds whose alert is scheduled or in _send
  announced,  \* history: kinds a home channel took since the last recovery
  swallowed,  \* history: kinds whose latest alert since then reached nobody
  problems,   \* the digest of this boot's problems, or "none"
  markerFile, \* the digest that .turn_taking_config_warned holds
  pending,    \* _pending: startup notes waiting for an inbound message
  sending,    \* notes in _deliver_startup
  queued,     \* history: notes queued by this process
  reached,    \* history: notes that reached a home channel
  starts

alertVars  == <<cooling, active, failing, posting, announced, swallowed>>
noteVars   == <<problems, markerFile, pending, sending, queued, reached>>
noticeVars == <<alertVars, loopKnown, noteVars, starts>>

NoticesInit ==
  /\ cooling = {} /\ active = {} /\ failing = {}
  /\ posting = {} /\ announced = {} /\ swallowed = {}
  /\ loopKnown = FALSE
  /\ problems = "none" /\ markerFile = "none" /\ starts = 0
  /\ pending = {} /\ sending = {} /\ queued = {} /\ reached = {}

\* A call fails: alert() schedules a post unless the kind is cooling down;
\* without a loop there is none, and the cooldown starts all the same.
Alert(k) ==
  /\ failing' = failing \cup {k}
  /\ IF k \in cooling THEN UNCHANGED <<cooling, active, posting, swallowed>>
     ELSE /\ cooling' = cooling \cup {k} /\ active' = active \cup {k}
          /\ posting' = IF loopKnown THEN posting \cup {k} ELSE posting
          /\ swallowed' = IF loopKnown THEN swallowed \ {k} ELSE swallowed \cup {k}
  /\ UNCHANGED <<announced, loopKnown, noteVars, starts>>

\* _send of an alert: some home channel takes it, or none (no gateway seen, no
\* /sethome, every send failed).  Nobody looks at what it returns.
PostAlert(k) ==
  /\ k \in posting
  /\ posting' = posting \ {k}
  /\ \/ announced' = announced \cup {k} /\ swallowed' = swallowed \ {k}
     \/ swallowed' = swallowed \cup {k} /\ UNCHANGED announced
  /\ UNCHANGED <<cooling, active, failing, loopKnown, noteVars, starts>>

CooldownOver(k) ==
  /\ k \in cooling
  /\ cooling' = cooling \ {k}
  /\ UNCHANGED <<active, failing, posting, announced, swallowed, loopKnown, noteVars, starts>>

\* Bug: a recovery does not end the cooldowns.
CooldownsAfter == cooling

CooldownsAfterRecovery == {}

\* A call succeeds: recovered() says so once, to whom it may reach, and every
\* kind may alert again.  A scheduled alert still goes out.
Recovered ==
  /\ failing' = {}
  /\ IF active = {} THEN UNCHANGED <<cooling, active, announced, swallowed>>
     ELSE /\ active' = {} /\ cooling' = CooldownsAfterRecovery
          /\ announced' = {} /\ swallowed' = {}
  /\ UNCHANGED <<posting, loopKnown, noteVars, starts>>

\* register(): the problems of this boot are queued unless the marker holds
\* the same ones; the same queue takes the messages of /connect and soul.
Start ==
  /\ starts < MaxStarts
  /\ starts' = starts + 1
  /\ cooling' = {} /\ active' = {} /\ failing' = {}
  /\ posting' = {} /\ announced' = {} /\ swallowed' = {}
  /\ loopKnown' = FALSE
  /\ \E d \in Digests \cup {"none"} :
       /\ problems' = d
       /\ pending' = IF d \in {"none", markerFile} THEN {} ELSE {d}
  /\ queued' = pending' /\ sending' = {}
  /\ UNCHANGED <<markerFile, reached>>

QueueMessage ==
  /\ starts > 0
  /\ pending' = pending \cup {"message"} /\ queued' = queued \cup {"message"}
  /\ UNCHANGED <<alertVars, loopKnown, problems, markerFile, sending, reached, starts>>

\* An inbound message: the loop is known, and flush_pending takes the queue.
Flush ==
  /\ starts > 0
  /\ loopKnown' = TRUE
  /\ sending' = sending \cup pending /\ pending' = {}
  /\ UNCHANGED <<alertVars, problems, markerFile, queued, reached, starts>>

Requeued(n) == pending \cup {n}

\* _deliver_startup: some home channel takes the note, and a warning is then
\* recorded (or the marker cannot be written); else it is queued again.
DeliverNote(n) ==
  /\ n \in sending
  /\ sending' = sending \ {n}
  /\ \/ /\ reached' = reached \cup {n}
        /\ markerFile' \in IF n = "message" THEN {markerFile} ELSE {markerFile, n}
        /\ UNCHANGED pending
     \/ /\ pending' = Requeued(n)
        /\ UNCHANGED <<reached, markerFile>>
  /\ UNCHANGED <<alertVars, loopKnown, problems, queued, starts>>

NoticesNext ==
  \/ \E k \in AlertKinds : Alert(k) \/ PostAlert(k) \/ CooldownOver(k)
  \/ Recovered \/ Start \/ QueueMessage \/ Flush
  \/ \E n \in Digests \cup {"message"} : DeliverNote(n)

NoticesSpec == NoticesInit /\ [][NoticesNext]_noticeVars

-----------------------------------------------------------------------------
\* First part: of a failure that lasts, an alert is on its way or was taken by
\* a home channel since the last recovery, whatever cooldowns and other kinds
\* came in between, unless its latest alert reached nobody; that one is not
\* repeated before its cooldown or the outage is over, for the kind is cooling
\* down like any other.
FailureAnnounced == failing \subseteq posting \cup announced \cup swallowed

\* Second part: a startup note is never lost within its process: it waits, is being sent,
\* or has reached a home channel; and problems count as warned about, for
\* the boots to come, only if they did reach one.
NotesKept ==
  /\ queued \subseteq pending \cup sending \cup reached
  /\ markerFile \in reached \cup {"none"}

\* The operator is told: cooldowns swallow no alert (a missing loop or home
\* channel and failed sends do), and nothing swallows a startup note.
OperatorTold == FailureAnnounced /\ NotesKept
=============================================================================
