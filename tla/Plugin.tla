-------------------------------- MODULE Plugin --------------------------------
(***************************************************************************)
(* The turn-taking half of the Hermes plugin, from an inbound message to   *)
(* the bubbles of its answer.  The gateway's loop runs one coroutine at a  *)
(* time, so an action is what runs between two awaits; the agent's turns   *)
(* run beside it in worker threads.  The gateway itself (one turn at a     *)
(* time per session, a pending slot behind it) and the service (an epoch   *)
(* per thread) are external: they are what this code assumes of them.      *)
(***************************************************************************)
EXTENDS Naturals, FiniteSets, Sequences

CONSTANTS
  Messages,          \* inbound events, identified by their message_id
  Sessions,          \* Hermes sessions
  None,
  SessionOf,         \* message -> session
  ChatOf,            \* session -> the chat it delivers to
  PlatformOf,        \* chat -> the platform whose adapter serves it
  Kind,              \* message -> one of Kinds
  TextOf             \* message -> the text of the answer to a turn anchored at it

Kinds == {"text", "media", "group", "command", "blank"}
Chats == {ChatOf[s] : s \in Sessions}
Texts == {TextOf[m] : m \in Messages}

\* What the patches wrap on each platform's adapter class.
WhatsApp == {"send", "enqueue", "poll"}
Telegram == {"send", "enqueue", "handle", "observe"}
Slack    == {"send", "handle"}
Discord  == {"send", "enqueue", "handle", "typing"}
Surface  == [whatsapp |-> WhatsApp, telegram |-> Telegram,
             slack |-> Slack, discord |-> Discord]
Platforms == {PlatformOf[c] : c \in Chats}

ASSUME PluginAssumption ==
  /\ SessionOf \in [Messages -> Sessions]
  /\ PlatformOf \in [Chats -> DOMAIN Surface]
  /\ Kind \in [Messages -> Kinds]
  /\ None \notin Messages \cup Chats

VARIABLES
  patched,     \* per platform, the entry points wrapped so far
  original,    \* ORIG_SEND and ORIG_HANDLE: what was captured when wrapping
  stage,       \* per message, where its gate coroutine is, then its fate
  verdict,     \* per message, what its gate concluded
  OPEN_LOCK,   \* the message whose coroutine holds the lock, or None
  SESSIONS,    \* session -> thread; a thread is named after its opener
  ROUTES,      \* thread -> chat
  EPOCH_BY_MESSAGE_ID,
  LATEST_EPOCH_BY_CHAT,
  MEMORY_BY_SESSION,   \* the message whose decide recalled it, or None
  PENDING_ANSWERS,     \* chat -> answers awaiting their raw send
  orphaned,    \* anchors whose answer went, or will go, into a set that
               \* PENDING_ANSWERS no longer holds
  gated,       \* history: per session, messages in the order they left the gate
  turn,        \* per session, the turn the agent is running
  slot,        \* per session, the gateway's pending_messages entry
  reply,       \* per anchor, the respond call of its turn
  raw,         \* anchors whose draft went out through the adapter as it is
  answerOf,    \* per message, the anchor of the finished turn that took it
  epochs,      \* service: thread -> the epoch each submit bumps
  given,       \* service: message -> the epoch its submit was given
  claimed,     \* service: thread -> the last epoch a respond claimed
  socket       \* threads whose receive loop is still reading

wiring  == <<patched, original>>
gate    == <<stage, verdict, gated, OPEN_LOCK, SESSIONS, ROUTES>>
stashed == <<EPOCH_BY_MESSAGE_ID, LATEST_EPOCH_BY_CHAT, MEMORY_BY_SESSION>>
agent   == <<turn, slot>>
answers == <<PENDING_ANSWERS, orphaned, reply, raw, answerOf>>
service == <<epochs, given, claimed>>
vars    == <<wiring, gate, stashed, agent, answers, service, socket>>

NoTurn  == [mid |-> None, covers |-> {}, step |-> "idle", recall |-> None]
NoSlot  == [mid |-> None, covers |-> {}]
NoReply == [status |-> "none", epoch |-> 0]

Chat(m)     == ChatOf[SessionOf[m]]
Platform(m) == PlatformOf[Chat(m)]
Thread(m)   == SESSIONS[SessionOf[m]]

-----------------------------------------------------------------------------
(* Wiring                                                                  *)

\* Bug: the _tt_patched marks are not consulted.
CaptureAgain(p, e) ==
  IF e \notin Surface[p] THEN original[p][e]
  ELSE IF e \in patched[p] THEN "wrapper" ELSE "genuine"

\* A class is wrapped once: its _tt_patched mark keeps a second register()
\* from capturing the wrapper as the original.
Capture(p, e) ==
  IF e \in Surface[p] \ patched[p] THEN "genuine" ELSE original[p][e]

\* register() patches the platform whose adapter class it can resolve.  It
\* runs before the adapters connect, once per profile that loads the plugin;
\* without the class it does nothing.
Register(p) ==
  /\ \A m \in Messages : stage[m] = "new"
  /\ patched' = [patched EXCEPT ![p] = Surface[p]]
  /\ original' = [original EXCEPT ![p] = [e \in {"send", "handle"} |-> Capture(p, e)]]
  /\ UNCHANGED <<gate, stashed, agent, answers, service, socket>>

\* The adapter's method that an event reaches first.
Entry(m) ==
  CASE Kind[m] = "group" -> "observe"
    [] Kind[m] = "media" /\ Platform(m) = "whatsapp" -> "poll"
    [] Kind[m] = "media" \/ "enqueue" \notin Surface[Platform(m)] -> "handle"
    [] OTHER -> "enqueue"

\* Where _handle_inbound sends an event it lets through: ORIG_HANDLE if the
\* class has one, else its own handle_message.
Handler(p) ==
  IF original[p]["handle"] # "none" THEN original[p]["handle"]
  ELSE IF "handle" \in patched[p] THEN "wrapper" ELSE "genuine"

-----------------------------------------------------------------------------
(* The gateway, as the plugin sees it (external)                           *)

Turn(m, covers) == [mid |-> m, covers |-> covers, step |-> "prompt", recall |-> None]

\* merge_pending_message_event, wrapped: a text that joins the waiting event
\* gives it its own message_id.  Otherwise the host keeps either event's.
Anchors(s, m) ==
  IF slot[s] = NoSlot \/ Kind[m] \in {"text", "group"} THEN {m} ELSE {m, slot[s].mid}

Merged(s, m, mid) == [mid |-> mid, covers |-> slot[s].covers \cup {m}]

\* An event given to the agent starts a turn, joins the running one, or waits
\* in the pending slot, merged with what waits there.
ToAgent(m) ==
  LET s == SessionOf[m] IN
  \/ /\ turn[s] = NoTurn
     /\ turn' = [turn EXCEPT ![s] = Turn(m, {m})]
     /\ UNCHANGED slot
  \/ /\ turn[s].step \in {"prompt", "draft"}
     /\ turn' = [turn EXCEPT ![s].covers = @ \cup {m}]
     /\ UNCHANGED slot
  \/ /\ turn[s] # NoTurn
     /\ \E mid \in Anchors(s, m) : slot' = [slot EXCEPT ![s] = Merged(s, m, mid)]
     /\ UNCHANGED turn

\* Let through, the event reaches the agent; through a wrapper it would meet
\* the gate again.
Dispatch(m) ==
  IF Handler(Platform(m)) = "genuine"
  THEN stage' = [stage EXCEPT ![m] = "agent"] /\ ToAgent(m)
  ELSE stage' = [stage EXCEPT ![m] = "new"] /\ UNCHANGED agent

Observe(m) == stage' = [stage EXCEPT ![m] = "observed"] /\ UNCHANGED agent

\* Bug: an unmentioned group message fails open, as a direct one does.
SettleOpen(m, v) == IF v = "stay_silent" THEN Observe(m) ELSE Dispatch(m)

\* A direct message is let through unless the service chose silence
\* (fail-open), an unmentioned group message only if it chose to speak
\* (fail-closed).
Settle(m, v) ==
  IF v = "speak" \/ (Kind[m] # "group" /\ v # "stay_silent")
  THEN Dispatch(m) ELSE Observe(m)

\* The end of the gate.
Leave(m, v) ==
  /\ verdict' = [verdict EXCEPT ![m] = v]
  /\ gated' = [gated EXCEPT ![SessionOf[m]] = Append(@, m)]
  /\ Settle(m, v)

-----------------------------------------------------------------------------
(* The gate                                                                *)

\* An event arrives.  Unwrapped entry points, commands and events without
\* content never reach the service; the rest need the session's thread.
Inbound(m) ==
  /\ stage[m] = "new"
  /\ LET bypass == Entry(m) \notin patched[Platform(m)] \/ Kind[m] \in {"command", "blank"}
         step   == IF Thread(m) = None THEN "lock" ELSE "submit"
     IN IF bypass
        THEN Leave(m, "ungated")
        ELSE /\ stage' = [stage EXCEPT ![m] = step]
             /\ UNCHANGED <<verdict, gated, agent>>
  /\ UNCHANGED <<wiring, OPEN_LOCK, SESSIONS, ROUTES, stashed, answers, service, socket>>

\* Bug: the session is not looked up again under the lock.
LockWithoutRecheck(m) ==
  /\ stage[m] = "lock" /\ OPEN_LOCK = None
  /\ OPEN_LOCK' = m
  /\ stage' = [stage EXCEPT ![m] = "opening"]
  /\ UNCHANGED <<wiring, verdict, gated, SESSIONS, ROUTES, stashed, agent, answers, service,
                 socket>>

\* _ensure_thread gets the lock and looks again: another message of the
\* session may have opened the thread while this one waited.
Lock(m) ==
  /\ stage[m] = "lock" /\ OPEN_LOCK = None
  /\ IF Thread(m) # None
     THEN /\ stage' = [stage EXCEPT ![m] = "submit"]
          /\ UNCHANGED OPEN_LOCK
     ELSE /\ stage' = [stage EXCEPT ![m] = "opening"]
          /\ OPEN_LOCK' = m
  /\ UNCHANGED <<wiring, verdict, gated, SESSIONS, ROUTES, stashed, agent, answers, service,
                 socket>>

\* open_thread answers: route, receive loop, session, and the lock is free.
Opened(m) ==
  /\ stage[m] = "opening"
  /\ ROUTES' = [ROUTES EXCEPT ![m] = Chat(m)]
  /\ socket' = socket \cup {m}
  /\ SESSIONS' = [SESSIONS EXCEPT ![SessionOf[m]] = m]
  /\ OPEN_LOCK' = None
  /\ stage' = [stage EXCEPT ![m] = "submit"]
  /\ UNCHANGED <<wiring, verdict, gated, stashed, agent, answers, service>>

\* submit_messages reaches the service, which bumps the thread's epoch.
Submit(m) ==
  /\ stage[m] = "submit"
  /\ stage' = [stage EXCEPT ![m] = "deciding"]
  /\ epochs' = [epochs EXCEPT ![Thread(m)] = @ + 1]
  /\ given' = [given EXCEPT ![m] = epochs[Thread(m)] + 1]
  /\ UNCHANGED <<wiring, verdict, gated, OPEN_LOCK, SESSIONS, ROUTES, stashed, agent,
                 answers, claimed, socket>>

\* What _decide remembers of an answer.
Stash(m, v) ==
  /\ EPOCH_BY_MESSAGE_ID' = IF v = "speak"
                            THEN [EPOCH_BY_MESSAGE_ID EXCEPT ![m] = given[m]]
                            ELSE EPOCH_BY_MESSAGE_ID
  /\ LATEST_EPOCH_BY_CHAT' = [LATEST_EPOCH_BY_CHAT EXCEPT ![Chat(m)] = given[m]]
  /\ MEMORY_BY_SESSION' = [MEMORY_BY_SESSION EXCEPT ![SessionOf[m]] = m]

\* The decision comes back; two submits of a thread may answer in any order.
Decided(m) ==
  /\ stage[m] = "deciding"
  /\ \E v \in {"speak", "stay_silent"} : Stash(m, v) /\ Leave(m, v)
  /\ UNCHANGED <<wiring, OPEN_LOCK, SESSIONS, ROUTES, answers, service, socket>>

\* Bug: a failed decide leaves the session's recall in place.
KeepRecall(m) == MEMORY_BY_SESSION

\* A failed decide forgets the session's recall.
DropRecall(m) == [MEMORY_BY_SESSION EXCEPT ![SessionOf[m]] = None]

\* _post answers None (no URL, no key, unreachable, an HTTP error): the gate
\* is off for this message.
Unavailable(m) ==
  /\ stage[m] \in {"opening", "submit", "deciding"}
  /\ OPEN_LOCK' = IF OPEN_LOCK = m THEN None ELSE OPEN_LOCK
  /\ MEMORY_BY_SESSION' = DropRecall(m)
  /\ Leave(m, "none")
  /\ UNCHANGED <<wiring, SESSIONS, ROUTES, EPOCH_BY_MESSAGE_ID, LATEST_EPOCH_BY_CHAT,
                 answers, service, socket>>

\* The gate raises (an answer that is not JSON): the callers treat it as no
\* decision, and nothing else is undone.  The pops of _decide are skipped: an
\* older recall stays.
GateRaises(m) ==
  /\ stage[m] \in {"opening", "deciding"}
  /\ OPEN_LOCK' = IF OPEN_LOCK = m THEN None ELSE OPEN_LOCK
  /\ Leave(m, "raised")
  /\ UNCHANGED <<wiring, SESSIONS, ROUTES, stashed, answers, service, socket>>

-----------------------------------------------------------------------------
(* The turn                                                                *)

\* pre_llm_call: the recall of the session's latest decide is injected.
Prompt(s) ==
  /\ turn[s].step = "prompt"
  /\ turn' = [turn EXCEPT ![s].step = "draft", ![s].recall = MEMORY_BY_SESSION[s]]
  /\ UNCHANGED <<wiring, gate, stashed, slot, answers, service, socket>>

\* Some session of the chat has an event in the gateway's pending slot.
QueuedFollowUp(c) == \E s \in Sessions : ChatOf[s] = c /\ slot[s] # NoSlot

\* The epoch the respond of a turn bound to epoch e carries.
Stamp(c, e) ==
  IF LATEST_EPOCH_BY_CHAT[c] \notin {0, e} /\ ~QueuedFollowUp(c)
  THEN LATEST_EPOCH_BY_CHAT[c] ELSE e

\* The chat _chat_for_session names: session -> thread -> route.
RouteOf(s) == ROUTES[SESSIONS[s]]

\* transform_llm_output, in the agent's worker thread, up to the setdefault
\* that gets the chat's set of answers: a turn that was told to speak will
\* hand its answer to respond; any other is left alone.
Transform(s) ==
  LET m == turn[s].mid
      e == EPOCH_BY_MESSAGE_ID[m]
  IN
  /\ turn[s].step = "draft"
  /\ EPOCH_BY_MESSAGE_ID' = [EPOCH_BY_MESSAGE_ID EXCEPT ![m] = 0]
  /\ IF e = 0
     THEN /\ turn' = [turn EXCEPT ![s].step = "send"]
          /\ UNCHANGED reply
     ELSE /\ turn' = [turn EXCEPT ![s].step = "mark"]
          /\ reply' = [reply EXCEPT ![m].epoch = Stamp(RouteOf(s), e)]
  /\ UNCHANGED <<wiring, gate, LATEST_EPOCH_BY_CHAT, MEMORY_BY_SESSION, slot,
                 PENDING_ANSWERS, orphaned, raw, answerOf, service, socket>>

\* The thread adds the answer to the set it got, which PENDING_ANSWERS may have
\* dropped since, and hands respond to the loop.
Mark(s) ==
  LET m == turn[s].mid IN
  /\ turn[s].step = "mark"
  /\ turn' = [turn EXCEPT ![s].step = "send"]
  /\ PENDING_ANSWERS' = IF m \in orphaned THEN PENDING_ANSWERS
                        ELSE [PENDING_ANSWERS EXCEPT ![RouteOf(s)] = @ \cup {TextOf[m]}]
  /\ reply' = [reply EXCEPT ![m].status = "task"]
  /\ UNCHANGED <<wiring, gate, stashed, slot, orphaned, raw, answerOf, service, socket>>

\* The patched send drops the answer it finds among the chat's, once.
Suppressed(c, text) == "send" \in patched[PlatformOf[c]] /\ text \in PENDING_ANSWERS[c]

\* Bug: one match clears all that the chat is waiting for.
ForgetChat(c, text) == [PENDING_ANSWERS EXCEPT ![c] = {}]

\* discard, and the pop of the set it leaves empty.
Forget(c, text) == [PENDING_ANSWERS EXCEPT ![c] = @ \ {text}]

\* The pop takes the set from the threads that got it and have not added yet.
\* One that adds between the test for emptiness and the pop fares as one that
\* adds after it: the loop's get, discard, test and pop can be one step.
Orphans(c, text) ==
  IF PENDING_ANSWERS[c] # {text} THEN {}
  ELSE {turn[s].mid : s \in {x \in Sessions : ChatOf[x] = c /\ turn[x].step = "mark"}}

Discard(c, text) ==
  /\ PENDING_ANSWERS' = Forget(c, text)
  /\ orphaned' = orphaned \cup Orphans(c, text)

\* The gateway sends the final answer and takes the next turn from the slot.
SendAnswer(s) ==
  LET m == turn[s].mid
      c == ChatOf[s]
  IN
  /\ turn[s].step = "send"
  /\ IF Suppressed(c, TextOf[m])
     THEN Discard(c, TextOf[m]) /\ UNCHANGED raw
     ELSE raw' = raw \cup {m} /\ UNCHANGED <<PENDING_ANSWERS, orphaned>>
  /\ answerOf' = [x \in Messages |-> IF x \in turn[s].covers THEN m ELSE answerOf[x]]
  /\ turn' = [turn EXCEPT ![s] = IF slot[s] = NoSlot THEN NoTurn
                                 ELSE Turn(slot[s].mid, slot[s].covers)]
  /\ slot' = [slot EXCEPT ![s] = NoSlot]
  /\ UNCHANGED <<wiring, gate, stashed, reply, service, socket>>

-----------------------------------------------------------------------------
(* Answers on their way back                                               *)

\* The service schedules the reply if its epoch is the thread's newest and
\* nobody claimed it; otherwise it is superseded.
Respond(m) ==
  /\ reply[m].status = "task"
  /\ LET t == Thread(m) IN
     IF reply[m].epoch = epochs[t] /\ claimed[t] # epochs[t]
     THEN /\ claimed' = [claimed EXCEPT ![t] = epochs[t]]
          /\ reply' = [reply EXCEPT ![m].status = "scheduled"]
     ELSE /\ reply' = [reply EXCEPT ![m].status = "superseded"]
          /\ UNCHANGED claimed
  /\ UNCHANGED <<wiring, gate, stashed, agent, PENDING_ANSWERS, orphaned, raw, answerOf,
                 epochs, given, socket>>

\* respond answers None.
RespondFails(m) ==
  /\ reply[m].status = "task"
  /\ reply' = [reply EXCEPT ![m].status = "failed"]
  /\ UNCHANGED <<wiring, gate, stashed, agent, PENDING_ANSWERS, orphaned, raw, answerOf,
                 service, socket>>

\* A bubble leaves through ORIG_SEND; only a wrapper captured there could
\* take it for an answer.
Swallowed(m) ==
  original[Platform(m)]["send"] = "wrapper" /\ Suppressed(Chat(m), TextOf[m])

\* _forward: the bubbles of a reply come down the thread's socket.
Forward(m) ==
  /\ reply[m].status = "scheduled"
  /\ Thread(m) \in socket
  /\ IF Swallowed(m)
     THEN /\ reply' = [reply EXCEPT ![m].status = "swallowed"]
          /\ Discard(Chat(m), TextOf[m])
     ELSE /\ reply' = [reply EXCEPT ![m].status = "bubbled"]
          /\ UNCHANGED <<PENDING_ANSWERS, orphaned>>
  /\ UNCHANGED <<wiring, gate, stashed, agent, raw, answerOf, service, socket>>

\* The receive loop ends with its socket; nothing reconnects it.
SocketLost(t) ==
  /\ t \in socket
  /\ socket' = socket \ {t}
  /\ UNCHANGED <<wiring, gate, stashed, agent, answers, service>>

-----------------------------------------------------------------------------
Init ==
  /\ patched = [p \in Platforms |-> {}]
  /\ original = [p \in Platforms |-> [e \in {"send", "handle"} |-> "none"]]
  /\ stage = [m \in Messages |-> "new"]
  /\ verdict = [m \in Messages |-> "pending"]
  /\ gated = [s \in Sessions |-> << >>]
  /\ OPEN_LOCK = None
  /\ SESSIONS = [s \in Sessions |-> None]
  /\ ROUTES = [m \in Messages |-> None]
  /\ EPOCH_BY_MESSAGE_ID = [m \in Messages |-> 0]
  /\ LATEST_EPOCH_BY_CHAT = [c \in Chats |-> 0]
  /\ MEMORY_BY_SESSION = [s \in Sessions |-> None]
  /\ PENDING_ANSWERS = [c \in Chats |-> {}]
  /\ orphaned = {}
  /\ turn = [s \in Sessions |-> NoTurn]
  /\ slot = [s \in Sessions |-> NoSlot]
  /\ reply = [m \in Messages |-> NoReply]
  /\ raw = {}
  /\ answerOf = [m \in Messages |-> None]
  /\ epochs = [m \in Messages |-> 0]
  /\ given = [m \in Messages |-> 0]
  /\ claimed = [m \in Messages |-> 0]
  /\ socket = {}

\* What the event's coroutine does at the gate, the reply's way back, the turn.
Gate(m)   == Lock(m) \/ Opened(m) \/ Submit(m) \/ Decided(m) \/ Unavailable(m) \/ GateRaises(m)
Answer(m) == Respond(m) \/ RespondFails(m) \/ Forward(m)
Work(s)   == Prompt(s) \/ Transform(s) \/ Mark(s) \/ SendAnswer(s)

Next ==
  \/ \E p \in Platforms : Register(p)
  \/ \E m \in Messages : Inbound(m) \/ Gate(m) \/ Answer(m) \/ SocketLost(m)
  \/ \E s \in Sessions : Work(s)

\* Every request ends (httpx gives up after 30 s), the loop runs what it
\* woke, the agent finishes its turns.  Sockets, registrations and arriving
\* messages owe nothing.
Fairness ==
  /\ \A m \in Messages : WF_vars(Gate(m)) /\ WF_vars(Answer(m))
  /\ \A s \in Sessions : WF_vars(Work(s))

Spec == Init /\ [][Next]_vars /\ Fairness

-----------------------------------------------------------------------------
(* Properties                                                              *)

ThreadsOf(s) == {t \in Messages : ROUTES[t] # None /\ SessionOf[t] = s}

\* _ensure_thread opens once however many first messages of a session race:
\* a session never has two routed threads, each with a receive loop, and the
\* one it uses is routed to its own chat.
OneThreadPerSession ==
  \A s \in Sessions :
    /\ ThreadsOf(s) = IF SESSIONS[s] = None THEN {} ELSE {SESSIONS[s]}
    /\ SESSIONS[s] # None => ROUTES[SESSIONS[s]] = ChatOf[s]

\* A finished turn's answer left raw through the adapter or was handed to the
\* service, which may bubble it: never neither, and both (the user reads it
\* twice) exactly if another session of the chat had its own answer suppressed
\* between the setdefault and the add that mark this one.  So it is whatever
\* other sessions of the chat send in between and however often the plugin was
\* registered, as long as no two answers of a chat have the same text.
ExactlyOneWay ==
  \A m \in Messages : m \in {answerOf[x] : x \in Messages} =>
    LET Handed(x) == reply[x].status # "none" IN
    /\ m \in raw \/ Handed(m)
    /\ m \in raw /\ Handed(m) <=> m \in orphaned
    /\ m \in orphaned =>
         \E x \in Messages : Chat(x) = Chat(m) /\ SessionOf[x] # SessionOf[m] /\ Handed(x)

\* The service was not heard on m, and the recall of an earlier decide stayed.
Unheard(m) == verdict[m] \in {"raised", "ungated"}

\* The recall a turn reads is of a decide of its session and never one that a
\* later decide, answered or failed, had superseded when the turn's message
\* left the gate.  It is older than that message's own gate only if this gate
\* raised or never asked, as did all that ended in between: "no stale recall
\* into fail-open replies" holds of a decide that fails, not of one that raises.
FreshRecall ==
  \A s \in Sessions : LET t == turn[s] IN
    t.recall # None =>
      \E i \in DOMAIN gated[s] :
        /\ gated[s][i] = t.recall /\ verdict[t.recall] \in {"speak", "stay_silent"}
        /\ \A k \in DOMAIN gated[s] : gated[s][k] = t.mid =>
             \A j \in i + 1 .. k : Unheard(gated[s][j])

\* The agent only works for messages its gate let through: no group message
\* without an explicit "speak" (a service that is down must not make the bot
\* answer every group message), none the service chose to stay silent on.
OnlyCleared ==
  \A s \in Sessions : \A m \in turn[s].covers \cup slot[s].covers :
    /\ verdict[m] # "stay_silent"
    /\ Kind[m] = "group" => verdict[m] = "speak"

Landed(m) ==
  \/ reply[m].status \in {"none", "superseded", "failed", "bubbled"}
  \/ reply[m].status = "scheduled" /\ Thread(m) \notin socket

\* Once true it stays true, for a message that meets the gate again too.
Arrived(m) == stage[m] # "new" \/ verdict[m] # "pending"

\* Every message that arrives is observed or ends up in a finished turn whose
\* answer went out, was refused by the service, or lost its socket: no message
\* waits for ever for the lock, in the slot, or behind another's gate.
MessagesSettle ==
  \A m \in Messages : []<>(Arrived(m) =>
    stage[m] = "observed" \/ (answerOf[m] # None /\ Landed(answerOf[m])))

\* What LATEST_EPOCH_BY_CHAT is for: a reply carries an epoch that the service
\* gave to a message of the reply's own session.
StampFromOwnThread ==
  \A m \in Messages : reply[m].epoch # 0 =>
    \E x \in Messages : SessionOf[x] = SessionOf[m] /\ given[x] = reply[m].epoch

=============================================================================
