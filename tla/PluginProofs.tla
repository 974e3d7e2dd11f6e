----------------------------- MODULE PluginProofs -----------------------------
(***************************************************************************)
(* What TLAPS proves of Plugin, for any messages, sessions, chats and      *)
(* platforms: however the coroutines of a session interleave it has one    *)
(* thread, the agent works only for messages its gate let through, a turn  *)
(* reads a recall older than its own gate only past gates that raised, and *)
(* a finished turn's answer left raw or through the service, and both only *)
(* in the one race of two sessions of a chat.                              *)
(***************************************************************************)
EXTENDS Plugin, SequenceTheorems, TLAPS

Gating == {"new", "lock", "opening", "submit", "deciding"}
Fates  == {"agent", "observed"}
Verdicts == {"pending", "ungated", "speak", "stay_silent", "none", "raised"}

\* The gate's variables; threads are named after the messages that open them.
GateTypeOK ==
  /\ stage \in [Messages -> Gating \cup Fates]
  /\ verdict \in [Messages -> Verdicts]
  /\ OPEN_LOCK \in Messages \cup {None}
  /\ SESSIONS \in [Sessions -> Messages \cup {None}]
  /\ ROUTES \in [Messages -> Chats \cup {None}]

\* Who is opening holds the lock and its session has no thread: this is what
\* the second look under the lock is for.  A message has a route exactly if
\* it opened the thread of its session.
ThreadsOK ==
  /\ \A m \in Messages :
       /\ stage[m] = "opening" => OPEN_LOCK = m /\ Thread(m) = None
       /\ ROUTES[m] = IF Thread(m) = m THEN Chat(m) ELSE None
  /\ \A s \in Sessions : SESSIONS[s] # None => SessionOf[SESSIONS[s]] = s

TurnType == [mid    : Messages \cup {None},
             covers : SUBSET Messages,
             step   : {"idle", "prompt", "draft", "mark", "send"},
             recall : Messages \cup {None}]
SlotType == [mid : Messages \cup {None}, covers : SUBSET Messages]

Cleared(m) ==
  /\ stage[m] = "agent"
  /\ verdict[m] # "stay_silent"
  /\ Kind[m] = "group" => verdict[m] = "speak"

\* What the agent works for has left the gate, whose verdict on it is final.
AgentOK ==
  /\ turn \in [Sessions -> TurnType]
  /\ slot \in [Sessions -> SlotType]
  /\ MEMORY_BY_SESSION \in [Sessions -> Messages \cup {None}]
  /\ \A s \in Sessions : \A m \in turn[s].covers \cup slot[s].covers : Cleared(m)

PluginInv == GateTypeOK /\ ThreadsOK /\ AgentOK

\* Every message is of a session, and of a chat the gate can tell from no chat.
LEMMA SessionType == \A m \in Messages : SessionOf[m] \in Sessions /\ Chat(m) \in Chats /\ Chat(m) # None
<1>1. \A m \in Messages : SessionOf[m] \in Sessions
  BY PluginAssumption
<1> QED BY <1>1, PluginAssumption DEF Chat, Chats

\* The invariant holds before the first message.
LEMMA PluginInitInv == Init => PluginInv
<1> SUFFICES ASSUME Init PROVE PluginInv
  OBVIOUS
<1>1. GateTypeOK
  BY DEF Init, GateTypeOK, Gating, Fates, Verdicts
<1>2. ThreadsOK
  BY SessionType, PluginAssumption DEF Init, ThreadsOK, Thread
<1>3. AgentOK
  BY DEF Init, AgentOK, NoTurn, NoSlot, TurnType, SlotType
<1> QED BY <1>1, <1>2, <1>3 DEF PluginInv

-----------------------------------------------------------------------------
(* The end of the gate.                                                     *)

\* An event given to the agent joins its session's turn or slot, and no other.
LEMMA ToAgentCovers ==
  ASSUME AgentOK, NEW m \in Messages, ToAgent(m)
  PROVE  /\ turn' \in [Sessions -> TurnType]
         /\ slot' \in [Sessions -> SlotType]
         /\ \A s \in Sessions :
              turn'[s].covers \cup slot'[s].covers
                \subseteq turn[s].covers \cup slot[s].covers \cup {m}
<1> DEFINE s == SessionOf[m]
<1>0. s \in Sessions
  BY SessionType
<1>1. CASE turn' = [turn EXCEPT ![s] = Turn(m, {m})] /\ UNCHANGED slot
  BY <1>0, <1>1 DEF AgentOK, Turn, TurnType
<1>2. CASE turn' = [turn EXCEPT ![s].covers = @ \cup {m}] /\ UNCHANGED slot
  <2>1. turn[s] \in TurnType /\ turn' = [turn EXCEPT ![s] = [turn[s] EXCEPT !.covers = @ \cup {m}]]
    BY <1>0, <1>2 DEF AgentOK
  <2>2. [turn[s] EXCEPT !.covers = @ \cup {m}] \in TurnType
    BY <2>1 DEF TurnType
  <2>3. turn' \in [Sessions -> TurnType]
    BY <1>0, <2>1, <2>2 DEF AgentOK
  <2>4. turn'[s].covers = turn[s].covers \cup {m} /\ \A t \in Sessions \ {s} : turn'[t] = turn[t]
    BY <1>0, <2>1 DEF AgentOK, TurnType
  <2> QED BY <1>2, <2>3, <2>4 DEF AgentOK
<1>3. CASE /\ \E mid \in Anchors(s, m) : slot' = [slot EXCEPT ![s] = Merged(s, m, mid)]
           /\ UNCHANGED turn
  <2>1. PICK mid \in Anchors(s, m) : slot' = [slot EXCEPT ![s] = Merged(s, m, mid)]
    BY <1>3
  <2>2. slot[s] \in SlotType
    BY <1>0 DEF AgentOK
  <2>3. mid \in Messages \cup {None}
    BY <2>1, <2>2 DEF Anchors, SlotType
  <2>4. Merged(s, m, mid) \in SlotType /\ Merged(s, m, mid).covers = slot[s].covers \cup {m}
    BY <2>2, <2>3 DEF Merged, SlotType
  <2> QED BY <1>0, <1>3, <2>1, <2>4 DEF AgentOK
<1> QED BY <1>1, <1>2, <1>3 DEF ToAgent

\* Settle lets a message through only with the verdict the agent needs, and
\* leaves the other messages where they are.
LEMMA SettleOK ==
  ASSUME GateTypeOK, AgentOK, NEW m \in Messages, stage[m] \in Gating,
         NEW v \in Verdicts, verdict' = [verdict EXCEPT ![m] = v], Settle(m, v),
         MEMORY_BY_SESSION' \in [Sessions -> Messages \cup {None}]
  PROVE  /\ AgentOK'
         /\ stage' \in [Messages -> Gating \cup Fates]
         /\ stage'[m] # "opening"
         /\ \A x \in Messages \ {m} : stage'[x] = stage[x]
<1>1. \A s \in Sessions : m \notin turn[s].covers \cup slot[s].covers
  BY DEF AgentOK, Cleared, Gating
<1>2. ASSUME NEW x \in Messages, x # m, Cleared(x), stage'[x] = stage[x] PROVE Cleared(x)'
  BY <1>2 DEF Cleared, GateTypeOK
<1>3. CASE stage' = [stage EXCEPT ![m] = "agent"] /\ ToAgent(m)
           /\ (v = "speak" \/ (Kind[m] # "group" /\ v # "stay_silent"))
  <2>1. \A x \in Messages \ {m} : stage'[x] = stage[x]
    BY <1>3 DEF GateTypeOK
  <2>2. Cleared(m)'
    BY <1>3 DEF Cleared, GateTypeOK
  <2>3. \A s \in Sessions : \A x \in turn'[s].covers \cup slot'[s].covers : Cleared(x)'
    <3> SUFFICES ASSUME NEW s \in Sessions, NEW x \in turn'[s].covers \cup slot'[s].covers
                 PROVE  Cleared(x)'
      OBVIOUS
    <3>1. CASE x = m
      BY <3>1, <2>2
    <3>2. CASE x # m
      <4>1. x \in turn[s].covers \cup slot[s].covers
        BY <1>3, <3>2, ToAgentCovers
      <4>2. x \in Messages /\ Cleared(x)
        BY <4>1 DEF AgentOK, TurnType, SlotType
      <4> QED BY <4>2, <3>2, <2>1, <1>2
    <3> QED BY <3>1, <3>2
  <2>4. AgentOK'
    BY <1>3, <2>3, ToAgentCovers DEF AgentOK
  <2> QED BY <1>3, <2>1, <2>4 DEF GateTypeOK, Gating, Fates
<1>4. ASSUME NEW fate \in {"new", "observed"},
             stage' = [stage EXCEPT ![m] = fate], UNCHANGED agent
      PROVE  /\ AgentOK'
             /\ stage' \in [Messages -> Gating \cup Fates]
             /\ stage'[m] # "opening"
             /\ \A x \in Messages \ {m} : stage'[x] = stage[x]
  <2>1. \A x \in Messages \ {m} : stage'[x] = stage[x]
    BY <1>4 DEF GateTypeOK
  <2>2. \A s \in Sessions : \A x \in turn[s].covers \cup slot[s].covers :
          x \in Messages /\ x # m /\ Cleared(x)
    BY <1>1 DEF AgentOK, TurnType, SlotType
  <2>3. AgentOK'
    BY <1>2, <1>4, <2>1, <2>2 DEF AgentOK, agent
  <2> QED BY <1>4, <2>1, <2>3 DEF GateTypeOK, Gating, Fates
<1> QED BY <1>3, <1>4 DEF Settle, Dispatch, Observe

-----------------------------------------------------------------------------
(* The steps.                                                               *)

\* Steps that move no message through the gate keep all of it.
LEMMA GateKept ==
  ASSUME GateTypeOK, ThreadsOK, UNCHANGED gate
  PROVE  GateTypeOK' /\ ThreadsOK'
BY DEF GateTypeOK, ThreadsOK, Thread, gate

\* A message leaves the gate, or its opening fails: the lock is given up by
\* its holder only.
LEMMA LeaveGate ==
  ASSUME PluginInv, NEW m \in Messages, stage[m] \in Gating,
         NEW v \in Verdicts, verdict' = [verdict EXCEPT ![m] = v], Settle(m, v),
         MEMORY_BY_SESSION' \in [Sessions -> Messages \cup {None}],
         OPEN_LOCK' \in {OPEN_LOCK, IF OPEN_LOCK = m THEN None ELSE OPEN_LOCK},
         UNCHANGED <<SESSIONS, ROUTES>>
  PROVE  PluginInv'
<1> USE DEF PluginInv
<1>1. /\ AgentOK' /\ stage' \in [Messages -> Gating \cup Fates]
      /\ stage'[m] # "opening"
      /\ \A x \in Messages \ {m} : stage'[x] = stage[x]
  BY SettleOK
<1>2. GateTypeOK'
  BY <1>1 DEF GateTypeOK
<1>3. ThreadsOK'
  BY <1>1 DEF ThreadsOK, Thread
<1> QED BY <1>1, <1>2, <1>3

\* The agent's side is left alone while a message moves within the gate.
LEMMA AgentKept ==
  ASSUME GateTypeOK, AgentOK, NEW m \in Messages, stage[m] \in Gating,
         \A x \in Messages \ {m} : stage'[x] = stage[x],
         UNCHANGED <<verdict, agent, MEMORY_BY_SESSION>>
  PROVE  AgentOK'
<1>1. \A s \in Sessions : \A x \in turn[s].covers \cup slot[s].covers :
        x \in Messages /\ x # m /\ Cleared(x)
  BY DEF AgentOK, Cleared, Gating, TurnType, SlotType
<1>2. \A s \in Sessions : \A x \in turn[s].covers \cup slot[s].covers : Cleared(x)'
  BY <1>1 DEF Cleared
<1> QED BY <1>2 DEF AgentOK, agent

\* No step of the gate, the agent, the service or a socket breaks it.
LEMMA PluginStepInv == PluginInv /\ [Next]_vars => PluginInv'
<1> SUFFICES ASSUME PluginInv, [Next]_vars PROVE PluginInv'
  OBVIOUS
<1> USE DEF PluginInv
<1>0. CASE UNCHANGED vars
  <2>1. UNCHANGED gate /\ UNCHANGED <<turn, slot, MEMORY_BY_SESSION>>
    BY <1>0 DEF vars, stashed, agent
  <2> QED BY <2>1, GateKept DEF AgentOK, Cleared, gate
<1>1. ASSUME NEW m \in Messages, Inbound(m) PROVE PluginInv'
  <2>1. MEMORY_BY_SESSION' = MEMORY_BY_SESSION /\ stage[m] \in Gating
    BY <1>1 DEF Inbound, stashed, Gating
  <2>2. CASE Leave(m, "ungated")
    BY <1>1, <2>1, <2>2, LeaveGate DEF Inbound, Leave, Verdicts, AgentOK
  <2>3. ASSUME NEW step \in {"lock", "submit"}, stage' = [stage EXCEPT ![m] = step],
               UNCHANGED <<verdict, agent>>
        PROVE  PluginInv'
    BY <1>1, <2>1, <2>3, AgentKept
       DEF Inbound, GateTypeOK, ThreadsOK, Thread, Gating
  <2> QED BY <1>1, <2>2, <2>3 DEF Inbound
<1>2. ASSUME NEW m \in Messages, Lock(m) PROVE PluginInv'
  <2>1. UNCHANGED <<verdict, agent, MEMORY_BY_SESSION, SESSIONS, ROUTES>> /\ stage[m] \in Gating
    BY <1>2 DEF Lock, stashed, Gating
  <2>2. GateTypeOK' /\ \A x \in Messages \ {m} : stage'[x] = stage[x]
    BY <1>2, <2>1 DEF Lock, GateTypeOK, Gating
  <2>3. AgentOK'
    BY <2>1, <2>2, AgentKept
  <2>4. ASSUME NEW x \in Messages
        PROVE  stage'[x] = "opening" => OPEN_LOCK' = x /\ Thread(x)' = None
    <3>1. CASE x = m
      BY <1>2, <2>1, <3>1 DEF Lock, GateTypeOK, Thread
    <3>2. CASE x # m
      BY <1>2, <2>1, <2>2, <3>2, PluginAssumption DEF Lock, ThreadsOK
    <3> QED BY <3>1, <3>2
  <2>5. ThreadsOK'
    BY <2>1, <2>4 DEF ThreadsOK, Thread
  <2> QED BY <2>2, <2>3, <2>5
<1>3. ASSUME NEW m \in Messages, Opened(m) PROVE PluginInv'
  <2>1. UNCHANGED <<verdict, agent, MEMORY_BY_SESSION>> /\ stage[m] \in Gating
    BY <1>3 DEF Opened, stashed, Gating
  <2>2. GateTypeOK' /\ \A x \in Messages \ {m} : stage'[x] = stage[x]
    BY <1>3, <2>1, SessionType DEF Opened, GateTypeOK, Gating
  <2>3. AgentOK'
    BY <2>1, <2>2, AgentKept
  <2>4. SESSIONS[SessionOf[m]] = None /\ OPEN_LOCK = m
    BY <1>3 DEF Opened, ThreadsOK, Thread
  <2>5. ThreadsOK'
    <3>1. ASSUME NEW x \in Messages
          PROVE  stage'[x] = "opening" => OPEN_LOCK' = x /\ Thread(x)' = None
      BY <1>3, <2>2, <2>4 DEF Opened, ThreadsOK, GateTypeOK
    <3>2. ASSUME NEW x \in Messages
          PROVE  ROUTES'[x] = IF Thread(x)' = x THEN Chat(x) ELSE None
      BY <1>3, <2>4, SessionType, PluginAssumption DEF Opened, ThreadsOK, GateTypeOK, Thread
    <3>3. ASSUME NEW s \in Sessions, SESSIONS'[s] # None PROVE SessionOf[SESSIONS'[s]] = s
      BY <1>3, <3>3, SessionType DEF Opened, ThreadsOK, GateTypeOK
    <3> QED BY <3>1, <3>2, <3>3 DEF ThreadsOK
  <2> QED BY <2>2, <2>3, <2>5
<1>4. ASSUME NEW m \in Messages, Submit(m) PROVE PluginInv'
  <2>1. UNCHANGED <<verdict, agent, MEMORY_BY_SESSION, OPEN_LOCK, SESSIONS, ROUTES>>
        /\ stage[m] \in Gating
    BY <1>4 DEF Submit, stashed, Gating
  <2>2. GateTypeOK' /\ \A x \in Messages \ {m} : stage'[x] = stage[x]
    BY <1>4, <2>1 DEF Submit, GateTypeOK, Gating
  <2>3. AgentOK'
    BY <2>1, <2>2, AgentKept
  <2>4. ThreadsOK'
    BY <1>4, <2>1, <2>2 DEF Submit, ThreadsOK, Thread, GateTypeOK
  <2> QED BY <2>2, <2>3, <2>4
<1>5. ASSUME NEW m \in Messages, Decided(m) PROVE PluginInv'
  <2>1. PICK v \in {"speak", "stay_silent"} :
          verdict' = [verdict EXCEPT ![m] = v] /\ Stash(m, v) /\ Settle(m, v)
    BY <1>5 DEF Decided, Leave
  <2>2. MEMORY_BY_SESSION' \in [Sessions -> Messages \cup {None}]
    BY <2>1, SessionType DEF Stash, AgentOK
  <2> QED BY <1>5, <2>1, <2>2, LeaveGate DEF Decided, Gating, Verdicts
<1>6. ASSUME NEW m \in Messages, Unavailable(m) PROVE PluginInv'
  <2>1. MEMORY_BY_SESSION' \in [Sessions -> Messages \cup {None}]
    BY <1>6, SessionType DEF Unavailable, DropRecall, AgentOK
  <2> QED BY <1>6, <2>1, LeaveGate DEF Unavailable, Leave, Gating, Verdicts
<1>7. ASSUME NEW m \in Messages, GateRaises(m) PROVE PluginInv'
  <2>1. MEMORY_BY_SESSION' \in [Sessions -> Messages \cup {None}]
    BY <1>7 DEF GateRaises, stashed, AgentOK
  <2> QED BY <1>7, <2>1, LeaveGate DEF GateRaises, Leave, Gating, Verdicts
<1>8. ASSUME UNCHANGED <<gate, agent, MEMORY_BY_SESSION>> PROVE PluginInv'
  <2>1. UNCHANGED <<turn, slot, stage, verdict>> /\ UNCHANGED gate
    BY <1>8 DEF agent, gate
  <2> QED BY <1>8, <2>1, GateKept DEF AgentOK, Cleared
<1>9. ASSUME NEW s \in Sessions, Work(s) PROVE PluginInv'
  <2>1. UNCHANGED <<gate, MEMORY_BY_SESSION>> /\ UNCHANGED <<stage, verdict>>
    BY <1>9 DEF Work, Prompt, Transform, Mark, SendAnswer, stashed, gate
  <2>2. GateTypeOK' /\ ThreadsOK'
    BY <2>1, GateKept
  <2>3. /\ turn' \in [Sessions -> TurnType]
        /\ slot' \in [Sessions -> SlotType]
        /\ \A t \in Sessions : turn'[t].covers \cup slot'[t].covers
                                 \subseteq turn[t].covers \cup slot[t].covers
    <3>1. CASE Prompt(s)
      BY <3>1 DEF Prompt, AgentOK, TurnType
    <3>2. CASE Transform(s)
      BY <3>2 DEF Transform, AgentOK, TurnType
    <3>3. CASE Mark(s)
      BY <3>3 DEF Mark, AgentOK, TurnType
    <3>4. CASE SendAnswer(s)
      BY <3>4 DEF SendAnswer, AgentOK, Turn, NoTurn, NoSlot, TurnType, SlotType
    <3> QED BY <1>9, <3>1, <3>2, <3>3, <3>4 DEF Work
  <2>4. \A t \in Sessions : \A x \in turn'[t].covers \cup slot'[t].covers : Cleared(x)'
    BY <2>1, <2>3 DEF AgentOK, Cleared
  <2> QED BY <2>1, <2>2, <2>3, <2>4 DEF AgentOK
<1>10. ASSUME NEW m \in Messages,
              Answer(m) \/ SocketLost(m)
       PROVE  PluginInv'
  BY <1>8, <1>10 DEF Answer, Respond, RespondFails, Forward, SocketLost, stashed
<1>11. ASSUME NEW p \in Platforms, Register(p) PROVE PluginInv'
  BY <1>8, <1>11 DEF Register, stashed
<1> QED BY <1>0, <1>1, <1>2, <1>3, <1>4, <1>5, <1>6, <1>7, <1>9, <1>10, <1>11 DEF Next, Gate

-----------------------------------------------------------------------------
\* For any number of racing first messages a session has one routed thread.
THEOREM SessionHasOneThread == Spec => []OneThreadPerSession
<1>1. PluginInv => OneThreadPerSession
  <2> SUFFICES ASSUME PluginInv, NEW s \in Sessions
               PROVE  /\ ThreadsOf(s) = IF SESSIONS[s] = None THEN {} ELSE {SESSIONS[s]}
                      /\ SESSIONS[s] # None => ROUTES[SESSIONS[s]] = ChatOf[s]
    BY DEF OneThreadPerSession
  <2>1. ASSUME NEW t \in Messages PROVE t \in ThreadsOf(s) <=> SESSIONS[s] = t
    <3>1. ROUTES[t] # None <=> Thread(t) = t
      BY SessionType, PluginAssumption DEF PluginInv, ThreadsOK
    <3>2. SESSIONS[s] = t => SessionOf[t] = s
      BY PluginAssumption DEF PluginInv, ThreadsOK
    <3> QED BY <3>1, <3>2 DEF ThreadsOf, Thread
  <2>2. SESSIONS[s] \in Messages \cup {None}
    BY DEF PluginInv, GateTypeOK
  <2>3. SESSIONS[s] # None => ROUTES[SESSIONS[s]] = ChatOf[s]
    BY <2>2 DEF PluginInv, ThreadsOK, Thread, Chat
  <2>4. ThreadsOf(s) \subseteq Messages /\ None \notin Messages
    BY PluginAssumption DEF ThreadsOf
  <2> QED BY <2>1, <2>2, <2>3, <2>4
<1> QED BY <1>1, PluginInitInv, PluginStepInv, PTL DEF Spec

\* However calls fail and verdicts arrive late, the agent never works for a
\* message that was to stay unanswered.
THEOREM AgentWorksForCleared == Spec => []OnlyCleared
<1>1. PluginInv => OnlyCleared
  BY DEF PluginInv, AgentOK, Cleared, OnlyCleared
<1> QED BY <1>1, PluginInitInv, PluginStepInv, PTL DEF Spec

-----------------------------------------------------------------------------
(* Recalls.                                                                 *)

\* What an adapter's handler was captured from is never the wrapper itself.
WiringOK ==
  /\ patched \in [Platforms -> SUBSET {"send", "enqueue", "poll", "handle", "observe", "typing"}]
  /\ original \in [Platforms -> [{"send", "handle"} -> {"none", "genuine"}]]
  /\ \A p \in Platforms : "handle" \in patched[p] => original[p]["handle"] = "genuine"

Heard == {"speak", "stay_silent"}

\* The i-th message of s to leave the gate was heard, and none up to the k-th.
FreshFrom(s, i, k) ==
  /\ verdict[gated[s][i]] \in Heard
  /\ \A j \in i + 1 .. k : Unheard(gated[s][j])

\* The recall of a session's turn was the latest heard when its message left
\* the gate, or later.
TurnRecalled(s) ==
  turn[s].recall # None =>
    \E i \in 1 .. Len(gated[s]) :
      /\ gated[s][i] = turn[s].recall /\ verdict[gated[s][i]] \in Heard
      /\ \A k \in 1 .. Len(gated[s]) : gated[s][k] = turn[s].mid => FreshFrom(s, i, k)

\* A session's recall is of the latest decide that was not merely skipped.
RecallOK ==
  /\ gated \in [Sessions -> Seq(Messages)]
  /\ \A s \in Sessions : \A i \in 1 .. Len(gated[s]) : stage[gated[s][i]] \in Fates
  /\ \A s \in Sessions : MEMORY_BY_SESSION[s] # None =>
       \E i \in 1 .. Len(gated[s]) :
         gated[s][i] = MEMORY_BY_SESSION[s] /\ FreshFrom(s, i, Len(gated[s]))
  /\ \A s \in Sessions :
       /\ turn[s].mid # None => stage[turn[s].mid] = "agent"
       /\ slot[s].mid # None => stage[slot[s].mid] = "agent"
       /\ TurnRecalled(s)

RecallInv == PluginInv /\ WiringOK /\ RecallOK

\* A session's turn is the one it had, or a new one for m without a recall.
AgentMoves(m) ==
  \A s \in Sessions :
    /\ \/ turn'[s].mid = turn[s].mid /\ turn'[s].recall = turn[s].recall
       \/ turn'[s].mid = m /\ turn'[s].recall = None /\ stage'[m] = "agent"
    /\ \/ slot'[s].mid = slot[s].mid
       \/ slot'[s].mid = m /\ stage'[m] = "agent"

\* An event leaves the gate for the agent or the bystanders, never for the
\* gate again.
LEMMA SettleMoves ==
  ASSUME PluginInv, WiringOK, NEW m \in Messages, NEW v, Settle(m, v)
  PROVE  /\ stage'[m] \in Fates /\ \A x \in Messages \ {m} : stage'[x] = stage[x]
         /\ AgentMoves(m)
<1> USE DEF PluginInv
<1>1. Handler(Platform(m)) = "genuine"
  <2>1. PICK p \in Platforms : p = Platform(m)
    BY SessionType DEF Platform, Platforms
  <2>2. original[p]["handle"] \in {"none", "genuine"}
    BY DEF WiringOK
  <2> QED BY <2>1, <2>2 DEF Handler, WiringOK
<1>2. CASE stage' = [stage EXCEPT ![m] = "observed"] /\ UNCHANGED agent
  <2>1. stage'[m] = "observed" /\ \A x \in Messages \ {m} : stage'[x] = stage[x]
    BY <1>2 DEF GateTypeOK
  <2>2. UNCHANGED <<turn, slot>>
    BY <1>2 DEF agent
  <2>3. AgentMoves(m)
    BY <2>2 DEF AgentMoves
  <2> QED BY <2>1, <2>3 DEF Fates
<1>3. CASE stage' = [stage EXCEPT ![m] = "agent"] /\ ToAgent(m)
  <2>1. stage'[m] = "agent" /\ \A x \in Messages \ {m} : stage'[x] = stage[x]
    BY <1>3 DEF GateTypeOK
  <2>2. PICK s \in Sessions : s = SessionOf[m]
    BY SessionType
  <2>3. CASE turn' = [turn EXCEPT ![s] = Turn(m, {m})] /\ UNCHANGED slot
    <3>1. turn'[s] = Turn(m, {m}) /\ \A x \in Sessions \ {s} : turn'[x] = turn[x]
      BY <2>3 DEF AgentOK
    <3>2. turn'[s].mid = m /\ turn'[s].recall = None
      BY <3>1 DEF Turn
    <3> QED BY <2>1, <2>3, <3>1, <3>2 DEF AgentMoves, Fates
  <2>4. CASE turn' = [turn EXCEPT ![s].covers = @ \cup {m}] /\ UNCHANGED slot
    <3>1. /\ turn'[s] = [turn[s] EXCEPT !.covers = @ \cup {m}]
          /\ \A x \in Sessions \ {s} : turn'[x] = turn[x]
      BY <2>4 DEF AgentOK
    <3>2. turn[s] \in TurnType
      BY DEF AgentOK
    <3>3. turn'[s].mid = turn[s].mid /\ turn'[s].recall = turn[s].recall
      BY <3>1, <3>2 DEF TurnType
    <3> QED BY <2>1, <2>4, <3>1, <3>3 DEF AgentMoves, Fates
  <2>5. CASE /\ \E mid \in Anchors(s, m) : slot' = [slot EXCEPT ![s] = Merged(s, m, mid)]
             /\ UNCHANGED turn
    <3>1. PICK mid \in Anchors(s, m) :
            slot'[s] = Merged(s, m, mid) /\ \A x \in Sessions \ {s} : slot'[x] = slot[x]
      BY <2>5 DEF AgentOK
    <3>2. slot'[s].mid \in {m, slot[s].mid}
      BY <3>1 DEF Merged, Anchors
    <3> QED BY <2>1, <2>5, <3>1, <3>2 DEF AgentMoves, Fates
  <2>6. AgentMoves(m)
    BY <1>3, <2>2, <2>3, <2>4, <2>5 DEF ToAgent
  <2> QED BY <2>1, <2>6 DEF Fates
<1> QED BY <1>1, <1>2, <1>3 DEF Settle, Dispatch, Observe

\* The recalls are kept by a message that leaves the gate, whether its decide
\* has an answer to remember, failed, or was not heard.
LEMMA RecallMoves ==
  ASSUME PluginInv, RecallOK, NEW m \in Messages, stage[m] \in Gating,
         stage'[m] \in Fates, \A x \in Messages \ {m} : stage'[x] = stage[x], AgentMoves(m),
         NEW v, verdict' = [verdict EXCEPT ![m] = v],
         gated' = [gated EXCEPT ![SessionOf[m]] = Append(@, m)],
         \/ v \in {"raised", "ungated"} /\ UNCHANGED MEMORY_BY_SESSION
         \/ v \in Heard /\ MEMORY_BY_SESSION' = [MEMORY_BY_SESSION EXCEPT ![SessionOf[m]] = m]
         \/ MEMORY_BY_SESSION' = [MEMORY_BY_SESSION EXCEPT ![SessionOf[m]] = None]
  PROVE  RecallOK'
<1> USE DEF PluginInv
<1>0. PICK z \in Sessions : z = SessionOf[m]
  BY SessionType
<1>1. gated' \in [Sessions -> Seq(Messages)]
  <2>1. gated \in [Sessions -> Seq(Messages)] /\ gated[z] \in Seq(Messages)
    BY DEF RecallOK
  <2>2. Append(gated[z], m) \in Seq(Messages)
    BY <2>1
  <2> QED BY <1>0, <2>1, <2>2
<1>2. ASSUME NEW s \in Sessions
      PROVE  /\ Len(gated[s]) \in Nat
             /\ \A i \in 1 .. Len(gated[s]) :
                  /\ gated[s][i] \in Messages \ {m}
                  /\ stage'[gated[s][i]] \in Fates
                  /\ verdict'[gated[s][i]] = verdict[gated[s][i]]
  <2>1. gated[s] \in Seq(Messages)
    BY DEF RecallOK
  <2>2. \A i \in 1 .. Len(gated[s]) : gated[s][i] \in Messages /\ stage[gated[s][i]] \in Fates
    BY <2>1 DEF RecallOK
  <2>3. \A i \in 1 .. Len(gated[s]) : gated[s][i] # m
    BY <2>2 DEF Gating, Fates
  <2> QED BY <2>1, <2>2, <2>3 DEF GateTypeOK
<1>3. ASSUME NEW s \in Sessions, s # z
      PROVE  gated'[s] = gated[s] /\ MEMORY_BY_SESSION'[s] = MEMORY_BY_SESSION[s]
  BY <1>0, <1>3 DEF RecallOK, AgentOK
<1>4. /\ Len(gated'[z]) = Len(gated[z]) + 1 /\ gated'[z][Len(gated[z]) + 1] = m
      /\ \A i \in 1 .. Len(gated[z]) : gated'[z][i] = gated[z][i]
  <2>1. gated'[z] = Append(gated[z], m) /\ gated[z] \in Seq(Messages)
    BY <1>0 DEF RecallOK
  <2> QED BY <2>1
<1>5. verdict'[m] = v
  BY DEF GateTypeOK
\* What held of the messages that had left the gate still does.
<1>6. ASSUME NEW s \in Sessions
      PROVE  /\ Len(gated[s]) \in Nat /\ Len(gated[s]) <= Len(gated'[s])
             /\ \A i \in 1 .. Len(gated[s]) :
                  /\ gated'[s][i] = gated[s][i] /\ gated[s][i] # m
                  /\ verdict'[gated'[s][i]] = verdict[gated[s][i]]
             /\ \A i \in 1 .. Len(gated'[s]) : i \in 1 .. Len(gated[s]) \/ gated'[s][i] = m
             /\ Len(gated'[s]) \in Nat
  <2>1. CASE s = z
    BY <1>2, <1>4, <2>1
  <2>2. CASE s # z
    BY <1>2, <1>3, <2>2
  <2> QED BY <2>1, <2>2
<1>7. ASSUME NEW s \in Sessions, NEW i \in 1 .. Len(gated[s]), NEW k \in 1 .. Len(gated[s]),
             FreshFrom(s, i, k)
      PROVE  FreshFrom(s, i, k)'
  <2>1. PICK n \in Nat : n = Len(gated[s])
    BY <1>6
  <2>2. \A j \in i + 1 .. k : j \in 1 .. n /\ Unheard(gated[s][j])
    BY <1>7, <2>1 DEF FreshFrom
  <2>3. \A j \in i + 1 .. k : Unheard(gated[s][j])'
    BY <1>6, <2>1, <2>2 DEF Unheard
  <2> QED BY <1>6, <1>7, <2>3 DEF FreshFrom
<1>8. ASSUME NEW s \in Sessions, NEW i \in 1 .. Len(gated'[s]) PROVE stage'[gated'[s][i]] \in Fates
  BY <1>2, <1>6, <1>8
<1>9. ASSUME NEW s \in Sessions, MEMORY_BY_SESSION'[s] # None
      PROVE  \E i \in 1 .. Len(gated'[s]) :
               gated'[s][i] = MEMORY_BY_SESSION'[s] /\ FreshFrom(s, i, Len(gated[s]))'
  <2>1. PICK n \in Nat : n = Len(gated[s])
    BY <1>6
  <2>2. CASE s # z
    <3>1. PICK i \in 1 .. n : gated[s][i] = MEMORY_BY_SESSION[s] /\ FreshFrom(s, i, n)
      BY <1>3, <1>9, <2>1, <2>2 DEF RecallOK
    <3>2. n \in 1 .. n /\ Len(gated'[s]) = n
      <4>1. n \in 1 .. n
        OBVIOUS
      <4> QED BY <1>3, <2>1, <2>2, <4>1, Zenon
    <3>3. FreshFrom(s, i, n)'
      BY <1>7, <2>1, <3>1, <3>2
    <3> QED BY <1>3, <2>1, <2>2, <3>1, <3>2, <3>3 DEF FreshFrom, Unheard
  <2>3. CASE s = z
    <3>0. Len(gated'[s]) = n + 1 /\ gated'[s][n + 1] = m
      BY <1>4, <2>1, <2>3
    <3>1. CASE MEMORY_BY_SESSION'[s] = m /\ v \in Heard
      <4>1. FreshFrom(s, n + 1, n + 1)'
        BY <1>5, <2>1, <3>0, <3>1 DEF FreshFrom
      <4> QED BY <2>1, <3>0, <3>1, <4>1
    <3>2. CASE MEMORY_BY_SESSION'[s] = MEMORY_BY_SESSION[s] /\ v \in {"raised", "ungated"}
      <4>1. PICK i \in 1 .. n : gated[s][i] = MEMORY_BY_SESSION[s] /\ FreshFrom(s, i, n)
        BY <1>9, <2>1, <3>2 DEF RecallOK
      <4>2. FreshFrom(s, i, n)' /\ gated'[s][i] = gated[s][i]
        <5>1. n \in 1 .. n
          OBVIOUS
        <5>2. FreshFrom(s, i, n)'
          BY <1>7, <2>1, <4>1, <5>1
        <5> QED BY <1>6, <2>1, <5>2
      <4>3. Unheard(gated[s][n + 1])'
        <5>1. verdict'[gated'[s][n + 1]] = v
          BY <1>5, <3>0, Zenon
        <5> QED BY <3>2, <5>1, Zenon DEF Unheard
      <4>4. \A j \in i + 1 .. n + 1 : j \in i + 1 .. n \/ j = n + 1
        OBVIOUS
      <4>5. FreshFrom(s, i, n + 1)'
        <5>1. ASSUME NEW j \in i + 1 .. n + 1 PROVE Unheard(gated[s][j])'
          <6>1. CASE j = n + 1
            BY <4>3, <6>1, Zenon
          <6>2. CASE j \in i + 1 .. n
            BY <4>2, <6>2, Zenon DEF FreshFrom
          <6> QED BY <4>4, <6>1, <6>2
        <5> QED BY <4>2, <5>1, Zenon DEF FreshFrom
      <4>6. FreshFrom(s, i, Len(gated[s]))'
        BY <3>0, <4>5, Zenon DEF FreshFrom
      <4>7. i \in 1 .. Len(gated'[s]) /\ gated'[s][i] = MEMORY_BY_SESSION'[s]
        BY <3>0, <3>2, <2>1, <4>1, <4>2
      <4> QED BY <4>6, <4>7, Zenon
    <3> QED BY <1>0, <1>9, <2>3, <3>1, <3>2 DEF AgentOK
  <2> QED BY <2>2, <2>3
<1>10. ASSUME NEW s \in Sessions
       PROVE  /\ turn'[s].mid # None => stage'[turn'[s].mid] = "agent"
              /\ slot'[s].mid # None => stage'[slot'[s].mid] = "agent"
  <2>1. turn[s].mid \in Messages \cup {None} /\ slot[s].mid \in Messages \cup {None}
    BY DEF AgentOK, TurnType, SlotType
  <2>2. turn[s].mid # None => turn[s].mid # m /\ stage'[turn[s].mid] = "agent"
    BY <2>1 DEF RecallOK, Gating
  <2>3. slot[s].mid # None => slot[s].mid # m /\ stage'[slot[s].mid] = "agent"
    BY <2>1 DEF RecallOK, Gating
  <2> QED BY <2>2, <2>3 DEF AgentMoves
<1>11. ASSUME NEW s \in Sessions, turn'[s].recall # None
       PROVE  \E i \in 1 .. Len(gated'[s]) :
                /\ gated'[s][i] = turn'[s].recall /\ verdict'[gated'[s][i]] \in Heard
                /\ \A k \in 1 .. Len(gated'[s]) :
                     gated'[s][k] = turn'[s].mid => FreshFrom(s, i, k)'
  <2>1. turn'[s].mid = turn[s].mid /\ turn'[s].recall = turn[s].recall
    BY <1>11 DEF AgentMoves
  <2>2. PICK i \in 1 .. Len(gated[s]) :
          /\ gated[s][i] = turn[s].recall /\ verdict[gated[s][i]] \in Heard
          /\ \A k \in 1 .. Len(gated[s]) : gated[s][k] = turn[s].mid => FreshFrom(s, i, k)
    BY <1>11, <2>1 DEF RecallOK, TurnRecalled
  <2>3. turn[s].mid # m
    <3>1. turn[s].mid # None => stage[turn[s].mid] = "agent"
      BY DEF RecallOK
    <3> QED BY <3>1, PluginAssumption DEF Gating
  <2>4. i \in 1 .. Len(gated'[s]) /\ gated'[s][i] = gated[s][i] /\ verdict'[gated'[s][i]] \in Heard
    BY <1>6, <2>2
  <2>5. ASSUME NEW k \in 1 .. Len(gated'[s]), gated'[s][k] = turn'[s].mid PROVE FreshFrom(s, i, k)'
    <3>1. k \in 1 .. Len(gated[s]) /\ gated[s][k] = turn[s].mid
      BY <1>6, <2>1, <2>3, <2>5
    <3> QED BY <1>7, <2>2, <3>1
  <2> QED BY <2>1, <2>2, <2>4, <2>5
<1>12. RecallOK'
  <2>1. \A s \in Sessions : TurnRecalled(s)'
    BY <1>11 DEF TurnRecalled
  <2> QED BY <1>1, <1>8, <1>9, <1>10, <2>1 DEF RecallOK
<1> QED BY <1>12

\* The recalls are as they should be before the first message.
LEMMA RecallInitInv == Init => RecallInv
<1> SUFFICES ASSUME Init PROVE RecallInv
  OBVIOUS
<1>1. WiringOK
  BY DEF Init, WiringOK
<1>2. RecallOK
  BY DEF Init, RecallOK, TurnRecalled, NoTurn, NoSlot
<1> QED BY <1>1, <1>2, PluginInitInv DEF RecallInv

\* No registration, decide, failure or turn breaks them.
LEMMA RecallStepInv == RecallInv /\ [Next]_vars => RecallInv'
<1> SUFFICES ASSUME RecallInv, [Next]_vars PROVE WiringOK' /\ RecallOK'
  BY PluginStepInv DEF RecallInv
<1> USE DEF RecallInv, PluginInv
<1>w. ASSUME UNCHANGED wiring PROVE WiringOK'
  BY <1>w DEF WiringOK, wiring
\* Turns that keep their anchor keep what they were recalled.
<1>t. ASSUME UNCHANGED <<verdict, gated>>, NEW s \in Sessions, TurnRecalled(s),
             turn'[s].mid = turn[s].mid /\ turn'[s].recall = turn[s].recall
      PROVE  TurnRecalled(s)'
  BY <1>t DEF TurnRecalled, FreshFrom, Unheard
<1>m. ASSUME UNCHANGED <<verdict, gated, MEMORY_BY_SESSION>>
      PROVE  \A s \in Sessions : MEMORY_BY_SESSION'[s] # None =>
               \E i \in 1 .. Len(gated'[s]) :
                 gated'[s][i] = MEMORY_BY_SESSION'[s] /\ FreshFrom(s, i, Len(gated[s]))'
  BY <1>m DEF RecallOK, FreshFrom, Unheard
<1>k. ASSUME UNCHANGED <<stage, verdict, gated, MEMORY_BY_SESSION, turn, slot>> PROVE RecallOK'
  <2>1. \A s \in Sessions : TurnRecalled(s)'
    BY <1>k, <1>t DEF RecallOK
  <2>2. \A s \in Sessions : \A i \in 1 .. Len(gated[s]) : stage'[gated'[s][i]] \in Fates
    BY <1>k DEF RecallOK
  <2> QED BY <1>k, <1>m, <2>1, <2>2 DEF RecallOK
<1>0. CASE UNCHANGED vars
  BY <1>0, <1>w, <1>k DEF vars, gate, stashed, agent
<1>1. ASSUME NEW p \in Platforms, Register(p) PROVE WiringOK' /\ RecallOK'
  <2>1. RecallOK'
    BY <1>1, <1>k DEF Register, gate, stashed, agent
  <2>2. p \in DOMAIN Surface /\ Surface[p] \subseteq
          {"send", "enqueue", "poll", "handle", "observe", "typing"}
    <3>1. p \in DOMAIN Surface
      BY PluginAssumption DEF Platforms
    <3> QED BY <3>1 DEF Surface, WhatsApp, Telegram, Slack, Discord
  <2> DEFINE caught == [e \in {"send", "handle"} |-> Capture(p, e)]
  <2>3. /\ caught \in [{"send", "handle"} -> {"none", "genuine"}]
        /\ "handle" \in Surface[p] => caught["handle"] = "genuine"
    BY DEF WiringOK, Capture
  <2>4. patched' = [patched EXCEPT ![p] = Surface[p]] /\ original' = [original EXCEPT ![p] = caught]
    BY <1>1 DEF Register
  <2> HIDE DEF caught
  <2>5. WiringOK'
    BY <2>2, <2>3, <2>4 DEF WiringOK
  <2> QED BY <2>1, <2>5
<1>2. ASSUME NEW m \in Messages, stage[m] \in Gating, NEW v, Leave(m, v), UNCHANGED wiring,
             \/ v \in {"raised", "ungated"} /\ UNCHANGED MEMORY_BY_SESSION
             \/ v \in Heard /\ MEMORY_BY_SESSION' = [MEMORY_BY_SESSION EXCEPT ![SessionOf[m]] = m]
             \/ MEMORY_BY_SESSION' = [MEMORY_BY_SESSION EXCEPT ![SessionOf[m]] = None]
      PROVE  WiringOK' /\ RecallOK'
  BY <1>2, <1>w, SettleMoves, RecallMoves DEF Leave
<1>3. ASSUME NEW m \in Messages, stage[m] \in Gating, NEW step \in Gating,
             stage' = [stage EXCEPT ![m] = step], UNCHANGED wiring,
             UNCHANGED <<verdict, gated, MEMORY_BY_SESSION, turn, slot>>
      PROVE  WiringOK' /\ RecallOK'
  <2>1. \A x \in Messages : stage[x] \in Fates => stage'[x] = stage[x]
    BY <1>3 DEF GateTypeOK, Gating, Fates
  <2>2. ASSUME NEW s \in Sessions
        PROVE  /\ \A i \in 1 .. Len(gated[s]) : stage'[gated[s][i]] \in Fates
               /\ turn[s].mid # None => stage'[turn[s].mid] = "agent"
               /\ slot[s].mid # None => stage'[slot[s].mid] = "agent"
    <3>1. \A i \in 1 .. Len(gated[s]) : gated[s][i] \in Messages
      BY DEF RecallOK
    <3>2. turn[s].mid \in Messages \cup {None} /\ slot[s].mid \in Messages \cup {None}
      BY DEF AgentOK, TurnType, SlotType
    <3> QED BY <2>1, <3>1, <3>2 DEF RecallOK, Fates
  <2>3. \A s \in Sessions : TurnRecalled(s)'
    BY <1>3, <1>t DEF RecallOK
  <2>4. RecallOK'
    BY <1>3, <1>m, <2>2, <2>3 DEF RecallOK
  <2> QED BY <1>3, <1>w, <2>4
<1>4. ASSUME NEW m \in Messages, Inbound(m) PROVE WiringOK' /\ RecallOK'
  <2>1. UNCHANGED <<wiring, MEMORY_BY_SESSION>> /\ stage[m] \in Gating
    BY <1>4 DEF Inbound, stashed, Gating
  <2>2. CASE Leave(m, "ungated")
    BY <1>2, <2>1, <2>2
  <2>3. ASSUME NEW step \in {"lock", "submit"}, stage' = [stage EXCEPT ![m] = step],
               UNCHANGED <<verdict, gated, agent>>
        PROVE  WiringOK' /\ RecallOK'
    BY <1>3, <2>1, <2>3 DEF Gating, agent
  <2> QED BY <1>4, <2>2, <2>3 DEF Inbound
<1>5. ASSUME NEW m \in Messages, Lock(m) \/ Opened(m) \/ Submit(m) PROVE WiringOK' /\ RecallOK'
  <2>1. PICK step \in Gating : stage' = [stage EXCEPT ![m] = step]
    BY <1>5 DEF Lock, Opened, Submit, Gating
  <2>2. stage[m] \in Gating /\ UNCHANGED <<wiring, verdict, gated, MEMORY_BY_SESSION, turn, slot>>
    BY <1>5 DEF Lock, Opened, Submit, Gating, stashed, agent
  <2> QED BY <1>3, <2>1, <2>2
<1>6. ASSUME NEW m \in Messages, Decided(m) \/ Unavailable(m) \/ GateRaises(m)
      PROVE  WiringOK' /\ RecallOK'
  <2>1. stage[m] \in Gating /\ UNCHANGED wiring
    BY <1>6 DEF Decided, Unavailable, GateRaises, Gating
  <2>2. CASE Decided(m)
    <3>1. PICK v \in Heard : Leave(m, v) /\ Stash(m, v)
      BY <2>2 DEF Decided, Heard
    <3> QED BY <1>2, <2>1, <3>1 DEF Stash
  <2>3. CASE Unavailable(m)
    BY <1>2, <2>1, <2>3 DEF Unavailable, DropRecall
  <2>4. CASE GateRaises(m)
    BY <1>2, <2>1, <2>4 DEF GateRaises, stashed
  <2> QED BY <1>6, <2>2, <2>3, <2>4
\* The agent's steps leave the gate alone.
<1>7. ASSUME NEW s \in Sessions, UNCHANGED <<stage, verdict, gated, MEMORY_BY_SESSION>>,
             \A x \in Sessions \ {s} : turn'[x] = turn[x] /\ slot'[x] = slot[x],
             turn'[s].mid \in {None, turn[s].mid, slot[s].mid},
             slot'[s].mid \in {None, slot[s].mid}, TurnRecalled(s)'
      PROVE  RecallOK'
  <2>1. ASSUME NEW x \in Sessions
        PROVE  /\ turn'[x].mid # None => stage'[turn'[x].mid] = "agent"
               /\ slot'[x].mid # None => stage'[slot'[x].mid] = "agent"
    BY <1>7 DEF RecallOK
  <2>2. ASSUME NEW x \in Sessions PROVE TurnRecalled(x)'
    <3>1. CASE x = s
      BY <1>7, <3>1
    <3>2. CASE x # s
      <4>1. turn'[x] = turn[x] /\ TurnRecalled(x)
        BY <1>7, <3>2 DEF RecallOK
      <4> QED BY <1>7, <1>t, <4>1
    <3> QED BY <3>1, <3>2
  <2>3. \A x \in Sessions : \A i \in 1 .. Len(gated[x]) : stage'[gated'[x][i]] \in Fates
    BY <1>7 DEF RecallOK
  <2> QED BY <1>7, <1>m, <2>1, <2>2, <2>3 DEF RecallOK
<1>8. ASSUME NEW s \in Sessions, Prompt(s) PROVE WiringOK' /\ RecallOK'
  <2>1. /\ UNCHANGED <<wiring, stage, verdict, gated, MEMORY_BY_SESSION, slot>>
        /\ turn' = [turn EXCEPT ![s].step = "draft", ![s].recall = MEMORY_BY_SESSION[s]]
    BY <1>8 DEF Prompt, gate, stashed
  <2>2. /\ turn'[s].mid = turn[s].mid /\ turn'[s].recall = MEMORY_BY_SESSION[s]
        /\ \A x \in Sessions \ {s} : turn'[x] = turn[x]
    BY <2>1 DEF AgentOK, TurnType
  <2>3. TurnRecalled(s)'
    <3>1. ASSUME MEMORY_BY_SESSION[s] # None
          PROVE  \E i \in 1 .. Len(gated[s]) :
                   /\ gated[s][i] = MEMORY_BY_SESSION[s] /\ verdict[gated[s][i]] \in Heard
                   /\ \A k \in 1 .. Len(gated[s]) : FreshFrom(s, i, k)
      <4>1. PICK n \in Nat : n = Len(gated[s])
        BY DEF RecallOK
      <4>2. PICK i \in 1 .. n : gated[s][i] = MEMORY_BY_SESSION[s] /\ FreshFrom(s, i, n)
        BY <3>1, <4>1 DEF RecallOK
      <4>3. \A k \in 1 .. n : \A j \in i + 1 .. k : j \in i + 1 .. n
        OBVIOUS
      <4>4. \A k \in 1 .. n : FreshFrom(s, i, k)
        BY <4>2, <4>3 DEF FreshFrom
      <4> QED BY <4>1, <4>2, <4>4 DEF FreshFrom
    <3>2. \A i, k : FreshFrom(s, i, k) => FreshFrom(s, i, k)'
      BY <2>1 DEF FreshFrom, Unheard
    <3> QED BY <2>1, <2>2, <3>1, <3>2 DEF TurnRecalled
  <2>4. RecallOK'
    BY <1>7, <2>1, <2>2, <2>3
  <2> QED BY <1>w, <2>1, <2>4
<1>9. ASSUME NEW s \in Sessions, Transform(s) \/ Mark(s) \/ SendAnswer(s)
      PROVE  WiringOK' /\ RecallOK'
  <2>1. UNCHANGED <<wiring, stage, verdict, gated, MEMORY_BY_SESSION>>
    BY <1>9 DEF Transform, Mark, SendAnswer, gate, stashed
  <2>2. /\ \A x \in Sessions \ {s} : turn'[x] = turn[x] /\ slot'[x] = slot[x]
        /\ \/ turn'[s].mid = turn[s].mid /\ turn'[s].recall = turn[s].recall
           \/ turn'[s].mid \in {None, slot[s].mid} /\ turn'[s].recall = None
        /\ slot'[s].mid \in {None, slot[s].mid}
    <3>1. CASE Transform(s)
      BY <3>1 DEF Transform, AgentOK, TurnType
    <3>2. CASE Mark(s)
      BY <3>2 DEF Mark, AgentOK, TurnType
    <3>3. CASE SendAnswer(s)
      BY <3>3 DEF SendAnswer, AgentOK, Turn, NoTurn, NoSlot
    <3> QED BY <1>9, <3>1, <3>2, <3>3
  <2>3. TurnRecalled(s)'
    <3>1. CASE turn'[s].mid = turn[s].mid /\ turn'[s].recall = turn[s].recall
      BY <1>t, <2>1, <3>1 DEF RecallOK
    <3>2. CASE turn'[s].recall = None
      BY <3>2 DEF TurnRecalled
    <3> QED BY <2>2, <3>1, <3>2
  <2>4. RecallOK'
    BY <1>7, <2>1, <2>2, <2>3
  <2> QED BY <1>w, <2>1, <2>4
<1>10. ASSUME NEW m \in Messages, Answer(m) \/ SocketLost(m) PROVE WiringOK' /\ RecallOK'
  BY <1>10, <1>w, <1>k DEF Answer, Respond, RespondFails, Forward, SocketLost, gate, stashed, agent
<1> QED BY <1>0, <1>1, <1>4, <1>5, <1>6, <1>8, <1>9, <1>10 DEF Next, Gate, Work

\* However gates end, a turn reads no recall that an answered or failed decide
\* had superseded before its message left the gate.
THEOREM RecallsAreFresh == Spec => []FreshRecall
<1>1. RecallInv => FreshRecall
  <2> SUFFICES ASSUME RecallInv, NEW s \in Sessions, turn[s].recall # None
               PROVE  \E i \in DOMAIN gated[s] :
                        /\ gated[s][i] = turn[s].recall
                        /\ verdict[turn[s].recall] \in {"speak", "stay_silent"}
                        /\ \A k \in DOMAIN gated[s] : gated[s][k] = turn[s].mid =>
                             \A j \in i + 1 .. k : Unheard(gated[s][j])
    BY DEF FreshRecall
  <2>1. DOMAIN gated[s] = 1 .. Len(gated[s])
    BY DEF RecallInv, RecallOK
  <2>2. PICK i \in 1 .. Len(gated[s]) :
          /\ gated[s][i] = turn[s].recall /\ verdict[gated[s][i]] \in Heard
          /\ \A k \in 1 .. Len(gated[s]) : gated[s][k] = turn[s].mid => FreshFrom(s, i, k)
    BY DEF RecallInv, RecallOK, TurnRecalled
  <2> QED BY <2>1, <2>2 DEF FreshFrom, Heard
<1> QED BY <1>1, RecallInitInv, RecallStepInv, PTL DEF Spec

-----------------------------------------------------------------------------
(* Answers: a turn's draft is handed to the service and its raw copy        *)
(* suppressed, or it goes out raw.                                          *)

\* The turn anchored at m holds its chat's set of answers, to add its own; the
\* gateway is about to send its raw copy.
Handing(m) == turn[SessionOf[m]].mid = m /\ turn[SessionOf[m]].step = "mark"
Sending(m) == turn[SessionOf[m]].mid = m /\ turn[SessionOf[m]].step = "send"
Handed(m)  == reply[m].status # "none"

\* No turn moves to or from its end.
SameEnds == \A x \in Messages : (Handing(x)' <=> Handing(x)) /\ (Sending(x)' <=> Sending(x))

Statuses ==
  {"none", "task", "scheduled", "superseded", "failed", "swallowed", "bubbled"}

\* The variables of the way back.
AnswerTypeOK ==
  /\ EPOCH_BY_MESSAGE_ID \in [Messages -> Nat] /\ LATEST_EPOCH_BY_CHAT \in [Chats -> Nat]
  /\ epochs \in [Messages -> Nat] /\ given \in [Messages -> Nat]
  /\ reply \in [Messages -> [status : Statuses, epoch : Nat]]
  /\ PENDING_ANSWERS \in [Chats -> SUBSET Texts]
  /\ raw \subseteq Messages /\ orphaned \subseteq Messages
  /\ answerOf \in [Messages -> Messages \cup {None}]

\* A message the service is asked about, or that was told to speak, came
\* through a patched adapter, which has a patched send as well, and from the
\* submit on its session has a thread.
GatedOK ==
  /\ \A p \in Platforms : patched[p] # {} => "send" \in patched[p]
  /\ \A m \in Messages :
       /\ stage[m] \in {"lock", "opening", "submit", "deciding"} \/ EPOCH_BY_MESSAGE_ID[m] # 0
            => "send" \in patched[Platform(m)]
       /\ stage[m] \in {"submit", "deciding"} \/ EPOCH_BY_MESSAGE_ID[m] # 0
            => Thread(m) # None

\* A message is in one turn of its session or in its slot, until a finished
\* turn answers it, and the one that anchors a turn is in it.
CoversOK ==
  /\ \A s \in Sessions :
       /\ turn[s] # NoTurn => turn[s].mid \in turn[s].covers /\ turn[s].step # "idle"
       /\ slot[s] # NoSlot => slot[s].mid \in slot[s].covers
       /\ turn[s].covers \cap slot[s].covers = {}
       /\ \A m \in turn[s].covers \cup slot[s].covers : SessionOf[m] = s /\ answerOf[m] = None
  /\ \A m \in Messages :
       /\ answerOf[m] # None => stage[m] = "agent" /\ answerOf[answerOf[m]] = answerOf[m]

\* Who hands an answer over was told to speak.
HandOK ==
  \A s \in Sessions : turn[s].step = "mark" =>
    SESSIONS[s] # None /\ "send" \in patched[PlatformOf[ChatOf[s]]]

\* Which way the answer of m went, once it is out and until then.
WayOf(m) ==
  /\ answerOf[m] = m => (m \in raw \/ Handed(m)) /\ (m \in raw /\ Handed(m) <=> m \in orphaned)
  /\ answerOf[m] # m =>
       /\ m \notin raw /\ (~ Handed(m) \/ Sending(m))
       /\ m \in orphaned => Handing(m) \/ (Sending(m) /\ Handed(m))
  /\ Sending(m) /\ Handed(m) =>
       /\ "send" \in patched[Platform(m)]
       /\ TextOf[m] \in PENDING_ANSWERS[Chat(m)] <=> m \notin orphaned
  /\ m \in orphaned =>
       \E x \in Messages : Chat(x) = Chat(m) /\ SessionOf[x] # SessionOf[m] /\ Handed(x)

Awaited(c, text) ==
  \E m \in Messages : Chat(m) = c /\ TextOf[m] = text /\ Sending(m) /\ Handed(m)

\* An answer awaits its raw send only while the turn that handed it to the
\* service is about to send it.
WaysOK ==
  /\ \A m \in Messages : WayOf(m)
  /\ \A c \in Chats : \A text \in PENDING_ANSWERS[c] : Awaited(c, text)

WayInv == RecallInv /\ AnswerTypeOK /\ GatedOK /\ CoversOK /\ HandOK /\ WaysOK

\* The hypothesis of the property: no two answers of a chat have one text.
TextsDiffer ==
  \A m, x \in Messages : Chat(m) = Chat(x) /\ TextOf[m] = TextOf[x] => m = x

\* A way back is kept by steps that hand over, send and answer nothing.
LEMMA WaysKept ==
  ASSUME WaysOK, UNCHANGED <<PENDING_ANSWERS, orphaned, raw, answerOf>>,
         \A x \in Messages : Handed(x)' <=> Handed(x), SameEnds,
         \A p \in Platforms : "send" \in patched[p] => "send" \in patched'[p]
  PROVE  WaysOK'
<1>1. \A x \in Messages : Platform(x) \in Platforms
  BY SessionType DEF Platform, Platforms
<1>2. ASSUME NEW m \in Messages PROVE WayOf(m)'
  BY <1>1 DEF WaysOK, WayOf, SameEnds
<1>3. ASSUME NEW c \in Chats, NEW text \in PENDING_ANSWERS'[c] PROVE Awaited(c, text)'
  BY <1>3 DEF WaysOK, Awaited, SameEnds
<1> QED BY <1>2, <1>3 DEF WaysOK

\* A message that leaves the gate is in its session's turn or slot and in no
\* other, and it is no reason to send an answer.
LEMMA SettleCovers ==
  ASSUME PluginInv, WiringOK, AnswerTypeOK, CoversOK, NEW m \in Messages, stage[m] \in Gating,
         NEW v, Settle(m, v), UNCHANGED answerOf
  PROVE  CoversOK' /\ SameEnds
<1> USE DEF PluginInv
<1>0. PICK s \in Sessions : s = SessionOf[m]
  BY SessionType
<1>1. stage'[m] \in Fates /\ \A x \in Messages \ {m} : stage'[x] = stage[x]
  BY SettleMoves
<1>2. answerOf[m] = None /\ \A t \in Sessions : m \notin turn[t].covers \cup slot[t].covers
  BY DEF CoversOK, AgentOK, Cleared, Gating
<1>3. \A x \in Messages : answerOf'[x] # None =>
        stage'[x] = "agent" /\ answerOf'[answerOf'[x]] = answerOf'[x]
  <2> SUFFICES ASSUME NEW x \in Messages, answerOf[x] # None
               PROVE  stage'[x] = "agent" /\ answerOf[answerOf[x]] = answerOf[x]
    OBVIOUS
  <2>1. x # m /\ stage[x] = "agent" /\ answerOf[answerOf[x]] = answerOf[x]
    BY <1>2 DEF CoversOK
  <2> QED BY <1>1, <2>1
<1>4. ASSUME UNCHANGED <<turn, slot>> PROVE CoversOK' /\ SameEnds
  BY <1>3, <1>4 DEF CoversOK, Sending, Handing, SameEnds
<1>5. ASSUME \A t \in Sessions \ {s} : turn'[t] = turn[t] /\ slot'[t] = slot[t],
             turn'[s] # NoTurn => turn'[s].mid \in turn'[s].covers /\ turn'[s].step # "idle",
             slot'[s] # NoSlot => slot'[s].mid \in slot'[s].covers,
             \/ turn'[s].covers = turn[s].covers \cup {m} /\ slot'[s].covers = slot[s].covers
             \/ turn'[s].covers = turn[s].covers /\ slot'[s].covers = slot[s].covers \cup {m},
             \/ turn'[s].mid = turn[s].mid /\ turn'[s].step = turn[s].step
             \/ turn[s].step \notin {"mark", "send"} /\ turn'[s].step \notin {"mark", "send"}
      PROVE  CoversOK' /\ SameEnds
  <2>1. /\ turn'[s].covers \cap slot'[s].covers = {}
        /\ \A x \in turn'[s].covers \cup slot'[s].covers : SessionOf[x] = s /\ answerOf[x] = None
    BY <1>0, <1>2, <1>5 DEF CoversOK
  <2>2. ASSUME NEW t \in Sessions
        PROVE  /\ turn'[t] # NoTurn => turn'[t].mid \in turn'[t].covers /\ turn'[t].step # "idle"
               /\ slot'[t] # NoSlot => slot'[t].mid \in slot'[t].covers
               /\ turn'[t].covers \cap slot'[t].covers = {}
               /\ \A x \in turn'[t].covers \cup slot'[t].covers :
                    SessionOf[x] = t /\ answerOf'[x] = None
    <3>1. CASE t = s
      BY <1>5, <2>1, <3>1
    <3>2. CASE t # s
      BY <1>5, <3>2 DEF CoversOK
    <3> QED BY <3>1, <3>2
  <2>3. ASSUME NEW x \in Messages
        PROVE  (Handing(x)' <=> Handing(x)) /\ (Sending(x)' <=> Sending(x))
    <3>1. CASE SessionOf[x] = s
      BY <1>5, <3>1 DEF Sending, Handing
    <3>2. CASE SessionOf[x] # s
      BY <1>5, <3>2, SessionType DEF Sending, Handing
    <3> QED BY <3>1, <3>2
  <2> QED BY <1>3, <2>2, <2>3 DEF CoversOK, SameEnds
<1>6. CASE stage' = [stage EXCEPT ![m] = "agent"] /\ ToAgent(m)
  <2>0. turn[s] \in TurnType /\ slot[s] \in SlotType
    BY DEF AgentOK
  <2>1. CASE turn[s] = NoTurn /\ turn' = [turn EXCEPT ![s] = Turn(m, {m})] /\ UNCHANGED slot
    <3>1. turn'[s] = Turn(m, {m}) /\ \A t \in Sessions \ {s} : turn'[t] = turn[t]
      BY <2>1 DEF AgentOK
    <3>2. /\ turn'[s].mid = m /\ turn'[s].covers = {m} /\ turn'[s].step = "prompt"
          /\ turn[s].covers = {} /\ turn[s].step = "idle"
      BY <2>1, <3>1 DEF Turn, NoTurn
    <3> QED BY <1>5, <2>1, <3>1, <3>2 DEF CoversOK
  <2>2. CASE /\ turn[s].step \in {"prompt", "draft"}
             /\ turn' = [turn EXCEPT ![s].covers = @ \cup {m}] /\ UNCHANGED slot
    <3>1. /\ turn'[s] = [turn[s] EXCEPT !.covers = @ \cup {m}]
          /\ \A t \in Sessions \ {s} : turn'[t] = turn[t]
      BY <2>2 DEF AgentOK
    <3>2. /\ turn'[s].mid = turn[s].mid /\ turn'[s].step = turn[s].step
          /\ turn'[s].covers = turn[s].covers \cup {m}
      BY <2>0, <3>1 DEF TurnType
    <3>3. turn[s] # NoTurn
      BY <2>2 DEF NoTurn
    <3>4. turn[s].mid \in turn[s].covers
      BY <3>3 DEF CoversOK
    <3> QED BY <1>5, <2>2, <3>1, <3>2, <3>4 DEF CoversOK
  <2>3. CASE /\ turn[s] # NoTurn /\ UNCHANGED turn
             /\ \E mid \in Anchors(s, m) : slot' = [slot EXCEPT ![s] = Merged(s, m, mid)]
    <3>1. PICK mid \in Anchors(s, m) :
            slot'[s] = Merged(s, m, mid) /\ \A t \in Sessions \ {s} : slot'[t] = slot[t]
      BY <2>3 DEF AgentOK
    <3>2. mid \in slot[s].covers \cup {m}
      BY <3>1 DEF Anchors, CoversOK
    <3>3. slot'[s].mid \in slot'[s].covers /\ slot'[s].covers = slot[s].covers \cup {m}
      BY <3>1, <3>2 DEF Merged
    <3> QED BY <1>5, <2>3, <3>1, <3>3 DEF CoversOK
  <2> QED BY <1>0, <1>6, <2>1, <2>2, <2>3 DEF ToAgent
<1>7. CASE UNCHANGED agent
  BY <1>4, <1>7 DEF agent
<1> QED BY <1>6, <1>7 DEF Settle, Dispatch, Observe

\* What is known of the gated messages is kept by a step that adds none.
LEMMA GatedKept ==
  ASSUME GatedOK, UNCHANGED patched,
         \A x \in Messages :
           stage'[x] \in {"lock", "opening", "submit", "deciding"} \/ EPOCH_BY_MESSAGE_ID'[x] # 0
             => stage[x] \in {"lock", "opening", "submit", "deciding"} \/ EPOCH_BY_MESSAGE_ID[x] # 0,
         \A x \in Messages :
           stage'[x] \in {"submit", "deciding"} \/ EPOCH_BY_MESSAGE_ID'[x] # 0 => Thread(x)' # None
  PROVE  GatedOK'
BY DEF GatedOK

\* A message moves on within the gate: the agent does not see it yet.
LEMMA WithinGate ==
  ASSUME PluginInv, CoversOK, WaysOK, NEW m \in Messages, stage[m] \in Gating,
         NEW step, stage' = [stage EXCEPT ![m] = step], UNCHANGED <<agent, answers, patched>>
  PROVE  CoversOK' /\ WaysOK'
<1> USE DEF PluginInv
<1>1. UNCHANGED <<turn, slot, PENDING_ANSWERS, orphaned, reply, raw, answerOf>>
  BY DEF agent, answers
<1>2. \A x \in Messages : stage[x] = "agent" => stage'[x] = "agent"
  BY DEF GateTypeOK, Gating
<1>3. CoversOK'
  BY <1>1, <1>2 DEF CoversOK
<1>4. SameEnds /\ \A x \in Messages : Handed(x)' <=> Handed(x)
  BY <1>1 DEF Sending, Handing, SameEnds, Handed
<1> QED BY <1>1, <1>3, <1>4, WaysKept

\* A message leaves the gate, told to speak or not.
LEMMA WayOutOfGate ==
  ASSUME RecallInv, AnswerTypeOK, GatedOK, CoversOK, WaysOK,
         NEW m \in Messages, stage[m] \in Gating, NEW v, Settle(m, v),
         UNCHANGED <<wiring, SESSIONS, answers>>,
         \A x \in Messages : EPOCH_BY_MESSAGE_ID'[x] # 0 =>
           EPOCH_BY_MESSAGE_ID[x] # 0 \/ stage[x] = "deciding"
  PROVE  GatedOK' /\ CoversOK' /\ WaysOK'
<1> USE DEF RecallInv
<1>1. /\ UNCHANGED <<patched, PENDING_ANSWERS, orphaned, raw, answerOf>>
      /\ \A x \in Messages : Handed(x)' <=> Handed(x)
  BY DEF wiring, answers, Handed
<1>2. stage'[m] \in Fates /\ \A x \in Messages \ {m} : stage'[x] = stage[x]
  BY SettleMoves
<1>3. CoversOK' /\ SameEnds
  BY <1>1, SettleCovers
<1>4. WaysOK'
  BY <1>1, <1>3, WaysKept
<1>5. ASSUME NEW x \in Messages
      PROVE  /\ stage'[x] \in {"lock", "opening", "submit", "deciding"} \/ EPOCH_BY_MESSAGE_ID'[x] # 0
                  => stage[x] \in {"lock", "opening", "submit", "deciding"} \/ EPOCH_BY_MESSAGE_ID[x] # 0
             /\ stage'[x] \in {"submit", "deciding"} \/ EPOCH_BY_MESSAGE_ID'[x] # 0 => Thread(x)' # None
  <2>1. stage'[x] \in {"lock", "opening", "submit", "deciding"} => stage'[x] = stage[x]
    BY <1>2 DEF Fates
  <2>2. Thread(x)' = Thread(x)
    BY DEF Thread
  <2> QED BY <2>1, <2>2 DEF GatedOK
<1>6. GatedOK'
  BY <1>1, <1>5, GatedKept
<1> QED BY <1>3, <1>4, <1>6

\* The route of a session's thread is the session's chat.
LEMMA RouteIsChat ==
  ASSUME PluginInv, NEW s \in Sessions, SESSIONS[s] # None
  PROVE  RouteOf(s) = ChatOf[s] /\ RouteOf(s) \in Chats
<1>1. SESSIONS[s] \in Messages /\ SessionOf[SESSIONS[s]] = s
  BY DEF PluginInv, GateTypeOK, ThreadsOK
<1> QED BY <1>1 DEF PluginInv, ThreadsOK, Thread, Chat, Chats, RouteOf

\* A match leaves the chat's set, which others may have to forget.
LEMMA DiscardType ==
  ASSUME PluginInv, CoversOK, AnswerTypeOK, NEW c \in Chats, NEW text, Discard(c, text)
  PROVE  PENDING_ANSWERS' \in [Chats -> SUBSET Texts] /\ orphaned' \subseteq Messages
<1>1. Orphans(c, text) \subseteq Messages
  BY DEF PluginInv, Orphans, CoversOK, AgentOK, TurnType, NoTurn
<1> QED BY <1>1 DEF Discard, Forget, AnswerTypeOK

\* The types are kept: an epoch is the service's or a copy of one.
LEMMA AnswerTypeStep ==
  RecallInv /\ AnswerTypeOK /\ GatedOK /\ CoversOK /\ HandOK /\ [Next]_vars => AnswerTypeOK'
<1> SUFFICES ASSUME RecallInv, AnswerTypeOK, GatedOK, CoversOK, HandOK, [Next]_vars
             PROVE  AnswerTypeOK'
  OBVIOUS
<1> USE DEF RecallInv, PluginInv
<1>0. ASSUME UNCHANGED <<EPOCH_BY_MESSAGE_ID, LATEST_EPOCH_BY_CHAT, epochs, given, reply,
                         PENDING_ANSWERS, orphaned, raw, answerOf>>
      PROVE  AnswerTypeOK'
  BY <1>0 DEF AnswerTypeOK
<1>1. CASE UNCHANGED vars
  BY <1>0, <1>1 DEF vars, stashed, answers, service
<1>2. ASSUME NEW p \in Platforms, Register(p) PROVE AnswerTypeOK'
  BY <1>0, <1>2 DEF Register, stashed, answers, service
<1>3. ASSUME NEW m \in Messages,
             Inbound(m) \/ Lock(m) \/ Opened(m) \/ Unavailable(m) \/ GateRaises(m) \/ SocketLost(m)
      PROVE  AnswerTypeOK'
  BY <1>0, <1>3 DEF Inbound, Lock, Opened, Unavailable, GateRaises, SocketLost, stashed, answers, service
<1>4. ASSUME NEW m \in Messages, Submit(m) PROVE AnswerTypeOK'
  <2>1. Thread(m) \in Messages
    BY <1>4, SessionType DEF Submit, GatedOK, GateTypeOK, Thread
  <2>2. epochs' \in [Messages -> Nat] /\ given' \in [Messages -> Nat]
    <3>1. epochs[Thread(m)] + 1 \in Nat
      BY <2>1 DEF AnswerTypeOK
    <3> QED BY <1>4, <2>1, <3>1 DEF Submit, AnswerTypeOK
  <2> QED BY <1>4, <2>2 DEF Submit, stashed, answers, AnswerTypeOK
<1>5. ASSUME NEW m \in Messages, Decided(m) PROVE AnswerTypeOK'
  <2>1. PICK v : Stash(m, v)
    BY <1>5 DEF Decided
  <2>2. given[m] \in Nat
    BY DEF AnswerTypeOK
  <2>3. EPOCH_BY_MESSAGE_ID' \in [Messages -> Nat] /\ LATEST_EPOCH_BY_CHAT' \in [Chats -> Nat]
    BY <2>1, <2>2 DEF Stash, AnswerTypeOK
  <2> QED BY <1>5, <2>3 DEF Decided, answers, service, AnswerTypeOK
<1>6. ASSUME NEW s \in Sessions, Prompt(s) PROVE AnswerTypeOK'
  BY <1>0, <1>6 DEF Prompt, stashed, answers, service
<1>7. ASSUME NEW s \in Sessions, SESSIONS[s] # None PROVE RouteOf(s) = ChatOf[s] /\ RouteOf(s) \in Chats
  BY <1>7, RouteIsChat
<1>12. ASSUME NEW s \in Sessions, Transform(s) PROVE AnswerTypeOK'
  <2> DEFINE m == turn[s].mid
  <2>1. turn[s] # NoTurn /\ m \in Messages /\ SessionOf[m] = s
    BY <1>12 DEF Transform, NoTurn, CoversOK, AgentOK, TurnType
  <2>2. EPOCH_BY_MESSAGE_ID' \in [Messages -> Nat]
    BY <1>12 DEF Transform, AnswerTypeOK
  <2>3. CASE EPOCH_BY_MESSAGE_ID[m] = 0
    BY <1>12, <2>2, <2>3 DEF Transform, service, AnswerTypeOK
  <2>4. CASE EPOCH_BY_MESSAGE_ID[m] # 0
    <3>1. Stamp(RouteOf(s), EPOCH_BY_MESSAGE_ID[m]) \in Nat
      BY <1>7, <2>1, <2>4 DEF Stamp, AnswerTypeOK, GatedOK, Thread
    <3>2. reply' = [reply EXCEPT ![m].epoch = Stamp(RouteOf(s), EPOCH_BY_MESSAGE_ID[m])]
      BY <1>12, <2>4 DEF Transform
    <3> HIDE DEF m
    <3>3. reply' \in [Messages -> [status : Statuses, epoch : Nat]]
      BY <2>1, <3>1, <3>2 DEF AnswerTypeOK
    <3> QED BY <1>12, <2>2, <3>3 DEF Transform, service, AnswerTypeOK
  <2> QED BY <2>3, <2>4
<1>13. ASSUME NEW s \in Sessions, Mark(s) PROVE AnswerTypeOK'
  <2> DEFINE m == turn[s].mid
  <2>1. m \in Messages
    BY <1>13 DEF Mark, NoTurn, CoversOK, AgentOK, TurnType
  <2>2. RouteOf(s) \in Chats /\ TextOf[m] \in Texts
    BY <1>7, <1>13, <2>1 DEF Mark, HandOK, Texts
  <2>3. PENDING_ANSWERS' \in [Chats -> SUBSET Texts]
    <3>1. PICK c \in Chats : c = RouteOf(s)
      BY <2>2
    <3>2. \/ PENDING_ANSWERS' = PENDING_ANSWERS
          \/ PENDING_ANSWERS' = [PENDING_ANSWERS EXCEPT ![c] = @ \cup {TextOf[m]}]
      BY <1>13, <3>1 DEF Mark
    <3> QED BY <2>2, <3>2 DEF AnswerTypeOK
  <2>4. reply' \in [Messages -> [status : Statuses, epoch : Nat]]
    BY <1>13, <2>1 DEF Mark, Statuses, AnswerTypeOK
  <2> QED BY <1>13, <2>3, <2>4 DEF Mark, stashed, service, AnswerTypeOK
<1>8. ASSUME NEW s \in Sessions, SendAnswer(s) PROVE AnswerTypeOK'
  <2> DEFINE m == turn[s].mid
  <2>1. m \in Messages
    BY <1>8 DEF SendAnswer, NoTurn, CoversOK, AgentOK, TurnType
  <2>2. answerOf' \in [Messages -> Messages \cup {None}]
    BY <1>8, <2>1 DEF SendAnswer, AnswerTypeOK
  <2>3. /\ PENDING_ANSWERS' \in [Chats -> SUBSET Texts] /\ raw' \subseteq Messages
        /\ orphaned' \subseteq Messages
    <3>1. CASE Suppressed(ChatOf[s], TextOf[m])
      BY <1>8, <3>1, DiscardType DEF SendAnswer, AnswerTypeOK, Chats
    <3>2. CASE ~ Suppressed(ChatOf[s], TextOf[m])
      BY <1>8, <2>1, <3>2 DEF SendAnswer, AnswerTypeOK
    <3> QED BY <3>1, <3>2
  <2> QED BY <1>8, <2>2, <2>3 DEF SendAnswer, stashed, service, AnswerTypeOK
<1>9. ASSUME NEW m \in Messages, NEW status \in Statuses,
             reply' = [reply EXCEPT ![m].status = status]
      PROVE  reply' \in [Messages -> [status : Statuses, epoch : Nat]]
  BY <1>9 DEF AnswerTypeOK
<1>10. ASSUME NEW m \in Messages, Respond(m) \/ RespondFails(m) PROVE AnswerTypeOK'
  <2>1. reply' \in [Messages -> [status : Statuses, epoch : Nat]]
    BY <1>9, <1>10 DEF Respond, RespondFails, Statuses
  <2> QED BY <1>10, <2>1 DEF Respond, RespondFails, stashed, service, AnswerTypeOK
<1>11. ASSUME NEW m \in Messages, Forward(m) PROVE AnswerTypeOK'
  <2>1. reply' \in [Messages -> [status : Statuses, epoch : Nat]]
    BY <1>9, <1>11 DEF Forward, Statuses
  <2>2. PENDING_ANSWERS' \in [Chats -> SUBSET Texts] /\ orphaned' \subseteq Messages
    <3>1. CASE Swallowed(m)
      BY <1>11, <3>1, SessionType, DiscardType DEF Forward, AnswerTypeOK
    <3>2. CASE ~ Swallowed(m)
      BY <1>11, <3>2 DEF Forward, AnswerTypeOK
    <3> QED BY <3>1, <3>2
  <2> QED BY <1>11, <2>1, <2>2 DEF Forward, stashed, service, AnswerTypeOK
<1> QED BY <1>1, <1>2, <1>3, <1>4, <1>5, <1>6, <1>8, <1>10, <1>11, <1>12, <1>13
        DEF Next, Gate, Answer, Work

-----------------------------------------------------------------------------
(* The steps that hand an answer over and send it.                          *)

\* A turn that keeps its messages disturbs no turn's or slot's.
LEMMA CoversKept ==
  ASSUME CoversOK, NEW s \in Sessions, turn[s] # NoTurn, UNCHANGED <<slot, answerOf, stage>>,
         turn'[s].mid = turn[s].mid, turn'[s].covers = turn[s].covers, turn'[s].step # "idle",
         \A t \in Sessions \ {s} : turn'[t] = turn[t]
  PROVE  CoversOK'
<1>1. ASSUME NEW t \in Sessions
      PROVE  /\ turn'[t] # NoTurn => turn'[t].mid \in turn'[t].covers /\ turn'[t].step # "idle"
             /\ slot'[t] # NoSlot => slot'[t].mid \in slot'[t].covers
             /\ turn'[t].covers \cap slot'[t].covers = {}
             /\ \A x \in turn'[t].covers \cup slot'[t].covers :
                  SessionOf[x] = t /\ answerOf'[x] = None
  <2>1. CASE t = s
    BY <2>1 DEF CoversOK
  <2>2. CASE t # s
    BY <2>2 DEF CoversOK
  <2> QED BY <2>1, <2>2
<1> QED BY <1>1 DEF CoversOK

\* A turn's next step towards its end is such a step.
LEMMA StepCovers ==
  ASSUME WayInv, NEW s \in Sessions, turn[s] # NoTurn, NEW step \in {"draft", "mark", "send"},
         NEW r, turn' = [turn EXCEPT ![s].step = step, ![s].recall = r],
         UNCHANGED <<slot, answerOf, stage>>
  PROVE  /\ CoversOK'
         /\ turn'[s].mid = turn[s].mid /\ turn'[s].step = step
         /\ \A t \in Sessions \ {s} : turn'[t] = turn[t]
<1> USE DEF WayInv, RecallInv, PluginInv
<1>1. /\ turn'[s].mid = turn[s].mid /\ turn'[s].step = step /\ turn'[s].covers = turn[s].covers
      /\ \A t \in Sessions \ {s} : turn'[t] = turn[t]
  <2>1. turn[s] \in TurnType
    BY DEF AgentOK
  <2> QED BY <2>1 DEF AgentOK, TurnType
<1>2. step # "idle"
  OBVIOUS
<1> QED BY <1>1, <1>2, CoversKept

\* The anchor of a running turn is a message of its session nobody answered.
LEMMA Anchor ==
  ASSUME WayInv, NEW s \in Sessions, turn[s].step # "idle"
  PROVE  /\ turn[s] # NoTurn /\ turn[s].mid \in Messages /\ turn[s].mid \in turn[s].covers
         /\ SessionOf[turn[s].mid] = s /\ answerOf[turn[s].mid] = None
         /\ stage[turn[s].mid] = "agent"
<1> USE DEF WayInv, RecallInv, PluginInv
<1>1. turn[s] # NoTurn
  BY DEF NoTurn
<1>2. turn[s].mid \in turn[s].covers
  BY <1>1 DEF CoversOK
<1>3. turn[s].mid \in Messages
  BY <1>2 DEF AgentOK, TurnType
<1> QED BY <1>1, <1>2, <1>3 DEF CoversOK, AgentOK, Cleared

\* A draft is about to be handed over, or goes out as it is.
LEMMA TransformKeeps ==
  ASSUME WayInv, NEW s \in Sessions, Transform(s)
  PROVE  GatedOK' /\ CoversOK' /\ WaysOK'
<1> USE DEF WayInv, RecallInv, PluginInv
<1>0. PICK m \in Messages :
        m = turn[s].mid /\ SessionOf[m] = s /\ answerOf[m] # m /\ turn[s] # NoTurn
  <2>1. turn[s].step = "draft"
    BY DEF Transform
  <2> QED BY <2>1, Anchor, PluginAssumption
<1>1. /\ UNCHANGED <<patched, stage, SESSIONS, slot, PENDING_ANSWERS, orphaned, raw, answerOf>>
      /\ EPOCH_BY_MESSAGE_ID' = [EPOCH_BY_MESSAGE_ID EXCEPT ![m] = 0]
      /\ turn[s].step = "draft"
  BY <1>0 DEF Transform, wiring, gate
<1>2. PICK step \in {"mark", "send"} : turn' = [turn EXCEPT ![s].step = step]
  BY DEF Transform
<1>3. /\ CoversOK' /\ turn'[s].mid = m /\ turn'[s].step = step
      /\ \A t \in Sessions \ {s} : turn'[t] = turn[t]
  <2>1. turn' = [turn EXCEPT ![s].step = step, ![s].recall = turn[s].recall]
    <3>1. turn[s] \in TurnType
      BY DEF AgentOK
    <3> QED BY <1>2, <3>1 DEF AgentOK, TurnType
  <2> QED BY <1>0, <1>1, <2>1, StepCovers
<1>4. GatedOK'
  <2>1. \A x \in Messages : EPOCH_BY_MESSAGE_ID'[x] # 0 => EPOCH_BY_MESSAGE_ID[x] # 0
    BY <1>1 DEF AnswerTypeOK
  <2>2. \A x \in Messages : Thread(x)' = Thread(x)
    BY <1>1 DEF Thread
  <2> QED BY <1>1, <2>1, <2>2 DEF GatedOK
<1>5. \A x \in Messages : Handed(x)' <=> Handed(x)
  <2>1. \/ UNCHANGED reply
        \/ \E e : reply' = [reply EXCEPT ![m].epoch = e]
    BY <1>0 DEF Transform
  <2> QED BY <2>1 DEF AnswerTypeOK, Handed
<1>6. ~ Sending(m) /\ ~ Handing(m)
  BY <1>0, <1>1 DEF Sending, Handing
<1>7. m \notin raw /\ m \notin orphaned /\ ~ Handed(m)
  BY <1>0, <1>6 DEF WaysOK, WayOf
<1>8. ASSUME NEW x \in Messages, x # m PROVE (Handing(x)' <=> Handing(x)) /\ (Sending(x)' <=> Sending(x))
  <2>1. CASE SessionOf[x] = s
    BY <1>0, <1>3, <1>8, <2>1 DEF Sending, Handing
  <2>2. CASE SessionOf[x] # s
    BY <1>3, <2>2, SessionType DEF Sending, Handing
  <2> QED BY <2>1, <2>2
<1>9. ASSUME NEW x \in Messages PROVE WayOf(x)'
  <2>1. CASE x = m
    BY <1>0, <1>1, <1>5, <1>7, <2>1 DEF WayOf
  <2>2. CASE x # m
    BY <1>1, <1>5, <1>8, <2>2 DEF WaysOK, WayOf
  <2> QED BY <2>1, <2>2
<1>10. ASSUME NEW c \in Chats, NEW text \in PENDING_ANSWERS'[c] PROVE Awaited(c, text)'
  <2>1. PICK x \in Messages : Chat(x) = c /\ TextOf[x] = text /\ Sending(x) /\ Handed(x)
    BY <1>1, <1>10 DEF WaysOK, Awaited
  <2>2. Sending(x)' /\ Handed(x)'
    BY <1>5, <1>6, <1>8, <2>1
  <2> QED BY <2>1, <2>2 DEF Awaited
<1>11. WaysOK'
  BY <1>9, <1>10 DEF WaysOK
<1> QED BY <1>3, <1>4, <1>11

\* An answer is handed to the service, and its raw copy awaits suppression
\* unless the set it joins was dropped.
LEMMA MarkKeeps ==
  ASSUME TextsDiffer, WayInv, NEW s \in Sessions, Mark(s)
  PROVE  GatedOK' /\ CoversOK' /\ WaysOK'
<1> USE DEF WayInv, RecallInv, PluginInv
<1>0. PICK m \in Messages :
        m = turn[s].mid /\ SessionOf[m] = s /\ answerOf[m] # m /\ turn[s] # NoTurn
  <2>1. turn[s].step = "mark"
    BY DEF Mark
  <2> QED BY <2>1, Anchor, PluginAssumption
<1>1. /\ UNCHANGED <<patched, stage, SESSIONS, EPOCH_BY_MESSAGE_ID, slot, orphaned, raw, answerOf>>
      /\ turn[s].step = "mark" /\ turn' = [turn EXCEPT ![s].step = "send"]
      /\ reply' = [reply EXCEPT ![m].status = "task"]
  BY <1>0 DEF Mark, wiring, gate, stashed
<1>2. /\ CoversOK' /\ turn'[s].mid = m /\ turn'[s].step = "send"
      /\ \A t \in Sessions \ {s} : turn'[t] = turn[t]
  <2>1. turn' = [turn EXCEPT ![s].step = "send", ![s].recall = turn[s].recall]
    <3>1. turn[s] \in TurnType
      BY DEF AgentOK
    <3> QED BY <1>1, <3>1 DEF AgentOK, TurnType
  <2> QED BY <1>0, <1>1, <2>1, StepCovers
<1>3. GatedOK'
  BY <1>1 DEF GatedOK, Thread
<1>4. /\ Handed(m)' /\ Sending(m)' /\ ~ Sending(m) /\ ~ Handed(m) /\ m \notin raw
      /\ \A x \in Messages \ {m} : Handed(x)' <=> Handed(x)
  <2>1. Handed(m)' /\ \A x \in Messages \ {m} : Handed(x)' <=> Handed(x)
    BY <1>1 DEF AnswerTypeOK, Handed
  <2>2. Sending(m)' /\ ~ Sending(m)
    BY <1>0, <1>1, <1>2 DEF Sending
  <2> QED BY <1>0, <2>1, <2>2 DEF WaysOK, WayOf
<1>5. ASSUME NEW x \in Messages, x # m PROVE (Handing(x)' <=> Handing(x)) /\ (Sending(x)' <=> Sending(x))
  <2>1. CASE SessionOf[x] = s
    BY <1>0, <1>2, <1>5, <2>1 DEF Sending, Handing
  <2>2. CASE SessionOf[x] # s
    BY <1>2, <2>2, SessionType DEF Sending, Handing
  <2> QED BY <2>1, <2>2
<1>6. /\ RouteOf(s) = Chat(m) /\ Chat(m) \in Chats /\ "send" \in patched[Platform(m)]
  BY <1>0, <1>1, RouteIsChat DEF HandOK, Chat, Platform
<1>7. /\ PENDING_ANSWERS'[Chat(m)] = PENDING_ANSWERS[Chat(m)] \cup
                                        (IF m \in orphaned THEN {} ELSE {TextOf[m]})
      /\ \A c \in Chats \ {Chat(m)} : PENDING_ANSWERS'[c] = PENDING_ANSWERS[c]
  <2>1. PENDING_ANSWERS' = IF m \in orphaned THEN PENDING_ANSWERS
                           ELSE [PENDING_ANSWERS EXCEPT ![Chat(m)] = @ \cup {TextOf[m]}]
    BY <1>0, <1>6 DEF Mark
  <2> QED BY <1>6, <2>1 DEF AnswerTypeOK
<1>8. TextOf[m] \notin PENDING_ANSWERS[Chat(m)]
  <2> SUFFICES ASSUME TextOf[m] \in PENDING_ANSWERS[Chat(m)] PROVE FALSE
    OBVIOUS
  <2>1. PICK x \in Messages : Chat(x) = Chat(m) /\ TextOf[x] = TextOf[m] /\ Sending(x)
    BY <1>6 DEF WaysOK, Awaited
  <2> QED BY <1>4, <2>1 DEF TextsDiffer
<1>9. ASSUME NEW x \in Messages PROVE WayOf(x)'
  <2>1. CASE x = m
    <3>1. "send" \in patched'[Platform(m)] /\ answerOf'[m] # m /\ m \notin raw'
      BY <1>0, <1>1, <1>4, <1>6
    <3>2. TextOf[m] \in PENDING_ANSWERS'[Chat(m)] <=> m \notin orphaned'
      BY <1>1, <1>7, <1>8
    <3>3. m \in orphaned' =>
            \E y \in Messages : Chat(y) = Chat(m) /\ SessionOf[y] # SessionOf[m] /\ Handed(y)'
      BY <1>1, <1>4 DEF WaysOK, WayOf
    <3> QED BY <1>4, <2>1, <3>1, <3>2, <3>3 DEF WayOf
  <2>2. CASE x # m
    <3>1. TextOf[x] \in PENDING_ANSWERS'[Chat(x)] <=> TextOf[x] \in PENDING_ANSWERS[Chat(x)]
      BY <1>7, <2>2, SessionType DEF TextsDiffer
    <3>2. \A y \in Messages : Handed(y) => Handed(y)'
      BY <1>4
    <3> QED BY <1>1, <1>4, <1>5, <2>2, <3>1, <3>2 DEF WaysOK, WayOf
  <2> QED BY <2>1, <2>2
<1>10. ASSUME NEW c \in Chats, NEW text \in PENDING_ANSWERS'[c] PROVE Awaited(c, text)'
  <2>1. CASE c = Chat(m) /\ text = TextOf[m]
    BY <1>4, <2>1 DEF Awaited
  <2>2. CASE ~ (c = Chat(m) /\ text = TextOf[m])
    <3>1. text \in PENDING_ANSWERS[c]
      BY <1>7, <1>10, <2>2
    <3>2. PICK x \in Messages : Chat(x) = c /\ TextOf[x] = text /\ Sending(x) /\ Handed(x)
      BY <3>1 DEF WaysOK, Awaited
    <3>3. x # m
      BY <1>4, <3>2
    <3> QED BY <1>4, <1>5, <3>2, <3>3 DEF Awaited
  <2> QED BY <2>1, <2>2
<1>11. WaysOK'
  BY <1>9, <1>10 DEF WaysOK
<1> QED BY <1>2, <1>3, <1>11

\* The raw copy goes out, or is dropped because the service has the answer.
LEMMA SendKeeps ==
  ASSUME TextsDiffer, WayInv, NEW s \in Sessions, SendAnswer(s)
  PROVE  GatedOK' /\ CoversOK' /\ WaysOK'
<1> USE DEF WayInv, RecallInv, PluginInv
<1>0. PICK m \in Messages : /\ m = turn[s].mid /\ SessionOf[m] = s /\ answerOf[m] = None
                            /\ m \in turn[s].covers /\ stage[m] = "agent"
  <2>1. turn[s].step = "send"
    BY DEF SendAnswer
  <2> QED BY <2>1, Anchor
<1>1. /\ UNCHANGED <<patched, stage, SESSIONS, EPOCH_BY_MESSAGE_ID, reply>>
      /\ turn[s].step = "send"
      /\ answerOf' = [x \in Messages |-> IF x \in turn[s].covers THEN m ELSE answerOf[x]]
      /\ turn' = [turn EXCEPT ![s] = IF slot[s] = NoSlot THEN NoTurn
                                     ELSE Turn(slot[s].mid, slot[s].covers)]
      /\ slot' = [slot EXCEPT ![s] = NoSlot]
  BY <1>0 DEF SendAnswer, wiring, gate, stashed
<1>2. /\ turn'[s].step \notin {"mark", "send"} /\ turn'[s].covers = slot[s].covers
      /\ turn'[s] # NoTurn => turn'[s].mid \in turn'[s].covers /\ turn'[s].step # "idle"
      /\ slot'[s] = NoSlot /\ slot'[s].covers = {}
      /\ \A t \in Sessions \ {s} : turn'[t] = turn[t] /\ slot'[t] = slot[t]
  <2>1. /\ turn'[s] = IF slot[s] = NoSlot THEN NoTurn ELSE Turn(slot[s].mid, slot[s].covers)
        /\ slot'[s] = NoSlot
        /\ \A t \in Sessions \ {s} : turn'[t] = turn[t] /\ slot'[t] = slot[t]
    BY <1>1 DEF AgentOK
  <2>2. CASE slot[s] = NoSlot
    BY <2>1, <2>2 DEF NoSlot, NoTurn
  <2>3. CASE slot[s] # NoSlot
    <3>1. slot[s].mid \in slot[s].covers
      BY <2>3 DEF CoversOK
    <3> QED BY <2>1, <2>3, <3>1 DEF Turn, NoSlot
  <2> QED BY <2>1, <2>2, <2>3
<1>3. ASSUME NEW x \in Messages
      PROVE  (Sending(x)' <=> Sending(x) /\ x # m) /\ (Handing(x)' <=> Handing(x))
  <2>1. CASE SessionOf[x] = s
    BY <1>0, <1>1, <1>2, <2>1 DEF Sending, Handing
  <2>2. CASE SessionOf[x] # s
    BY <1>0, <1>2, <2>2, SessionType DEF Sending, Handing
  <2> QED BY <2>1, <2>2
<1>4. GatedOK'
  <2>1. \A x \in Messages : Thread(x)' = Thread(x)
    BY <1>1 DEF Thread
  <2> QED BY <1>1, <2>1 DEF GatedOK
<1>5. answerOf'[m] = m /\ \A x \in Messages : answerOf'[x] \in {m, answerOf[x]}
  BY <1>0, <1>1
<1>6. CoversOK'
  <2>1. ASSUME NEW t \in Sessions
        PROVE  /\ turn'[t] # NoTurn => turn'[t].mid \in turn'[t].covers /\ turn'[t].step # "idle"
               /\ slot'[t] # NoSlot => slot'[t].mid \in slot'[t].covers
               /\ turn'[t].covers \cap slot'[t].covers = {}
               /\ \A x \in turn'[t].covers \cup slot'[t].covers :
                    SessionOf[x] = t /\ answerOf'[x] = None
    <3>1. CASE t = s
      <4>1. ASSUME NEW x \in slot[s].covers PROVE SessionOf[x] = s /\ answerOf'[x] = None
        <5>1. x \notin turn[s].covers /\ x \in Messages /\ SessionOf[x] = s /\ answerOf[x] = None
          BY DEF CoversOK, AgentOK, SlotType
        <5> QED BY <1>1, <5>1
      <4> QED BY <1>2, <3>1, <4>1
    <3>2. CASE t # s
      <4>1. ASSUME NEW x \in turn[t].covers \cup slot[t].covers
            PROVE  SessionOf[x] = t /\ answerOf'[x] = None
        <5>1. x \in Messages /\ SessionOf[x] = t /\ answerOf[x] = None
          BY DEF CoversOK, AgentOK, SlotType, TurnType
        <5>2. x \notin turn[s].covers
          BY <3>2, <5>1 DEF CoversOK
        <5> QED BY <1>1, <5>1, <5>2
      <4> QED BY <1>2, <3>2, <4>1 DEF CoversOK
    <3> QED BY <3>1, <3>2
  <2>2. ASSUME NEW x \in Messages, answerOf'[x] # None
        PROVE  stage'[x] = "agent" /\ answerOf'[answerOf'[x]] = answerOf'[x]
    <3>1. CASE x \in turn[s].covers
      BY <1>1, <1>5, <3>1 DEF AgentOK, Cleared
    <3>2. CASE x \notin turn[s].covers
      <4>1. answerOf'[x] = answerOf[x]
        BY <1>1, <3>2
      <4>2. stage[x] = "agent" /\ answerOf[answerOf[x]] = answerOf[x] /\ answerOf[x] \in Messages
        BY <2>2, <4>1 DEF CoversOK, AnswerTypeOK
      <4>3. answerOf[x] \notin turn[s].covers
        BY <4>2, PluginAssumption DEF CoversOK
      <4> QED BY <1>1, <4>1, <4>2, <4>3
    <3> QED BY <3>1, <3>2
  <2> QED BY <2>1, <2>2 DEF CoversOK
<1>7. ASSUME NEW x \in Messages, x # m PROVE answerOf'[x] = x <=> answerOf[x] = x
  <2>1. answerOf[x] = x => x \notin turn[s].covers
    BY PluginAssumption DEF CoversOK
  <2> QED BY <1>1, <1>7, <2>1
<1>8. /\ Sending(m) /\ ~ Handing(m) /\ m \notin raw /\ answerOf[m] # m
      /\ \A x \in Messages : Handed(x)' <=> Handed(x)
  BY <1>0, <1>1, PluginAssumption DEF Sending, Handing, Handed, WaysOK, WayOf
<1>9. ChatOf[s] = Chat(m) /\ Chat(m) \in Chats /\ PlatformOf[ChatOf[s]] = Platform(m)
  BY <1>0, SessionType DEF Chat, Platform
<1>10. CASE Suppressed(ChatOf[s], TextOf[m])
  <2>1. raw' = raw /\ Discard(Chat(m), TextOf[m])
    BY <1>0, <1>9, <1>10 DEF SendAnswer
  <2>2. /\ PENDING_ANSWERS'[Chat(m)] = PENDING_ANSWERS[Chat(m)] \ {TextOf[m]}
        /\ \A c \in Chats \ {Chat(m)} : PENDING_ANSWERS'[c] = PENDING_ANSWERS[c]
    BY <1>9, <2>1 DEF Discard, Forget, AnswerTypeOK
  <2>3. Handed(m) /\ m \notin orphaned
    <3>1. TextOf[m] \in PENDING_ANSWERS[Chat(m)]
      BY <1>9, <1>10 DEF Suppressed
    <3>2. PICK x \in Messages : Chat(x) = Chat(m) /\ TextOf[x] = TextOf[m] /\ Handed(x)
      BY <1>9, <3>1 DEF WaysOK, Awaited
    <3> QED BY <1>8, <3>1, <3>2 DEF TextsDiffer, WaysOK, WayOf
  <2>4. ASSUME NEW x \in Messages, x \in orphaned', x \notin orphaned
        PROVE  Handing(x) /\ Chat(x) = Chat(m) /\ SessionOf[x] # SessionOf[m] /\ x # m
    <3>1. PICK t \in Sessions : x = turn[t].mid /\ ChatOf[t] = Chat(m) /\ turn[t].step = "mark"
      BY <2>1, <2>4 DEF Discard, Orphans
    <3>2. SessionOf[x] = t
      BY <3>1, Anchor
    <3> QED BY <1>0, <1>1, <3>1, <3>2 DEF Handing, Chat
  <2>5. \A x \in Messages : x \in orphaned => x \in orphaned'
    BY <2>1 DEF Discard
  <2>6. ASSUME NEW x \in Messages PROVE WayOf(x)'
    <3>1. CASE x = m
      <4>1. m \notin orphaned'
        BY <2>3, <2>4
      <4> QED BY <1>3, <1>5, <1>8, <2>1, <2>3, <3>1, <4>1 DEF WayOf
    <3>2. CASE x # m
      <4>1. WayOf(x)
        BY DEF WaysOK
      <4>2. /\ (answerOf'[x] = x <=> answerOf[x] = x) /\ raw' = raw /\ patched' = patched
            /\ (Handed(x)' <=> Handed(x)) /\ (Sending(x)' <=> Sending(x))
            /\ (Handing(x)' <=> Handing(x))
        BY <1>1, <1>3, <1>7, <1>8, <2>1, <3>2
      <4>3. TextOf[x] \in PENDING_ANSWERS'[Chat(x)] <=> TextOf[x] \in PENDING_ANSWERS[Chat(x)]
        BY <2>2, <3>2, SessionType DEF TextsDiffer
      <4>4. CASE x \in orphaned' <=> x \in orphaned
        <5>1. x \in orphaned =>
                \E y \in Messages : Chat(y) = Chat(x) /\ SessionOf[y] # SessionOf[x] /\ Handed(y)'
          BY <1>8, <4>1 DEF WayOf
        <5> QED BY <4>1, <4>2, <4>3, <4>4, <5>1 DEF WayOf
      <4>5. CASE x \in orphaned' /\ x \notin orphaned
        <5>1. Handing(x) /\ Chat(x) = Chat(m) /\ SessionOf[x] # SessionOf[m]
          BY <2>4, <4>5
        <5>2. ~ Sending(x)
          BY <5>1 DEF Handing, Sending
        <5>3. answerOf[x] # x
          <6>1. turn[SessionOf[x]].step # "idle"
            BY <5>1 DEF Handing
          <6>2. answerOf[turn[SessionOf[x]].mid] = None
            BY <6>1, SessionType, Anchor
          <6> QED BY <5>1, <6>2, PluginAssumption DEF Handing
        <5>4. \E y \in Messages : Chat(y) = Chat(x) /\ SessionOf[y] # SessionOf[x] /\ Handed(y)'
          BY <1>8, <2>3, <5>1
        <5> QED BY <4>1, <4>2, <5>1, <5>2, <5>3, <5>4 DEF WayOf
      <4> QED BY <2>5, <4>4, <4>5
    <3> QED BY <3>1, <3>2
  <2>7. ASSUME NEW c \in Chats, NEW text \in PENDING_ANSWERS'[c] PROVE Awaited(c, text)'
    <3>1. text \in PENDING_ANSWERS[c] /\ ~ (c = Chat(m) /\ text = TextOf[m])
      BY <2>2, <2>7
    <3>2. PICK x \in Messages : Chat(x) = c /\ TextOf[x] = text /\ Sending(x) /\ Handed(x)
      BY <3>1 DEF WaysOK, Awaited
    <3> QED BY <1>3, <1>8, <3>1, <3>2 DEF Awaited
  <2>8. WaysOK'
    BY <2>6, <2>7 DEF WaysOK
  <2> QED BY <1>4, <1>6, <2>8
<1>11. CASE ~ Suppressed(ChatOf[s], TextOf[m])
  <2>1. raw' = raw \cup {m} /\ PENDING_ANSWERS' = PENDING_ANSWERS /\ orphaned' = orphaned
    BY <1>0, <1>11 DEF SendAnswer
  <2>2. Handed(m) <=> m \in orphaned
    <3>1. "send" \in patched[Platform(m)] => TextOf[m] \notin PENDING_ANSWERS[Chat(m)]
      BY <1>9, <1>11 DEF Suppressed
    <3> QED BY <1>8, <3>1 DEF WaysOK, WayOf
  <2>3. ASSUME NEW x \in Messages PROVE WayOf(x)'
    <3>1. WayOf(x)
      BY DEF WaysOK
    <3>2. x \in orphaned =>
            \E y \in Messages : Chat(y) = Chat(x) /\ SessionOf[y] # SessionOf[x] /\ Handed(y)'
      BY <1>8, <3>1 DEF WayOf
    <3>3. CASE x = m
      BY <1>3, <1>5, <1>8, <2>1, <2>2, <3>2, <3>3 DEF WayOf
    <3>4. CASE x # m
      <4>1. /\ (answerOf'[x] = x <=> answerOf[x] = x) /\ (x \in raw' <=> x \in raw)
            /\ patched' = patched /\ (Handed(x)' <=> Handed(x)) /\ (Sending(x)' <=> Sending(x))
            /\ (Handing(x)' <=> Handing(x))
        BY <1>1, <1>3, <1>7, <1>8, <2>1, <3>4
      <4> QED BY <2>1, <3>1, <3>2, <4>1 DEF WayOf
    <3> QED BY <3>3, <3>4
  <2>4. ASSUME NEW c \in Chats, NEW text \in PENDING_ANSWERS'[c] PROVE Awaited(c, text)'
    <3>1. text \in PENDING_ANSWERS[c]
      BY <2>1, <2>4
    <3>2. PICK x \in Messages : Chat(x) = c /\ TextOf[x] = text /\ Sending(x) /\ Handed(x)
      BY <3>1 DEF WaysOK, Awaited
    <3>3. x # m
      <4> SUFFICES ASSUME x = m PROVE FALSE
        OBVIOUS
      <4>1. WayOf(m)
        BY DEF WaysOK
      <4> QED BY <2>2, <3>1, <3>2, <4>1 DEF WayOf
    <3> QED BY <1>3, <1>8, <3>2, <3>3 DEF Awaited
  <2>5. WaysOK'
    BY <2>3, <2>4 DEF WaysOK
  <2> QED BY <1>4, <1>6, <2>5
<1> QED BY <1>10, <1>11

\* Before the first message nothing awaits its raw send.
LEMMA WayInitInv == Init => WayInv
<1> SUFFICES ASSUME Init PROVE WayInv
  OBVIOUS
<1>1. AnswerTypeOK
  BY DEF Init, AnswerTypeOK, NoReply, Statuses
<1>2. GatedOK
  BY DEF Init, GatedOK
<1>3. CoversOK
  BY DEF Init, CoversOK, NoTurn, NoSlot
<1>4. HandOK
  BY DEF Init, HandOK, NoTurn
<1>5. ASSUME NEW m \in Messages PROVE WayOf(m)
  <2>1. ~ Sending(m) /\ ~ Handed(m) /\ m \notin raw /\ m \notin orphaned /\ answerOf[m] # m
    BY SessionType, PluginAssumption DEF Init, Sending, Handed, NoReply, NoTurn
  <2> QED BY <2>1 DEF WayOf
<1>6. WaysOK
  BY <1>5 DEF Init, WaysOK
<1> QED BY <1>1, <1>2, <1>3, <1>4, <1>6, RecallInitInv DEF WayInv

\* Only a draft of a turn that was told to speak starts to hand an answer over.
LEMMA HandStep == WayInv /\ [Next]_vars => HandOK'
<1> SUFFICES ASSUME WayInv, [Next]_vars PROVE HandOK'
  OBVIOUS
<1> USE DEF WayInv, RecallInv, PluginInv
<1> DEFINE Grows == /\ \A s \in Sessions : SESSIONS[s] # None => SESSIONS'[s] # None
                    /\ \A p \in Platforms : "send" \in patched[p] => "send" \in patched'[p]
           Told(s) == SESSIONS[s] # None /\ "send" \in patched[PlatformOf[ChatOf[s]]]
<1>1. Grows
  <2>1. ASSUME UNCHANGED <<SESSIONS, patched>> PROVE Grows
    BY <2>1
  <2>2. CASE UNCHANGED vars
    BY <2>1, <2>2 DEF vars, gate, wiring
  <2>3. ASSUME NEW q \in Platforms, Register(q) PROVE Grows
    <3>1. "send" \in Surface[q]
      <4>1. q \in DOMAIN Surface
        BY PluginAssumption DEF Platforms
      <4> QED BY <4>1 DEF Surface, WhatsApp, Telegram, Slack, Discord
    <3> QED BY <2>3, <3>1 DEF Register, gate, WiringOK
  <2>4. ASSUME NEW m \in Messages, Opened(m) PROVE Grows
    <3>1. m # None
      BY PluginAssumption
    <3> QED BY <2>4, <3>1 DEF Opened, wiring, GateTypeOK
  <2>5. ASSUME NEW m \in Messages, Inbound(m) \/ Lock(m) \/ Submit(m) \/ Decided(m)
                 \/ Unavailable(m) \/ GateRaises(m) \/ Answer(m) \/ SocketLost(m)
        PROVE  Grows
    BY <2>1, <2>5 DEF Inbound, Lock, Submit, Decided, Unavailable, GateRaises, Answer, Respond,
                      RespondFails, Forward, SocketLost, gate, wiring
  <2>6. ASSUME NEW s \in Sessions, Work(s) PROVE Grows
    BY <2>1, <2>6 DEF Work, Prompt, Transform, Mark, SendAnswer, gate, wiring
  <2> QED BY <2>2, <2>3, <2>4, <2>5, <2>6 DEF Next, Gate
<1>2. ASSUME NEW s \in Sessions, turn'[s].step = "mark" PROVE Told(s)
  <2>0. ASSUME turn[s].step = "mark" PROVE Told(s)
    BY <2>0 DEF HandOK
  <2>1. CASE UNCHANGED turn
    BY <1>2, <2>0, <2>1
  <2>2. ASSUME NEW m \in Messages, ToAgent(m) PROVE turn[s].step = "mark"
    <3>1. CASE turn' = [turn EXCEPT ![SessionOf[m]] = Turn(m, {m})]
      BY <1>2, <3>1, SessionType DEF AgentOK, Turn
    <3>2. CASE turn' = [turn EXCEPT ![SessionOf[m]].covers = @ \cup {m}]
      BY <1>2, <3>2, SessionType DEF AgentOK, TurnType
    <3>3. CASE UNCHANGED turn
      BY <1>2, <3>3
    <3> QED BY <2>2, <3>1, <3>2, <3>3 DEF ToAgent
  <2>3. ASSUME NEW t \in Sessions, Work(t), turn[s].step # "mark" PROVE Told(s)
    <3>1. s = t /\ Transform(t) /\ EPOCH_BY_MESSAGE_ID[turn[t].mid] # 0
      <4>1. CASE Prompt(t)
        BY <1>2, <2>3, <4>1 DEF Prompt, AgentOK, TurnType
      <4>2. CASE Transform(t)
        BY <1>2, <2>3, <4>2 DEF Transform, AgentOK, TurnType
      <4>3. CASE Mark(t)
        BY <1>2, <2>3, <4>3 DEF Mark, AgentOK, TurnType
      <4>4. CASE SendAnswer(t)
        BY <1>2, <2>3, <4>4 DEF SendAnswer, AgentOK, TurnType, Turn, NoTurn
      <4> QED BY <2>3, <4>1, <4>2, <4>3, <4>4 DEF Work
    <3>2. turn[s].mid \in Messages /\ SessionOf[turn[s].mid] = s
      <4>1. turn[s].step # "idle"
        BY <3>1 DEF Transform
      <4> QED BY <4>1, Anchor
    <3> QED BY <3>1, <3>2 DEF GatedOK, Thread, Platform, Chat
  <2>4. ASSUME NEW m \in Messages, Inbound(m) \/ Decided(m) \/ Unavailable(m) \/ GateRaises(m)
        PROVE  UNCHANGED turn \/ ToAgent(m)
    BY <2>4 DEF Inbound, Decided, Unavailable, GateRaises, Leave, Settle, Dispatch, Observe, agent
  <2>5. ASSUME NEW m \in Messages,
               Lock(m) \/ Opened(m) \/ Submit(m) \/ Answer(m) \/ SocketLost(m)
        PROVE  UNCHANGED turn
    BY <2>5 DEF Lock, Opened, Submit, Answer, Respond, RespondFails, Forward, SocketLost, agent
  <2>6. ASSUME NEW q \in Platforms, Register(q) PROVE UNCHANGED turn
    BY <2>6 DEF Register, agent
  <2> QED BY <2>0, <2>1, <2>2, <2>3, <2>4, <2>5, <2>6 DEF Next, Gate, vars, agent
<1>3. \A s \in Sessions : PlatformOf[ChatOf[s]] \in Platforms
  BY DEF Platforms, Chats
<1> QED BY <1>1, <1>2, <1>3 DEF HandOK

\* No step of the gate, a turn, the service or a socket breaks it.
LEMMA WayStepInv == TextsDiffer /\ WayInv /\ [Next]_vars => WayInv'
<1> SUFFICES ASSUME TextsDiffer, WayInv, [Next]_vars PROVE GatedOK' /\ CoversOK' /\ WaysOK'
  BY RecallStepInv, AnswerTypeStep, HandStep DEF WayInv
<1> USE DEF WayInv, RecallInv, PluginInv
<1>0. ASSUME UNCHANGED <<stage, SESSIONS, EPOCH_BY_MESSAGE_ID, patched>> PROVE GatedOK'
  BY <1>0 DEF GatedOK, Thread
<1>1. ASSUME UNCHANGED <<stage, turn, slot, answerOf>> PROVE CoversOK' /\ SameEnds
  BY <1>1 DEF CoversOK, Sending, Handing, SameEnds
<1>12. ASSUME UNCHANGED reply PROVE \A x \in Messages : Handed(x)' <=> Handed(x)
  BY <1>12 DEF Handed
<1>2. CASE UNCHANGED vars
  <2>1. UNCHANGED <<stage, SESSIONS, EPOCH_BY_MESSAGE_ID, patched, turn, slot,
                    PENDING_ANSWERS, orphaned, reply, raw, answerOf>>
    BY <1>2 DEF vars, wiring, gate, stashed, agent, answers
  <2> QED BY <1>0, <1>1, <1>12, <2>1, WaysKept
<1>3. ASSUME NEW p \in Platforms, Register(p) PROVE GatedOK' /\ CoversOK' /\ WaysOK'
  <2>1. UNCHANGED <<stage, SESSIONS, EPOCH_BY_MESSAGE_ID, turn, slot,
                    PENDING_ANSWERS, orphaned, reply, raw, answerOf>>
        /\ patched' = [patched EXCEPT ![p] = Surface[p]]
    BY <1>3 DEF Register, gate, stashed, agent, answers
  <2>2. "send" \in Surface[p]
    <3>1. p \in DOMAIN Surface
      BY PluginAssumption DEF Platforms
    <3> QED BY <3>1 DEF Surface, WhatsApp, Telegram, Slack, Discord
  <2>3. \A q \in Platforms : /\ "send" \in patched[q] => "send" \in patched'[q]
                             /\ patched'[q] # {} => "send" \in patched'[q]
    BY <2>1, <2>2 DEF WiringOK, GatedOK
  <2>4. GatedOK'
    <3>1. \A x \in Messages : Platform(x) \in Platforms
      BY SessionType DEF Platform, Platforms
    <3> QED BY <2>1, <2>3, <3>1 DEF GatedOK, Thread
  <2> QED BY <1>1, <1>12, <2>1, <2>3, <2>4, WaysKept
<1>4. ASSUME NEW m \in Messages, Inbound(m) PROVE GatedOK' /\ CoversOK' /\ WaysOK'
  <2>1. UNCHANGED <<wiring, SESSIONS, answers, EPOCH_BY_MESSAGE_ID>> /\ stage[m] \in Gating
    BY <1>4 DEF Inbound, stashed, Gating
  <2>2. CASE Settle(m, "ungated")
    BY <2>1, <2>2, WayOutOfGate
  <2>3. CASE /\ Entry(m) \in patched[Platform(m)]
             /\ stage' = [stage EXCEPT ![m] = IF Thread(m) = None THEN "lock" ELSE "submit"]
             /\ UNCHANGED agent
    <3>1. CoversOK' /\ WaysOK'
      BY <2>1, <2>3, WithinGate DEF wiring
    <3>2. "send" \in patched[Platform(m)]
      <4>1. Platform(m) \in Platforms
        BY SessionType DEF Platform, Platforms
      <4> QED BY <2>3, <4>1 DEF GatedOK
    <3>3. /\ stage'[m] = IF Thread(m) = None THEN "lock" ELSE "submit"
          /\ \A x \in Messages \ {m} : stage'[x] = stage[x]
      BY <2>3 DEF GateTypeOK
    <3>4. \A x \in Messages : Thread(x)' = Thread(x)
      BY <2>1 DEF Thread
    <3>5. GatedOK'
      BY <2>1, <3>2, <3>3, <3>4 DEF GatedOK, wiring
    <3> QED BY <3>1, <3>5
  <2> QED BY <1>4, <2>2, <2>3 DEF Inbound, Leave
<1>5. ASSUME NEW m \in Messages, Lock(m) \/ Opened(m) \/ Submit(m)
      PROVE  GatedOK' /\ CoversOK' /\ WaysOK'
  <2>1. /\ UNCHANGED <<wiring, agent, answers, EPOCH_BY_MESSAGE_ID>> /\ stage[m] \in Gating
        /\ stage[m] \in {"lock", "opening", "submit"}
    BY <1>5 DEF Lock, Opened, Submit, stashed, Gating
  <2>2. PICK step : stage' = [stage EXCEPT ![m] = step]
    BY <1>5 DEF Lock, Opened, Submit
  <2>3. CoversOK' /\ WaysOK'
    BY <2>1, <2>2, WithinGate DEF wiring
  <2>4. \A x \in Messages \ {m} : stage'[x] = stage[x]
    BY <2>2 DEF GateTypeOK
  <2>5. /\ stage'[m] \in {"submit", "deciding"} => Thread(m)' # None
        /\ \A x \in Messages : Thread(x) # None => Thread(x)' # None
    <3>1. CASE Lock(m)
      BY <3>1 DEF Lock, GateTypeOK, Thread
    <3>2. CASE Opened(m)
      <4>1. \A x \in Messages : SessionOf[x] \in Sessions
        BY SessionType
      <4> QED BY <3>2, <4>1, PluginAssumption DEF Opened, GateTypeOK, Thread
    <3>3. CASE Submit(m)
      BY <3>3 DEF Submit, GatedOK, Thread
    <3> QED BY <1>5, <3>1, <3>2, <3>3
  <2>6. GatedOK'
    BY <2>1, <2>4, <2>5, GatedKept DEF GatedOK, wiring
  <2> QED BY <2>3, <2>6
<1>6. ASSUME NEW m \in Messages, Decided(m) \/ Unavailable(m) \/ GateRaises(m)
      PROVE  GatedOK' /\ CoversOK' /\ WaysOK'
  <2>1. stage[m] \in Gating /\ UNCHANGED <<wiring, SESSIONS, answers>>
    BY <1>6 DEF Decided, Unavailable, GateRaises, Gating
  <2>2. PICK v : Settle(m, v)
    BY <1>6 DEF Decided, Unavailable, GateRaises, Leave
  <2>3. \A x \in Messages : EPOCH_BY_MESSAGE_ID'[x] # 0 =>
          EPOCH_BY_MESSAGE_ID[x] # 0 \/ stage[x] = "deciding"
    <3>1. CASE UNCHANGED EPOCH_BY_MESSAGE_ID
      BY <3>1
    <3>2. CASE stage[m] = "deciding" /\ EPOCH_BY_MESSAGE_ID' = [EPOCH_BY_MESSAGE_ID EXCEPT ![m] = given[m]]
      BY <3>2 DEF AnswerTypeOK
    <3> QED BY <1>6, <3>1, <3>2 DEF Decided, Stash, Unavailable, GateRaises, stashed
  <2> QED BY <2>1, <2>2, <2>3, WayOutOfGate
<1>7. ASSUME NEW s \in Sessions, Prompt(s) PROVE GatedOK' /\ CoversOK' /\ WaysOK'
  <2>1. /\ UNCHANGED <<patched, stage, SESSIONS, EPOCH_BY_MESSAGE_ID, slot,
                       PENDING_ANSWERS, orphaned, reply, raw, answerOf>>
        /\ turn[s].step = "prompt"
        /\ turn' = [turn EXCEPT ![s].step = "draft", ![s].recall = MEMORY_BY_SESSION[s]]
    BY <1>7 DEF Prompt, wiring, gate, stashed, answers
  <2>2. turn[s] # NoTurn
    BY <2>1 DEF NoTurn
  <2>3. /\ CoversOK' /\ turn'[s].mid = turn[s].mid /\ turn'[s].step = "draft"
        /\ \A t \in Sessions \ {s} : turn'[t] = turn[t]
    BY <2>1, <2>2, StepCovers
  <2>4. SameEnds
    <3> SUFFICES ASSUME NEW x \in Messages
                 PROVE  (Handing(x)' <=> Handing(x)) /\ (Sending(x)' <=> Sending(x))
      BY DEF SameEnds
    <3>1. CASE SessionOf[x] = s
      BY <2>1, <2>3, <3>1 DEF Sending, Handing
    <3>2. CASE SessionOf[x] # s
      BY <2>3, <3>2, SessionType DEF Sending, Handing
    <3> QED BY <3>1, <3>2
  <2> QED BY <1>0, <1>12, <2>1, <2>3, <2>4, WaysKept
<1>8. ASSUME NEW s \in Sessions, Transform(s) PROVE GatedOK' /\ CoversOK' /\ WaysOK'
  BY <1>8, TransformKeeps
<1>13. ASSUME NEW s \in Sessions, Mark(s) PROVE GatedOK' /\ CoversOK' /\ WaysOK'
  BY <1>13, MarkKeeps
<1>9. ASSUME NEW s \in Sessions, SendAnswer(s) PROVE GatedOK' /\ CoversOK' /\ WaysOK'
  BY <1>9, SendKeeps
<1>10. ASSUME NEW m \in Messages, Answer(m) PROVE GatedOK' /\ CoversOK' /\ WaysOK'
  <2>1. UNCHANGED <<stage, SESSIONS, EPOCH_BY_MESSAGE_ID, patched, turn, slot, raw, answerOf>>
    BY <1>10 DEF Answer, Respond, RespondFails, Forward, wiring, gate, stashed, agent
  <2>2. UNCHANGED <<PENDING_ANSWERS, orphaned>>
    <3>1. ~ Swallowed(m)
      <4>1. Platform(m) \in Platforms
        BY SessionType DEF Platform, Platforms
      <4> QED BY <4>1 DEF Swallowed, WiringOK
    <3> QED BY <1>10, <3>1 DEF Answer, Respond, RespondFails, Forward
  <2>3. PICK status : reply[m].status # "none" /\ status # "none"
                      /\ reply' = [reply EXCEPT ![m].status = status]
    BY <1>10 DEF Answer, Respond, RespondFails, Forward
  <2>4. \A x \in Messages : Handed(x)' <=> Handed(x)
    BY <2>3 DEF AnswerTypeOK, Handed
  <2> QED BY <1>0, <1>1, <2>1, <2>2, <2>4, WaysKept
<1>11. ASSUME NEW m \in Messages, SocketLost(m) PROVE GatedOK' /\ CoversOK' /\ WaysOK'
  <2>1. UNCHANGED <<stage, SESSIONS, EPOCH_BY_MESSAGE_ID, patched, turn, slot,
                    PENDING_ANSWERS, orphaned, reply, raw, answerOf>>
    BY <1>11 DEF SocketLost, wiring, gate, stashed, agent, answers
  <2> QED BY <1>0, <1>1, <1>12, <2>1, WaysKept
<1> QED BY <1>2, <1>3, <1>4, <1>5, <1>6, <1>7, <1>8, <1>9, <1>10, <1>11, <1>13
        DEF Next, Gate, Work

\* Whatever sessions share a chat, however their turns, the loop and the
\* worker threads interleave and whatever fails, the answer of a finished turn
\* left raw or through the service, and both ways only if another session of
\* the chat handed over an answer of its own, provided no two answers of a
\* chat have the same text.
THEOREM AnswersLeaveOnce ==
  ASSUME TextsDiffer
  PROVE  Spec => []ExactlyOneWay
<1>1. WayInv => ExactlyOneWay
  <2> SUFFICES ASSUME WayInv, NEW m \in Messages, NEW x \in Messages, m = answerOf[x]
               PROVE  /\ m \in raw \/ Handed(m)
                      /\ m \in raw /\ Handed(m) <=> m \in orphaned
                      /\ m \in orphaned =>
                           \E y \in Messages :
                             Chat(y) = Chat(m) /\ SessionOf[y] # SessionOf[m] /\ Handed(y)
    BY DEF ExactlyOneWay, Handed
  <2>1. answerOf[m] = m
    BY PluginAssumption DEF WayInv, CoversOK
  <2> QED BY <2>1 DEF WayInv, WaysOK, WayOf
<1>2. WayInv /\ [Next]_vars => WayInv'
  BY WayStepInv
<1> QED BY <1>1, <1>2, WayInitInv, PTL DEF Spec
=============================================================================
