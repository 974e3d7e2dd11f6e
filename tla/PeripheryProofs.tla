--------------------------- MODULE PeripheryProofs ---------------------------
(***************************************************************************)
(* What TLAPS proves of the parts that share no state with one another,    *)
(* each over its own variables.  Of the plugin: the automatic enhancement  *)
(* asks the service at most once, card refreshes neither pile up nor wedge *)
(* a session, no cooldown hides an outage, the core settings are recorded  *)
(* when they are right, and links do not compete.  Of the tools: replies   *)
(* are mirrored in step, and the sink loads what the proxy wrote.  Of the  *)
(* service: a reply's bubbles say the whole draft.                         *)
(***************************************************************************)
EXTENDS Link, Soul, Cards, Notices, Autoconf, Shadow, Sink, Bubbles,
        SequenceTheorems, FiniteSetTheorems, Induction, TLAPS

-----------------------------------------------------------------------------
(* Soul, over any number of boots and crashes.  The marker is what carries *)
(* an attempt from one process to the next: as long as it is absent        *)
(* nothing was asked, and only the attempt that created it goes on.        *)

Steps == {"rest", "read", "poll", "backup", "rewrite", "succeeded", "failed"}

TextType == [of : Nat, enhanced : BOOLEAN]

SoulTypeOK ==
  /\ work \in [Enhancers -> [step : Steps, raw : TextType]]
  /\ asked \in Nat /\ edits \in Nat
  /\ soulMd \in TextType

\* Nothing was asked without the marker, nor before the attempt has read the
\* file; the attempt says it succeeded only after its rewrite.
AttemptOK ==
  /\ marker = "absent" => asked = 0
  /\ work["auto"].step = "read" => asked = 0
  /\ work["auto"].step = "succeeded" => rewrote
  /\ booting => work["auto"].step = "rest"

SoulInv == SoulTypeOK /\ AttemptOK /\ AutoOnce

\* The invariant holds at the first boot.
LEMMA SoulInitInv == SoulInit => SoulInv
<1> SUFFICES ASSUME SoulInit PROVE SoulInv
  OBVIOUS
<1>1. Version(0) \in TextType /\ Version(1) \in TextType
  BY DEF Version, TextType
<1>2. soulMd \in TextType /\ edits \in Nat
  BY <1>1 DEF SoulInit, TextType
<1>3. AtRest \in [step : Steps, raw : TextType] /\ AtRest.step = "rest"
  BY <1>1 DEF AtRest, Steps
<1>4. work \in [Enhancers -> [step : Steps, raw : TextType]] /\ work["auto"].step = "rest"
  BY <1>3 DEF SoulInit, Enhancers
<1> QED BY <1>2, <1>4 DEF SoulInit, SoulInv, SoulTypeOK, AttemptOK, AutoOnce

\* No step of the user, an enhancer or a boot breaks it.
LEMMA SoulStepInv == SoulInv /\ [SoulNext]_soulVars => SoulInv'
<1> SUFFICES ASSUME SoulInv, [SoulNext]_soulVars PROVE SoulInv'
  OBVIOUS
<1> USE DEF SoulInv, SoulTypeOK, AttemptOK, AutoOnce
<1>0. CASE UNCHANGED soulVars
  BY <1>0 DEF soulVars
<1>1. ASSUME Edit PROVE SoulInv'
  <2>1. soulMd' \in TextType
    BY <1>1 DEF Edit, Version, TextType
  <2> QED BY <1>1, <2>1 DEF Edit
<1>2. ASSUME AutoEnhance PROVE SoulInv'
  BY <1>2 DEF AutoEnhance, Claim, Steps, Enhancers
<1>3. ASSUME Command PROVE SoulInv'
  BY <1>3 DEF Command, Steps, Enhancers
<1>4. ASSUME Record PROVE SoulInv'
  BY <1>4 DEF Record, AtRest, Version, TextType, Steps, Enhancers
<1>5. ASSUME SoulRestart PROVE SoulInv'
  BY <1>5 DEF SoulRestart, AtRest, Version, TextType, Steps, Enhancers
<1>6. ASSUME NEW w \in Enhancers, Read(w) PROVE SoulInv'
  BY <1>6 DEF Read, GivenUp, Steps, Enhancers
<1>7. ASSUME NEW w \in Enhancers, EnhanceEnds(w) PROVE SoulInv'
  BY <1>7 DEF EnhanceEnds, GivenUp, Steps, Enhancers
<1>8. ASSUME NEW w \in Enhancers, Backup(w) PROVE SoulInv'
  BY <1>8 DEF Backup, GivenUp, Steps, Enhancers
<1>9. ASSUME NEW w \in Enhancers, Rewrite(w) PROVE SoulInv'
  <2>1. Enhanced(work[w].raw) \in TextType
    BY DEF Enhanced, TextType
  <2>2. SoulTypeOK'
    BY <1>9, <2>1 DEF Rewrite, GivenUp, Steps, Enhancers
  <2>3. CASE w = "auto"
    <3>1. /\ work["auto"].step = "rewrite" /\ marker = "pending" /\ ~ booting
          /\ UNCHANGED <<marker, booting, asked>>
      BY <1>9, <2>3 DEF Rewrite, Enhancers
    <3>2. \/ work'["auto"].step = "succeeded" /\ rewrote'
          \/ work'["auto"].step = "failed"
      BY <1>9, <2>3 DEF Rewrite, GivenUp, Enhancers
    <3> QED BY <2>2, <3>1, <3>2
  <2>4. CASE w # "auto"
    <3>a. \E st : work' = [work EXCEPT ![w].step = st]
      BY <1>9 DEF Rewrite
    <3>b. work'["auto"] = work["auto"]
      BY <2>4, <3>a DEF Enhancers
    <3>c. rewrote' = rewrote \/ rewrote' = (rewrote \/ w = "auto")
      BY <1>9 DEF Rewrite
    <3>1. work'["auto"] = work["auto"] /\ (rewrote => rewrote')
      BY <3>b, <3>c
    <3>2. UNCHANGED <<marker, booting, asked>>
      BY <1>9 DEF Rewrite
    <3> QED BY <2>2, <3>1, <3>2
  <2> QED BY <2>3, <2>4
<1> QED BY <1>0, <1>1, <1>2, <1>3, <1>4, <1>5, <1>6, <1>7, <1>8, <1>9 DEF SoulNext

\* One automatic attempt per SOUL.md, and a marker that tells its outcome.
THEOREM AtMostOneAttempt == SoulSpec => []AutoOnce
<1>1. SoulInv => AutoOnce
  BY DEF SoulInv
<1> QED BY <1>1, SoulInitInv, SoulStepInv, PTL DEF SoulSpec

-----------------------------------------------------------------------------
(* Cards, for any sessions, keys and refresh period.                        *)

CardsOf  == [Keys -> CardTexts \cup {"none"}]
DiskType == [cache : CardsOf, counter : [CardSessions -> Nat]]

CardsTypeOK ==
  /\ perSession \in BOOLEAN
  /\ cache \in CardsOf
  /\ counter \in [CardSessions -> Nat]
  /\ disk \in DiskType
  /\ REFRESHING \subseteq CardSessions
  /\ fetching \in [CardSessions -> Nat]
  /\ leaving \in [CardSessions -> Nat]

CardsInv == CardsTypeOK /\ CardsSound

\* The invariant holds when the module is first imported.
LEMMA CardsInitInv == CardsInit => CardsInv
<1> SUFFICES ASSUME CardsInit PROVE CardsInv
  OBVIOUS
<1>1. cache \in CardsOf /\ counter \in [CardSessions -> Nat]
  BY DEF CardsInit, CardsOf
<1>2. disk.cache = cache /\ disk \in DiskType
  BY <1>1 DEF CardsInit, DiskType
<1>3. CardsTypeOK /\ OneRefresh
  BY <1>1, <1>2 DEF CardsInit, CardsTypeOK, OneRefresh
<1> QED BY <1>2, <1>3 DEF CardsInv, CardsSound, CardsKept

\* A spawn takes the guard of a session without a thread, or does nothing.
LEMMA SpawnInv ==
  ASSUME CardsInv, NEW s \in CardSessions, Spawn(s), UNCHANGED leaving
  PROVE  /\ REFRESHING' \subseteq CardSessions
         /\ fetching' \in [CardSessions -> Nat]
         /\ OneRefresh'
<1> USE DEF CardsInv, CardsTypeOK, CardsSound
<1>1. CASE s \in REFRESHING
  BY <1>1 DEF OneRefresh, Spawn
<1>2. CASE s \notin REFRESHING
  <2>1. /\ REFRESHING' = REFRESHING \cup {s}
        /\ fetching' = [fetching EXCEPT ![s] = @ + 1]
    BY <1>2 DEF Spawn
  <2>2. fetching[s] = 0 /\ leaving[s] = 0
    BY <1>2 DEF OneRefresh
  <2>3. fetching' \in [CardSessions -> Nat]
    BY <2>1
  <2>4. ASSUME NEW t \in CardSessions
        PROVE  fetching'[t] + leaving'[t] = IF t \in REFRESHING' THEN 1 ELSE 0
    BY <2>1, <2>2, <2>4 DEF OneRefresh
  <2> QED BY <2>1, <2>3, <2>4 DEF OneRefresh
<1> QED BY <1>1, <1>2

\* No step of a turn, a refresh thread or a restart breaks it.
LEMMA CardsStepInv == CardsInv /\ [CardsNext]_cardVars => CardsInv'
<1> SUFFICES ASSUME CardsInv, [CardsNext]_cardVars PROVE CardsInv'
  OBVIOUS
<1> USE DEF CardsInv, CardsSound
<1>0. CASE UNCHANGED cardVars
  BY <1>0 DEF cardVars, threads, CardsTypeOK, OneRefresh, CardsKept
<1>1. ASSUME NEW s \in CardSessions, CardTurn(s) PROVE CardsInv'
  <2>1. CASE Spawn(s)
    BY <1>1, <2>1, SpawnInv DEF CardTurn, CardsTypeOK, CardsKept
  <2>2. CASE UNCHANGED <<REFRESHING, fetching>>
    BY <1>1, <2>2 DEF CardTurn, CardsTypeOK, OneRefresh, CardsKept
  <2> QED BY <1>1, <2>1, <2>2 DEF CardTurn
<1>2. ASSUME NEW s \in CardSessions, Warm(s) PROVE CardsInv'
  BY <1>2, SpawnInv DEF Warm, CardsTypeOK, CardsKept
<1>3. ASSUME NEW s \in CardSessions, Refreshed(s) PROVE CardsInv'
  <2>1. CardsTypeOK'
    <3>1. Key(s) \in Keys
      BY DEF Keys, Key
    <3>2. cache' \in CardsOf
      BY <1>3, <3>1 DEF Refreshed, CardsTypeOK, CardsOf
    <3>3. disk' \in DiskType
      <4>1. CASE disk' = Saved
        BY <3>2, <4>1 DEF Saved, CardsTypeOK, DiskType
      <4>2. CASE disk' = disk
        BY <4>2 DEF CardsTypeOK
      <4> QED BY <1>3, <4>1, <4>2 DEF Refreshed
    <3>4. /\ perSession' \in BOOLEAN /\ counter' \in [CardSessions -> Nat] /\ REFRESHING' \subseteq CardSessions
          /\ fetching' \in [CardSessions -> Nat] /\ leaving' \in [CardSessions -> Nat]
      BY <1>3 DEF Refreshed, CardsTypeOK
    <3> QED BY <3>2, <3>3, <3>4 DEF CardsTypeOK
  <2>2. OneRefresh'
    BY <1>3 DEF Refreshed, CardsTypeOK, OneRefresh
  <2>3. CardsKept'
    <3>1. CASE disk' = Saved
      BY <3>1, Zenon DEF Saved, CardsKept
    <3>2. CASE unsaved' = TRUE
      BY <3>2 DEF CardsKept
    <3> QED BY <1>3, <3>1, <3>2 DEF Refreshed
  <2> QED BY <2>1, <2>2, <2>3
<1>4. ASSUME NEW s \in CardSessions, NotRefreshed(s) PROVE CardsInv'
  BY <1>4 DEF NotRefreshed, CardsTypeOK, OneRefresh, CardsKept
<1>5. ASSUME NEW s \in CardSessions, Leave(s) PROVE CardsInv'
  <2>1. OneRefresh'
    BY <1>5 DEF Leave, CardsTypeOK, OneRefresh
  <2> QED BY <1>5, <2>1 DEF Leave, CardsTypeOK, CardsKept
<1>6. ASSUME Reload PROVE CardsInv'
  <2>1. cache' \in CardsOf /\ counter' \in [CardSessions -> Nat]
    BY <1>6 DEF Reload, Load, CardsTypeOK, DiskType, CardsOf
  <2>2. CardsTypeOK' /\ OneRefresh'
    BY <1>6, <2>1 DEF Reload, CardsTypeOK, OneRefresh
  <2>3. disk' = disk
    BY <1>6 DEF Reload
  <2>4. CardsKept'
    <3>1. CASE cache' = disk.cache
      BY <2>3, <3>1 DEF CardsKept
    <3>2. CASE cache' = [k \in Keys |-> "none"] /\ unread' = TRUE
      BY <3>2 DEF CardsKept
    <3> QED BY <1>6, <3>1, <3>2 DEF Reload, Load
  <2> QED BY <2>2, <2>4
<1>7. ASSUME ChangeMode PROVE CardsInv'
  BY <1>7 DEF ChangeMode, threads, CardsTypeOK, OneRefresh, CardsKept
<1> QED BY <1>0, <1>1, <1>2, <1>3, <1>4, <1>5, <1>6, <1>7 DEF CardsNext

\* For every number of sessions, turns, failing saves and restores: one
\* refresh in flight per guard, and after a save the file has what is in use,
\* and nothing else once it was read.
THEOREM CardsAreSound == CardsSpec => []CardsSound
<1>1. CardsInv => CardsSound
  BY DEF CardsInv
<1> QED BY <1>1, CardsInitInv, CardsStepInv, PTL DEF CardsSpec

-----------------------------------------------------------------------------
(* Notices, for any kinds of failure and any sets of problems.  A kind that *)
(* is active has an alert on its way, or one that was taken or swallowed    *)
(* since the last recovery.                                                 *)

CoolingAnnounced ==
  /\ cooling \subseteq active
  /\ active \subseteq posting \cup announced \cup swallowed

NoticesInv == CoolingAnnounced /\ OperatorTold

\* The invariant holds in a new process.
LEMMA NoticesInitInv == NoticesInit => NoticesInv
BY DEF NoticesInit, NoticesInv, CoolingAnnounced, OperatorTold, FailureAnnounced, NotesKept

\* No alert, recovery, start, inbound message or send breaks it.
LEMMA NoticesStepInv == NoticesInv /\ [NoticesNext]_noticeVars => NoticesInv'
<1> SUFFICES ASSUME NoticesInv, [NoticesNext]_noticeVars PROVE NoticesInv'
  OBVIOUS
<1> USE DEF NoticesInv, CoolingAnnounced, OperatorTold, FailureAnnounced, NotesKept
<1>0. CASE UNCHANGED noticeVars
  BY <1>0 DEF noticeVars, alertVars, noteVars
<1>1. ASSUME NEW k \in AlertKinds, Alert(k) PROVE NoticesInv'
  <2>1. NotesKept'
    BY <1>1 DEF Alert, noteVars
  <2>2. CASE k \in cooling
    BY <1>1, <2>1, <2>2 DEF Alert
  <2>3. CASE k \notin cooling
    <3>1. posting' \cup announced' \cup swallowed' = posting \cup announced \cup swallowed \cup {k}
      BY <1>1, <2>3 DEF Alert
    <3> QED BY <1>1, <2>1, <2>3, <3>1 DEF Alert
  <2> QED BY <2>2, <2>3
<1>8. ASSUME NEW k \in AlertKinds, PostAlert(k) PROVE NoticesInv'
  <2>1. NotesKept'
    BY <1>8 DEF PostAlert, noteVars
  <2>2. posting' \cup announced' \cup swallowed' = posting \cup announced \cup swallowed
    BY <1>8 DEF PostAlert
  <2> QED BY <1>8, <2>1, <2>2 DEF PostAlert
<1>2. ASSUME NEW k \in AlertKinds, CooldownOver(k) PROVE NoticesInv'
  BY <1>2 DEF CooldownOver, noteVars
<1>3. ASSUME Recovered PROVE NoticesInv'
  BY <1>3 DEF Recovered, CooldownsAfterRecovery, noteVars
<1>4. ASSUME Start PROVE NoticesInv'
  BY <1>4 DEF Start
<1>5. ASSUME QueueMessage PROVE NoticesInv'
  BY <1>5 DEF QueueMessage, alertVars
<1>6. ASSUME Flush PROVE NoticesInv'
  BY <1>6 DEF Flush, alertVars
<1>7. ASSUME NEW n \in Digests \cup {"message"}, DeliverNote(n) PROVE NoticesInv'
  <2>1. CoolingAnnounced' /\ FailureAnnounced' /\ queued' = queued
    BY <1>7 DEF DeliverNote, alertVars
  <2>2. pending \cup sending \cup reached \subseteq pending' \cup sending' \cup reached'
    BY <1>7 DEF DeliverNote, Requeued
  <2>3. markerFile' \in reached' \cup {"none"}
    BY <1>7 DEF DeliverNote
  <2> QED BY <2>1, <2>2, <2>3
<1> QED BY <1>0, <1>1, <1>2, <1>3, <1>4, <1>5, <1>6, <1>7, <1>8 DEF NoticesNext

\* No cooldown keeps a lasting failure from the operator and no note is lost,
\* for any number of kinds, boots and failed sends.
THEOREM TheOperatorIsTold == NoticesSpec => []OperatorTold
<1>1. NoticesInv => OperatorTold
  BY DEF NoticesInv
<1> QED BY <1>1, NoticesInitInv, NoticesStepInv, PTL DEF NoticesSpec

-----------------------------------------------------------------------------
(* Autoconf, over any number of boots and edits of the operator.            *)

\* The core settings are listed by no boot but one that read config.yaml and
\* left them right in it.
THEOREM CoreIsRetried == AutoconfSpec => CoreRecorded
<1>1. ASSUME [AutoconfNext]_confVars, "core" \in done', "core" \notin done
      PROVE  readable /\ "core" \in config'
  <2>1. Sweep
    BY <1>1 DEF AutoconfNext, Operator, confVars
  <2>2. PICK listed \in {done, {}} :
          LET todo == inUse \ listed IN
          \E wrote \in IF Wanted(todo) = {} THEN {TRUE} ELSE {readable, FALSE} :
            /\ config' = IF wrote THEN config \cup Wanted(todo) ELSE config
            /\ done' \in {done, IF todo = {} THEN done ELSE listed \cup Recorded(todo, wrote)}
    BY <2>1 DEF Sweep
  <2> DEFINE todo == inUse \ listed
  <2>3. PICK wrote \in (IF Wanted(todo) = {} THEN {TRUE} ELSE {readable, FALSE}) :
          /\ config' = IF wrote THEN config \cup Wanted(todo) ELSE config
          /\ done' \in {done, IF todo = {} THEN done ELSE listed \cup Recorded(todo, wrote)}
    BY <2>2
  <2>4. "core" \in Recorded(todo, wrote)
    BY <1>1, <2>3
  <2>5. wrote /\ "core" \in todo
    BY <2>4 DEF Recorded
  <2>6. "core" \in Wanted(todo) \/ (readable /\ "core" \in config)
    BY <2>5 DEF Wanted, InConfig
  <2>7. readable
    BY <2>3, <2>5, <2>6
  <2> QED BY <2>3, <2>5, <2>6, <2>7
<1> QED BY <1>1, PTL DEF AutoconfSpec, CoreRecorded

-----------------------------------------------------------------------------
(* Link, for any number of attempts and restarts.                           *)

FlowSteps == {"free", "creating", "showing", "polling", "saving", "writing", "written",
              "ended", "unwatched", "cancelled"}
FlowType  == [kind : {"none", "popup", "chat"}, step : FlowSteps]

\* The attempts that _PENDING may stand for.
Held == {f \in Flows : Holds(f)}

\* A link that is shown again is the popup's while it polls, or /connect's
\* until its watcher ends, and for good if its watcher did not start.
ShownAgain(f) ==
  /\ f \in Flows
  /\ flow[f].step \in IF flow[f].kind = "chat" THEN {"polling", "saving", "writing", "unwatched"}
                   ELSE {"polling"}

LinkInv ==
  /\ flow \in [Flows -> FlowType]
  /\ pendingFlag \in BOOLEAN
  /\ \A f \in Flows :
       /\ flow[f].step # "free" => flow[f].kind # "none"
       /\ flow[f].step = "writing" => flow[f].kind = "chat"
       /\ flow[f].step \in {"showing", "written"} => flow[f].kind = "popup"
  /\ PENDING_URI # "none" => ShownAgain(PENDING_URI)
  /\ pendingFlag => \E f \in Flows : Held = {f}
  /\ ~ pendingFlag => Held = {}

\* The invariant holds in a new process.
LEMMA LinkInitInv == LinkInit => LinkInv
<1> SUFFICES ASSUME LinkInit PROVE LinkInv
  OBVIOUS
<1>1. flow \in [Flows -> FlowType]
  BY DEF LinkInit, FlowType, FlowSteps
<1>2. \A f \in Flows : flow[f].step = "free" /\ flow[f].kind = "none"
  BY DEF LinkInit
<1>3. Held = {}
  BY <1>2 DEF Held, Holds, Active
<1> QED BY <1>1, <1>2, <1>3 DEF LinkInit, LinkInv

\* A step of one attempt, of which the others are not aware.
LEMMA OneFlow ==
  ASSUME LinkInv, NEW f \in Flows, NEW x \in FlowType, flow' = [flow EXCEPT ![f] = x]
  PROVE  /\ flow' \in [Flows -> FlowType]
         /\ flow'[f] = x /\ \A h \in Flows : h # f => flow'[h] = flow[h]
         /\ Held' = IF x.kind = "chat" /\ x.step \notin {"free", "ended", "unwatched"}
                        THEN Held \cup {f} ELSE Held \ {f}
<1>1. /\ flow' \in [Flows -> FlowType]
      /\ flow'[f] = x /\ \A h \in Flows : h # f => flow'[h] = flow[h]
  BY DEF LinkInv
<1> QED BY <1>1 DEF Held, Holds, Active

\* No step of an attempt, of the user or a restart breaks it.
LEMMA LinkStepInv == LinkInv /\ [LinkNext]_linkVars => LinkInv'
<1> SUFFICES ASSUME LinkInv, [LinkNext]_linkVars PROVE LinkInv'
  OBVIOUS
<1>t. /\ flow \in [Flows -> FlowType] /\ pendingFlag \in BOOLEAN
      /\ \A f \in Flows :
           /\ flow[f].step # "free" => flow[f].kind # "none"
           /\ flow[f].step = "writing" => flow[f].kind = "chat"
           /\ flow[f].step \in {"showing", "written"} => flow[f].kind = "popup"
  BY DEF LinkInv
<1>0. ASSUME UNCHANGED <<flow, pendingFlag, PENDING_URI>> PROVE LinkInv'
  BY <1>0 DEF LinkInv, ShownAgain, Held, Holds, Active
<1>1. ASSUME NEW f \in Flows, Connect(f) PROVE LinkInv'
  <2> DEFINE x == [kind |-> "chat", step |-> "creating"]
  <2>1. x \in FlowType /\ x.kind = "chat" /\ x.step = "creating"
    BY DEF FlowType, FlowSteps
  <2>2. /\ flow' = [flow EXCEPT ![f] = x] /\ ~ pendingFlag /\ pendingFlag'
        /\ PENDING_URI' = "none" /\ pendingFlag' \in BOOLEAN
    BY <1>1 DEF Connect
  <2> HIDE DEF x
  <2>3. /\ flow' \in [Flows -> FlowType]
        /\ flow'[f] = x /\ \A h \in Flows : h # f => flow'[h] = flow[h]
        /\ Held' = Held \cup {f}
    BY <2>1, <2>2, OneFlow
  <2>4. Held' = {f}
    BY <2>2, <2>3 DEF LinkInv
  <2> QED BY <1>t, <2>1, <2>2, <2>3, <2>4 DEF LinkInv
<1>2. ASSUME NEW f \in Flows, flow[f].kind = "chat", Active(f), NEW end \in {"ended", "unwatched"},
             flow' = [flow EXCEPT ![f].step = end], pendingFlag' = FALSE,
             \/ PENDING_URI' = "none"
             \/ PENDING_URI' = PENDING_URI /\ flow[f].step = "creating"
             \/ PENDING_URI' = f /\ end = "unwatched"
      PROVE  LinkInv'
  <2> DEFINE x == [flow[f] EXCEPT !.step = end]
  <2>1. x \in FlowType /\ x.kind = "chat" /\ x.step = end
    BY <1>2, <1>t DEF FlowType, FlowSteps
  <2>2. flow' = [flow EXCEPT ![f] = x]
    BY <1>2, <1>t
  <2> HIDE DEF x
  <2>3. /\ flow' \in [Flows -> FlowType]
        /\ flow'[f] = x /\ \A h \in Flows : h # f => flow'[h] = flow[h]
        /\ Held' = Held \ {f}
    BY <2>1, <2>2, OneFlow
  <2>4. f \in Held
    BY <1>2 DEF Held, Holds
  <2>5. Held' = {}
    BY <2>3, <2>4 DEF LinkInv
  <2>6. PENDING_URI' # "none" => ShownAgain(PENDING_URI)'
    BY <1>2, <2>3, <1>t DEF LinkInv, ShownAgain
  <2> QED BY <1>2, <1>t, <2>1, <2>3, <2>5, <2>6 DEF LinkInv
<1>3. ASSUME NEW f \in Flows, NEW x \in FlowType, flow' = [flow EXCEPT ![f] = x],
             x.kind = flow[f].kind \/ (flow[f].step = "free" /\ x.kind = "popup"),
             x.kind # "none",
             x.kind # "chat" \/ (Active(f) /\ x.step \notin {"free", "ended", "unwatched"}),
             x.step = "writing" => x.kind = "chat",
             x.step \in {"showing", "written"} => x.kind = "popup",
             pendingFlag' = pendingFlag,
             \/ PENDING_URI' = "none"
             \/ PENDING_URI' = f /\ x.step = "polling"
             \/ PENDING_URI' = PENDING_URI /\ PENDING_URI # f
             \/ PENDING_URI' = PENDING_URI /\ x.kind = "chat" /\ x.step \in {"polling", "saving", "writing"}
      PROVE  LinkInv'
  <2>1. /\ flow' \in [Flows -> FlowType]
        /\ flow'[f] = x /\ \A h \in Flows : h # f => flow'[h] = flow[h]
        /\ Held' = IF x.kind = "chat" /\ x.step \notin {"free", "ended", "unwatched"}
                      THEN Held \cup {f} ELSE Held \ {f}
    BY <1>3, OneFlow
  <2>2. Held' = Held
    <3>1. CASE x.kind = "chat"
      <4>1. f \in Held
        BY <1>3, <3>1 DEF Held, Holds
      <4> QED BY <1>3, <2>1, <3>1, <4>1
    <3>2. CASE x.kind # "chat"
      <4>1. f \notin Held
        BY <1>3, <3>2 DEF Held, Holds, Active
      <4> QED BY <2>1, <3>2, <4>1
    <3> QED BY <3>1, <3>2
  <2>3. PENDING_URI' # "none" => ShownAgain(PENDING_URI)'
    BY <1>3, <2>1 DEF LinkInv, ShownAgain
  <2>4. /\ pendingFlag' => \E h \in Flows : Held' = {h}
        /\ ~ pendingFlag' => Held' = {}
    BY <1>3, <2>2 DEF LinkInv
  <2>5. \A h \in Flows :
          /\ flow'[h].step # "free" => flow'[h].kind # "none"
          /\ flow'[h].step = "writing" => flow'[h].kind = "chat"
          /\ flow'[h].step \in {"showing", "written"} => flow'[h].kind = "popup"
    BY <1>3, <1>t, <2>1
  <2> QED BY <1>3, <1>t, <2>1, <2>3, <2>4, <2>5 DEF LinkInv
<1>4. ASSUME NEW f \in Flows, NEW step \in FlowSteps, Active(f),
             flow' = [flow EXCEPT ![f].step = step]
      PROVE  \E x \in FlowType : /\ flow' = [flow EXCEPT ![f] = x]
                                 /\ x.kind = flow[f].kind /\ x.step = step /\ x.kind # "none"
  <2> DEFINE x == [flow[f] EXCEPT !.step = step]
  <2>1. x \in FlowType /\ x.kind = flow[f].kind /\ x.step = step /\ x.kind # "none"
    BY <1>4, <1>t DEF FlowType, FlowSteps, Active
  <2>2. flow' = [flow EXCEPT ![f] = x]
    BY <1>4, <1>t
  <2> QED BY <2>1, <2>2
<1>5. \A f \in Flows : flow[f].step \notin {"polling", "saving", "writing", "unwatched"} =>
         PENDING_URI = "none" \/ PENDING_URI # f
  BY DEF LinkInv, ShownAgain
<1>6. ASSUME NEW f \in Flows, FirstBootLogin(f) PROVE LinkInv'
  <2>1. CASE UNCHANGED flow
    BY <1>0, <1>6, <2>1 DEF FirstBootLogin
  <2>2. CASE flow[f].step = "free" /\ flow' = [flow EXCEPT ![f] = [kind |-> "popup", step |-> "creating"]]
    <3>1. [kind |-> "popup", step |-> "creating"] \in FlowType
      BY DEF FlowType, FlowSteps
    <3>2. /\ PENDING_URI' = PENDING_URI /\ pendingFlag' = pendingFlag
          /\ PENDING_URI = "none" \/ PENDING_URI # f
      BY <1>5, <1>6, <2>2 DEF FirstBootLogin
    <3> QED BY <1>3, <2>2, <3>1, <3>2
  <2> QED BY <1>6, <2>1, <2>2 DEF FirstBootLogin
<1>7. ASSUME NEW f \in Flows, Created(f) PROVE LinkInv'
  <2>1. Active(f) /\ flow[f].step = "creating" /\ pendingFlag' = pendingFlag
        /\ (PENDING_URI = "none" \/ PENDING_URI # f)
    BY <1>5, <1>7 DEF Created, Active
  <2>2. CASE flow[f].kind = "chat"
    <3>1. flow' = [flow EXCEPT ![f].step = "polling"] /\ PENDING_URI' = f
      BY <1>7, <2>2 DEF Created, Step
    <3>2. PICK x \in FlowType : /\ flow' = [flow EXCEPT ![f] = x]
                                /\ x.kind = flow[f].kind /\ x.step = "polling" /\ x.kind # "none"
      BY <1>4, <2>1, <3>1 DEF FlowSteps
    <3> QED BY <1>3, <2>1, <2>2, <3>1, <3>2
  <2>3. CASE flow[f].kind # "chat"
    <3>1. flow' = [flow EXCEPT ![f].step = "showing"] /\ PENDING_URI' = PENDING_URI
      BY <1>7, <2>3 DEF Created, Step
    <3>2. PICK x \in FlowType : /\ flow' = [flow EXCEPT ![f] = x]
                                /\ x.kind = flow[f].kind /\ x.step = "showing" /\ x.kind # "none"
      BY <1>4, <2>1, <3>1 DEF FlowSteps
    <3>3. x.kind = "popup"
      BY <2>3, <3>2 DEF FlowType
    <3> QED BY <1>3, <2>1, <2>3, <3>1, <3>2, <3>3
  <2> QED BY <2>2, <2>3
<1>8. ASSUME NEW f \in Flows, CreateFails(f) PROVE LinkInv'
  <2>1. /\ Active(f) /\ flow[f].step = "creating" /\ PENDING_URI' = PENDING_URI
        /\ flow' = [flow EXCEPT ![f].step = "ended"]
        /\ PENDING_URI = "none" \/ PENDING_URI # f
    BY <1>5, <1>8 DEF CreateFails, Active, Step
  <2>2. CASE flow[f].kind = "chat"
    <3>1. pendingFlag' = FALSE
      BY <1>8, <2>2 DEF CreateFails
    <3> QED BY <1>2, <2>1, <2>2, <3>1
  <2>3. CASE flow[f].kind # "chat"
    <3>1. PICK x \in FlowType : /\ flow' = [flow EXCEPT ![f] = x]
                                /\ x.kind = flow[f].kind /\ x.step = "ended" /\ x.kind # "none"
      BY <1>4, <2>1 DEF FlowSteps
    <3>2. flow[f].kind = "popup"
      BY <2>3, <3>1 DEF FlowType
    <3>3. pendingFlag' = pendingFlag
      BY <1>8, <1>t, <3>2 DEF CreateFails
    <3> QED BY <1>3, <2>1, <2>3, <3>1, <3>2, <3>3
  <2> QED BY <2>2, <2>3
<1>9. ASSUME NEW f \in Flows, Shown(f) PROVE LinkInv'
  <2>1. /\ Active(f) /\ flow[f].kind = "popup" /\ PENDING_URI' = f /\ pendingFlag' = pendingFlag
        /\ flow' = [flow EXCEPT ![f].step = "polling"]
    BY <1>9, <1>t DEF Shown, Active, Step
  <2>2. PICK x \in FlowType : /\ flow' = [flow EXCEPT ![f] = x]
                              /\ x.kind = flow[f].kind /\ x.step = "polling" /\ x.kind # "none"
    BY <1>4, <2>1 DEF FlowSteps
  <2> QED BY <1>3, <2>1, <2>2
<1>10. ASSUME NEW f \in Flows, Polled(f) PROVE LinkInv'
  <2>1. Active(f) /\ flow[f].step = "polling"
    BY <1>10 DEF Polled, Active
  <2>2. PICK step \in {"saving", "ended"} : flow' = [flow EXCEPT ![f].step = step]
    BY <1>10 DEF Polled, Step
  <2>3. PICK x \in FlowType : /\ flow' = [flow EXCEPT ![f] = x]
                              /\ x.kind = flow[f].kind /\ x.step = step /\ x.kind # "none"
    <3>1. step \in FlowSteps /\ Active(f)
      BY <2>1 DEF FlowSteps
    <3> QED BY <1>4, <2>1, <2>2, <3>1
  <2>4. flow'[f] = x
    BY <1>t, <2>3
  <2>5. CASE flow[f].kind = "chat" /\ step = "saving"
    <3>1. UNCHANGED <<pendingFlag, PENDING_URI>>
      BY <1>10, <2>3, <2>4, <2>5 DEF Polled
    <3> QED BY <1>3, <2>1, <2>3, <2>5, <3>1
  <2>6. CASE flow[f].kind = "chat" /\ step = "ended"
    <3>1. PENDING_URI' = "none" /\ pendingFlag' = FALSE
      BY <1>10, <2>3, <2>4, <2>6 DEF Polled
    <3> QED BY <1>2, <2>1, <2>2, <2>6, <3>1
  <2>7. CASE flow[f].kind # "chat"
    <3>1. flow[f].kind = "popup"
      BY <2>3, <2>7 DEF FlowType
    <3>2. PENDING_URI' = "none" /\ pendingFlag' = pendingFlag
      BY <1>10, <1>t, <3>1 DEF Polled
    <3> QED BY <1>3, <2>3, <2>7, <3>1, <3>2
  <2> QED BY <2>5, <2>6, <2>7
<1>11. ASSUME NEW f \in Flows, SaveLive(f) PROVE LinkInv'
  <2>1. /\ Active(f) /\ flow[f].kind = "chat" /\ UNCHANGED <<pendingFlag, PENDING_URI>>
        /\ flow' = [flow EXCEPT ![f].step = "writing"]
    BY <1>11 DEF SaveLive, Active, Step
  <2>2. PICK x \in FlowType : /\ flow' = [flow EXCEPT ![f] = x]
                              /\ x.kind = flow[f].kind /\ x.step = "writing" /\ x.kind # "none"
    BY <1>4, <2>1 DEF FlowSteps
  <2> QED BY <1>3, <2>1, <2>2
<1>12. ASSUME NEW f \in Flows, WatchEnds(f) PROVE LinkInv'
  <2>1. /\ Active(f) /\ flow[f].kind = "chat" /\ pendingFlag' = FALSE /\ PENDING_URI' = "none"
        /\ flow' = [flow EXCEPT ![f].step = "ended"]
    BY <1>12, <1>t DEF WatchEnds, Active, Step
  <2> QED BY <1>2, <2>1
<1>13. ASSUME NEW f \in Flows, PopupWrites(f) \/ PopupEnds(f) PROVE LinkInv'
  <2>1. /\ Active(f) /\ flow[f].kind = "popup" /\ UNCHANGED <<pendingFlag, PENDING_URI>>
        /\ PENDING_URI = "none" \/ PENDING_URI # f
    BY <1>13, <1>t DEF PopupWrites, PopupEnds, Active, LinkInv, ShownAgain
  <2>2. PICK step \in {"written", "ended"} : flow' = [flow EXCEPT ![f].step = step]
    BY <1>13 DEF PopupWrites, PopupEnds, Step
  <2>3. PICK x \in FlowType : /\ flow' = [flow EXCEPT ![f] = x]
                              /\ x.kind = flow[f].kind /\ x.step = step /\ x.kind # "none"
    <3>1. step \in FlowSteps /\ Active(f)
      BY <2>1 DEF FlowSteps
    <3> QED BY <1>4, <2>1, <2>2, <3>1
  <2> QED BY <1>3, <2>1, <2>3
<1>14. CASE LinkRestart
  <2>1. /\ PENDING_URI' = "none" /\ pendingFlag' = FALSE
        /\ flow' = [f \in Flows |-> IF flow[f].step = "free" THEN flow[f]
                                  ELSE [flow[f] EXCEPT !.step = "ended"]]
    BY <1>14 DEF LinkRestart
  <2>2. ASSUME NEW f \in Flows
        PROVE  /\ flow'[f] \in FlowType /\ flow'[f].step \in {"free", "ended"}
               /\ flow'[f].step # "free" => flow'[f].kind # "none"
    BY <2>1, <1>t DEF FlowType, FlowSteps, Active
  <2>3. flow' \in [Flows -> FlowType]
    BY <2>1, <2>2
  <2>4. Held' = {}
    BY <2>2 DEF Held, Holds, Active
  <2>5. \A f \in Flows : flow'[f].step \notin {"writing", "showing", "written"}
    BY <2>2
  <2> QED BY <2>1, <2>2, <2>3, <2>4, <2>5 DEF LinkInv
<1>15. ASSUME NEW f \in Flows, Answer(f) PROVE LinkInv'
  BY <1>0, <1>15 DEF Answer
<1>17. ASSUME NEW f \in Flows, WatcherFails(f) PROVE LinkInv'
  <2>1. /\ Active(f) /\ flow[f].kind = "chat" /\ pendingFlag' = FALSE /\ PENDING_URI' = f
        /\ flow' = [flow EXCEPT ![f].step = "unwatched"]
    BY <1>17 DEF WatcherFails, Active, Step
  <2> QED BY <1>2, <2>1
<1>18. ASSUME NEW f \in Flows, ConnectCancelled(f) PROVE LinkInv'
  <2>1. /\ Active(f) /\ flow[f].kind = "chat" /\ UNCHANGED <<pendingFlag, PENDING_URI>>
        /\ flow' = [flow EXCEPT ![f].step = "cancelled"]
        /\ PENDING_URI = "none" \/ PENDING_URI # f
    BY <1>5, <1>18 DEF ConnectCancelled, Active, Step
  <2>2. PICK x \in FlowType : /\ flow' = [flow EXCEPT ![f] = x]
                              /\ x.kind = flow[f].kind /\ x.step = "cancelled" /\ x.kind # "none"
    BY <1>4, <2>1 DEF FlowSteps
  <2> QED BY <1>3, <2>1, <2>2
<1>16. CASE UNCHANGED linkVars
  BY <1>0, <1>16 DEF linkVars
<1> QED BY <1>1, <1>6, <1>7, <1>8, <1>9, <1>10, <1>11, <1>12, <1>13, <1>14, <1>15, <1>16,
          <1>17, <1>18 DEF LinkNext

\* /connect works on one link at a time, and only a cancelled request or a
\* watcher that does not start leave it waiting for nobody, whatever the
\* popup, the user, failing writes and restarts do.
THEOREM OneLinkAtATime == LinkSpec => []OneLink
<1>1. LinkInv => OneLink
  <2> SUFFICES ASSUME LinkInv PROVE OneLink
    OBVIOUS
  <2>1. PENDING_URI # "none" => Active(PENDING_URI) \/ flow[PENDING_URI].step = "unwatched"
    BY DEF LinkInv, ShownAgain, Active
  <2>2. CASE pendingFlag
    <3>1. PICK f \in Flows : Held = {f}
      BY <2>2 DEF LinkInv
    <3>2. Cardinality(Held) = 1
      <4> HIDE DEF Held
      <4> QED BY <3>1, FS_Singleton
    <3> QED BY <2>1, <2>2, <3>2 DEF OneLink, Held
  <2>3. CASE ~ pendingFlag
    <3>1. Held = {}
      BY <2>3 DEF LinkInv
    <3>2. Cardinality(Held) = 0
      <4> HIDE DEF Held
      <4> QED BY <3>1, FS_EmptySet
    <3> QED BY <2>1, <2>3, <3>2 DEF OneLink, Held
  <2> QED BY <2>2, <2>3
<1> QED BY <1>1, LinkInitInv, LinkStepInv, PTL DEF LinkSpec

-----------------------------------------------------------------------------
(* Shadow, over any requests, threads and restarts of the proxy: a reply is *)
(* mirrored in the turn it belongs to.                                      *)

Places == {"idle", "sent", "handled", "refused", "queued", "mirrored", "recorded", "lost"}

SubmitOf(x)  == <<"submit", x>>
RespondOf(x) == <<"respond", x>>

ShadowTypeOK ==
  /\ threadOf \in [Submits -> ShadowThreads]
  /\ at \in [Exchanges -> Places]
  /\ localCount \in [ShadowThreads -> Nat] /\ prodCount \in [ShadowThreads -> Nat]
  /\ localEpoch \in [Submits -> Nat] /\ prodEpoch \in [Submits -> Nat]
  /\ sentEpoch \in [Submits -> Nat]
  /\ mirrorQueue \in Seq(Exchanges)

\* The local service gives each submit of a thread an epoch of its own.
EpochsOK ==
  /\ \A x \in Submits :
       /\ localEpoch[x] <= localCount[threadOf[x]]
       /\ at[SubmitOf(x)] \in {"idle", "sent"} => localEpoch[x] = 0
       /\ at[SubmitOf(x)] \in {"handled", "queued", "mirrored", "recorded"} => localEpoch[x] # 0
  /\ \A x, y \in Submits :
       x # y /\ threadOf[x] = threadOf[y] /\ localEpoch[x] = localEpoch[y] => localEpoch[x] = 0

\* The queue holds what is queued, once, a submit before its respond; the
\* worker has one copy under way.
QueueOK ==
  /\ \A i \in 1 .. Len(mirrorQueue) : at[mirrorQueue[i]] = "queued"
  /\ \A i, j \in 1 .. Len(mirrorQueue) : mirrorQueue[i] = mirrorQueue[j] => i = j
  /\ \A i, j \in 1 .. Len(mirrorQueue) : \A x \in Submits :
       mirrorQueue[i] = RespondOf(x) /\ mirrorQueue[j] = SubmitOf(x) => j < i
  /\ \A e \in Exchanges :
       at[e] = "queued" => \E i \in 1 .. Len(mirrorQueue) : mirrorQueue[i] = e
  /\ \A e, f \in Exchanges : at[e] = "mirrored" /\ at[f] = "mirrored" => e = f

\* A respond follows the submit it answers, to production too.
FollowsOK ==
  \A x \in Submits :
    /\ at[RespondOf(x)] # "idle" => at[SubmitOf(x)] \in {"queued", "mirrored", "recorded", "lost"}
    /\ sentEpoch[x] # 0 => at[SubmitOf(x)] \in {"recorded", "lost"}

\* What the proxy knows is what it learned since it started.
LearnedOK ==
  /\ learned \subseteq Submits
  /\ epochs = {<<threadOf[x], localEpoch[x], prodEpoch[x]>> : x \in learned}
  /\ \A x \in learned : at[SubmitOf(x)] = "recorded" /\ sentEpoch[x] \in {0, prodEpoch[x]}

ShadowInv == ShadowTypeOK /\ EpochsOK /\ QueueOK /\ FollowsOK /\ LearnedOK

\* The exchanges are the submits and the responds.
LEMMA TwoKinds ==
  /\ \A x \in Submits : /\ SubmitOf(x) \in Exchanges /\ RespondOf(x) \in Exchanges
                        /\ SubmitOf(x) # RespondOf(x)
  /\ \A x, y \in Submits : /\ SubmitOf(x) = SubmitOf(y) => x = y
                           /\ RespondOf(x) = RespondOf(y) => x = y
                           /\ SubmitOf(x) # RespondOf(y)
  /\ \A e \in Exchanges : /\ e[2] \in Submits
                          /\ e[1] = "submit" <=> e = SubmitOf(e[2])
                          /\ e[1] = "respond" <=> e = RespondOf(e[2])
                          /\ e[1] \in {"submit", "respond"}
BY DEF Exchanges, SubmitOf, RespondOf

\* The invariant holds when the proxy first starts.
LEMMA ShadowInitInv == ShadowInit => ShadowInv
<1> SUFFICES ASSUME ShadowInit PROVE ShadowInv
  OBVIOUS
<1> USE DEF ShadowInit
<1>1. ShadowTypeOK
  BY DEF ShadowTypeOK, Places
<1>2. EpochsOK /\ FollowsOK
  BY TwoKinds DEF EpochsOK, FollowsOK
<1>3. QueueOK /\ LearnedOK
  BY DEF QueueOK, LearnedOK
<1> QED BY <1>1, <1>2, <1>3 DEF ShadowInv

\* An exchange that neither enters nor leaves the queue does not disturb it.
LEMMA QueueKept ==
  ASSUME ShadowTypeOK, QueueOK, NEW e \in Exchanges, NEW place \in Places \ {"queued", "mirrored"},
         at[e] # "queued", at' = [at EXCEPT ![e] = place], mirrorQueue' = mirrorQueue
  PROVE  QueueOK'
<1>1. /\ at'[e] = place
      /\ \A f \in Exchanges \ {e} : at'[f] = at[f]
  BY DEF ShadowTypeOK
<1>2. \A i \in 1 .. Len(mirrorQueue) : mirrorQueue[i] \in Exchanges /\ mirrorQueue[i] # e
  BY DEF ShadowTypeOK, QueueOK
<1>3. \A i \in 1 .. Len(mirrorQueue') : at'[mirrorQueue'[i]] = "queued"
  BY <1>1, <1>2 DEF QueueOK
<1>4. \A f \in Exchanges :
        at'[f] = "queued" => \E i \in 1 .. Len(mirrorQueue') : mirrorQueue'[i] = f
  BY <1>1 DEF QueueOK
<1>5. \A f, h \in Exchanges : at'[f] = "mirrored" /\ at'[h] = "mirrored" => f = h
  BY <1>1 DEF QueueOK
<1> QED BY <1>3, <1>4, <1>5 DEF QueueOK

-----------------------------------------------------------------------------
\* No request, answer, failure or restart breaks it.
LEMMA ShadowStepInv == ShadowInv /\ [ShadowNext]_shadowVars => ShadowInv'
<1> SUFFICES ASSUME ShadowInv, [ShadowNext]_shadowVars PROVE ShadowInv'
  OBVIOUS
<1> USE DEF ShadowInv
<1>m. ASSUME NEW e \in Exchanges, NEW place \in Places, at' = [at EXCEPT ![e] = place]
      PROVE  /\ at' \in [Exchanges -> Places]
             /\ at'[e] = place
             /\ \A f \in Exchanges \ {e} : at'[f] = at[f]
  BY <1>m DEF ShadowTypeOK
<1>0. CASE UNCHANGED shadowVars
  BY <1>0 DEF shadowVars, ShadowTypeOK, EpochsOK, QueueOK, FollowsOK, LearnedOK
<1>1. ASSUME NEW e \in Exchanges, Arrive(e) PROVE ShadowInv'
  <2>1. /\ at[e] = "idle" /\ at' = [at EXCEPT ![e] = "sent"]
        /\ UNCHANGED <<threadOf, localCount, prodCount, localEpoch, prodEpoch, mirrorQueue, epochs,
                       sentEpoch, learned>>
    BY <1>1 DEF Arrive, Moves, services
  <2>2. /\ at' \in [Exchanges -> Places] /\ at'[e] = "sent"
        /\ \A f \in Exchanges \ {e} : at'[f] = at[f]
    BY <1>m, <2>1 DEF Places
  <2>3. ShadowTypeOK' /\ EpochsOK'
    BY <2>1, <2>2, TwoKinds DEF ShadowTypeOK, EpochsOK
  <2>4. QueueOK'
    BY <2>1, QueueKept DEF Places
  <2>5. ASSUME NEW x \in Submits, e = RespondOf(x)
        PROVE  at[SubmitOf(x)] \in {"queued", "mirrored", "recorded", "lost"}
    BY <1>1, <2>5, TwoKinds DEF Arrive, SubmitOf
  <2>6. FollowsOK'
    BY <2>1, <2>2, <2>5, TwoKinds DEF FollowsOK
  <2>7. LearnedOK'
    BY <2>1, <2>2, TwoKinds DEF LearnedOK
  <2> QED BY <2>3, <2>4, <2>6, <2>7
<1>2. ASSUME NEW e \in Exchanges, LocalHandles(e) PROVE ShadowInv'
  <2>1. /\ at[e] = "sent" /\ at' = [at EXCEPT ![e] = "handled"]
        /\ UNCHANGED <<threadOf, prodCount, prodEpoch, mirrorQueue, epochs, sentEpoch, learned>>
    BY <1>2 DEF LocalHandles, Moves
  <2>2. /\ at' \in [Exchanges -> Places] /\ at'[e] = "handled"
        /\ \A f \in Exchanges \ {e} : at'[f] = at[f]
    BY <1>m, <2>1 DEF Places
  <2>3. QueueOK'
    BY <2>1, QueueKept DEF Places
  <2>4. FollowsOK'
    BY <2>1, <2>2, TwoKinds DEF FollowsOK
  <2>5. CASE e[1] = "respond"
    <3>1. UNCHANGED <<localCount, localEpoch>> /\ e = RespondOf(e[2])
      BY <1>2, <2>5, TwoKinds DEF LocalHandles
    <3>2. \A x \in Submits : at'[SubmitOf(x)] = at[SubmitOf(x)]
      BY <2>2, <3>1, TwoKinds
    <3>3. ShadowTypeOK' /\ EpochsOK' /\ LearnedOK'
      BY <2>1, <2>2, <3>1, <3>2 DEF ShadowTypeOK, EpochsOK, LearnedOK
    <3> QED BY <2>3, <2>4, <3>3
  <2>6. CASE e[1] # "respond"
    <3>1. PICK z \in Submits : e = SubmitOf(z) /\ z = e[2]
      BY <2>6, TwoKinds
    <3>2. PICK t \in ShadowThreads : t = threadOf[z]
      BY DEF ShadowTypeOK
    <3>3. /\ localCount' = [localCount EXCEPT ![t] = @ + 1]
          /\ localEpoch' = [localEpoch EXCEPT ![z] = localCount'[t]]
      BY <1>2, <2>6, <3>1, <3>2 DEF LocalHandles
    <3>4. /\ localCount' \in [ShadowThreads -> Nat] /\ localCount'[t] = localCount[t] + 1
          /\ \A u \in ShadowThreads \ {t} : localCount'[u] = localCount[u]
          /\ localEpoch' \in [Submits -> Nat] /\ localEpoch'[z] = localCount[t] + 1
          /\ \A x \in Submits \ {z} : localEpoch'[x] = localEpoch[x]
      BY <3>3 DEF ShadowTypeOK
    <3>5. ShadowTypeOK'
      BY <2>1, <2>2, <3>4 DEF ShadowTypeOK
    <3>6. \A x \in Submits \ {z} : at'[SubmitOf(x)] = at[SubmitOf(x)]
      BY <2>2, <3>1, TwoKinds
    <3>7. ASSUME NEW x \in Submits
          PROVE  /\ localEpoch'[x] <= localCount'[threadOf'[x]]
                 /\ at'[SubmitOf(x)] \in {"idle", "sent"} => localEpoch'[x] = 0
                 /\ at'[SubmitOf(x)] \in {"handled", "queued", "mirrored", "recorded"}
                      => localEpoch'[x] # 0
      <4>0. threadOf[x] \in ShadowThreads /\ localCount[threadOf[x]] \in Nat /\ localCount[t] \in Nat
            /\ localEpoch[x] \in Nat
        BY DEF ShadowTypeOK
      <4>1. CASE x = z
        BY <4>0, <4>1, <2>1, <2>2, <3>1, <3>2, <3>4
      <4>2. CASE x # z
        BY <4>0, <4>2, <2>1, <3>4, <3>6 DEF EpochsOK
      <4> QED BY <4>1, <4>2
    <3>8. ASSUME NEW x \in Submits, NEW y \in Submits, x # y, threadOf[x] = threadOf[y],
                 localEpoch'[x] = localEpoch'[y]
          PROVE  localEpoch'[x] = 0
      <4>1. ASSUME NEW w \in Submits, w # z, threadOf[w] = t PROVE localEpoch'[w] # localEpoch'[z]
        <5>1. localEpoch[w] <= localCount[t] /\ localEpoch[w] \in Nat /\ localCount[t] \in Nat
          BY <4>1 DEF EpochsOK, ShadowTypeOK
        <5> QED BY <4>1, <5>1, <3>4
      <4>2. x # z /\ y # z
        BY <3>2, <3>8, <4>1
      <4> QED BY <3>8, <4>2, <3>4 DEF EpochsOK
    <3>9. EpochsOK'
      BY <2>1, <3>7, <3>8 DEF EpochsOK
    <3>10. z \notin learned
      BY <2>1, <3>1 DEF LearnedOK
    <3>11. LearnedOK'
      BY <2>1, <3>4, <3>6, <3>10 DEF LearnedOK
    <3> QED BY <2>3, <2>4, <3>5, <3>9, <3>11
  <2> QED BY <2>5, <2>6
<1>3. ASSUME NEW e \in Exchanges, LocalUnreachable(e) PROVE ShadowInv'
  <2>1. /\ at[e] \in {"sent", "handled"} /\ at' = [at EXCEPT ![e] = "refused"]
        /\ UNCHANGED <<threadOf, localCount, prodCount, localEpoch, prodEpoch, mirrorQueue, epochs,
                       sentEpoch, learned>>
    BY <1>3 DEF LocalUnreachable, Moves, services
  <2>2. /\ at' \in [Exchanges -> Places] /\ at'[e] = "refused"
        /\ \A f \in Exchanges \ {e} : at'[f] = at[f]
    BY <1>m, <2>1 DEF Places
  <2>3. ShadowTypeOK' /\ EpochsOK'
    BY <2>1, <2>2, TwoKinds DEF ShadowTypeOK, EpochsOK
  <2>4. QueueOK'
    BY <2>1, QueueKept DEF Places
  <2>5. FollowsOK' /\ LearnedOK'
    BY <2>1, <2>2, TwoKinds DEF FollowsOK, LearnedOK
  <2> QED BY <2>3, <2>4, <2>5
<1>4. ASSUME NEW e \in Exchanges, Answered(e) PROVE ShadowInv'
  <2>1. /\ at[e] = "handled" /\ at' = [at EXCEPT ![e] = "queued"]
        /\ mirrorQueue' = Append(mirrorQueue, e)
        /\ UNCHANGED <<threadOf, localCount, prodCount, localEpoch, prodEpoch, epochs,
                       sentEpoch, learned>>
    BY <1>4 DEF Answered, Moves, Enqueue, services
  <2>2. /\ at' \in [Exchanges -> Places] /\ at'[e] = "queued"
        /\ \A f \in Exchanges \ {e} : at'[f] = at[f]
    BY <1>m, <2>1 DEF Places
  <2>3. PICK n \in Nat : n = Len(mirrorQueue)
    BY DEF ShadowTypeOK
  <2>4. /\ mirrorQueue' \in Seq(Exchanges) /\ Len(mirrorQueue') = n + 1
        /\ mirrorQueue'[n + 1] = e
        /\ \A i \in 1 .. n : mirrorQueue'[i] = mirrorQueue[i]
    BY <2>1, <2>3 DEF ShadowTypeOK
  <2>5. ShadowTypeOK' /\ EpochsOK' /\ FollowsOK' /\ LearnedOK'
    <3>1. ShadowTypeOK' /\ EpochsOK'
      BY <2>1, <2>2, <2>4, TwoKinds DEF ShadowTypeOK, EpochsOK
    <3>2. FollowsOK' /\ LearnedOK'
      BY <2>1, <2>2, TwoKinds DEF FollowsOK, LearnedOK
    <3> QED BY <3>1, <3>2
  <2>6. \A i \in 1 .. n : mirrorQueue[i] \in Exchanges /\ mirrorQueue[i] # e
    BY <2>1, <2>3 DEF ShadowTypeOK, QueueOK
  <2>7. QueueOK'
    <3>1. \A i \in 1 .. n + 1 : at'[mirrorQueue'[i]] = "queued"
      BY <2>2, <2>3, <2>4, <2>6 DEF QueueOK
    <3>2. \A i, j \in 1 .. n + 1 : mirrorQueue'[i] = mirrorQueue'[j] => i = j
      BY <2>3, <2>4, <2>6 DEF QueueOK
    <3>3. ASSUME NEW i \in 1 .. n + 1, NEW j \in 1 .. n + 1, NEW x \in Submits,
                 mirrorQueue'[i] = RespondOf(x), mirrorQueue'[j] = SubmitOf(x)
          PROVE  j < i
      <4>1. CASE i \in 1 .. n /\ j \in 1 .. n
        BY <2>3, <2>4, <3>3, <4>1 DEF QueueOK
      <4>2. CASE i = n + 1 /\ j \in 1 .. n
        BY <4>2
      <4>3. CASE i = n + 1 /\ j = n + 1
        BY <3>3, <4>3, TwoKinds
      <4>4. CASE i \in 1 .. n /\ j = n + 1
        <5>1. e = SubmitOf(x) /\ at[RespondOf(x)] = "queued"
          BY <2>3, <2>4, <3>3, <4>4 DEF QueueOK
        <5> QED BY <2>1, <5>1 DEF FollowsOK
      <4> QED BY <4>1, <4>2, <4>3, <4>4
    <3>4. ASSUME NEW f \in Exchanges, at'[f] = "queued"
          PROVE  \E i \in 1 .. n + 1 : mirrorQueue'[i] = f
      <4>1. CASE f = e
        BY <2>4, <4>1
      <4>2. CASE f # e
        <5>1. PICK i \in 1 .. n : mirrorQueue[i] = f
          BY <2>2, <2>3, <3>4, <4>2 DEF QueueOK
        <5> QED BY <2>4, <5>1
      <4> QED BY <4>1, <4>2
    <3>5. \A f, h \in Exchanges : at'[f] = "mirrored" /\ at'[h] = "mirrored" => f = h
      BY <2>2 DEF QueueOK
    <3> QED BY <2>4, <3>1, <3>2, <3>3, <3>4, <3>5 DEF QueueOK
  <2> QED BY <2>5, <2>7
<1>5. ASSUME NEW e \in Exchanges, Mirror(e) PROVE ShadowInv'
  <2>1. /\ mirrorQueue # << >> /\ e = Head(mirrorQueue) /\ mirrorQueue' = Tail(mirrorQueue)
        /\ at' = [at EXCEPT ![e] = "mirrored"]
        /\ \A f \in Exchanges : at[f] # "mirrored"
        /\ UNCHANGED <<threadOf, localCount, prodCount, localEpoch, prodEpoch, epochs, learned>>
    BY <1>5 DEF Mirror, Moves, services
  <2>2. /\ at' \in [Exchanges -> Places] /\ at'[e] = "mirrored"
        /\ \A f \in Exchanges \ {e} : at'[f] = at[f]
    BY <1>m, <2>1 DEF Places
  <2>3. PICK n \in Nat : Len(mirrorQueue) = n + 1
    <3>1. Len(mirrorQueue) \in Nat /\ Len(mirrorQueue) # 0
      BY <2>1 DEF ShadowTypeOK
    <3> QED BY <3>1
  <2>4. /\ mirrorQueue' \in Seq(Exchanges) /\ Len(mirrorQueue') = n /\ mirrorQueue[1] = e
        /\ \A i \in 1 .. n : mirrorQueue'[i] = mirrorQueue[i + 1]
    BY <2>1, <2>3, HeadTailProperties DEF ShadowTypeOK
  <2>5. at[e] = "queued"
    BY <2>3, <2>4 DEF QueueOK
  <2>6. \A i \in 1 .. n : mirrorQueue'[i] \in Exchanges /\ mirrorQueue'[i] # e
    <3>1. ASSUME NEW i \in 1 .. n PROVE mirrorQueue[i + 1] # mirrorQueue[1]
      BY <2>3 DEF QueueOK
    <3> QED BY <2>3, <2>4, <3>1
  <2>7. QueueOK'
    <3>1. \A i \in 1 .. n : at'[mirrorQueue'[i]] = "queued"
      BY <2>2, <2>3, <2>4, <2>6 DEF QueueOK
    <3>2. ASSUME NEW i \in 1 .. n, NEW j \in 1 .. n, mirrorQueue'[i] = mirrorQueue'[j] PROVE i = j
      <4>1. i + 1 = j + 1
        BY <2>3, <2>4, <3>2 DEF QueueOK
      <4> QED BY <4>1
    <3>3. ASSUME NEW i \in 1 .. n, NEW j \in 1 .. n, NEW x \in Submits,
                 mirrorQueue'[i] = RespondOf(x), mirrorQueue'[j] = SubmitOf(x)
          PROVE  j < i
      <4>1. j + 1 < i + 1
        BY <2>3, <2>4, <3>3 DEF QueueOK
      <4> QED BY <4>1
    <3>4. ASSUME NEW f \in Exchanges, at'[f] = "queued"
          PROVE  \E i \in 1 .. n : mirrorQueue'[i] = f
      <4>1. PICK i \in 1 .. n + 1 : mirrorQueue[i] = f
        BY <2>2, <2>3, <3>4 DEF QueueOK
      <4>2. i - 1 \in 1 .. n
        BY <2>2, <2>4, <3>4, <4>1
      <4> QED BY <2>4, <4>1, <4>2
    <3>5. \A f, h \in Exchanges : at'[f] = "mirrored" /\ at'[h] = "mirrored" => f = h
      BY <2>1, <2>2
    <3> QED BY <2>4, <3>1, <3>2, <3>3, <3>4, <3>5 DEF QueueOK
  <2>8. EpochsOK'
    BY <2>1, <2>2, <2>5, TwoKinds DEF EpochsOK
  <2>9. CASE e[1] = "submit"
    <3>1. sentEpoch' = sentEpoch
      BY <1>5, <2>9 DEF Mirror
    <3>2. ShadowTypeOK'
      BY <2>1, <2>2, <2>4, <3>1 DEF ShadowTypeOK
    <3>3. FollowsOK' /\ LearnedOK'
      BY <2>1, <2>2, <2>5, <3>1, TwoKinds DEF FollowsOK, LearnedOK
    <3> QED BY <2>7, <2>8, <3>2, <3>3
  <2>10. CASE e[1] = "respond"
    <3>1. PICK z \in Submits : e = RespondOf(z) /\ z = e[2]
      BY <2>10, TwoKinds
    <3>2. sentEpoch' = [sentEpoch EXCEPT ![z] = Rewritten(z)]
      BY <1>5, <2>10, <3>1 DEF Mirror
    <3>3. at[SubmitOf(z)] \in {"recorded", "lost"}
      <4>1. at[SubmitOf(z)] # "queued"
        <5> SUFFICES ASSUME at[SubmitOf(z)] = "queued" PROVE FALSE
          OBVIOUS
        <5>1. PICK j \in 1 .. n + 1 : mirrorQueue[j] = SubmitOf(z)
          BY <2>3, TwoKinds DEF QueueOK
        <5> QED BY <2>3, <2>4, <3>1, <5>1 DEF QueueOK
      <4> QED BY <2>1, <2>5, <3>1, <4>1, TwoKinds DEF FollowsOK
    <3>4. z \in learned => Rewritten(z) = prodEpoch[z]
      <4> SUFFICES ASSUME z \in learned PROVE Rewritten(z) = prodEpoch[z]
        OBVIOUS
      <4> DEFINE knows == {p \in epochs : p[1] = threadOf[z] /\ p[2] = localEpoch[z]}
      <4>1. localEpoch[z] # 0
        BY DEF LearnedOK, EpochsOK
      <4>2. knows = {<<threadOf[z], localEpoch[z], prodEpoch[z]>>}
        BY <4>1 DEF LearnedOK, EpochsOK
      <4> HIDE DEF knows
      <4>3. (CHOOSE p \in knows : TRUE) \in knows
        BY <4>2
      <4>4. (CHOOSE p \in knows : TRUE) = <<threadOf[z], localEpoch[z], prodEpoch[z]>>
        BY <4>2, <4>3
      <4>5. (CHOOSE p \in knows : TRUE)[3] = prodEpoch[z] /\ knows # {}
        BY <4>2, <4>4
      <4> QED BY <4>5 DEF Rewritten, knows
    <3>5. Rewritten(z) \in Nat
      <4> DEFINE knows == {p \in epochs : p[1] = threadOf[z] /\ p[2] = localEpoch[z]}
      <4>1. \A p \in knows : p[3] \in Nat
        BY DEF LearnedOK, ShadowTypeOK
      <4>2. localEpoch[z] \in Nat
        BY DEF ShadowTypeOK
      <4> HIDE DEF knows
      <4>3. knows # {} => (CHOOSE p \in knows : TRUE)[3] \in Nat
        BY <4>1
      <4> QED BY <4>2, <4>3 DEF Rewritten, knows
    <3>6. /\ sentEpoch' \in [Submits -> Nat] /\ sentEpoch'[z] = Rewritten(z)
          /\ \A x \in Submits \ {z} : sentEpoch'[x] = sentEpoch[x]
      BY <3>2, <3>5 DEF ShadowTypeOK
    <3>7. \A x \in Submits : at'[SubmitOf(x)] = at[SubmitOf(x)]
      BY <2>2, <3>1, TwoKinds
    <3>8. ShadowTypeOK'
      BY <2>1, <2>2, <2>4, <3>6 DEF ShadowTypeOK
    <3>9. FollowsOK'
      BY <2>2, <3>1, <3>3, <3>6, <3>7, TwoKinds DEF FollowsOK
    <3>10. LearnedOK'
      BY <2>1, <3>4, <3>6, <3>7 DEF LearnedOK
    <3> QED BY <2>7, <2>8, <3>8, <3>9, <3>10
  <2> QED BY <2>9, <2>10, TwoKinds
<1>6. ASSUME NEW e \in Exchanges, at[e] = "mirrored", NEW place \in {"recorded", "lost"},
             at' = [at EXCEPT ![e] = place],
             ProdHandles(e, e[2]) \/ UNCHANGED <<prodCount, prodEpoch>>,
             UNCHANGED <<threadOf, localCount, localEpoch, mirrorQueue, sentEpoch>>
      PROVE  /\ ShadowTypeOK' /\ EpochsOK' /\ QueueOK' /\ FollowsOK'
             /\ \A x \in learned : prodEpoch'[x] = prodEpoch[x]
             /\ \A x \in learned : at'[SubmitOf(x)] = at[SubmitOf(x)]
             /\ e[1] = "submit" => sentEpoch[e[2]] = 0 /\ at'[SubmitOf(e[2])] = place
  <2>1. place \in Places \ {"queued", "mirrored"}
    BY DEF Places
  <2>2. /\ at' \in [Exchanges -> Places] /\ at'[e] = place
        /\ \A f \in Exchanges \ {e} : at'[f] = at[f]
    BY <1>m, <1>6, <2>1
  <2>3. QueueOK'
    BY <1>6, <2>1, QueueKept
  <2>4. EpochsOK' /\ FollowsOK'
    BY <1>6, <2>2, TwoKinds DEF EpochsOK, FollowsOK
  <2>5. /\ prodCount' \in [ShadowThreads -> Nat] /\ prodEpoch' \in [Submits -> Nat]
        /\ \A x \in Submits : SubmitOf(x) # e => prodEpoch'[x] = prodEpoch[x]
    <3>1. CASE UNCHANGED <<prodCount, prodEpoch>>
      BY <3>1 DEF ShadowTypeOK
    <3>2. CASE e[1] # "respond" /\ ProdHandles(e, e[2])
      <4>1. PICK z \in Submits : e = SubmitOf(z) /\ z = e[2]
        BY <3>2, TwoKinds
      <4>2. PICK t \in ShadowThreads : t = threadOf[z]
        BY DEF ShadowTypeOK
      <4>3. /\ prodCount' = [prodCount EXCEPT ![t] = @ + 1]
            /\ prodEpoch' = [prodEpoch EXCEPT ![z] = prodCount'[t]]
        BY <3>2, <4>1, <4>2 DEF ProdHandles
      <4>4. prodCount' \in [ShadowThreads -> Nat] /\ prodCount'[t] \in Nat
        BY <4>3 DEF ShadowTypeOK
      <4> QED BY <4>1, <4>3, <4>4 DEF ShadowTypeOK
    <3> QED BY <1>6, <3>1, <3>2 DEF ProdHandles
  <2>6. ShadowTypeOK'
    BY <1>6, <2>2, <2>5 DEF ShadowTypeOK
  <2>7. \A x \in learned : SubmitOf(x) # e /\ SubmitOf(x) \in Exchanges /\ x \in Submits
    BY <1>6, TwoKinds DEF LearnedOK
  <2>8. e[1] = "submit" => sentEpoch[e[2]] = 0 /\ at'[SubmitOf(e[2])] = place
    BY <1>6, <2>2, TwoKinds DEF FollowsOK
  <2> QED BY <2>2, <2>3, <2>4, <2>5, <2>6, <2>7, <2>8
<1>7. ASSUME NEW e \in Exchanges, ProdAnswers(e) PROVE ShadowInv'
  <2>1. /\ at[e] = "mirrored" /\ at' = [at EXCEPT ![e] = "recorded"] /\ ProdHandles(e, e[2])
        /\ UNCHANGED <<threadOf, localCount, localEpoch, mirrorQueue, sentEpoch>>
    BY <1>7 DEF ProdAnswers, Moves
  <2>2. /\ ShadowTypeOK' /\ EpochsOK' /\ QueueOK' /\ FollowsOK'
        /\ \A x \in learned : prodEpoch'[x] = prodEpoch[x]
        /\ \A x \in learned : at'[SubmitOf(x)] = at[SubmitOf(x)]
        /\ e[1] = "submit" => sentEpoch[e[2]] = 0 /\ at'[SubmitOf(e[2])] = "recorded"
    BY <1>6, <2>1
  <2>3. CASE e[1] = "submit"
    <3>1. PICK z \in Submits : z = e[2]
      BY TwoKinds
    <3>2. learned' = learned \cup {z}
          /\ epochs' = epochs \cup {<<threadOf[z], localEpoch[z], prodEpoch'[z]>>}
      BY <1>7, <2>3, <3>1 DEF ProdAnswers, Pairs
    <3>3. LearnedOK'
      BY <2>1, <2>2, <2>3, <3>1, <3>2 DEF LearnedOK
    <3> QED BY <2>2, <3>3
  <2>4. CASE e[1] # "submit"
    <3>1. UNCHANGED <<epochs, learned>>
      BY <1>7, <2>4 DEF ProdAnswers
    <3>2. LearnedOK'
      BY <2>1, <2>2, <3>1 DEF LearnedOK
    <3> QED BY <2>2, <3>2
  <2> QED BY <2>3, <2>4
<1>8. ASSUME NEW e \in Exchanges, ProdFails(e) \/ WorkerDies(e) PROVE ShadowInv'
  <2>1. PICK place \in {"recorded", "lost"} : at' = [at EXCEPT ![e] = place]
    BY <1>8 DEF ProdFails, WorkerDies, Moves
  <2>2. /\ at[e] = "mirrored"
        /\ ProdHandles(e, e[2]) \/ UNCHANGED <<prodCount, prodEpoch>>
        /\ UNCHANGED <<threadOf, localCount, localEpoch, mirrorQueue, sentEpoch, epochs, learned>>
    BY <1>8 DEF ProdFails, WorkerDies
  <2>3. /\ ShadowTypeOK' /\ EpochsOK' /\ QueueOK' /\ FollowsOK'
        /\ \A x \in learned : prodEpoch'[x] = prodEpoch[x]
        /\ \A x \in learned : at'[SubmitOf(x)] = at[SubmitOf(x)]
    BY <1>6, <2>1, <2>2
  <2>4. LearnedOK'
    BY <2>2, <2>3 DEF LearnedOK
  <2> QED BY <2>3, <2>4
<1>9. CASE ProxyRestart
  <2>1. /\ at' = [e \in Exchanges |-> IF at[e] \in {"sent", "handled", "queued", "mirrored"}
                                      THEN "lost" ELSE at[e]]
        /\ mirrorQueue' = << >> /\ epochs' = {} /\ learned' = {}
        /\ UNCHANGED <<threadOf, localCount, prodCount, localEpoch, prodEpoch, sentEpoch>>
    BY <1>9 DEF ProxyRestart, services
  <2>2. ShadowTypeOK'
    BY <2>1 DEF ShadowTypeOK, Places
  <2>3. \A e \in Exchanges : at'[e] = IF at[e] \in {"sent", "handled", "queued", "mirrored"}
                                      THEN "lost" ELSE at[e]
    BY <2>1
  <2>4. EpochsOK'
    BY <2>1, <2>3, TwoKinds DEF EpochsOK
  <2>5. FollowsOK'
    BY <2>1, <2>3, TwoKinds DEF FollowsOK
  <2>6. QueueOK' /\ LearnedOK'
    BY <2>1, <2>3 DEF QueueOK, LearnedOK
  <2> QED BY <2>2, <2>4, <2>5, <2>6
<1> QED BY <1>0, <1>1, <1>2, <1>3, <1>4, <1>5, <1>7, <1>8, <1>9 DEF ShadowNext

-----------------------------------------------------------------------------
\* Whatever order requests are answered in and however often the proxy
\* restarts, a respond carries the epoch production gave its submit.
THEOREM RepliesMirroredInStep == ShadowSpec => []MirroredInStep
<1>1. ShadowInv => MirroredInStep
  BY DEF ShadowInv, LearnedOK, MirroredInStep
<1> QED BY <1>1, ShadowInitInv, ShadowStepInv, PTL DEF ShadowSpec

-----------------------------------------------------------------------------
(* Sink.  Rows and ingest know a line by its number, the file by the half   *)
(* that ends it; the invariant ties the two together, and what a pass has   *)
(* loaded is the whole lines up to where it stands.                         *)

Halves == Nat \X {"head", "rest", "cut"}

\* The record of the last half of f.
LastRec(f) == IF f = << >> THEN 0 ELSE f[Len(f)][1]

\* Records are written one after the other, and the second half of one right
\* behind its first.
FileIs(f) ==
  /\ f \in Seq(Halves)
  /\ {f[i][1] : i \in 1 .. Len(f)} = 1 .. LastRec(f)
  /\ \A i \in 1 .. Len(f) : Ends(f[i]) => i > 1 /\ f[i - 1] = <<f[i][1], "head">>
  /\ \A i, j \in 1 .. Len(f) :
       i < j => /\ f[i][1] <= f[j][1]
                /\ Ends(f[i]) => f[i][1] < f[j][1]

SinkRow == [line : Nat, rec : Nat, prod : BOOLEAN]

SinkTypeOK ==
  /\ FileIs(file)
  /\ passPos \in -1 .. Len(file) /\ passLine \in Nat
  /\ table \in SUBSET SinkRow /\ rows \in SUBSET SinkRow
  /\ known \in BOOLEAN

\* The pass counts lines right as long as it stands behind a newline; ingest
\* holds what it held when the pass began, and the pass has loaded none of it.
PassOK ==
  /\ passPos = Between => rows = {}
  /\ passPos # Between => doneLines = {row.line : row \in table}
  /\ passPos = 0 => passLine = 0
  /\ passPos > 0 => (Ends(file[passPos]) => passLine = LineOf(passPos))
  /\ \A row \in rows : row.line \notin doneLines /\ row.line <= LineOf(passPos)

\* A row is the record at its line, and knows the production thread exactly if
\* the pair is in the file up to it.
RowOK(row) ==
  /\ \E i \in Whole : LineOf(i) = row.line /\ file[i][1] = row.rec
  /\ row.prod <=> \E i \in Whole : file[i][1] \in Opens /\ file[i][1] <= row.rec

\* Nothing whole is missing before a committed row, nor before where the pass
\* is; the process knows the thread exactly if a row it loaded names it.
LoadedOK ==
  /\ \A row \in table \cup rows : RowOK(row)
  /\ \A row \in table, i \in Whole :
       LineOf(i) <= row.line => \E r2 \in table : r2.line = LineOf(i)
  /\ \A i \in Whole : i <= passPos => \E row \in table \cup rows : row.line = LineOf(i)
  /\ known <=> \E row \in table \cup rows : row.rec \in Opens

SinkInv == SinkTypeOK /\ (shifted = "never" => PassOK /\ LoadedOK)

\* The line of f that half i is on, counting the newlines up to it.
EndsUpTo(f, i) == {j \in 1 .. i : Ends(f[j])}
LineIn(f, i)   == Cardinality(EndsUpTo(f, i))

\* A line's number is a natural, 0 before the first newline.
LEMMA LineNumber ==
  ASSUME NEW f, NEW i \in Nat
  PROVE  IsFiniteSet(EndsUpTo(f, i)) /\ LineIn(f, i) \in Nat
<1>1. IsFiniteSet(1 .. i)
  BY FS_Interval
<1>2. EndsUpTo(f, i) \in SUBSET (1 .. i)
  BY DEF EndsUpTo
<1>3. IsFiniteSet(EndsUpTo(f, i))
  BY <1>1, <1>2, FS_Subset
<1> QED BY <1>3, FS_CardinalityType DEF LineIn

\* Line numbers grow with the place in the file.
LEMMA LinesGrow ==
  ASSUME NEW f, NEW i \in Nat, NEW j \in Nat, i <= j
  PROVE  LineIn(f, i) <= LineIn(f, j)
<1>1. IsFiniteSet(EndsUpTo(f, j))
  BY LineNumber
<1>2. EndsUpTo(f, i) \in SUBSET EndsUpTo(f, j)
  BY DEF EndsUpTo
<1> QED BY <1>1, <1>2, FS_Subset DEF LineIn

\* A newline in between makes a difference.
LEMMA LinesDiffer ==
  ASSUME NEW f, NEW i \in Nat, NEW j \in Nat, i < j, Ends(f[j])
  PROVE  LineIn(f, i) < LineIn(f, j)
<1>1. IsFiniteSet(EndsUpTo(f, j))
  BY LineNumber
<1>2. EndsUpTo(f, i) \in SUBSET EndsUpTo(f, j)
  BY DEF EndsUpTo
<1>3. EndsUpTo(f, i) # EndsUpTo(f, j)
  <2>1. j \in EndsUpTo(f, j) /\ j \notin EndsUpTo(f, i)
    BY DEF EndsUpTo
  <2> QED BY <2>1
<1>4. LineIn(f, i) # LineIn(f, j)
  BY <1>1, <1>2, <1>3, FS_Subset DEF LineIn
<1>5. LineIn(f, i) \in Nat /\ LineIn(f, j) \in Nat /\ LineIn(f, i) <= LineIn(f, j)
  BY LineNumber, LinesGrow
<1> QED BY <1>4, <1>5

\* The next newline is on the next line.
LEMMA NextLine ==
  ASSUME NEW f, NEW p \in Nat, NEW q \in Nat, p < q, Ends(f[q]),
         \A j \in p + 1 .. q - 1 : ~ Ends(f[j])
  PROVE  LineIn(f, q) = LineIn(f, p) + 1
<1>1. IsFiniteSet(EndsUpTo(f, p)) /\ q \notin EndsUpTo(f, p)
  <2>1. IsFiniteSet(EndsUpTo(f, p))
    BY LineNumber
  <2>2. q \notin EndsUpTo(f, p)
    BY DEF EndsUpTo
  <2> QED BY <2>1, <2>2
<1>2. EndsUpTo(f, q) = EndsUpTo(f, p) \cup {q}
  BY DEF EndsUpTo
<1> QED BY <1>1, <1>2, FS_AddElement DEF LineIn

\* readline stops behind the first newline, or at the end of the file.
LEMMA LineEndIs ==
  ASSUME file \in Seq(Halves), NEW p \in Nat, p < Len(file)
  PROVE  /\ LineEnd(p) \in p + 1 .. Len(file)
         /\ \A j \in p + 1 .. LineEnd(p) - 1 : ~ Ends(file[j])
         /\ LineEnd(p) = Len(file) \/ Ends(file[LineEnd(p)])
<1> DEFINE ends == {i \in p + 1 .. Len(file) : Ends(file[i])}
           first == CHOOSE i \in ends : \A j \in ends : i <= j
<1>1. Len(file) \in Nat
  OBVIOUS
<1>2. CASE ends = {}
  <2>1. LineEnd(p) = Len(file)
    BY <1>2 DEF LineEnd
  <2> QED BY <1>1, <1>2, <2>1
<1>3. CASE ends # {}
  <2>1. \E i \in ends : \A j \in ends : i <= j
    <3>1. ends \in SUBSET Nat
      BY <1>1
    <3> HIDE DEF ends
    <3> QED BY <1>3, <3>1, LeastNatural
  <2>2. first \in ends /\ \A j \in ends : first <= j
    <3> HIDE DEF ends
    <3> QED BY <2>1
  <2>3. LineEnd(p) = first
    BY <1>3 DEF LineEnd
  <2> HIDE DEF first
  <2>4. first \in p + 1 .. Len(file) /\ Ends(file[first])
    BY <2>2
  <2>5. \A j \in p + 1 .. first - 1 : ~ Ends(file[j])
    <3> SUFFICES ASSUME NEW j \in p + 1 .. first - 1, Ends(file[j]) PROVE FALSE
      OBVIOUS
    <3>1. j \in ends /\ j < first
      BY <1>1, <2>4
    <3> QED BY <1>1, <2>2, <2>4, <3>1
  <2> QED BY <2>3, <2>4, <2>5
<1> QED BY <1>2, <1>3

\* The ends of f's whole lines: a newline right behind the record's first half,
\* which the file or a newline precedes.
WholeIn(f) == {i \in 2 .. Len(f) : Ends(f[i]) /\ (i = 2 \/ Ends(f[i - 2]))}

\* In a file written record after record these are the lines that decode.
LEMMA WholeIs == FileIs(file) => Whole = WholeIn(file)
<1> SUFFICES ASSUME FileIs(file) PROVE Whole = WholeIn(file)
  OBVIOUS
<1>1. Len(file) \in Nat /\ \A i \in 1 .. Len(file) : file[i] \in Halves
  BY DEF FileIs
<1>2. ASSUME NEW i \in 2 .. Len(file)
      PROVE  Decodes(i - 2, i) <=> Ends(file[i])
  <2>1. i \in 1 .. Len(file) /\ (i - 2) + 1 = i - 1 /\ (i - 2) + 2 = i
    BY <1>1
  <2>2. file[i] = <<file[i][1], file[i][2]>>
    BY <1>1, <2>1 DEF Halves
  <2>3. Decodes(i - 2, i) => Ends(file[i])
    BY <2>1 DEF Decodes, Ends
  <2>4. Ends(file[i]) => file[i - 1] = <<file[i][1], "head">> /\ file[i][2] = "rest"
    BY <2>1 DEF FileIs, Ends
  <2>5. Ends(file[i]) => Decodes(i - 2, i)
    BY <2>1, <2>2, <2>4 DEF Decodes
  <2> QED BY <2>3, <2>5
<1> QED BY <1>2 DEF Whole, WholeIn

\* Whole lines are in the order of their numbers and of their records.
LEMMA WholeOrder ==
  ASSUME NEW f, FileIs(f), NEW i \in WholeIn(f), NEW j \in WholeIn(f), i < j
  PROVE  LineIn(f, i) < LineIn(f, j) /\ f[i][1] < f[j][1]
<1>1. i \in Nat /\ j \in Nat /\ i \in 1 .. Len(f) /\ j \in 1 .. Len(f) /\ Ends(f[i]) /\ Ends(f[j])
  BY DEF WholeIn, FileIs
<1>2. LineIn(f, i) < LineIn(f, j)
  BY <1>1, LinesDiffer
<1>3. f[i][1] < f[j][1]
  BY <1>1 DEF FileIs
<1> QED BY <1>2, <1>3

-----------------------------------------------------------------------------
(* The proxy appends.  g is f with more behind it; no newline of f moves.   *)

Grows(f, g) ==
  /\ Len(f) <= Len(g)
  /\ \A i \in 1 .. Len(f) : (Ends(g[i]) <=> Ends(f[i])) /\ g[i][1] = f[i][1]

\* Lines already there keep their numbers.
LEMMA LinesStay ==
  ASSUME NEW f, NEW g, Grows(f, g), Len(f) \in Nat, NEW i \in Nat, i <= Len(f)
  PROVE  LineIn(g, i) = LineIn(f, i)
<1>1. EndsUpTo(g, i) = EndsUpTo(f, i)
  BY DEF Grows, EndsUpTo
<1> QED BY <1>1 DEF LineIn

\* Whole lines stay whole, and the new ones are behind the old file.
LEMMA WholeStays ==
  ASSUME NEW f, NEW g, Grows(f, g), Len(f) \in Nat, Len(g) \in Nat
  PROVE  /\ WholeIn(f) \subseteq WholeIn(g)
         /\ \A i \in WholeIn(g) : i <= Len(f) => i \in WholeIn(f)
<1>1. \A i \in 2 .. Len(f) : i \in 1 .. Len(f) /\ (i # 2 => i - 2 \in 1 .. Len(f)) /\ i \in 2 .. Len(g)
  BY DEF Grows
<1>2. \A i \in 2 .. Len(f) : (Ends(g[i]) <=> Ends(f[i]))
                             /\ (i # 2 => (Ends(g[i - 2]) <=> Ends(f[i - 2])))
  BY <1>1 DEF Grows
<1>3. \A i \in WholeIn(g) : i <= Len(f) => i \in 2 .. Len(f)
  BY DEF WholeIn
<1> QED BY <1>1, <1>2, <1>3 DEF WholeIn

\* The first half of the next record behind a whole or torn one.
LEMMA HeadKeeps ==
  ASSUME NEW f, FileIs(f), f = << >> \/ f[Len(f)][2] # "head"
  PROVE  /\ FileIs(Append(f, <<LastRec(f) + 1, "head">>))
         /\ Grows(f, Append(f, <<LastRec(f) + 1, "head">>))
<1> DEFINE L == Len(f)
           n == LastRec(f) + 1
           g == Append(f, <<n, "head">>)
<1>1. f \in Seq(Halves) /\ L \in Nat
  BY DEF FileIs
<1>2. L > 0 => L \in 1 .. L /\ f[L] \in Halves /\ f[L][1] \in Nat
  BY <1>1 DEF Halves
<1>3. LastRec(f) = (IF L = 0 THEN 0 ELSE f[L][1]) /\ LastRec(f) \in Nat
  BY <1>1, <1>2 DEF LastRec
<1>4. n \in Nat /\ <<n, "head">> \in Halves
  BY <1>3 DEF Halves
<1>5. g \in Seq(Halves) /\ Len(g) = L + 1 /\ g[L + 1] = <<n, "head">>
      /\ \A i \in 1 .. L : g[i] = f[i]
  <2> HIDE DEF n
  <2> QED BY <1>1, <1>4
<1> HIDE DEF g
<1>6. LastRec(g) = n
  BY <1>1, <1>5 DEF LastRec
<1>7. {g[i][1] : i \in 1 .. Len(g)} = 1 .. LastRec(g)
  <2>1. {f[i][1] : i \in 1 .. L} = 1 .. LastRec(f)
    BY DEF FileIs
  <2>2. {g[i][1] : i \in 1 .. L + 1} = {f[i][1] : i \in 1 .. L} \cup {n}
    <3>1. g[L + 1][1] = n
      BY <1>5
    <3>2. 1 .. L + 1 = (1 .. L) \cup {L + 1}
      BY <1>1
    <3>3. \A i \in 1 .. L : g[i][1] = f[i][1]
      BY <1>5
    <3> HIDE DEF n, L
    <3> QED BY <3>1, <3>2, <3>3
  <2>3. 1 .. n = (1 .. LastRec(f)) \cup {n}
    BY <1>3
  <2> HIDE DEF n
  <2> QED BY <1>5, <1>6, <2>1, <2>2, <2>3
<1>8. ~ Ends(g[L + 1])
  BY <1>5 DEF Ends
<1>9. \A i \in 1 .. Len(g) : Ends(g[i]) => i > 1 /\ g[i - 1] = <<g[i][1], "head">>
  <2> SUFFICES ASSUME NEW i \in 1 .. L + 1, Ends(g[i])
               PROVE  i > 1 /\ g[i - 1] = <<g[i][1], "head">>
    BY <1>5
  <2>1. i \in 1 .. L
    BY <1>1, <1>8
  <2>2. i > 1 /\ f[i - 1] = <<f[i][1], "head">>
    BY <1>5, <2>1 DEF FileIs
  <2>3. i - 1 \in 1 .. L
    BY <1>1, <2>1, <2>2
  <2> QED BY <1>5, <2>1, <2>2, <2>3
<1>10. \A i, j \in 1 .. Len(g) : i < j => g[i][1] <= g[j][1] /\ (Ends(g[i]) => g[i][1] < g[j][1])
  <2> SUFFICES ASSUME NEW i \in 1 .. L + 1, NEW j \in 1 .. L + 1, i < j
               PROVE  g[i][1] <= g[j][1] /\ (Ends(g[i]) => g[i][1] < g[j][1])
    BY <1>5
  <2>1. i \in 1 .. L
    BY <1>1
  <2>2. CASE j \in 1 .. L
    BY <1>5, <2>1, <2>2 DEF FileIs
  <2>3. CASE j = L + 1
    <3>1. f[i][1] \in 1 .. LastRec(f)
      BY <2>1 DEF FileIs
    <3>2. g[i][1] = f[i][1] /\ g[j][1] = n
      BY <1>5, <2>1, <2>3
    <3> QED BY <1>3, <3>1, <3>2
  <2> QED BY <1>1, <2>2, <2>3
<1>11. FileIs(g)
  BY <1>5, <1>7, <1>9, <1>10 DEF FileIs
<1>12. Grows(f, g)
  BY <1>1, <1>5 DEF Grows
<1> QED BY <1>11, <1>12 DEF g

\* The second half of a record behind its first.
LEMMA RestKeeps ==
  ASSUME NEW f, FileIs(f), f # << >>, f[Len(f)][2] = "head"
  PROVE  /\ FileIs(Append(f, <<f[Len(f)][1], "rest">>))
         /\ Grows(f, Append(f, <<f[Len(f)][1], "rest">>))
<1> DEFINE L == Len(f)
           n == f[L][1]
           g == Append(f, <<n, "rest">>)
<1>1. f \in Seq(Halves) /\ L \in Nat /\ L > 0
  BY DEF FileIs
<1>2. L \in 1 .. L /\ f[L] \in Halves /\ n \in Nat /\ LastRec(f) = n
  BY <1>1 DEF Halves, LastRec
<1>3. f[L] = <<n, "head">> /\ ~ Ends(f[L])
  BY <1>2 DEF Halves, Ends
<1>4. <<n, "rest">> \in Halves
  BY <1>2 DEF Halves
<1>5. g \in Seq(Halves) /\ Len(g) = L + 1 /\ g[L + 1] = <<n, "rest">>
      /\ \A i \in 1 .. L : g[i] = f[i]
  <2> HIDE DEF n
  <2> QED BY <1>1, <1>4
<1> HIDE DEF g
<1>6. LastRec(g) = n
  BY <1>1, <1>5 DEF LastRec
<1>7. {g[i][1] : i \in 1 .. Len(g)} = 1 .. LastRec(g)
  <2>1. {f[i][1] : i \in 1 .. L} = 1 .. n
    BY <1>2 DEF FileIs
  <2>2. {g[i][1] : i \in 1 .. L + 1} = {f[i][1] : i \in 1 .. L}
    <3>1. g[L + 1][1] = n /\ f[L][1] = n
      BY <1>5
    <3>2. 1 .. L + 1 = (1 .. L) \cup {L + 1} /\ L \in 1 .. L
      BY <1>1
    <3>3. \A i \in 1 .. L : g[i][1] = f[i][1]
      BY <1>5
    <3> HIDE DEF n, L
    <3> QED BY <3>1, <3>2, <3>3
  <2> HIDE DEF n
  <2> QED BY <1>5, <1>6, <2>1, <2>2
<1>9. \A i \in 1 .. Len(g) : Ends(g[i]) => i > 1 /\ g[i - 1] = <<g[i][1], "head">>
  <2> SUFFICES ASSUME NEW i \in 1 .. L + 1, Ends(g[i])
               PROVE  i > 1 /\ g[i - 1] = <<g[i][1], "head">>
    BY <1>5
  <2>1. CASE i \in 1 .. L
    <3>1. i > 1 /\ f[i - 1] = <<f[i][1], "head">>
      BY <1>5, <2>1 DEF FileIs
    <3>2. i - 1 \in 1 .. L
      BY <1>1, <2>1, <3>1
    <3> QED BY <1>5, <2>1, <3>1, <3>2
  <2>2. CASE i = L + 1
    <3>1. i - 1 = L /\ i > 1 /\ g[L] = f[L] /\ g[i][1] = n
      BY <1>1, <1>2, <1>5, <2>2
    <3> QED BY <1>3, <3>1
  <2> QED BY <1>1, <2>1, <2>2
<1>10. \A i, j \in 1 .. Len(g) : i < j => g[i][1] <= g[j][1] /\ (Ends(g[i]) => g[i][1] < g[j][1])
  <2> SUFFICES ASSUME NEW i \in 1 .. L + 1, NEW j \in 1 .. L + 1, i < j
               PROVE  g[i][1] <= g[j][1] /\ (Ends(g[i]) => g[i][1] < g[j][1])
    BY <1>5
  <2>1. i \in 1 .. L
    BY <1>1
  <2>2. CASE j \in 1 .. L
    BY <1>5, <2>1, <2>2 DEF FileIs
  <2>3. CASE j = L + 1
    <3>1. g[i] = f[i] /\ g[j][1] = n
      BY <1>5, <2>1, <2>3
    <3>2. CASE i = L
      BY <1>2, <1>3, <3>1, <3>2
    <3>3. CASE i < L
      <4>1. f[i][1] <= f[L][1] /\ (Ends(f[i]) => f[i][1] < f[L][1])
        BY <1>2, <2>1, <3>3 DEF FileIs
      <4> QED BY <3>1, <4>1
    <3> QED BY <1>1, <2>1, <3>2, <3>3
  <2> QED BY <1>1, <2>2, <2>3
<1>11. FileIs(g)
  BY <1>5, <1>7, <1>9, <1>10 DEF FileIs
<1>12. Grows(f, g)
  BY <1>1, <1>5 DEF Grows
<1> QED BY <1>11, <1>12 DEF g

\* A first half that stays alone.
LEMMA CutKeeps ==
  ASSUME NEW f, FileIs(f), f # << >>, f[Len(f)][2] = "head"
  PROVE  /\ FileIs([f EXCEPT ![Len(f)][2] = "cut"])
         /\ Grows(f, [f EXCEPT ![Len(f)][2] = "cut"])
<1> DEFINE L == Len(f)
           n == f[L][1]
           g == [f EXCEPT ![L][2] = "cut"]
<1>1. f \in Seq(Halves) /\ L \in Nat /\ L > 0
  BY DEF FileIs
<1>2. L \in 1 .. L /\ f[L] \in Halves /\ n \in Nat /\ LastRec(f) = n
  BY <1>1 DEF Halves, LastRec
<1>3. f[L] = <<n, "head">> /\ ~ Ends(f[L])
  BY <1>2 DEF Halves, Ends
<1>4. <<n, "cut">> \in Halves
  BY <1>2 DEF Halves
<1>5. g \in Seq(Halves) /\ Len(g) = L /\ g[L] = <<n, "cut">>
      /\ \A i \in 1 .. L : i # L => g[i] = f[i]
  <2>1. g = [f EXCEPT ![L] = <<n, "cut">>]
    <3>1. [<<n, "head">> EXCEPT ![2] = "cut"] = <<n, "cut">>
      <4> HIDE DEF n
      <4> QED OBVIOUS
    <3>2. g = [f EXCEPT ![L] = [f[L] EXCEPT ![2] = "cut"]]
      OBVIOUS
    <3> QED BY <1>3, <3>1, <3>2
  <2> HIDE DEF n, g
  <2> QED BY <1>1, <1>2, <1>4, <2>1
<1> HIDE DEF g
<1>6. LastRec(g) = n /\ ~ Ends(g[L])
  BY <1>1, <1>5 DEF LastRec, Ends
<1>7. \A i \in 1 .. L : g[i][1] = f[i][1] /\ (Ends(g[i]) <=> Ends(f[i]))
  BY <1>3, <1>5, <1>6
<1>8. {g[i][1] : i \in 1 .. Len(g)} = 1 .. LastRec(g)
  <2>1. {f[i][1] : i \in 1 .. L} = 1 .. n
    BY <1>2 DEF FileIs
  <2> HIDE DEF n
  <2> QED BY <1>5, <1>6, <1>7, <2>1
<1>9. \A i \in 1 .. Len(g) : Ends(g[i]) => i > 1 /\ g[i - 1] = <<g[i][1], "head">>
  <2> SUFFICES ASSUME NEW i \in 1 .. L, Ends(g[i])
               PROVE  i > 1 /\ g[i - 1] = <<g[i][1], "head">>
    BY <1>5
  <2>1. i > 1 /\ f[i - 1] = <<f[i][1], "head">> /\ i # L
    BY <1>6, <1>7 DEF FileIs
  <2>2. i - 1 \in 1 .. L /\ i - 1 # L
    BY <1>1, <2>1
  <2> QED BY <1>5, <2>1, <2>2
<1>10. \A i, j \in 1 .. Len(g) : i < j => g[i][1] <= g[j][1] /\ (Ends(g[i]) => g[i][1] < g[j][1])
  BY <1>5, <1>7 DEF FileIs
<1>11. FileIs(g)
  BY <1>5, <1>8, <1>9, <1>10 DEF FileIs
<1>12. Grows(f, g)
  BY <1>1, <1>5, <1>7 DEF Grows
<1> QED BY <1>11, <1>12 DEF g

\* A file that has grown changes nothing about what was loaded.
LEMMA FileKeeps ==
  ASSUME SinkInv, FileIs(file'), Grows(file, file'),
         UNCHANGED <<passPos, passLine, doneLines, rows, table, known, shifted>>
  PROVE  SinkInv'
<1> DEFINE L == Len(file)
<1>1. /\ passPos' = passPos /\ passLine' = passLine /\ doneLines' = doneLines
      /\ rows' = rows /\ table' = table /\ known' = known /\ shifted' = shifted
  OBVIOUS
<1>2. /\ FileIs(file) /\ passPos \in -1 .. L /\ passLine \in Nat
      /\ table \in SUBSET SinkRow /\ rows \in SUBSET SinkRow /\ known \in BOOLEAN
  BY DEF SinkInv, SinkTypeOK
<1>3. L \in Nat /\ Len(file') \in Nat /\ L <= Len(file')
  BY <1>2 DEF FileIs, Grows
<1>4. SinkTypeOK'
  <2>1. passPos \in -1 .. Len(file')
    BY <1>2, <1>3
  <2> QED BY <1>1, <1>2, <2>1 DEF SinkTypeOK, SinkRow
<1> SUFFICES ASSUME shifted = "never" PROVE PassOK' /\ LoadedOK'
  BY <1>1, <1>4 DEF SinkInv
<1>5. PassOK /\ LoadedOK
  BY DEF SinkInv
<1>6. Whole = WholeIn(file)
  BY <1>2, WholeIs
<1>7. Whole' = WholeIn(file')
  <2>1. (FileIs(file) => Whole = WholeIn(file))'
    BY WholeIs, PTL
  <2> QED BY <2>1
<1>8. \A i \in Nat : LineOf(i) = LineIn(file, i) /\ LineOf(i)' = LineIn(file', i)
  BY DEF LineOf, LineIn, EndsUpTo
<1>9. \A i \in Nat : i <= L => LineIn(file', i) = LineIn(file, i)
  BY <1>3, LinesStay
<1>10. Whole \subseteq Whole' /\ \A i \in Whole' : i <= L => i \in Whole
  BY <1>3, <1>6, <1>7, WholeStays
<1>11. \A i \in Whole : i \in Nat /\ i \in 1 .. L /\ Ends(file[i])
  BY <1>3, <1>6 DEF WholeIn
<1>12. \A i \in Whole : LineOf(i)' = LineOf(i) /\ file'[i][1] = file[i][1]
  BY <1>8, <1>9, <1>11 DEF Grows
<1>13. \A i \in Whole' : i \in Nat /\ Ends(file'[i]) /\ (i \in Whole \/ i > L)
  BY <1>3, <1>7, <1>10 DEF WholeIn
<1>14. ASSUME NEW i \in Whole, NEW j \in Whole', j \notin Whole
       PROVE  LineOf(i)' < LineOf(j)' /\ file'[i][1] < file'[j][1]
  <2>1. i < j /\ i \in WholeIn(file') /\ j \in WholeIn(file')
    BY <1>3, <1>7, <1>10, <1>11, <1>13, <1>14
  <2>2. LineIn(file', i) < LineIn(file', j) /\ file'[i][1] < file'[j][1]
    BY <2>1, WholeOrder
  <2> QED BY <1>8, <1>11, <1>13, <2>2
<1>15. ASSUME NEW row \in table \cup rows PROVE RowOK(row)'
  <2>1. RowOK(row) /\ row \in SinkRow
    BY <1>2, <1>5, <1>15 DEF LoadedOK
  <2>2. PICK i \in Whole : LineOf(i) = row.line /\ file[i][1] = row.rec
    BY <2>1 DEF RowOK
  <2>3. i \in Whole' /\ LineOf(i)' = row.line /\ file'[i][1] = row.rec
    BY <1>10, <1>12, <2>2
  <2>4. ASSUME NEW j \in Whole, file[j][1] \in Opens /\ file[j][1] <= row.rec
        PROVE  \E k \in Whole' : file'[k][1] \in Opens /\ file'[k][1] <= row.rec
    <3>1. j \in Whole' /\ file'[j][1] = file[j][1]
      BY <1>10, <1>12
    <3> QED BY <2>4, <3>1
  <2>5. ASSUME NEW j \in Whole', file'[j][1] \in Opens /\ file'[j][1] <= row.rec
        PROVE  \E k \in Whole : file[k][1] \in Opens /\ file[k][1] <= row.rec
    <3>1. j \in Whole
      <4> SUFFICES ASSUME j \notin Whole PROVE FALSE
        OBVIOUS
      <4>1. row.rec < file'[j][1]
        BY <1>14, <2>3
      <4>2. file'[j][1] \in Nat /\ row.rec \in Nat
        <5>1. j \in 1 .. Len(file')
          BY <1>7 DEF WholeIn
        <5>2. file'[j] \in Halves
          BY <5>1 DEF FileIs
        <5> QED BY <2>1, <5>2 DEF Halves, SinkRow
      <4> QED BY <2>5, <4>1, <4>2
    <3>2. file'[j][1] = file[j][1]
      BY <1>12, <3>1
    <3> QED BY <2>5, <3>1, <3>2
  <2>6. row.prod <=> \E k \in Whole : file[k][1] \in Opens /\ file[k][1] <= row.rec
    BY <2>1 DEF RowOK
  <2>7. row.prod <=> \E k \in Whole' : file'[k][1] \in Opens /\ file'[k][1] <= row.rec
    BY <2>4, <2>5, <2>6
  <2> QED BY <2>3, <2>7 DEF RowOK
<1>16. PassOK'
  <2>1. passPos > 0 => passPos \in 1 .. L /\ passPos \in Nat
    BY <1>2, <1>3
  <2>2. passPos > 0 => (Ends(file'[passPos]) <=> Ends(file[passPos])) /\ LineOf(passPos)' = LineOf(passPos)
    BY <1>3, <1>8, <1>9, <2>1 DEF Grows
  <2>3. passPos = 0 => LineOf(passPos)' = LineOf(passPos)
    BY <1>3, <1>8, <1>9
  <2>4. passPos = -1 \/ passPos = 0 \/ passPos > 0
    BY <1>2, <1>3
  <2>5. \A row \in rows : LineOf(passPos)' = LineOf(passPos)
    BY <1>5, <2>2, <2>3, <2>4 DEF PassOK, Between
  <2> QED BY <1>1, <1>5, <2>2, <2>5 DEF PassOK
<1>17. \A row \in table, i \in Whole' :
         LineOf(i)' <= row.line => \E r2 \in table : r2.line = LineOf(i)'
  <2> SUFFICES ASSUME NEW row \in table, NEW i \in Whole', LineOf(i)' <= row.line
               PROVE  \E r2 \in table : r2.line = LineOf(i)'
    OBVIOUS
  <2>1. i \in Whole
    <3> SUFFICES ASSUME i \notin Whole PROVE FALSE
      OBVIOUS
    <3>1. RowOK(row)
      BY <1>5 DEF LoadedOK
    <3>2. PICK j \in Whole : LineOf(j) = row.line
      BY <3>1 DEF RowOK
    <3>3. row.line < LineOf(i)'
      BY <1>12, <1>14, <3>2
    <3>4. row.line \in Nat /\ LineOf(i)' \in Nat
      BY <1>2, <1>8, <1>13, LineNumber DEF SinkRow
    <3> QED BY <3>3, <3>4
  <2> QED BY <1>5, <1>12, <2>1 DEF LoadedOK
<1>18. \A i \in Whole' : i <= passPos => \E row \in table \cup rows : row.line = LineOf(i)'
  <2> SUFFICES ASSUME NEW i \in Whole', i <= passPos
               PROVE  \E row \in table \cup rows : row.line = LineOf(i)'
    OBVIOUS
  <2>1. i \in Whole
    BY <1>2, <1>3, <1>13
  <2> QED BY <1>5, <1>12, <2>1 DEF LoadedOK
<1>19. LoadedOK'
  <2>1. known <=> \E row \in table \cup rows : row.rec \in Opens
    BY <1>5 DEF LoadedOK
  <2> QED BY <1>1, <1>15, <1>17, <1>18, <2>1 DEF LoadedOK
<1> QED BY <1>16, <1>19

-----------------------------------------------------------------------------
(* The steps of the sink leave the file alone.                              *)

\* A row is at one whole line only.
LEMMA OneLine ==
  ASSUME FileIs(file), NEW i \in Whole, NEW j \in Whole, LineOf(i) = LineOf(j)
  PROVE  i = j
<1>1. Whole = WholeIn(file)
  BY WholeIs
<1>2. i \in Nat /\ j \in Nat
  BY <1>1 DEF WholeIn
<1>3. LineIn(file, i) = LineIn(file, j) /\ LineIn(file, i) \in Nat
  BY <1>2, LineNumber DEF LineOf, LineIn, EndsUpTo
<1>4. ~ (i < j)
  BY <1>1, <1>3, WholeOrder
<1>5. ~ (j < i)
  <2>1. LineIn(file, j) \in Nat
    BY <1>3
  <2> QED BY <1>1, <1>3, <2>1, WholeOrder
<1> QED BY <1>2, <1>4, <1>5

\* What one readline finds, if it starts at the beginning of a line: of the
\* whole lines it passes at most the one that ends where it stops.
LEMMA OneLineRead ==
  ASSUME FileIs(file), NEW p \in Nat, p < Len(file), p = 0 \/ Ends(file[p])
  PROVE  /\ LineEnd(p) \in Nat /\ p < LineEnd(p) /\ LineEnd(p) <= Len(file)
         /\ Ends(file[LineEnd(p)]) => LineOf(LineEnd(p)) = LineOf(p) + 1
         /\ \A i \in Whole : i <= LineEnd(p) => i <= p \/ i = LineEnd(p)
         /\ Decodes(p, LineEnd(p)) <=> LineEnd(p) \in Whole
         /\ Decodes(p, LineEnd(p)) => file[p + 1][1] = file[LineEnd(p)][1]
<1> DEFINE q == LineEnd(p)
           L == Len(file)
<1>1. file \in Seq(Halves) /\ L \in Nat /\ \A i \in 1 .. L : file[i] \in Halves
  BY DEF FileIs
<1>2. q \in p + 1 .. L /\ \A j \in p + 1 .. q - 1 : ~ Ends(file[j])
  BY <1>1, LineEndIs
<1> HIDE DEF q
<1>3. q \in Nat /\ p < q /\ q <= L
  BY <1>1, <1>2
<1>4. Whole = WholeIn(file)
  BY WholeIs
<1>5. Ends(file[q]) => LineOf(q) = LineOf(p) + 1
  <2>1. Ends(file[q]) => LineIn(file, q) = LineIn(file, p) + 1
    BY <1>2, <1>3, NextLine
  <2> QED BY <2>1 DEF LineOf, LineIn, EndsUpTo
<1>6. \A i \in Whole : i <= q => i <= p \/ i = q
  <2> SUFFICES ASSUME NEW i \in Whole, i <= q, ~ (i <= p), i # q PROVE FALSE
    OBVIOUS
  <2>1. i \in Nat /\ Ends(file[i])
    BY <1>4 DEF WholeIn
  <2>2. i \in p + 1 .. q - 1
    BY <1>3, <2>1
  <2> QED BY <1>2, <2>1, <2>2
<1>7. Decodes(p, q) => q \in Whole
  <2> SUFFICES ASSUME Decodes(p, q) PROVE q \in Whole
    OBVIOUS
  <2>1. q = p + 2 /\ Ends(file[q])
    BY DEF Decodes, Ends
  <2>2. q \in 2 .. L /\ (q = 2 \/ Ends(file[q - 2]))
    <3>1. q - 2 = p
      BY <2>1
    <3> QED BY <1>1, <1>3, <2>1, <3>1
  <2> QED BY <1>4, <2>1, <2>2 DEF WholeIn
<1>8. q \in Whole => Decodes(p, q)
  <2> SUFFICES ASSUME q \in Whole PROVE Decodes(p, q)
    OBVIOUS
  <2>1. q \in 2 .. L /\ Ends(file[q]) /\ (q = 2 \/ Ends(file[q - 2])) /\ Decodes(q - 2, q)
    <3>1. q \in WholeIn(file)
      BY <1>4
    <3> QED BY <3>1 DEF WholeIn, Whole
  <2>2. ~ Ends(file[q - 1])
    <3>1. q \in 1 .. L
      BY <1>1, <2>1
    <3>2. file[q - 1] = <<file[q][1], "head">>
      BY <2>1, <3>1 DEF FileIs
    <3> QED BY <3>2 DEF Ends
  <2>3. q - 2 <= p
    <3> SUFFICES ASSUME p < q - 2 PROVE FALSE
      BY <1>3
    <3>1. q # 2 /\ q - 2 \in p + 1 .. q - 1
      BY <1>3
    <3> QED BY <1>2, <2>1, <3>1
  <2>4. p # q - 1
    <3> SUFFICES ASSUME p = q - 1 PROVE FALSE
      OBVIOUS
    <3>1. p # 0
      BY <1>3, <2>1
    <3> QED BY <2>2, <3>1
  <2>5. p = q - 2
    BY <1>3, <2>3, <2>4
  <2> QED BY <2>1, <2>5
<1>9. Decodes(p, q) => file[p + 1][1] = file[q][1]
  BY DEF Decodes
<1> QED BY <1>3, <1>5, <1>6, <1>7, <1>8, <1>9 DEF q

\* A read line keeps the invariant: what it loads is the next whole line, and
\* every open_thread pair up to it was loaded before or is on it.
LEMMA ReadKeeps ==
  ASSUME SinkInv, ReadLine
  PROVE  SinkInv'
<1> DEFINE p == passPos
           q == LineEnd(p)
           r == file[p + 1][1]
<1>0. PICK new : new = [line |-> passLine + 1, rec |-> r, prod |-> known']
  OBVIOUS
<1>1. /\ file' = file /\ doneLines' = doneLines /\ table' = table
      /\ p # Between /\ p < Len(file) /\ passPos' = q /\ passLine' = passLine + 1
      /\ shifted' = IF p > 0 /\ ~ Ends(file[p]) THEN "now" ELSE shifted
  BY DEF ReadLine
<1>2. /\ FileIs(file) /\ p \in -1 .. Len(file) /\ passLine \in Nat
      /\ table \in SUBSET SinkRow /\ rows \in SUBSET SinkRow /\ known \in BOOLEAN
  BY DEF SinkInv, SinkTypeOK
<1>3. p \in Nat /\ Len(file) \in Nat
  BY <1>1, <1>2 DEF Between, FileIs
<1>4. q \in p + 1 .. Len(file)
  BY <1>1, <1>2, <1>3, LineEndIs DEF FileIs
<1>5. r \in Nat
  <2>1. p + 1 \in 1 .. Len(file)
    BY <1>1, <1>3
  <2>2. file[p + 1] \in Halves
    BY <1>2, <2>1 DEF FileIs
  <2> QED BY <2>2 DEF Halves
<1>6. \/ /\ passLine + 1 \notin doneLines /\ Decodes(p, q)
         /\ known' = (known \/ r \in Opens)
         /\ rows' = rows \cup {new}
      \/ /\ passLine + 1 \in doneLines \/ ~ Decodes(p, q)
         /\ known' = known /\ rows' = rows
  BY <1>0, <1>1 DEF ReadLine, Loads
<1> HIDE DEF q, r
<1>7. SinkTypeOK'
  <2>1. known' \in BOOLEAN
    BY <1>2, <1>6
  <2>2. new \in SinkRow
    BY <1>0, <1>2, <1>5, <2>1 DEF SinkRow
  <2>3. rows' \in SUBSET SinkRow
    BY <1>2, <1>6, <2>2
  <2>4. passPos' \in -1 .. Len(file') /\ passLine' \in Nat
    BY <1>1, <1>2, <1>3, <1>4
  <2> QED BY <1>1, <1>2, <2>1, <2>3, <2>4 DEF SinkTypeOK, SinkRow
<1> SUFFICES ASSUME shifted' = "never" PROVE PassOK' /\ LoadedOK'
  BY <1>7 DEF SinkInv
<1>8. shifted = "never" /\ (p = 0 \/ Ends(file[p]))
  BY <1>1, <1>3
<1>9. PassOK /\ LoadedOK
  BY <1>8 DEF SinkInv
<1>10. /\ q \in Nat /\ p < q /\ q <= Len(file)
       /\ Ends(file[q]) => LineOf(q) = LineOf(p) + 1
       /\ \A i \in Whole : i <= q => i <= p \/ i = q
       /\ Decodes(p, q) <=> q \in Whole
       /\ Decodes(p, q) => r = file[q][1]
  BY <1>1, <1>2, <1>3, <1>8, OneLineRead DEF q, r
<1>11. passLine = LineOf(p) /\ LineOf(p) \in Nat
  <2>1. LineOf(p) = LineIn(file, p) /\ LineIn(file, p) \in Nat
    BY <1>3, LineNumber DEF LineOf, LineIn, EndsUpTo
  <2>2. p = 0 => LineIn(file, p) = 0
    <3>1. p = 0 => EndsUpTo(file, p) = {}
      BY DEF EndsUpTo
    <3> QED BY <3>1, FS_EmptySet DEF LineIn
  <2> QED BY <1>3, <1>8, <1>9, <2>1, <2>2 DEF PassOK
<1>12. q \in Whole => LineOf(q) = passLine + 1
  <2>1. q \in Whole => Ends(file[q])
    BY <1>2, WholeIs DEF WholeIn
  <2> QED BY <1>10, <1>11, <2>1
<1>13. LineOf(p) <= LineOf(q) /\ LineOf(q) \in Nat
  <2>1. LineIn(file, p) <= LineIn(file, q) /\ LineIn(file, q) \in Nat
    BY <1>3, <1>10, LinesGrow, LineNumber
  <2> QED BY <2>1 DEF LineOf, LineIn, EndsUpTo
<1>14. Whole' = Whole /\ \A i : LineOf(i)' = LineOf(i)
  BY <1>1 DEF Whole, LineOf, Decodes
<1>15. \A row : RowOK(row) => RowOK(row)'
  BY <1>1, <1>14 DEF RowOK
<1>16. doneLines = {row.line : row \in table}
  BY <1>1, <1>9 DEF PassOK
<1>17. CASE /\ passLine + 1 \in doneLines \/ ~ Decodes(p, q)
            /\ known' = known /\ rows' = rows
  <2>1. PassOK'
    <3>1. passPos' # Between /\ passPos' # 0 /\ passPos' = q
      BY <1>1, <1>3, <1>10 DEF Between
    <3>2. Ends(file[q]) => passLine' = LineOf(q)
      BY <1>1, <1>10, <1>11
    <3>3. \A row \in rows : row.line \notin doneLines /\ row.line <= LineOf(q)
      <4>1. \A row \in rows : row.line \in Nat /\ row.line \notin doneLines /\ row.line <= LineOf(p)
        BY <1>2, <1>9 DEF PassOK, SinkRow
      <4> QED BY <1>11, <1>13, <4>1
    <3>4. LineOf(passPos)' = LineOf(q)
      BY <1>1 DEF LineOf
    <3> QED BY <1>1, <1>16, <1>17, <3>1, <3>2, <3>3, <3>4 DEF PassOK
  <2>2. \A i \in Whole : i <= q => \E row \in table \cup rows : row.line = LineOf(i)
    <3> SUFFICES ASSUME NEW i \in Whole, i <= q PROVE \E row \in table \cup rows : row.line = LineOf(i)
      OBVIOUS
    <3>1. CASE i <= p
      BY <1>9, <3>1 DEF LoadedOK
    <3>2. CASE i = q
      <4>1. passLine + 1 \in doneLines /\ LineOf(i) = passLine + 1
        BY <1>10, <1>12, <1>17, <3>2
      <4> QED BY <1>16, <4>1
    <3> QED BY <1>10, <3>1, <3>2
  <2>3. LoadedOK'
    BY <1>1, <1>9, <1>14, <1>15, <1>17, <2>2 DEF LoadedOK
  <2> QED BY <2>1, <2>3
<1>18. CASE /\ passLine + 1 \notin doneLines /\ Decodes(p, q)
            /\ known' = (known \/ r \in Opens)
            /\ rows' = rows \cup {new}
  <2>1. q \in Whole /\ LineOf(q) = passLine + 1 /\ r = file[q][1]
    BY <1>10, <1>12, <1>18
  <2>2. new.line = LineOf(q) /\ new.rec = r /\ new.prod = known'
    BY <1>0, <2>1
  <2>3. \A i \in Whole : file[i][1] \in Nat /\ i \in Nat /\ LineOf(i) \in Nat
    <3> SUFFICES ASSUME NEW i \in Whole PROVE file[i][1] \in Nat /\ i \in Nat /\ LineOf(i) \in Nat
      OBVIOUS
    <3>1. i \in 1 .. Len(file) /\ i \in Nat
      BY <1>2, <1>3, WholeIs DEF WholeIn
    <3>2. file[i] \in Halves
      BY <1>2, <3>1 DEF FileIs
    <3>3. LineIn(file, i) \in Nat
      BY <3>1, LineNumber
    <3> QED BY <3>1, <3>2, <3>3 DEF Halves, LineOf, LineIn, EndsUpTo
  <2>4. \A row \in table \cup rows : row.line < LineOf(q)
    <3> SUFFICES ASSUME NEW row \in table \cup rows PROVE row.line < LineOf(q)
      OBVIOUS
    <3>1. row.line \in Nat
      BY <1>2 DEF SinkRow
    <3>2. CASE row \in rows
      <4>1. row.line <= LineOf(p)
        BY <1>9, <3>2 DEF PassOK
      <4> QED BY <1>11, <2>1, <3>1, <4>1
    <3>3. CASE row \in table
      <4> SUFFICES ASSUME LineOf(q) <= row.line PROVE FALSE
        BY <1>13, <3>1
      <4>1. \E r2 \in table : r2.line = LineOf(q)
        BY <1>9, <2>1, <3>3 DEF LoadedOK
      <4> QED BY <1>16, <1>18, <2>1, <4>1
    <3> QED BY <3>2, <3>3
  <2>5. known' => \E i \in Whole : file[i][1] \in Opens /\ file[i][1] <= r
    <3>1. CASE r \in Opens
      BY <1>5, <2>1, <3>1
    <3>2. CASE known
      <4>1. PICK row \in table \cup rows : row.rec \in Opens
        BY <1>9, <3>2 DEF LoadedOK
      <4>2. PICK i \in Whole : LineOf(i) = row.line /\ file[i][1] = row.rec
        BY <1>9, <4>1 DEF LoadedOK, RowOK
      <4>3. LineOf(i) < LineOf(q)
        BY <2>4, <4>1, <4>2
      <4>4. i < q
        <5>1. i # q
          BY <1>13, <4>3
        <5>2. ~ (q < i)
          <6>1. q < i => LineOf(q) < LineOf(i)
            BY <1>2, <2>1, WholeIs, WholeOrder DEF LineOf, LineIn, EndsUpTo
          <6> QED BY <1>13, <2>3, <4>3, <6>1
        <5> QED BY <1>10, <2>3, <5>1, <5>2
      <4>5. file[i][1] < file[q][1]
        BY <1>2, <2>1, <4>4, WholeIs, WholeOrder
      <4> QED BY <1>5, <2>1, <2>3, <4>1, <4>2, <4>5
    <3> QED BY <1>18, <3>1, <3>2
  <2>6. ASSUME NEW i \in Whole, file[i][1] \in Opens, file[i][1] <= r PROVE known'
    <3>1. i <= q
      <4> SUFFICES ASSUME q < i PROVE FALSE
        BY <1>10, <2>3
      <4>1. file[q][1] < file[i][1]
        BY <1>2, <2>1, WholeIs, WholeOrder
      <4> QED BY <1>5, <2>1, <2>3, <2>6, <4>1
    <3>2. CASE i = q
      BY <1>18, <2>1, <2>6, <3>2
    <3>3. CASE i <= p
      <4>1. PICK row \in table \cup rows : row.line = LineOf(i)
        BY <1>9, <3>3 DEF LoadedOK
      <4>2. PICK j \in Whole : LineOf(j) = row.line /\ file[j][1] = row.rec
        BY <1>9, <4>1 DEF LoadedOK, RowOK
      <4>3. i = j
        BY <1>2, <4>1, <4>2, OneLine
      <4>4. known
        BY <1>9, <2>6, <4>1, <4>2, <4>3 DEF LoadedOK
      <4> QED BY <1>18, <4>4
    <3> QED BY <1>10, <3>1, <3>2, <3>3
  <2>7. RowOK(new)'
    <3>1. \E i \in Whole : LineOf(i) = new.line /\ file[i][1] = new.rec
      BY <2>1, <2>2
    <3>2. new.prod <=> \E i \in Whole : file[i][1] \in Opens /\ file[i][1] <= new.rec
      BY <1>2, <1>18, <2>2, <2>5, <2>6
    <3>3. RowOK(new)
      BY <3>1, <3>2 DEF RowOK
    <3> QED BY <1>15, <3>3
  <2>8. PassOK'
    <3>1. passPos' # Between /\ passPos' # 0 /\ passPos' = q
      BY <1>1, <1>3, <1>10 DEF Between
    <3>2. passLine' = LineOf(q)
      BY <1>1, <2>1
    <3>3. \A row \in rows' : row.line \notin doneLines /\ row.line <= LineOf(q)
      <4>1. \A row \in rows : row.line \in Nat /\ row.line \notin doneLines /\ row.line < LineOf(q)
        BY <1>2, <1>9, <2>4 DEF PassOK, SinkRow
      <4>2. new.line \notin doneLines /\ new.line <= LineOf(q)
        BY <1>13, <1>18, <2>1, <2>2
      <4> QED BY <1>13, <1>18, <4>1, <4>2
    <3>4. LineOf(passPos)' = LineOf(q)
      BY <1>1 DEF LineOf
    <3> QED BY <1>1, <1>16, <3>1, <3>2, <3>3, <3>4 DEF PassOK
  <2>9. \A i \in Whole : i <= q => \E row \in table \cup rows' : row.line = LineOf(i)
    <3> SUFFICES ASSUME NEW i \in Whole, i <= q PROVE \E row \in table \cup rows' : row.line = LineOf(i)
      OBVIOUS
    <3>1. CASE i <= p
      BY <1>9, <1>18, <3>1 DEF LoadedOK
    <3>2. CASE i = q
      BY <1>18, <2>2, <3>2
    <3> QED BY <1>10, <3>1, <3>2
  <2>10. known' <=> \E row \in table \cup rows' : row.rec \in Opens
    BY <1>9, <1>18, <2>2 DEF LoadedOK
  <2>11. \A row \in table \cup rows' : RowOK(row)'
    BY <1>9, <1>15, <1>18, <2>7 DEF LoadedOK
  <2>12. LoadedOK'
    BY <1>1, <1>9, <1>14, <2>9, <2>10, <2>11 DEF LoadedOK
  <2> QED BY <2>8, <2>12
<1> QED BY <1>6, <1>17, <1>18

\* A commit replaces nothing, since the pass loaded no line of ingest, and
\* leaves no whole line of the file out.
LEMMA CommitKeeps ==
  ASSUME SinkInv, Commit
  PROVE  SinkInv'
<1>1. /\ file' = file /\ passLine' = passLine /\ known' = known /\ shifted' = shifted
      /\ passPos = Len(file) /\ rows' = {} /\ passPos' = -1
      /\ table' = rows \cup {row \in table : \A new \in rows : new.line # row.line}
  BY DEF Commit, Between
<1>2. /\ FileIs(file) /\ passPos \in -1 .. Len(file) /\ passLine \in Nat
      /\ table \in SUBSET SinkRow /\ rows \in SUBSET SinkRow /\ known \in BOOLEAN
  BY DEF SinkInv, SinkTypeOK
<1>3. SinkTypeOK'
  <2>1. Len(file) \in Nat
    BY <1>2 DEF FileIs
  <2>2. table' \in SUBSET SinkRow /\ passPos' \in -1 .. Len(file')
    BY <1>1, <1>2, <2>1
  <2> QED BY <1>1, <1>2, <2>2 DEF SinkTypeOK, SinkRow
<1> SUFFICES ASSUME shifted = "never" PROVE PassOK' /\ LoadedOK'
  BY <1>1, <1>3 DEF SinkInv
<1>4. PassOK /\ LoadedOK
  BY DEF SinkInv
<1>5. passPos \in Nat /\ passPos # Between
  BY <1>1, <1>2 DEF FileIs, Between
<1>6. table' = table \cup rows
  <2>1. \A new \in rows, row \in table : new.line # row.line
    BY <1>4, <1>5 DEF PassOK
  <2> QED BY <1>1, <2>1
<1>7. Whole' = Whole /\ \A i : LineOf(i)' = LineOf(i)
  BY <1>1 DEF Whole, LineOf, Decodes
<1>8. \A row : RowOK(row) => RowOK(row)'
  BY <1>1, <1>7 DEF RowOK
<1>9. \A i \in Whole : i <= passPos /\ ~ (i <= -1)
  BY <1>1, <1>2, <1>5, WholeIs DEF WholeIn
<1>10. PassOK'
  BY <1>1 DEF PassOK, Between
<1>11. \A i \in Whole : \E row \in table \cup rows : row.line = LineOf(i)
  BY <1>4, <1>9 DEF LoadedOK
<1>12. known <=> \E row \in table \cup rows : row.rec \in Opens
  BY <1>4 DEF LoadedOK
<1>13. \A row \in table \cup rows : RowOK(row)'
  BY <1>4, <1>8 DEF LoadedOK
<1>14. LoadedOK'
  BY <1>1, <1>6, <1>7, <1>9, <1>11, <1>12, <1>13 DEF LoadedOK
<1> QED BY <1>10, <1>14

\* A killed pass leaves what was committed, and the next process learns the
\* thread from it.
LEMMA KillKeeps ==
  ASSUME SinkInv, SinkKilled
  PROVE  SinkInv'
<1>1. /\ file' = file /\ passLine' = passLine /\ shifted' = shifted /\ table' = table
      /\ rows' = {} /\ passPos' = -1 /\ (known' = \E row \in table : row.rec \in Opens)
  BY DEF SinkKilled, Between
<1>2. /\ FileIs(file) /\ passLine \in Nat /\ table \in SUBSET SinkRow
  BY DEF SinkInv, SinkTypeOK
<1>3. SinkTypeOK'
  <2>1. Len(file) \in Nat /\ known' \in BOOLEAN
    BY <1>1, <1>2 DEF FileIs
  <2>2. passPos' \in -1 .. Len(file')
    BY <1>1, <2>1
  <2> QED BY <1>1, <1>2, <2>1, <2>2 DEF SinkTypeOK, SinkRow
<1> SUFFICES ASSUME shifted = "never" PROVE PassOK' /\ LoadedOK'
  BY <1>1, <1>3 DEF SinkInv
<1>4. LoadedOK
  BY DEF SinkInv
<1>5. Whole' = Whole /\ \A i : LineOf(i)' = LineOf(i)
  BY <1>1 DEF Whole, LineOf, Decodes
<1>6. \A row : RowOK(row) => RowOK(row)'
  BY <1>1, <1>5 DEF RowOK
<1>7. \A i \in Whole : ~ (i <= -1)
  BY <1>2, WholeIs DEF WholeIn, FileIs
<1>8. PassOK'
  BY <1>1 DEF PassOK, Between
<1>9. \A row \in table : RowOK(row)'
  BY <1>4, <1>6 DEF LoadedOK
<1>10. LoadedOK'
  BY <1>1, <1>4, <1>5, <1>7, <1>9 DEF LoadedOK
<1> QED BY <1>8, <1>10

\* A pass begins at line 0 with what is in ingest.
LEMMA BeginKeeps ==
  ASSUME SinkInv, BeginPass
  PROVE  SinkInv'
<1>1. /\ file' = file /\ table' = table /\ rows' = rows /\ known' = known
      /\ passPos = -1 /\ passPos' = 0 /\ passLine' = 0
      /\ doneLines' = {row.line : row \in table}
      /\ shifted' = IF shifted = "now" THEN "earlier" ELSE shifted
  BY DEF BeginPass, Between
<1>2. /\ FileIs(file) /\ table \in SUBSET SinkRow /\ rows \in SUBSET SinkRow
      /\ known \in BOOLEAN
  BY DEF SinkInv, SinkTypeOK
<1>3. SinkTypeOK'
  <2>1. passPos' \in -1 .. Len(file') /\ passLine' \in Nat
    BY <1>1, <1>2 DEF FileIs
  <2> QED BY <1>1, <1>2, <2>1 DEF SinkTypeOK, SinkRow
<1> SUFFICES ASSUME shifted' = "never" PROVE PassOK' /\ LoadedOK'
  BY <1>3 DEF SinkInv
<1>4. PassOK /\ LoadedOK
  BY <1>1 DEF SinkInv
<1>5. rows = {}
  BY <1>1, <1>4 DEF PassOK, Between
<1>6. Whole' = Whole /\ \A i : LineOf(i)' = LineOf(i)
  BY <1>1 DEF Whole, LineOf, Decodes
<1>7. \A row : RowOK(row) => RowOK(row)'
  BY <1>1, <1>6 DEF RowOK
<1>8. \A i \in Whole : ~ (i <= 0)
  BY <1>2, WholeIs DEF WholeIn, FileIs
<1>9. PassOK'
  BY <1>1, <1>5 DEF PassOK, Between
<1>10. \A row \in table : RowOK(row)'
  BY <1>4, <1>7 DEF LoadedOK
<1>11. LoadedOK'
  BY <1>1, <1>4, <1>5, <1>6, <1>8, <1>10 DEF LoadedOK
<1> QED BY <1>9, <1>11

\* A write of the proxy, or its death within one, makes the file grow.
LEMMA ProxyGrows ==
  ASSUME FileIs(file), Write \/ WriteRest \/ ProxyKilled
  PROVE  FileIs(file') /\ Grows(file, file')
<1> DEFINE L == Len(file)
           n == LastRec(file)
<1>1. file \in Seq(Halves) /\ L \in Nat
  BY DEF FileIs
<1>2. file # << >> => L \in 1 .. L /\ file[L] \in Halves
  BY <1>1
<1>3. HalfWritten <=> file # << >> /\ file[L][2] = "head"
  BY <1>2 DEF HalfWritten, Ends, Halves
<1>4. CASE Write
  <2>1. NextRecord = n + 1
    <3>1. n \in Nat
      BY <1>2 DEF LastRec, Halves
    <3>2. Written = 1 .. n
      BY DEF Written, FileIs
    <3>3. Cardinality(1 .. n) = n
      <4> HIDE DEF n
      <4>1. 1 \in Int /\ n \in Int
        BY <3>1
      <4>2. Cardinality(1 .. n) = IF 1 > n THEN 0 ELSE n - 1 + 1
        BY <4>1, FS_Interval
      <4> QED BY <3>1, <4>2
    <3> QED BY <3>2, <3>3 DEF NextRecord
  <2> DEFINE h == Append(file, <<n + 1, "head">>)
             g == Append(h, <<n + 1, "rest">>)
  <2>2. FileIs(h) /\ Grows(file, h)
    BY <1>3, <1>4, HeadKeeps DEF Write
  <2>3. Len(h) = L + 1 /\ h # << >> /\ h[Len(h)] = <<n + 1, "head">>
    <3> HIDE DEF n
    <3>1. Len(h) = L + 1 /\ h[L + 1] = <<n + 1, "head">>
      BY <1>1
    <3> QED BY <1>1, <3>1
  <2>4. FileIs(g) /\ Grows(h, g)
    <3>1. h[Len(h)][1] = n + 1 /\ h[Len(h)][2] = "head"
      BY <2>3
    <3> HIDE DEF h
    <3> QED BY <2>2, <2>3, <3>1, RestKeeps
  <2>5. file' = h \/ file' = g
    <3>1. \/ file' = file \o <<<<n + 1, "head">>>>
          \/ file' = file \o <<<<n + 1, "head">>, <<n + 1, "rest">>>>
      BY <1>4, <2>1 DEF Write
    <3> HIDE DEF n
    <3> DEFINE x == <<n + 1, "head">>
               y == <<n + 1, "rest">>
    <3> HIDE DEF x, y
    <3>2. file \o <<x>> = Append(file, x) /\ file \o <<x, y>> = Append(Append(file, x), y)
      BY <1>1
    <3> QED BY <3>1, <3>2 DEF x, y
  <2>6. Grows(file, g)
    <3>1. Len(h) \in Nat /\ L \in Nat /\ Len(g) \in Nat
      BY <1>1, <2>2, <2>4 DEF FileIs
    <3> HIDE DEF h, g
    <3> QED BY <2>2, <2>4, <3>1 DEF Grows
  <2> QED BY <2>2, <2>4, <2>5, <2>6
<1>5. CASE WriteRest
  BY <1>3, <1>5, RestKeeps DEF WriteRest
<1>6. CASE ProxyKilled
  BY <1>3, <1>6, CutKeeps DEF ProxyKilled
<1> QED BY <1>4, <1>5, <1>6

\* Whatever the proxy writes, and whenever either process dies: as long as no
\* line was read in two pieces, the table is the file's whole lines as far as
\* a pass has come, each with the production thread the file had told by then.
THEOREM SinkIsFaithful == SinkSpec => []SinkFaithful
<1>1. SinkInit => SinkInv
  <2> SUFFICES ASSUME SinkInit PROVE SinkInv
    OBVIOUS
  <2>1. /\ file = << >> /\ passPos = -1 /\ passLine = 0 /\ rows = {} /\ table = {}
        /\ known = FALSE
    BY DEF SinkInit, Between
  <2>2. FileIs(file)
    <3>1. Len(file) = 0 /\ file \in Seq(Halves) /\ LastRec(file) = 0
      BY <2>1 DEF LastRec
    <3> QED BY <3>1 DEF FileIs
  <2>3. Len(file) = 0
    BY <2>1
  <2>4. SinkTypeOK
    <3>1. passPos \in -1 .. Len(file) /\ passLine \in Nat
      BY <2>1, <2>3
    <3>2. table \in SUBSET SinkRow /\ rows \in SUBSET SinkRow /\ known \in BOOLEAN
      BY <2>1
    <3> QED BY <2>2, <3>1, <3>2 DEF SinkTypeOK
  <2>5. Whole = {}
    BY <2>3 DEF Whole
  <2>6. PassOK /\ LoadedOK
    BY <2>1, <2>5 DEF PassOK, LoadedOK, Between
  <2> QED BY <2>4, <2>6 DEF SinkInv
<1>2. SinkInv /\ [SinkNext]_sinkVars => SinkInv'
  <2> SUFFICES ASSUME SinkInv, [SinkNext]_sinkVars PROVE SinkInv'
    OBVIOUS
  <2>1. FileIs(file)
    BY DEF SinkInv, SinkTypeOK
  <2>2. CASE Write \/ WriteRest \/ ProxyKilled
    <3>1. UNCHANGED <<passPos, passLine, doneLines, rows, table, known, shifted>>
      BY <2>2 DEF Write, WriteRest, ProxyKilled
    <3> QED BY <2>1, <2>2, <3>1, ProxyGrows, FileKeeps
  <2>3. CASE UNCHANGED sinkVars
    <3>1. UNCHANGED <<passPos, passLine, doneLines, rows, table, known, shifted>> /\ file' = file
      BY <2>3 DEF sinkVars
    <3>2. Len(file) \in Nat /\ Grows(file, file)
      BY <2>1 DEF FileIs, Grows
    <3>3. FileIs(file') /\ Grows(file, file')
      BY <2>1, <3>1, <3>2
    <3> QED BY <3>1, <3>3, FileKeeps
  <2> QED BY <2>2, <2>3, BeginKeeps, ReadKeeps, CommitKeeps, KillKeeps DEF SinkNext
<1>3. SinkInv => SinkFaithful
  BY DEF SinkInv, LoadedOK, RowOK, SinkFaithful
<1> QED BY <1>1, <1>2, <1>3, PTL DEF SinkSpec

-----------------------------------------------------------------------------
(* Bubbles.  Joined is what the bubbles say one after the other; merging    *)
(* two neighbours leaves it as it is because concatenation is associative.  *)

\* The numbers of the paragraphs that are not blank are a sequence: the
\* function Paragraphs chooses is the one the recursion has.
LEMMA ParagraphsType ==
  ASSUME draft \in Seq(Nat)
  PROVE  Paragraphs \in Seq(DOMAIN draft)
<1> DEFINE N == Len(draft)
           D == DOMAIN draft
           W == Seq(D)
           More(n, q) == IF draft[n] # 0 THEN Append(q, n) ELSE q
           up == CHOOSE t : t = [n \in 0 .. Len(draft) |->
                   IF n = 0 THEN << >>
                   ELSE IF draft[n] # 0 THEN Append(t[n - 1], n) ELSE t[n - 1]]
           step == [x \in (1 .. N) \X W |-> More(x[1], x[2])]
<1>1. Paragraphs = up[N]
  BY DEF Paragraphs
<1>2. N \in Nat /\ D = 1 .. N
  OBVIOUS
<1>3. << >> \in W /\ \A n \in 1 .. N, q \in W : More(n, q) \in W
  <2>1. ASSUME NEW n \in 1 .. N, NEW q \in W PROVE Append(q, n) \in W
    BY <1>2, AppendProperties
  <2>2. << >> \in W
    OBVIOUS
  <2> HIDE DEF N, W
  <2> QED BY <2>1, <2>2
<1>4. step \in [(1 .. N) \X W -> W]
  <2> HIDE DEF More, W
  <2> QED BY <1>3
<1> HIDE DEF W
<1>5. PICK f : Solves(f, W, << >>, N, step)
  <2> HIDE DEF step, N
  <2> QED BY <1>2, <1>3, <1>4, Recursion
<1>6. f \in [0 .. N -> W] /\ f[0] = << >> /\ \A n \in 1 .. N : f[n] = More(n, f[n - 1])
  <2> HIDE DEF More
  <2>1. /\ f \in [0 .. N -> W] /\ f[0] = << >> /\ \A n \in 1 .. N : f[n] = step[<<n, f[n - 1]>>]
    BY <1>5 DEF Solves
  <2>2. \A n \in 1 .. N : f[n - 1] \in W
    BY <1>2, <2>1
  <2>3. \A n \in 1 .. N : step[<<n, f[n - 1]>>] = More(n, f[n - 1])
    BY <2>2
  <2> QED BY <2>1, <2>3
<1> HIDE DEF More
<1>7. f = [n \in 0 .. N |-> IF n = 0 THEN << >> ELSE More(n, f[n - 1])]
  <2>1. \A n \in 0 .. N : n # 0 => n \in 1 .. N
    BY <1>2
  <2> QED BY <1>6, <2>1
<1>8. up = [n \in 0 .. N |-> IF n = 0 THEN << >> ELSE More(n, up[n - 1])]
  BY <1>7 DEF More
<1> HIDE DEF up
<1>9. up[0] = << >> /\ \A n \in 1 .. N : up[n] = More(n, up[n - 1])
  <2>1. 0 \in 0 .. N /\ \A n \in 1 .. N : n \in 0 .. N /\ n # 0
    BY <1>2
  <2> QED BY <1>8, <2>1
<1>10. \A n \in 0 .. N : up[n] = f[n]
  <2>1. up[0] = f[0] /\ \A n \in 1 .. N : up[n - 1] = f[n - 1] => up[n] = f[n]
    BY <1>6, <1>9
  <2>2. N \in Nat
    BY <1>2
  <2> HIDE DEF N
  <2>3. Agree(up, f, N)
    BY <2>1, <2>2 DEF Agree
  <2> QED BY <2>3, SameRecursion
<1>11. up[N] \in W
  BY <1>2, <1>6, <1>10
<1> QED BY <1>1, <1>11 DEF W

\* A sum of integers is one.
LEMMA TotalType ==
  ASSUME NEW s \in Seq(Int)
  PROVE  Total(s) \in Int
<1> DEFINE N == Len(s)
           up == CHOOSE t : t = [n \in 0 .. Len(s) |-> IF n = 0 THEN 0 ELSE t[n - 1] + s[n]]
           step == [x \in (1 .. N) \X Int |-> x[2] + s[x[1]]]
<1>1. Total(s) = up[N]
  BY DEF Total
<1>2. N \in Nat /\ \A n \in 1 .. N : s[n] \in Int
  OBVIOUS
<1>4. step \in [(1 .. N) \X Int -> Int]
  BY <1>2
<1>5. PICK f : Solves(f, Int, 0, N, step)
  <2> HIDE DEF step, N
  <2>1. 0 \in Int
    OBVIOUS
  <2> QED BY <1>2, <2>1, <1>4, Recursion
<1>6. f \in [0 .. N -> Int] /\ f[0] = 0 /\ \A n \in 1 .. N : f[n] = f[n - 1] + s[n]
  <2>1. /\ f \in [0 .. N -> Int] /\ f[0] = 0 /\ \A n \in 1 .. N : f[n] = step[<<n, f[n - 1]>>]
    BY <1>5 DEF Solves
  <2>2. \A n \in 1 .. N : f[n - 1] \in Int
    BY <1>2, <2>1
  <2>3. \A n \in 1 .. N : step[<<n, f[n - 1]>>] = f[n - 1] + s[n]
    BY <2>2
  <2> QED BY <2>1, <2>3
<1>7. f = [n \in 0 .. N |-> IF n = 0 THEN 0 ELSE f[n - 1] + s[n]]
  <2>1. \A n \in 0 .. N : n # 0 => n \in 1 .. N
    BY <1>2
  <2> QED BY <1>6, <2>1
<1>8. up = [n \in 0 .. N |-> IF n = 0 THEN 0 ELSE up[n - 1] + s[n]]
  BY <1>7
<1> HIDE DEF up
<1>9. up[0] = 0 /\ \A n \in 1 .. N : up[n] = up[n - 1] + s[n]
  <2>1. 0 \in 0 .. N /\ \A n \in 1 .. N : n \in 0 .. N /\ n # 0
    BY <1>2
  <2> QED BY <1>8, <2>1
<1>10. \A n \in 0 .. N : up[n] = f[n]
  <2>1. up[0] = f[0] /\ \A n \in 1 .. N : up[n - 1] = f[n - 1] => up[n] = f[n]
    BY <1>6, <1>9
  <2> HIDE DEF N
  <2>2. Agree(up, f, N)
    BY <1>2, <2>1 DEF Agree
  <2> QED BY <2>2, SameRecursion
<1> QED BY <1>1, <1>2, <1>6, <1>10

\* u[n] is what the first n bubbles of bs say.
JoinsUp(u, bs, D) ==
  /\ u \in [0 .. Len(bs) -> Seq(D)] /\ u[0] = << >>
  /\ \A n \in 1 .. Len(bs) : u[n] = u[n - 1] \o bs[n]

\* Joined is computed bubble by bubble.
LEMMA JoinedUp ==
  ASSUME NEW D, NEW bs \in Seq(Seq(D))
  PROVE  \E u : JoinsUp(u, bs, D) /\ Joined(bs) = u[Len(bs)]
<1> DEFINE N == Len(bs)
           W == Seq(D)
           up == CHOOSE t : t = [n \in 0 .. Len(bs) |-> IF n = 0 THEN << >> ELSE t[n - 1] \o bs[n]]
           step == [x \in (1 .. N) \X W |-> x[2] \o bs[x[1]]]
<1>1. Joined(bs) = up[N]
  BY DEF Joined
<1>2. N \in Nat /\ \A n \in 1 .. N : bs[n] \in W
  OBVIOUS
<1>3. << >> \in W /\ \A q, r \in W : q \o r \in W
  OBVIOUS
<1> HIDE DEF W
<1>4. step \in [(1 .. N) \X W -> W]
  BY <1>2, <1>3
<1>5. PICK f : Solves(f, W, << >>, N, step)
  <2> HIDE DEF step, N
  <2> QED BY <1>2, <1>3, <1>4, Recursion
<1>6. f \in [0 .. N -> W] /\ f[0] = << >> /\ \A n \in 1 .. N : f[n] = f[n - 1] \o bs[n]
  <2>1. /\ f \in [0 .. N -> W] /\ f[0] = << >> /\ \A n \in 1 .. N : f[n] = step[<<n, f[n - 1]>>]
    BY <1>5 DEF Solves
  <2>2. \A n \in 1 .. N : f[n - 1] \in W
    <3>1. N \in Nat
      BY <1>2
    <3> HIDE DEF N, step
    <3> QED BY <2>1, <3>1
  <2>3. \A n \in 1 .. N : step[<<n, f[n - 1]>>] = f[n - 1] \o bs[n]
    BY <2>2
  <2> QED BY <2>1, <2>3
<1>7. f = [n \in 0 .. N |-> IF n = 0 THEN << >> ELSE f[n - 1] \o bs[n]]
  <2>1. \A n \in 0 .. N : n # 0 => n \in 1 .. N
    BY <1>2
  <2> QED BY <1>6, <2>1
<1>8. up = [n \in 0 .. N |-> IF n = 0 THEN << >> ELSE up[n - 1] \o bs[n]]
  BY <1>7
<1> HIDE DEF up
<1>9. up[0] = << >> /\ \A n \in 1 .. N : up[n] = up[n - 1] \o bs[n]
  <2>1. 0 \in 0 .. N /\ \A n \in 1 .. N : n \in 0 .. N /\ n # 0
    BY <1>2
  <2> QED BY <1>8, <2>1
<1>10. \A n \in 0 .. N : up[n] = f[n]
  <2>1. up[0] = f[0] /\ \A n \in 1 .. N : up[n - 1] = f[n - 1] => up[n] = f[n]
    BY <1>6, <1>9
  <2> HIDE DEF N
  <2>2. Agree(up, f, N)
    BY <1>2, <2>1 DEF Agree
  <2> QED BY <2>2, SameRecursion
<1>11. JoinsUp(f, bs, D)
  BY <1>6 DEF JoinsUp, W
<1>12. Joined(bs) = f[N]
  <2>1. N \in 0 .. N
    BY <1>2
  <2> QED BY <1>1, <1>10, <2>1
<1> QED BY <1>11, <1>12

\* ms is bs with the bubbles at i and i + 1 glued into one.
GluedAt(ms, bs, i) ==
  /\ Len(ms) = Len(bs) - 1
  /\ \A k \in 1 .. i - 1 : ms[k] = bs[k]
  /\ ms[i] = bs[i] \o bs[i + 1]
  /\ \A k \in i + 1 .. Len(bs) - 1 : ms[k] = bs[k + 1]

Regroups(x, y, z) == x \o (y \o z) = (x \o y) \o z

\* Concatenation is associative.
LEMMA Reassociate ==
  ASSUME NEW D, NEW x, NEW y, NEW z, x \in Seq(D), y \in Seq(D), z \in Seq(D)
  PROVE  Regroups(x, y, z)
BY DEF Regroups

\* Gluing two neighbours leaves what the bubbles say as it is.
LEMMA GluedSaysTheSame ==
  ASSUME NEW D, NEW bs \in Seq(Seq(D)), NEW ms \in Seq(Seq(D)),
         NEW i \in 1 .. Len(bs) - 1, GluedAt(ms, bs, i)
  PROVE  Joined(ms) = Joined(bs)
<1>1. PICK u : JoinsUp(u, bs, D) /\ Joined(bs) = u[Len(bs)]
  BY JoinedUp
<1>2. PICK v : JoinsUp(v, ms, D) /\ Joined(ms) = v[Len(ms)]
  BY JoinedUp
<1> DEFINE L == Len(bs)
<1>3. L \in Nat /\ i \in Nat /\ 1 <= i /\ i + 1 <= L /\ Len(ms) = L - 1
  BY DEF GluedAt
<1>4. \A k \in 0 .. i - 1 : v[k] = u[k]
  <2>1. v[0] = u[0] /\ \A n \in 1 .. i - 1 : v[n - 1] = u[n - 1] => v[n] = u[n]
    <3>1. \A n \in 1 .. i - 1 : n \in 1 .. L /\ n \in 1 .. Len(ms) /\ ms[n] = bs[n]
      BY <1>3 DEF GluedAt
    <3>2. v[0] = << >> /\ u[0] = << >>
      BY <1>1, <1>2 DEF JoinsUp
    <3>3. \A n \in 1 .. i - 1 : v[n] = v[n - 1] \o bs[n] /\ u[n] = u[n - 1] \o bs[n]
      BY <1>1, <1>2, <3>1 DEF JoinsUp
    <3> QED BY <3>2, <3>3
  <2>2. Agree(v, u, i - 1)
    BY <1>3, <2>1 DEF Agree
  <2> QED BY <2>2, SameRecursion
<1>5. v[i] = u[i + 1]
  <2>1. i - 1 \in 0 .. i - 1 /\ i - 1 \in 0 .. L /\ i \in 1 .. L /\ i + 1 \in 1 .. L /\ (i + 1) - 1 = i
    BY <1>3
  <2>2. u[i] = u[i - 1] \o bs[i] /\ u[i + 1] = u[i] \o bs[i + 1]
    BY <1>1, <2>1 DEF JoinsUp
  <2>3. v[i] = v[i - 1] \o (bs[i] \o bs[i + 1])
    <3>1. i \in 1 .. Len(ms)
      BY <1>3
    <3> QED BY <1>2, <3>1 DEF JoinsUp, GluedAt
  <2>4. bs[i] \in Seq(D) /\ bs[i + 1] \in Seq(D)
    BY <2>1, ElementOfSeq
  <2>5. u[i - 1] \in Seq(D)
    <3>1. u \in [0 .. L -> Seq(D)]
      BY <1>1 DEF JoinsUp
    <3> HIDE DEF L
    <3> QED BY <2>1, <3>1
  <2>6. u[i - 1] \o (bs[i] \o bs[i + 1]) = (u[i - 1] \o bs[i]) \o bs[i + 1]
    <3>1. Regroups(u[i - 1], bs[i], bs[i + 1])
      BY <2>4, <2>5, Reassociate, Zenon
    <3> QED BY <3>1 DEF Regroups
  <2> QED BY <1>4, <2>1, <2>2, <2>3, <2>6
<1>6. \A k \in 0 .. L - 1 - i : v[i + k] = u[i + 1 + k]
  <2> DEFINE N == L - 1 - i
             f == [k \in 0 .. N |-> v[i + k]]
             h == [k \in 0 .. N |-> u[i + 1 + k]]
  <2>1. N \in Nat
    BY <1>3
  <2>2. ASSUME NEW n \in 1 .. N, f[n - 1] = h[n - 1] PROVE f[n] = h[n]
    <3>1. /\ i + n \in 1 .. Len(ms) /\ i + 1 + n \in 1 .. L /\ i + n \in i + 1 .. L - 1
          /\ n \in 0 .. N /\ n - 1 \in 0 .. N
          /\ i + (n - 1) = (i + n) - 1 /\ i + 1 + (n - 1) = (i + 1 + n) - 1 /\ i + 1 + n = (i + n) + 1
      BY <1>3
    <3>2. v[i + n] = v[(i + n) - 1] \o ms[i + n]
      BY <1>2, <3>1 DEF JoinsUp
    <3>3. u[i + 1 + n] = u[(i + 1 + n) - 1] \o bs[i + 1 + n]
      BY <1>1, <3>1 DEF JoinsUp
    <3>4. ms[i + n] = bs[i + 1 + n]
      BY <3>1 DEF GluedAt
    <3>5. v[(i + n) - 1] = u[(i + 1 + n) - 1]
      BY <2>2, <3>1
    <3>6. f[n] = v[i + n] /\ h[n] = u[i + 1 + n]
      BY <3>1
    <3> QED BY <3>2, <3>3, <3>4, <3>5, <3>6
  <2>3. f[0] = h[0]
    BY <1>3, <1>5, <2>1
  <2>4. \A n \in 0 .. N : f[n] = h[n]
    <3>1. f[0] = h[0] /\ \A n \in 1 .. N : f[n - 1] = h[n - 1] => f[n] = h[n]
      BY <2>2, <2>3
    <3> HIDE DEF f, h, N
    <3>2. Agree(f, h, N)
      BY <2>1, <3>1 DEF Agree
    <3> QED BY <3>2, SameRecursion
  <2> QED BY <2>4
<1>7. v[L - 1] = u[L]
  <2>1. L - 1 - i \in 0 .. L - 1 - i /\ i + (L - 1 - i) = L - 1 /\ i + 1 + (L - 1 - i) = L
    BY <1>3
  <2> QED BY <1>6, <2>1
<1> QED BY <1>1, <1>2, <1>3, <1>7

\* Bubbles of one paragraph each say the paragraphs.
LEMMA SinglesSayTheParagraphs ==
  ASSUME NEW D, NEW ps \in Seq(D)
  PROVE  /\ [k \in DOMAIN ps |-> <<ps[k]>>] \in Seq(Seq(D))
         /\ Joined([k \in DOMAIN ps |-> <<ps[k]>>]) = ps
<1> DEFINE bs == [k \in DOMAIN ps |-> <<ps[k]>>]
           N == Len(ps)
<1>1. bs \in Seq(Seq(D)) /\ Len(bs) = N /\ N \in Nat
  <2>1. N \in Nat /\ DOMAIN ps = 1 .. N /\ \A k \in 1 .. N : ps[k] \in D
    OBVIOUS
  <2>2. \A k \in 1 .. N : <<ps[k]>> \in Seq(D)
    BY <2>1
  <2> HIDE DEF N
  <2> DEFINE W == Seq(D)
  <2>3. \A k \in 1 .. N : <<ps[k]>> \in W
    BY <2>2
  <2> HIDE DEF W
  <2>4. bs \in [1 .. N -> W]
    BY <2>1, <2>3
  <2>5. bs \in Seq(W) /\ Len(bs) = N
    <3> HIDE DEF bs
    <3> QED BY <2>1, <2>4
  <2> QED BY <2>1, <2>5 DEF W
<1>2. \A n \in 1 .. N : bs[n] = <<ps[n]>>
  OBVIOUS
<1> HIDE DEF bs
<1>3. PICK u : JoinsUp(u, bs, D) /\ Joined(bs) = u[N]
  BY <1>1, JoinedUp
<1> DEFINE h == [n \in 0 .. N |-> SubSeq(ps, 1, n)]
<1>4. u[0] = h[0] /\ \A n \in 1 .. N : u[n - 1] = h[n - 1] => u[n] = h[n]
  <2>1. h[0] = << >> /\ u[0] = << >>
    BY <1>1, <1>3 DEF JoinsUp
  <2>2. ASSUME NEW n \in 1 .. N, u[n - 1] = h[n - 1] PROVE u[n] = h[n]
    <3>1. n - 1 \in 0 .. N /\ n \in 0 .. N
      OBVIOUS
    <3>2. h[n - 1] = SubSeq(ps, 1, n - 1) /\ h[n] = SubSeq(ps, 1, n)
      BY <3>1
    <3>3. u[n] = SubSeq(ps, 1, n - 1) \o <<ps[n]>>
      BY <1>1, <1>2, <1>3, <2>2, <3>2 DEF JoinsUp
    <3>4. SubSeq(ps, 1, n - 1) \o <<ps[n]>> = SubSeq(ps, 1, n)
      OBVIOUS
    <3> QED BY <3>2, <3>3, <3>4
  <2> QED BY <2>1, <2>2
<1>5. \A n \in 0 .. N : u[n] = h[n]
  <2>1. N \in Nat
    BY <1>1
  <2> HIDE DEF h, N
  <2>2. Agree(u, h, N)
    BY <1>4, <2>1 DEF Agree
  <2> QED BY <2>2, SameRecursion
<1>6. u[N] = ps
  <2>1. SubSeq(ps, 1, N) = ps
    OBVIOUS
  <2> QED BY <1>1, <1>5, <2>1
<1> QED BY <1>1, <1>3, <1>6 DEF bs

\* What a bubble may be: some of the draft's paragraphs, and at least one.
Bubble == Seq(DOMAIN draft) \ {<< >>}

\* The length of a bubble is an integer, with or without the newlines.
LEMMA BubbleLength ==
  ASSUME draft \in Seq(Nat), NEW b \in Seq(DOMAIN draft)
  PROVE  WordCount(b) \in Int /\ Length(b) \in Int
<1> DEFINE ws == [k \in DOMAIN b |-> draft[b[k]]]
<1>1. \A k \in 1 .. Len(b) : draft[b[k]] \in Int
  OBVIOUS
<1>2. ws \in [1 .. Len(b) -> Int]
  BY <1>1
<1>3. Len(b) \in Nat
  OBVIOUS
<1>4. ws \in Seq(Int)
  <2> DEFINE m == Len(b)
  <2>1. m \in Nat /\ ws \in [1 .. m -> Int]
    BY <1>2, <1>3
  <2> HIDE DEF ws, m
  <2> QED BY <2>1
<1>5. Total(ws) \in Int
  <2> HIDE DEF ws
  <2> QED BY <1>4, TotalType
<1>6. WordCount(b) \in Int
  BY <1>5 DEF WordCount
<1> QED BY <1>3, <1>6 DEF Length

\* Of finitely many numbered integers one is least, the first of several.
LEMMA FirstLeast ==
  ASSUME NEW n \in Nat \ {0}, NEW val \in [1 .. n -> Int]
  PROVE  \E i \in 1 .. n : \A k \in 1 .. n :
           \/ val[i] < val[k]
           \/ val[i] = val[k] /\ i <= k
<1> DEFINE Good == {m \in Nat : m < n => \E i \in 1 .. m + 1 : \A k \in 1 .. m + 1 : val[i] <= val[k]}
<1>1. 0 \in Good
  <2>1. 0 + 1 = 1 /\ 1 \in 1 .. n /\ val[1] \in Int /\ \A k \in 1 .. 1 : k = 1
    OBVIOUS
  <2> QED BY <2>1
<1>2. ASSUME NEW m \in Nat, m \in Good PROVE m + 1 \in Good
  <2> SUFFICES ASSUME m + 1 < n
               PROVE  \E i \in 1 .. (m + 1) + 1 : \A k \in 1 .. (m + 1) + 1 : val[i] <= val[k]
    OBVIOUS
  <2>1. PICK i \in 1 .. m + 1 : \A k \in 1 .. m + 1 : val[i] <= val[k]
    BY <1>2
  <2>2. \A k \in 1 .. m + 2 : val[k] \in Int /\ (k \in 1 .. m + 1 \/ k = m + 2)
    OBVIOUS
  <2>3. i \in 1 .. m + 2 /\ m + 2 \in 1 .. m + 2 /\ (m + 1) + 1 = m + 2
    OBVIOUS
  <2>4. CASE val[i] <= val[m + 2]
    <3>1. \A k \in 1 .. m + 2 : val[i] <= val[k]
      BY <2>1, <2>2, <2>4
    <3> QED BY <2>3, <3>1
  <2>5. CASE ~ (val[i] <= val[m + 2])
    <3>1. \A k \in 1 .. m + 2 : val[m + 2] <= val[k]
      BY <2>1, <2>2, <2>3, <2>5
    <3> QED BY <2>3, <3>1
  <2> QED BY <2>4, <2>5
<1> HIDE DEF Good
<1>3. n - 1 \in Good
  <2>1. n - 1 \in Nat
    OBVIOUS
  <2> QED BY <1>1, <1>2, <2>1, Induction
<1>4. PICK a \in 1 .. n : \A k \in 1 .. n : val[a] <= val[k]
  <2>1. n - 1 < n /\ (n - 1) + 1 = n
    OBVIOUS
  <2> QED BY <1>3, <2>1 DEF Good
<1> DEFINE Ties == {k \in 1 .. n : val[k] = val[a]}
<1>5. Ties \in SUBSET Nat /\ Ties # {}
  OBVIOUS
<1>6. PICK i \in Ties : \A k \in Ties : i <= k
  <2> HIDE DEF Ties
  <2> QED BY <1>5, LeastNatural
<1>7. ASSUME NEW k \in 1 .. n PROVE val[i] < val[k] \/ (val[i] = val[k] /\ i <= k)
  <2>1. val[k] \in Int /\ val[a] \in Int /\ val[i] = val[a] /\ val[a] <= val[k]
    BY <1>4
  <2> QED BY <1>6, <2>1
<1> QED BY <1>7

\* One turn of merge_down glues two neighbours.
LEMMA MergedGlues ==
  ASSUME draft \in Seq(Nat), bubbles \in Seq(Seq(DOMAIN draft)), Len(bubbles) > 1
  PROVE  \E i \in 1 .. Len(bubbles) - 1 :
           Merged = SubSeq(bubbles, 1, i - 1) \o <<bubbles[i] \o bubbles[i + 1]>>
                      \o SubSeq(bubbles, i + 2, Len(bubbles))
<1> DEFINE n == Len(bubbles) - 1
           together(i) == Length(bubbles[i]) + Length(bubbles[i + 1])
           First(i) == \A k \in 1 .. n : \/ together(i) < together(k)
                                         \/ together(i) = together(k) /\ i <= k
           best == CHOOSE i \in 1 .. n : First(i)
           val == [i \in 1 .. n |-> together(i)]
<1>1. n \in Nat \ {0}
  <2> DEFINE W == Seq(DOMAIN draft)
  <2>1. bubbles \in Seq(W)
    OBVIOUS
  <2> HIDE DEF W
  <2>2. Len(bubbles) \in Nat
    BY <2>1, LenProperties
  <2> DEFINE L == Len(bubbles)
  <2>3. L \in Nat /\ L > 1
    BY <2>2
  <2> HIDE DEF L
  <2>4. L - 1 \in Nat \ {0}
    BY <2>3
  <2> QED BY <2>4 DEF L
<1>2. \A i \in 1 .. n : together(i) \in Int
  <2> SUFFICES ASSUME NEW i \in 1 .. n PROVE together(i) \in Int
    OBVIOUS
  <2>1. bubbles[i] \in Seq(DOMAIN draft) /\ bubbles[i + 1] \in Seq(DOMAIN draft)
    <3>1. i \in 1 .. Len(bubbles) /\ i + 1 \in 1 .. Len(bubbles)
      OBVIOUS
    <3> QED BY <3>1, ElementOfSeq
  <2>2. Length(bubbles[i]) \in Int
    BY <2>1, BubbleLength
  <2>3. Length(bubbles[i + 1]) \in Int
    BY <2>1, BubbleLength
  <2> QED BY <2>2, <2>3
<1>3. \E i \in 1 .. n : First(i)
  <2> HIDE DEF n, together
  <2>1. val \in [1 .. n -> Int]
    BY <1>2
  <2>2. \A i \in 1 .. n : val[i] = together(i)
    OBVIOUS
  <2> HIDE DEF val
  <2>3. PICK i \in 1 .. n : \A k \in 1 .. n : val[i] < val[k] \/ (val[i] = val[k] /\ i <= k)
    BY <1>1, <2>1, FirstLeast
  <2> QED BY <2>2, <2>3
<1>4. best \in 1 .. n
  <2> HIDE DEF n, First
  <2> QED BY <1>3
<1>5. Merged = SubSeq(bubbles, 1, best - 1) \o <<bubbles[best] \o bubbles[best + 1]>>
                 \o SubSeq(bubbles, best + 2, Len(bubbles))
  BY DEF Merged
<1> HIDE DEF best
<1> QED BY <1>4, <1>5

\* What merge_down leaves of the bubbles, piece by piece: the bubbles before
\* the pair, the pair as one, the bubbles after it.
LEMMA GluePieces ==
  ASSUME NEW D, NEW bs \in Seq(Seq(D) \ {<< >>}), NEW i \in 1 .. Len(bs) - 1, NEW ms,
         ms = SubSeq(bs, 1, i - 1) \o <<bs[i] \o bs[i + 1]>> \o SubSeq(bs, i + 2, Len(bs))
  PROVE  ms \in Seq(Seq(D) \ {<< >>}) /\ GluedAt(ms, bs, i)
<1> DEFINE B == Seq(D) \ {<< >>}
           L == Len(bs)
           g == bs[i] \o bs[i + 1]
           p == SubSeq(bs, 1, i - 1)
           q == SubSeq(bs, i + 2, L)
<1>1. L \in Nat /\ i \in Nat /\ 1 <= i /\ i + 1 <= L
  OBVIOUS
<1>2. bs[i] \in B /\ bs[i + 1] \in B
  <2>1. i \in 1 .. L /\ i + 1 \in 1 .. L
    BY <1>1
  <2> HIDE DEF B
  <2> QED BY <2>1, ElementOfSeq DEF B
<1>3. g \in B
  <2>1. bs[i] \in Seq(D) /\ bs[i + 1] \in Seq(D) /\ bs[i] # << >>
    BY <1>2
  <2>2. g \in Seq(D)
    BY <2>1
  <2>3. Len(g) = Len(bs[i]) + Len(bs[i + 1]) /\ Len(bs[i]) \in Nat \ {0} /\ Len(bs[i + 1]) \in Nat
    BY <2>1
  <2>4. g # << >>
    BY <2>3
  <2> QED BY <2>2, <2>4
<1> HIDE DEF B, g
<1>4. bs \in Seq(B)
  BY DEF B
<1>5. p \in Seq(B) /\ Len(p) = i - 1 /\ \A k \in 1 .. i - 1 : p[k] = bs[k]
  <2>1. \A k \in 1 .. i - 1 : k \in 1 .. L
    BY <1>1
  <2> QED BY <1>1, <1>4, <2>1, SubSeqProperties
<1>6. q \in Seq(B) /\ Len(q) = L - (i + 1) /\ \A k \in 1 .. L - (i + 1) : q[k] = bs[(i + 1) + k]
  BY <1>1, <1>4, SubSeqProperties
<1> HIDE DEF p, q
<1> DEFINE pg == p \o <<g>>
<1>7. pg \in Seq(B) /\ Len(pg) = i /\ \A k \in 1 .. i : pg[k] = IF k < i THEN bs[k] ELSE g
  <2>1. <<g>> \in Seq(B) /\ Len(<<g>>) = 1 /\ <<g>>[1] = g
    BY <1>3
  <2> DEFINE t == <<g>>
  <2> HIDE DEF t, L
  <2>2. /\ pg \in Seq(B) /\ Len(pg) = Len(p) + Len(t)
        /\ \A k \in 1 .. Len(p) + Len(t) : pg[k] = IF k <= Len(p) THEN p[k] ELSE t[k - Len(p)]
    BY <1>5, <2>1, ConcatProperties DEF t
  <2> HIDE DEF pg
  <2>3. Len(p) = i - 1 /\ Len(t) = 1 /\ t[1] = g
    BY <1>5, <2>1 DEF t
  <2>4. ASSUME NEW k \in 1 .. i PROVE pg[k] = IF k < i THEN bs[k] ELSE g
    <3>1. CASE k < i
      <4>1. k \in 1 .. i - 1 /\ k \in 1 .. Len(p) + Len(t) /\ k <= Len(p)
        BY <1>1, <2>3, <3>1
      <4> QED BY <1>5, <2>2, <3>1, <4>1
    <3>2. CASE k = i
      <4>1. k \in 1 .. Len(p) + Len(t) /\ ~ (k <= Len(p)) /\ k - Len(p) = 1
        BY <1>1, <2>3, <3>2
      <4> QED BY <2>2, <2>3, <3>2, <4>1
    <3> QED BY <1>1, <3>1, <3>2
  <2> QED BY <1>1, <2>2, <2>3, <2>4
<1> HIDE DEF pg
<1>8. ms = pg \o q
  BY DEF pg, p, g, q
<1> DEFINE m == L - (i + 1)
<1>9. Len(q) = m /\ m \in Nat /\ i + m = L - 1
  BY <1>1, <1>6
<1>10. ms \in Seq(B) /\ Len(ms) = L - 1
       /\ \A k \in 1 .. L - 1 : ms[k] = IF k <= i THEN pg[k] ELSE q[k - i]
  <2> HIDE DEF L, m
  <2>1. /\ pg \o q \in Seq(B) /\ Len(pg \o q) = Len(pg) + Len(q)
        /\ \A k \in 1 .. Len(pg) + Len(q) :
             (pg \o q)[k] = IF k <= Len(pg) THEN pg[k] ELSE q[k - Len(pg)]
    <3>1. pg \in Seq(B)
      BY <1>7
    <3>2. q \in Seq(B)
      BY <1>6
    <3> QED BY <3>1, <3>2, ConcatProperties
  <2> QED BY <1>7, <1>8, <1>9, <2>1
<1>11. \A k \in 1 .. i : ms[k] = pg[k]
  <2>1. \A k \in 1 .. i : k \in 1 .. L - 1 /\ k <= i
    BY <1>1
  <2> HIDE DEF L
  <2> QED BY <1>10, <2>1
<1>12. \A k \in i + 1 .. L - 1 : ms[k] = bs[k + 1]
  <2> SUFFICES ASSUME NEW k \in i + 1 .. L - 1 PROVE ms[k] = bs[k + 1]
    OBVIOUS
  <2>1. k \in 1 .. L - 1 /\ ~ (k <= i) /\ k - i \in 1 .. L - (i + 1) /\ (i + 1) + (k - i) = k + 1
    BY <1>1
  <2> HIDE DEF L
  <2>2. ms[k] = q[k - i]
    BY <1>10, <2>1
  <2> QED BY <1>6, <2>1, <2>2
<1>13. GluedAt(ms, bs, i)
  <2>1. ms[i] = bs[i] \o bs[i + 1]
    <3>1. i \in 1 .. i /\ ~ (i < i)
      BY <1>1
    <3> QED BY <1>7, <1>11, <3>1 DEF g
  <2>2. \A k \in 1 .. i - 1 : ms[k] = bs[k]
    <3>1. \A k \in 1 .. i - 1 : k \in 1 .. i /\ k < i
      BY <1>1
    <3> QED BY <1>7, <1>11, <3>1
  <2> QED BY <1>10, <1>12, <2>1, <2>2 DEF GluedAt
<1> QED BY <1>10, <1>13 DEF B

\* A typing time is at most the cap, and at least the floor unless the cap is
\* lower.
LEMMA TypingBounds ==
  ASSUME draft \in Seq(Nat), pacing \in [delay : Int, wpm : Int, cap : Int], pacing.wpm # 0,
         NEW b \in Seq(DOMAIN draft)
  PROVE  /\ TypingMs(b) \in Int
         /\ Least(pacing.cap, TYPING_FLOOR_MS) <= TypingMs(b) /\ TypingMs(b) <= pacing.cap
<1> DEFINE w == WordCount(b)
           x == (w * 60000) \div pacing.wpm
           y == IF pacing.wpm < 0 THEN TYPING_FLOOR_MS ELSE Most(TYPING_FLOOR_MS, x)
<1>1. w \in Int /\ pacing.wpm \in Int /\ pacing.cap \in Int
  BY BubbleLength
<1> HIDE DEF w
<1>2. pacing.wpm > 0 => x \in Int
  BY <1>1
<1> HIDE DEF x
<1>3. y \in Int /\ y >= 500
  BY <1>1, <1>2 DEF Most, TYPING_FLOOR_MS
<1> HIDE DEF y
<1>4. TypingMs(b) = Least(pacing.cap, y)
  BY DEF TypingMs, y, x, w
<1> QED BY <1>1, <1>3, <1>4 DEF Least, TYPING_FLOOR_MS

\* The draft is a sequence of sizes, and a loop never runs over its bounds.
BubblesTypeOK ==
  /\ draft \in Seq(Nat)
  /\ pacing \in [delay : Int, wpm : Int, cap : Int]
  /\ phase \in {"split", "merge", "pace", "done", "raised"}
  /\ times \in Seq(Int)

\* From the split on the bubbles are not empty and say the paragraphs.
SaysOK ==
  phase # "split" => bubbles \in Seq(Bubble) /\ Joined(bubbles) = Paragraphs

\* While it merges no bubble is glued that the limit leaves room for, and none
\* is timed.
MergingOK ==
  /\ phase = "merge" =>
       \/ Len(bubbles) = Len(Paragraphs) /\ Len(Paragraphs) <= MAX_BUBBLES
       \/ Len(bubbles) >= MAX_BUBBLES /\ Len(Paragraphs) > MAX_BUBBLES
  /\ phase \in {"split", "merge"} => times = << >>
  /\ phase \notin {"split", "merge"} =>
       Len(bubbles) = Least(MAX_BUBBLES, Len(Paragraphs))

\* One time for each bubble so far, each after the one before it and within
\* the caps.
TimesOK ==
  /\ Len(times) <= Len(bubbles)
  /\ phase = "done" => Len(times) = Len(bubbles)
  /\ \A i \in 1 .. Len(times) :
       LET before == IF i = 1 THEN pacing.delay ELSE times[i - 1] + INTER_BUBBLE_GAP_MS
       IN /\ times[i] >= before + Least(pacing.cap, TYPING_FLOOR_MS)
          /\ times[i] <= pacing.delay + i * pacing.cap + (i - 1) * INTER_BUBBLE_GAP_MS

BubblesInv == BubblesTypeOK /\ SaysOK /\ MergingOK /\ TimesOK

\* The invariant holds of a draft before the split.
LEMMA BubblesInitInv == BubblesInit => BubblesInv
<1> SUFFICES ASSUME BubblesInit PROVE BubblesInv
  OBVIOUS
<1>1. PICK n \in 0 .. MaxParagraphs : draft \in [1 .. n -> Words]
  BY DEF BubblesInit
<1>2. n \in Nat /\ Words \subseteq Nat /\ Pacings \subseteq [delay : Int, wpm : Int, cap : Int]
  BY BubblesAssumption
<1>3. draft \in Seq(Nat)
  <2>1. draft \in [1 .. n -> Nat]
    BY <1>1, <1>2
  <2> QED BY <1>2, <2>1
<1>4. pacing \in [delay : Int, wpm : Int, cap : Int]
  BY <1>2 DEF BubblesInit
<1>5. bubbles = << >> /\ times = << >> /\ phase = "split"
  BY DEF BubblesInit
<1>6. BubblesTypeOK
  <2>1. times \in Seq(Int)
    BY <1>5
  <2> QED BY <1>3, <1>4, <1>5, <2>1 DEF BubblesTypeOK
<1>7. SaysOK /\ MergingOK
  BY <1>5 DEF SaysOK, MergingOK
<1>8. TimesOK
  <2>1. Len(times) = 0 /\ Len(bubbles) = 0
    BY <1>5
  <2> QED BY <1>5, <2>1 DEF TimesOK
<1> QED BY <1>6, <1>7, <1>8 DEF BubblesInv

\* Splitting makes a bubble of every paragraph.
LEMMA SplitKeeps ==
  ASSUME BubblesInv, Split
  PROVE  BubblesInv'
<1> DEFINE P == Paragraphs
<1>1. /\ phase = "split" /\ phase' = "merge" /\ bubbles' = [k \in DOMAIN P |-> <<P[k]>>]
      /\ draft' = draft /\ pacing' = pacing /\ times' = times
  BY DEF Split
<1>2. BubblesTypeOK /\ times = << >> /\ draft \in Seq(Nat)
  BY <1>1 DEF BubblesInv, BubblesTypeOK, MergingOK
<1>3. P \in Seq(DOMAIN draft)
  BY <1>2, ParagraphsType
<1>4. P' = P /\ Bubble' = Bubble
  BY <1>1 DEF Paragraphs, Bubble
<1> HIDE DEF P
<1>5. Len(P) \in Nat /\ DOMAIN P = 1 .. Len(P)
  BY <1>3
<1>6. \A k \in 1 .. Len(P) : <<P[k]>> \in Bubble
  <2>1. \A k \in 1 .. Len(P) : P[k] \in DOMAIN draft
    BY <1>3
  <2> QED BY <2>1 DEF Bubble
<1>7. bubbles' \in Seq(Bubble) /\ Len(bubbles') = Len(P)
  <2> DEFINE n == Len(P)
  <2>1. n \in Nat /\ bubbles' \in [1 .. n -> Bubble]
    BY <1>1, <1>5, <1>6
  <2> HIDE DEF n
  <2>2. bubbles' \in Seq(Bubble) /\ Len(bubbles') = n
    BY <2>1
  <2> QED BY <2>2 DEF n
<1>8. Joined(bubbles') = P
  BY <1>1, <1>3, SinglesSayTheParagraphs
<1>9. BubblesTypeOK'
  BY <1>1, <1>2 DEF BubblesTypeOK
<1>10. SaysOK'
  BY <1>4, <1>7, <1>8 DEF SaysOK, P
<1>11. MergingOK'
  <2>1. Len(bubbles') = Len(Paragraphs') /\ Len(Paragraphs') \in Nat
    BY <1>4, <1>5, <1>7 DEF P
  <2>2. times' = << >> /\ phase' = "merge"
    BY <1>1, <1>2
  <2> QED BY <2>1, <2>2 DEF MergingOK, MAX_BUBBLES
<1>12. TimesOK'
  <2>1. Len(times') = 0 /\ Len(bubbles') \in Nat /\ phase' = "merge"
    BY <1>1, <1>2, <1>5, <1>7
  <2> QED BY <2>1 DEF TimesOK
<1> QED BY <1>9, <1>10, <1>11, <1>12 DEF BubblesInv

\* A turn of merge_down glues one pair, or finds that few enough are left.
LEMMA MergeKeeps ==
  ASSUME BubblesInv, MergePair
  PROVE  BubblesInv'
<1> DEFINE L == Len(bubbles)
           D == DOMAIN draft
<1>1. phase = "merge" /\ draft' = draft /\ pacing' = pacing /\ times' = times
  BY DEF MergePair
<1>2. BubblesTypeOK /\ times = << >> /\ draft \in Seq(Nat)
  BY <1>1 DEF BubblesInv, BubblesTypeOK, MergingOK
<1>3. bubbles \in Seq(Bubble) /\ Joined(bubbles) = Paragraphs
  BY <1>1 DEF BubblesInv, SaysOK
<1>4. Paragraphs' = Paragraphs /\ Bubble' = Bubble
  BY <1>1 DEF Paragraphs, Bubble
<1>5. Paragraphs \in Seq(D)
  BY <1>2, ParagraphsType
<1>6. Len(Paragraphs) \in Nat /\ L \in Nat
  BY <1>3, <1>5, LenProperties
<1>7. \/ L = Len(Paragraphs) /\ Len(Paragraphs) <= 5
      \/ L >= 5 /\ Len(Paragraphs) > 5
  BY <1>1 DEF BubblesInv, MergingOK, MAX_BUBBLES
<1>8. CASE L > 5
  <2>1. bubbles' = Merged /\ phase' = "merge"
    BY <1>1, <1>8 DEF MergePair, MAX_BUBBLES
  <2>2. bubbles \in Seq(Seq(D))
    <3>1. Bubble \subseteq Seq(D)
      BY DEF Bubble
    <3> HIDE DEF D
    <3> DEFINE W == Seq(D)
    <3> HIDE DEF W
    <3>2. Bubble \subseteq W /\ bubbles \in Seq(Bubble)
      BY <1>3, <3>1 DEF W
    <3>3. bubbles \in Seq(W)
      BY <3>2
    <3> QED BY <3>3 DEF W
  <2>3. PICK i \in 1 .. L - 1 :
          Merged = SubSeq(bubbles, 1, i - 1) \o <<bubbles[i] \o bubbles[i + 1]>>
                     \o SubSeq(bubbles, i + 2, L)
    <3>1. L > 1
      BY <1>6, <1>8
    <3> QED BY <1>2, <2>2, <3>1, MergedGlues
  <2>4. bubbles' \in Seq(Bubble) /\ GluedAt(bubbles', bubbles, i)
    <3>1. bubbles \in Seq(Seq(D) \ {<< >>})
      BY <1>3 DEF Bubble
    <3> QED BY <2>1, <2>3, <3>1, GluePieces DEF Bubble
  <2>5. bubbles' \in Seq(Seq(D))
    <3>1. Bubble \subseteq Seq(D)
      BY DEF Bubble
    <3> HIDE DEF D
    <3> DEFINE W == Seq(D)
    <3> HIDE DEF W
    <3>2. Bubble \subseteq W /\ bubbles' \in Seq(Bubble)
      BY <2>4, <3>1 DEF W
    <3>3. bubbles' \in Seq(W)
      BY <3>2
    <3> QED BY <3>3 DEF W
  <2>6. Joined(bubbles') = Joined(bubbles)
    <3> HIDE DEF D
    <3> QED BY <2>2, <2>3, <2>4, <2>5, GluedSaysTheSame
  <2>7. Len(bubbles') = L - 1
    BY <2>4 DEF GluedAt
  <2>8. BubblesTypeOK'
    BY <1>1, <1>2, <2>1 DEF BubblesTypeOK
  <2>9. SaysOK'
    BY <1>3, <1>4, <2>4, <2>6 DEF SaysOK
  <2>10. MergingOK'
    <3>1. Len(bubbles') >= 5 /\ Len(Paragraphs') > 5 /\ times' = << >> /\ phase' = "merge"
      BY <1>1, <1>2, <1>4, <1>6, <1>7, <1>8, <2>1, <2>7
    <3> QED BY <3>1 DEF MergingOK, MAX_BUBBLES
  <2>11. TimesOK'
    <3>1. Len(times') = 0 /\ Len(bubbles') \in Nat /\ phase' = "merge"
      BY <1>1, <1>2, <1>6, <1>8, <2>1, <2>7
    <3> QED BY <3>1 DEF TimesOK
  <2> QED BY <2>8, <2>9, <2>10, <2>11 DEF BubblesInv
<1>9. CASE ~ (L > 5)
  <2>1. bubbles' = bubbles /\ phase' = "pace"
    BY <1>1, <1>9 DEF MergePair, MAX_BUBBLES
  <2>2. BubblesTypeOK'
    BY <1>1, <1>2, <2>1 DEF BubblesTypeOK
  <2>3. SaysOK'
    BY <1>3, <1>4, <2>1 DEF SaysOK
  <2>4. MergingOK'
    <3>1. Len(bubbles') = Least(5, Len(Paragraphs'))
      <4> DEFINE n == Len(Paragraphs)
      <4>1. L \in Nat /\ n \in Nat /\ ((L = n /\ n <= 5) \/ (L >= 5 /\ n > 5)) /\ ~ (L > 5)
        BY <1>6, <1>7, <1>9
      <4> HIDE DEF L, n
      <4>2. L = Least(5, n)
        BY <4>1 DEF Least
      <4>3. Len(bubbles') = L /\ Len(Paragraphs') = n
        BY <1>4, <2>1 DEF L, n
      <4> QED BY <4>2, <4>3
    <3> QED BY <2>1, <3>1 DEF MergingOK, MAX_BUBBLES
  <2>5. TimesOK'
    <3>1. Len(times') = 0 /\ Len(bubbles') \in Nat /\ phase' = "pace"
      BY <1>1, <1>2, <1>6, <2>1
    <3> QED BY <3>1 DEF TimesOK
  <2> QED BY <2>2, <2>3, <2>4, <2>5 DEF BubblesInv
<1> QED BY <1>8, <1>9

\* deliver_times times the next bubble, and stops after the last or at no
\* words a minute.
LEMMA PaceKeeps ==
  ASSUME BubblesInv, Pace
  PROVE  BubblesInv'
<1> DEFINE L == Len(bubbles)
           N == Len(times)
<1>1. phase = "pace" /\ draft' = draft /\ pacing' = pacing /\ bubbles' = bubbles
  BY DEF Pace
<1>2. /\ draft \in Seq(Nat) /\ pacing \in [delay : Int, wpm : Int, cap : Int]
      /\ times \in Seq(Int)
  BY DEF BubblesInv, BubblesTypeOK
<1>3. bubbles \in Seq(Bubble) /\ Joined(bubbles) = Paragraphs
  BY <1>1 DEF BubblesInv, SaysOK
<1>4. Paragraphs' = Paragraphs /\ Bubble' = Bubble
  BY <1>1 DEF Paragraphs, Bubble
<1>5. L \in Nat /\ N \in Nat /\ N <= L
  BY <1>2, <1>3, LenProperties DEF BubblesInv, TimesOK
<1>6. Len(bubbles) = Least(MAX_BUBBLES, Len(Paragraphs))
  BY <1>1 DEF BubblesInv, MergingOK
<1>7. phase' \in {"pace", "done", "raised"}
  BY <1>1 DEF Pace
<1>8. SaysOK'
  BY <1>1, <1>3, <1>4 DEF SaysOK
<1>9. MergingOK'
  BY <1>1, <1>4, <1>6, <1>7 DEF MergingOK
<1>10. CASE times' = times
  <2>1. BubblesTypeOK'
    BY <1>1, <1>2, <1>7, <1>10 DEF BubblesTypeOK
  <2>2. phase' = "done" => N = L
    BY <1>1, <1>5 DEF Pace
  <2>3. TimesOK'
    BY <1>1, <1>5, <1>10, <2>2 DEF BubblesInv, TimesOK
  <2> QED BY <1>8, <1>9, <2>1, <2>3 DEF BubblesInv
<1>11. CASE ~ (times' = times)
  <2> DEFINE b == bubbles[N + 1]
             before == IF N + 1 = 1 THEN pacing.delay ELSE times[N] + 200
             t == before + TypingMs(b)
             c == pacing.cap
             d == pacing.delay
  <2>1. /\ N + 1 <= L /\ pacing.wpm # 0 /\ phase' = "pace" /\ times' = Append(times, t)
    <3>1. /\ N + 1 <= L /\ pacing.wpm # 0 /\ phase' = phase
          /\ times' = Append(times, (IF N + 1 = 1 THEN pacing.delay
                                     ELSE times[N + 1 - 1] + INTER_BUBBLE_GAP_MS)
                                      + TypingMs(bubbles[N + 1]))
      BY <1>11 DEF Pace
    <3>2. N + 1 - 1 = N
      BY <1>5
    <3> QED BY <1>1, <3>1, <3>2 DEF INTER_BUBBLE_GAP_MS
  <2>2. b \in Seq(DOMAIN draft)
    <3>1. N + 1 \in 1 .. L
      BY <1>5, <2>1
    <3>2. b \in Bubble
      BY <1>3, <3>1, ElementOfSeq
    <3> QED BY <3>2 DEF Bubble
  <2>3. /\ TypingMs(b) \in Int
        /\ Least(c, TYPING_FLOOR_MS) <= TypingMs(b) /\ TypingMs(b) <= c
    BY <1>2, <2>1, <2>2, TypingBounds
  <2>4. c \in Int /\ d \in Int
    BY <1>2
  <2>5. Least(c, TYPING_FLOOR_MS) \in Int
    BY <2>4 DEF Least, TYPING_FLOOR_MS
  <2> HIDE DEF b, c, d
  <2>6. N > 0 => times[N] \in Int
    BY <1>2, <1>5
  <2>7. before \in Int
    BY <1>5, <2>4, <2>6 DEF d
  <2>8. N > 0 => times[N] <= d + N * c + (N - 1) * 200
    <3>1. N > 0 => N \in 1 .. N
      BY <1>5
    <3> QED BY <1>5, <3>1 DEF BubblesInv, TimesOK, INTER_BUBBLE_GAP_MS, c, d
  <2>9. t <= d + (N + 1) * c + N * 200
    <3>1. CASE N = 0
      <4>1. before = d /\ (N + 1) * c = c
        BY <2>4, <3>1 DEF d
      <4> HIDE DEF before
      <4> QED BY <2>3, <2>4, <3>1, <4>1
    <3>2. CASE N > 0
      <4> DEFINE m == N * c
      <4>1. before = times[N] + 200
        BY <1>5, <3>2
      <4>2. (N + 1) * c = m + c /\ m \in Int
        BY <1>5, <2>4
      <4>3. times[N] <= d + m + (N - 1) * 200
        BY <2>8, <3>2
      <4> HIDE DEF before, m
      <4>4. before + TypingMs(b) <= d + (m + c) + N * 200
        BY <1>5, <2>3, <2>4, <2>6, <3>2, <4>1, <4>2, <4>3
      <4> QED BY <4>2, <4>4
    <3> QED BY <1>5, <3>1, <3>2
  <2>10. t \in Int /\ t >= before + Least(c, TYPING_FLOOR_MS)
    <3> HIDE DEF before
    <3> QED BY <2>3, <2>5, <2>7
  <2>11. BubblesTypeOK'
    <3>1. times' \in Seq(Int)
      <4> HIDE DEF t
      <4> QED BY <1>2, <2>1, <2>10
    <3> QED BY <1>1, <1>2, <1>7, <3>1 DEF BubblesTypeOK
  <2>12. Len(times') = N + 1 /\ times'[N + 1] = t /\ \A i \in 1 .. N : times'[i] = times[i]
    <3> HIDE DEF t
    <3> QED BY <1>2, <2>1, <2>10
  <2>13. TimesOK'
    <3>1. ASSUME NEW i \in 1 .. N + 1
          PROVE  LET bef == IF i = 1 THEN pacing.delay ELSE times'[i - 1] + INTER_BUBBLE_GAP_MS
                 IN /\ times'[i] >= bef + Least(pacing.cap, TYPING_FLOOR_MS)
                    /\ times'[i] <= pacing.delay + i * pacing.cap + (i - 1) * INTER_BUBBLE_GAP_MS
      <4>1. CASE i \in 1 .. N
        <5>1. times'[i] = times[i] /\ (i # 1 => times'[i - 1] = times[i - 1])
          <6>1. i # 1 => i - 1 \in 1 .. N
            BY <1>5, <4>1
          <6> QED BY <2>12, <4>1, <6>1
        <5>2. LET bef == IF i = 1 THEN pacing.delay ELSE times[i - 1] + INTER_BUBBLE_GAP_MS
              IN /\ times[i] >= bef + Least(pacing.cap, TYPING_FLOOR_MS)
                 /\ times[i] <= pacing.delay + i * pacing.cap + (i - 1) * INTER_BUBBLE_GAP_MS
          BY <4>1 DEF BubblesInv, TimesOK
        <5> HIDE DEF t
        <5> QED BY <5>1, <5>2
      <4>2. CASE i = N + 1
        <5>1. i - 1 = N /\ (i # 1 => N \in 1 .. N)
          BY <1>5, <4>2
        <5>2. i # 1 => times'[N] = times[N]
          BY <2>12, <5>1
        <5>3. before = IF i = 1 THEN pacing.delay ELSE times'[i - 1] + INTER_BUBBLE_GAP_MS
          BY <4>2, <5>1, <5>2 DEF INTER_BUBBLE_GAP_MS
        <5>4. times'[i] >= before + Least(pacing.cap, TYPING_FLOOR_MS)
          BY <2>10, <2>12, <4>2 DEF c
        <5>5. times'[i] <= pacing.delay + i * pacing.cap + (i - 1) * INTER_BUBBLE_GAP_MS
          <6> HIDE DEF t
          <6> QED BY <2>9, <2>12, <4>2, <5>1 DEF c, d, INTER_BUBBLE_GAP_MS
        <5> HIDE DEF before, t
        <5> QED BY <5>3, <5>4, <5>5
      <4> QED BY <1>5, <4>1, <4>2
    <3>2. Len(times') <= Len(bubbles') /\ phase' = "pace"
      BY <1>1, <2>1, <2>12
    <3>3. pacing' = pacing /\ Len(times') = N + 1
      BY <1>1, <2>12
    <3> HIDE DEF t, before
    <3> QED BY <3>1, <3>2, <3>3 DEF TimesOK
  <2> QED BY <1>8, <1>9, <2>11, <2>13 DEF BubblesInv
<1> QED BY <1>10, <1>11

\* Whatever the draft, the speed and the limits, a reply says the draft's
\* paragraphs in their order, in as many bubbles as the limit leaves of them,
\* and its times lie as far apart as the gap and the caps say.
THEOREM RepliesAreWhole == BubblesSpec => []ReplyWhole
<1>1. BubblesInv /\ [BubblesNext]_bubbleVars => BubblesInv'
  <2> SUFFICES ASSUME BubblesInv, [BubblesNext]_bubbleVars PROVE BubblesInv'
    OBVIOUS
  <2>1. CASE UNCHANGED bubbleVars
    <3>1. draft' = draft /\ pacing' = pacing /\ bubbles' = bubbles /\ times' = times /\ phase' = phase
      BY <2>1 DEF bubbleVars
    <3>2. Paragraphs' = Paragraphs /\ Bubble' = Bubble
      BY <3>1 DEF Paragraphs, Bubble
    <3>3. BubblesTypeOK'
      BY <3>1 DEF BubblesInv, BubblesTypeOK
    <3>4. SaysOK' /\ MergingOK'
      BY <3>1, <3>2 DEF BubblesInv, SaysOK, MergingOK
    <3>5. TimesOK'
      BY <3>1 DEF BubblesInv, TimesOK
    <3> QED BY <3>3, <3>4, <3>5 DEF BubblesInv
  <2> QED BY <2>1, SplitKeeps, MergeKeeps, PaceKeeps DEF BubblesNext
<1>2. BubblesInv => ReplyWhole
  <2> SUFFICES ASSUME BubblesInv PROVE ReplyWhole
    OBVIOUS
  <2>1. phase # "split" => Joined(bubbles) = Paragraphs /\ \A i \in DOMAIN bubbles : bubbles[i] # << >>
    <3> SUFFICES ASSUME phase # "split"
                 PROVE  Joined(bubbles) = Paragraphs /\ \A i \in DOMAIN bubbles : bubbles[i] # << >>
      OBVIOUS
    <3>1. bubbles \in Seq(Bubble) /\ Joined(bubbles) = Paragraphs
      BY DEF BubblesInv, SaysOK
    <3>2. \A i \in DOMAIN bubbles : bubbles[i] \in Bubble
      BY <3>1
    <3> QED BY <3>1, <3>2 DEF Bubble
  <2>2. DOMAIN times = 1 .. Len(times)
    BY DEF BubblesInv, BubblesTypeOK
  <2> QED BY <2>1, <2>2 DEF BubblesInv, MergingOK, TimesOK, ReplyWhole
<1> QED BY <1>1, <1>2, BubblesInitInv, PTL DEF BubblesSpec
=============================================================================
