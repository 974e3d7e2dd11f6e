--------------------------------- MODULE Link ---------------------------------
(***************************************************************************)
(* How the plugin gets its API key: the /connect command and the first     *)
(* boot's login (connect.py, login.py).  Both open a session in a browser, *)
(* poll it and save the key; they run in threads of one process, share     *)
(* _PENDING and PENDING_URI, and the process may restart at any step.      *)
(***************************************************************************)
EXTENDS Naturals, FiniteSets

CONSTANTS Flows,        \* attempts to link, identified by their session
          MaxRestarts   \* bound

VARIABLES
  flow,         \* per attempt: [kind, step]
  session,      \* external: what the user did with the attempt's link
  pendingFlag,  \* connect._PENDING
  PENDING_URI,  \* the attempt whose link is shown again, or "none"
  envKey,       \* HUMALIKE_API_KEY of this process: "none", "old" or an attempt
  fileKey,      \* HUMALIKE_API_KEY in .env
  popupDue,     \* register() has not reached maybe_first_boot_login yet
  linkRestarts

linkVars == <<flow, session, pendingFlag, PENDING_URI, envKey, fileKey, popupDue,
              linkRestarts>>

LinkInit ==
  /\ flow = [f \in Flows |-> [kind |-> "none", step |-> "free"]]
  /\ session = [f \in Flows |-> "waiting"]
  /\ pendingFlag = FALSE /\ PENDING_URI = "none"
  /\ fileKey \in {"none", "old"} /\ envKey = fileKey
  /\ popupDue = TRUE /\ linkRestarts = 0

Step(f, step) == flow' = [flow EXCEPT ![f].step = step]
Active(f)     == flow[f].step \notin {"free", "ended", "unwatched", "cancelled"}

\* has_working_key: none without a key; a key is probed, and only an explicit
\* rejection counts against it.
WorkingKey == {envKey # "none"} \cup (IF envKey = "old" THEN {FALSE} ELSE {})

\* maybe_first_boot_login: a login thread unless the key works.
FirstBootLogin(f) ==
  /\ popupDue
  /\ popupDue' = FALSE
  /\ \E works \in WorkingKey :
       IF works THEN UNCHANGED flow
       ELSE /\ flow[f].step = "free"
            /\ flow' = [flow EXCEPT ![f] = [kind |-> "popup", step |-> "creating"]]
  /\ UNCHANGED <<session, pendingFlag, PENDING_URI, envKey, fileKey, linkRestarts>>

\* Bug: _PENDING is set only once the session exists.
ConnectUnflagged(f) ==
  /\ flow[f].step = "free"
  /\ envKey = "none" /\ ~ pendingFlag /\ PENDING_URI = "none"
  /\ flow' = [flow EXCEPT ![f] = [kind |-> "chat", step |-> "creating"]]
  /\ UNCHANGED <<session, pendingFlag, PENDING_URI, envKey, fileKey, popupDue,
                 linkRestarts>>

\* /connect, up to its await.  With a key, or with a link known to be
\* waiting, it only answers.
Connect(f) ==
  /\ flow[f].step = "free"
  /\ envKey = "none" /\ ~ pendingFlag /\ PENDING_URI = "none"
  /\ pendingFlag' = TRUE
  /\ flow' = [flow EXCEPT ![f] = [kind |-> "chat", step |-> "creating"]]
  /\ UNCHANGED <<session, PENDING_URI, envKey, fileKey, popupDue, linkRestarts>>

\* The session exists: /connect publishes its link and starts the watcher,
\* the popup first waits for the terminal to be painted.
Created(f) ==
  /\ flow[f].step = "creating"
  /\ IF flow[f].kind = "chat"
     THEN Step(f, "polling") /\ PENDING_URI' = f
     ELSE Step(f, "showing") /\ UNCHANGED PENDING_URI
  /\ UNCHANGED <<session, pendingFlag, envKey, fileKey, popupDue, linkRestarts>>

\* The request fails, or its answer is no session.
CreateFails(f) ==
  /\ flow[f].step = "creating"
  /\ Step(f, "ended")
  /\ pendingFlag' = (pendingFlag /\ flow[f].kind = "popup")
  /\ UNCHANGED <<session, PENDING_URI, envKey, fileKey, popupDue, linkRestarts>>

\* The watcher's thread does not start: /connect answers as if it had not
\* reached the service, and leaves PENDING_URI with a link nobody polls.
WatcherFails(f) ==
  /\ flow[f].step = "creating" /\ flow[f].kind = "chat"
  /\ Step(f, "unwatched")
  /\ PENDING_URI' = f /\ pendingFlag' = FALSE
  /\ UNCHANGED <<session, envKey, fileKey, popupDue, linkRestarts>>

\* The command is cancelled while it awaits the request: a CancelledError is
\* no Exception, and _PENDING stays set.
ConnectCancelled(f) ==
  /\ flow[f].step = "creating" /\ flow[f].kind = "chat"
  /\ Step(f, "cancelled")
  /\ UNCHANGED <<session, pendingFlag, PENDING_URI, envKey, fileKey, popupDue, linkRestarts>>

\* The popup shows its link and polls.
Shown(f) ==
  /\ flow[f].step = "showing"
  /\ Step(f, "polling")
  /\ PENDING_URI' = f
  /\ UNCHANGED <<session, pendingFlag, envKey, fileKey, popupDue, linkRestarts>>

\* The user answers in the browser (external).
Answer(f) ==
  /\ flow[f].step \in {"showing", "polling"} /\ session[f] = "waiting"
  /\ \E a \in {"approved", "denied"} : session' = [session EXCEPT ![f] = a]
  /\ UNCHANGED <<flow, pendingFlag, PENDING_URI, envKey, fileKey, popupDue,
                 linkRestarts>>

\* poll_session returns.  A denied or expired link ends the attempt; so does
\* the popup's part in PENDING_URI, while /connect keeps its flags until the
\* key is saved.
Polled(f) ==
  /\ flow[f].step = "polling"
  /\ \/ session[f] = "approved" /\ Step(f, "saving")
     \/ Step(f, "ended")   \* denied, or the link's ten minutes are over
  /\ IF flow[f].kind = "chat" /\ flow'[f].step = "saving"
     THEN UNCHANGED <<pendingFlag, PENDING_URI>>
     ELSE /\ PENDING_URI' = "none"
          /\ pendingFlag' = (pendingFlag /\ flow[f].kind = "popup")
  /\ UNCHANGED <<session, envKey, fileKey, popupDue, linkRestarts>>

\* _save_key's first half: the key is live for this process.
SaveLive(f) ==
  /\ flow[f].step = "saving" /\ flow[f].kind = "chat"
  /\ envKey' = f
  /\ Step(f, "writing")
  /\ UNCHANGED <<session, pendingFlag, PENDING_URI, fileKey, popupDue, linkRestarts>>

\* write_env_key: one os.replace, or an exception and the old file.
WriteKey(f, ok) == fileKey' = IF ok THEN f ELSE fileKey

\* _watch's end: the file, written or not, then the flags and the message.
WatchEnds(f) ==
  /\ flow[f].step = "writing"
  /\ \E ok \in BOOLEAN : WriteKey(f, ok)
  /\ pendingFlag' = FALSE /\ PENDING_URI' = "none"
  /\ Step(f, "ended")
  /\ UNCHANGED <<session, envKey, popupDue, linkRestarts>>

\* The popup writes first; an exception ends its thread and the key is gone.
PopupWrites(f) ==
  /\ flow[f].step = "saving" /\ flow[f].kind = "popup"
  /\ \E ok \in BOOLEAN : WriteKey(f, ok) /\ Step(f, IF ok THEN "written" ELSE "ended")
  /\ UNCHANGED <<session, pendingFlag, PENDING_URI, envKey, popupDue, linkRestarts>>

PopupEnds(f) ==
  /\ flow[f].step = "written"
  /\ envKey' = f
  /\ Step(f, "ended")
  /\ UNCHANGED <<session, pendingFlag, PENDING_URI, fileKey, popupDue, linkRestarts>>

\* The process restarts: threads and flags are gone, the host loads .env.
LinkRestart ==
  /\ linkRestarts < MaxRestarts
  /\ linkRestarts' = linkRestarts + 1
  /\ flow' = [f \in Flows |-> IF flow[f].step = "free" THEN flow[f]
                              ELSE [flow[f] EXCEPT !.step = "ended"]]
  /\ pendingFlag' = FALSE /\ PENDING_URI' = "none"
  /\ envKey' = fileKey /\ popupDue' = TRUE
  /\ UNCHANGED <<session, fileKey>>

LinkNext ==
  \/ \E f \in Flows :
       \/ FirstBootLogin(f) \/ Connect(f) \/ Created(f) \/ CreateFails(f) \/ WatcherFails(f)
       \/ ConnectCancelled(f) \/ Shown(f)
       \/ Answer(f) \/ Polled(f) \/ SaveLive(f) \/ WatchEnds(f) \/ PopupWrites(f) \/ PopupEnds(f)
  \/ LinkRestart

LinkSpec == LinkInit /\ [][LinkNext]_linkVars

-----------------------------------------------------------------------------
Holds(f) == flow[f].kind = "chat" /\ (Active(f) \/ flow[f].step = "cancelled")

\* _PENDING stands for exactly one /connect attempt of this process, at work or
\* cancelled in its request, so two commands cannot both mint a session; a link
\* that is shown again belongs to an attempt that is still waiting or saving,
\* or to one whose watcher did not start.  Those two endings are the only ones
\* that leave /connect wedged.
OneLink ==
  /\ Cardinality({f \in Flows : Holds(f)}) = IF pendingFlag THEN 1 ELSE 0
  /\ PENDING_URI # "none" =>
       Active(PENDING_URI) \/ flow[PENDING_URI].step = "unwatched"
=============================================================================
