----------------------------- MODULE MCPeriphery -----------------------------
(* The parts of the plugin and of the tools that share no state with one    *)
(* another, one of them at a time: focus says which, so their state spaces  *)
(* add up instead of multiplying.                                           *)
EXTENDS Link, Soul, Cards, Notices, Autoconf, Shadow, Sink, Bubbles

\* The plugin's pacing, a cap below the floor, and what the request's schema
\* lets through besides: no speed, a negative one, a negative cap.
MCPacings == {[delay |-> 0,   wpm |-> 115, cap |-> 8000],
              [delay |-> 250, wpm |-> 150, cap |-> 300],
              [delay |-> 0,   wpm |-> 0,   cap |-> 8000],
              [delay |-> 0,   wpm |-> -60, cap |-> 8000],
              [delay |-> 250, wpm |-> 115, cap |-> -1000]}

VARIABLE focus

Init ==
  /\ focus \in {"link", "soul", "cards", "notices", "autoconf", "shadow", "sink", "bubbles"}
  \* The initial choices of a part that does not run are of no interest.
  /\ BubblesInit  /\ (focus # "bubbles"  => draft = << >> /\ pacing = CHOOSE p \in Pacings : TRUE)
  /\ LinkInit     /\ (focus # "link"     => fileKey = "none")
  /\ SoulInit     /\ (focus # "soul"     => edits = 0)
  /\ AutoconfInit /\ (focus # "autoconf" => inUse = {"core"} /\ config = {} /\ env = {} /\ readable)
  /\ ShadowInit   /\ (focus # "shadow"   =>
       /\ \A t \in ShadowThreads : prodCount[t] = 0
       /\ \A x \in Submits : threadOf[x] = CHOOSE t \in ShadowThreads : TRUE)
  /\ CardsInit    /\ (focus # "cards"    => ~ perSession)
  /\ NoticesInit /\ SinkInit

vars == <<linkVars, soulVars, cardVars, noticeVars, confVars, shadowVars, sinkVars, bubbleVars, focus>>

Next ==
  \/ focus = "link"     /\ LinkNext
       /\ UNCHANGED <<soulVars, cardVars, noticeVars, confVars, shadowVars, sinkVars, bubbleVars, focus>>
  \/ focus = "soul"     /\ SoulNext
       /\ UNCHANGED <<linkVars, cardVars, noticeVars, confVars, shadowVars, sinkVars, bubbleVars, focus>>
  \/ focus = "cards"    /\ CardsNext
       /\ UNCHANGED <<linkVars, soulVars, noticeVars, confVars, shadowVars, sinkVars, bubbleVars, focus>>
  \/ focus = "notices"  /\ NoticesNext
       /\ UNCHANGED <<linkVars, soulVars, cardVars, confVars, shadowVars, sinkVars, bubbleVars, focus>>
  \/ focus = "autoconf" /\ AutoconfNext
       /\ UNCHANGED <<linkVars, soulVars, cardVars, noticeVars, shadowVars, sinkVars, bubbleVars, focus>>
  \/ focus = "shadow"   /\ ShadowNext
       /\ UNCHANGED <<linkVars, soulVars, cardVars, noticeVars, confVars, sinkVars, bubbleVars, focus>>
  \/ focus = "sink"     /\ SinkNext
       /\ UNCHANGED <<linkVars, soulVars, cardVars, noticeVars, confVars, shadowVars, bubbleVars, focus>>
  \/ focus = "bubbles"  /\ BubblesNext
       /\ UNCHANGED <<linkVars, soulVars, cardVars, noticeVars, confVars, shadowVars, sinkVars, focus>>

Spec == Init /\ [][Next]_vars
=============================================================================
