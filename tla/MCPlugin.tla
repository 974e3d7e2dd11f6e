------------------------------- MODULE MCPlugin -------------------------------
(* Two forum topics of one Telegram chat, two sessions with one chat id: a  *)
(* direct and an unmentioned message in one topic, a photo in the other.    *)
EXTENDS Plugin, TLC

CONSTANTS m1, m2, m3, s1, s2, c1

MCMessages   == {m1, m2, m3}
MCSessions   == {s1, s2}
MCSessionOf  == m1 :> s1 @@ m2 :> s1 @@ m3 :> s2
MCChatOf     == s1 :> c1 @@ s2 :> c1
MCPlatformOf == c1 :> "telegram"
MCKind       == m1 :> "text" @@ m2 :> "group" @@ m3 :> "media"
MCTextOf     == [m \in MCMessages |-> m]
=============================================================================
