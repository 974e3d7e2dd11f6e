------------------------------- MODULE Bubbles -------------------------------
(***************************************************************************)
(* From a refined draft to the timetable of a reply: naturalize            *)
(* (engine/naturalizer.py) splits the draft into paragraphs and merges     *)
(* neighbours until five bubbles are left, deliver_times                   *)
(* (engine/pacing.py) gives each bubble its time.  One action is one turn  *)
(* of their loops.                                                         *)
(*                                                                         *)
(* A paragraph is its number in the draft, a bubble the sequence of its    *)
(* paragraphs.  One number per paragraph stands for its words and its      *)
(* length.  Times are milliseconds since the reply was created.            *)
(***************************************************************************)
EXTENDS Integers, Sequences

CONSTANTS
  MaxParagraphs,   \* bound on the draft
  Words,           \* sizes of a paragraph: 0 is a blank one
  Pacings          \* [delay, wpm, cap], reading_delay_ms, typing_wpm, max_typing_ms

\* The schema bounds none of the three; paragraphs have no negative size.
ASSUME BubblesAssumption ==
  /\ MaxParagraphs \in Nat /\ Words \subseteq Nat
  /\ Pacings \subseteq [delay : Int, wpm : Int, cap : Int]

MAX_BUBBLES == 5
TYPING_FLOOR_MS == 500
INTER_BUBBLE_GAP_MS == 200

VARIABLES
  draft,     \* words of each paragraph
  pacing,    \* the request's pacing, defaults filled in
  bubbles,   \* the bubbles so far
  times,     \* deliver_at of the first bubbles
  phase      \* split, merge, pace, or how it ended: done, raised

bubbleVars == <<draft, pacing, bubbles, times, phase>>

BubblesInit ==
  /\ draft \in UNION {[1 .. n -> Words] : n \in 0 .. MaxParagraphs}
  /\ pacing \in Pacings
  /\ bubbles = << >> /\ times = << >> /\ phase = "split"

\* The paragraphs that are not blank, in their order.
Paragraphs ==
  LET kept[n \in 0 .. Len(draft)] ==
        IF n = 0 THEN << >>
        ELSE IF draft[n] # 0 THEN Append(kept[n - 1], n) ELSE kept[n - 1]
  IN kept[Len(draft)]

Total(s) ==
  LET upTo[n \in 0 .. Len(s)] == IF n = 0 THEN 0 ELSE upTo[n - 1] + s[n]
  IN upTo[Len(s)]

WordCount(b) == Total([k \in DOMAIN b |-> draft[b[k]]])
\* The pieces are joined by a newline.
Length(b) == WordCount(b) + Len(b) - 1

\* split_paragraphs: blank paragraphs are dropped.
Split ==
  /\ phase = "split"
  /\ bubbles' = [k \in DOMAIN Paragraphs |-> <<Paragraphs[k]>>]
  /\ phase' = "merge"
  /\ UNCHANGED <<draft, pacing, times>>

\* Bug: the bubbles over the limit are cut off.
Truncated == SubSeq(bubbles, 1, MAX_BUBBLES)

\* The adjacent pair that is shortest together, the first of several, becomes
\* one bubble.
Merged ==
  LET together(i) == Length(bubbles[i]) + Length(bubbles[i + 1])
      best == CHOOSE i \in 1 .. Len(bubbles) - 1 :
                \A k \in 1 .. Len(bubbles) - 1 :
                  \/ together(i) < together(k)
                  \/ together(i) = together(k) /\ i <= k
  IN SubSeq(bubbles, 1, best - 1)
       \o <<bubbles[best] \o bubbles[best + 1]>>
       \o SubSeq(bubbles, best + 2, Len(bubbles))

\* merge_down
MergePair ==
  /\ phase = "merge"
  /\ IF Len(bubbles) > MAX_BUBBLES
     THEN bubbles' = Merged /\ phase' = phase
     ELSE bubbles' = bubbles /\ phase' = "pace"
  /\ UNCHANGED <<draft, pacing, times>>

Least(x, y) == IF x < y THEN x ELSE y
Most(x, y)  == IF x > y THEN x ELSE y

\* Below 0 words a minute the quotient is below the floor.
TypingMs(b) ==
  Least(pacing.cap,
        IF pacing.wpm < 0 THEN TYPING_FLOOR_MS
        ELSE Most(TYPING_FLOOR_MS, (WordCount(b) * 60000) \div pacing.wpm))

\* deliver_times, for the next bubble: the division fails at 0 words a minute.
Pace ==
  /\ phase = "pace"
  /\ LET i == Len(times) + 1 IN
     \/ i > Len(bubbles) /\ phase' = "done" /\ times' = times
     \/ i <= Len(bubbles) /\ pacing.wpm = 0 /\ phase' = "raised" /\ times' = times
     \/ /\ i <= Len(bubbles) /\ pacing.wpm # 0
        /\ times' = Append(times,
             (IF i = 1 THEN pacing.delay ELSE times[i - 1] + INTER_BUBBLE_GAP_MS)
               + TypingMs(bubbles[i]))
        /\ phase' = phase
  /\ UNCHANGED <<draft, pacing, bubbles>>

BubblesNext == Split \/ MergePair \/ Pace

BubblesSpec == BubblesInit /\ [][BubblesNext]_bubbleVars

-----------------------------------------------------------------------------
\* What the bubbles say, read one after the other.
Joined(bs) ==
  LET upTo[n \in 0 .. Len(bs)] == IF n = 0 THEN << >> ELSE upTo[n - 1] \o bs[n]
  IN upTo[Len(bs)]

\* Merging loses nothing and reorders nothing: the bubbles are the draft's
\* paragraphs in their order, none empty, and when they are paced they are as
\* many as the limit leaves of them.  Between two bubbles lie the gap and a
\* typing time, so no bubble is due before an earlier one as long as the cap
\* is not negative, and the caps bound when the whole reply is out.
ReplyWhole ==
  /\ phase # "split" =>
       /\ Joined(bubbles) = Paragraphs
       /\ \A i \in DOMAIN bubbles : bubbles[i] # << >>
  /\ phase \notin {"split", "merge"} =>
       Len(bubbles) = Least(MAX_BUBBLES, Len(Paragraphs))
  /\ \A i \in DOMAIN times :
       LET before == IF i = 1 THEN pacing.delay
                     ELSE times[i - 1] + INTER_BUBBLE_GAP_MS
       IN /\ times[i] >= before + Least(pacing.cap, TYPING_FLOOR_MS)
          /\ times[i] <= pacing.delay + i * pacing.cap + (i - 1) * INTER_BUBBLE_GAP_MS
  /\ phase = "done" => Len(times) = Len(bubbles)
=============================================================================
