--------------------------- MODULE DeliveryProofs ---------------------------
(***************************************************************************)
(* What TLAPS proves of Delivery: for any groups, sockets, bubbles and     *)
(* crashes, the schedule rows tell how far a delivery has come, a bubble   *)
(* marked delivered is not broadcast again, and what a client has been     *)
(* sent of a reply is a segment of the frames of one run of its task.      *)
(***************************************************************************)
EXTENDS Delivery, SequenceTheorems, FiniteSetTheorems, Induction, TLAPS

\* The frames around the bubbles.
On(g)  == Typing(g, TRUE)
Off(g) == Typing(g, FALSE)

\* What a task has left once typing is on: bubbles k to n and typing off.
Rest(g, k, n) ==
  [i \in 1 .. n - k + 2 |->
     IF i <= n - k + 1 THEN Message(g, k + i - 1) ELSE Off(g)]

FramesOf(g) == {On(g), Off(g)} \cup {Message(g, p) : p \in Nat}

-----------------------------------------------------------------------------
(* Frames.                                                                  *)

\* The kinds of frames are told apart.
LEMMA FrameKinds ==
  ASSUME NEW g, NEW p
  PROVE  /\ Message(g, p).kind = "message" /\ Message(g, p).position = p
         /\ On(g).kind = "typing" /\ Off(g).kind = "typing"
BY DEF Message, On, Off, Typing

\* The first frame of what is left, and what is left after it.
LEMMA RestFacts ==
  ASSUME NEW g, NEW k \in Nat, NEW n \in Nat, 1 <= k, k <= n + 1
  PROVE  /\ Rest(g, k, n) \in Seq(FramesOf(g)) /\ Len(Rest(g, k, n)) = n - k + 2
         /\ Rest(g, k, n) # << >>
         /\ k <= n => /\ Head(Rest(g, k, n)) = Message(g, k)
                      /\ Tail(Rest(g, k, n)) = Rest(g, k + 1, n)
         /\ k = n + 1 => Head(Rest(g, k, n)) = Off(g)
<1> DEFINE r == Rest(g, k, n)
<1>1. \A i \in 1 .. n - k + 2 : r[i] = IF i <= n - k + 1 THEN Message(g, k + i - 1) ELSE Off(g)
  BY DEF Rest
<1>2. \A i \in 1 .. n - k + 2 : r[i] \in FramesOf(g)
  BY <1>1 DEF FramesOf
<1>3. r \in Seq(FramesOf(g)) /\ Len(r) = n - k + 2
  <2>1. PICK m \in Nat : m = n - k + 2
    OBVIOUS
  <2>2. r \in [1 .. m -> FramesOf(g)]
    BY <1>2, <2>1 DEF Rest
  <2> HIDE DEF r
  <2>3. r \in Seq(FramesOf(g)) /\ Len(r) = m
    BY <2>2
  <2> QED BY <2>1, <2>3
<1>4. r # << >> /\ Head(r) = r[1]
  BY <1>3
<1>5. k = n + 1 => Head(r) = Off(g)
  BY <1>1, <1>4
<1>6. ASSUME k <= n PROVE Head(r) = Message(g, k) /\ Tail(r) = Rest(g, k + 1, n)
  <2>1. Head(r) = Message(g, k)
    BY <1>1, <1>4, <1>6
  <2>2. /\ Tail(r) \in Seq(FramesOf(g)) /\ Len(Tail(r)) = n - k + 1
        /\ \A i \in 1 .. n - k + 1 : Tail(r)[i] = r[i + 1]
    BY <1>3, <1>4, HeadTailProperties
  <2> DEFINE q == Rest(g, k + 1, n)
  <2>3. \A i \in 1 .. n - k + 1 : q[i] = IF i <= n - k THEN Message(g, k + i) ELSE Off(g)
    BY DEF Rest
  <2>4. \A i \in 1 .. n - k + 1 : q[i] = r[i + 1]
    BY <1>1, <2>3
  <2>5. q \in Seq(FramesOf(g)) /\ Len(q) = n - k + 1
    <3>1. n - k + 1 \in Nat /\ DOMAIN q = 1 .. n - k + 1 /\ q = [i \in 1 .. n - k + 1 |-> q[i]]
      BY <1>6 DEF Rest
    <3>2. \A i \in 1 .. n - k + 1 : q[i] \in FramesOf(g)
      BY <1>2, <2>4
    <3> HIDE DEF q
    <3> QED BY <3>1, <3>2
  <2> HIDE DEF q, r
  <2>6. Tail(r) = q
    BY <2>2, <2>4, <2>5, SeqEqual
  <2> QED BY <2>1, <2>6 DEF q
<1> QED BY <1>3, <1>4, <1>5, <1>6

\* A task starts with typing on.
LEMMA FramesFacts ==
  ASSUME NEW g, NEW k \in Nat, NEW n \in Nat, 1 <= k, k <= n
  PROVE  LET f == Frames(g, FromTo(k, n)) IN
         /\ f \in Seq(FramesOf(g)) /\ f # << >> /\ Len(f) # 1
         /\ Head(f) = On(g) /\ Tail(f) = Rest(g, k, n)
<1> DEFINE on == <<On(g)>>
           m == FromTo(k, n)
           mid == [i \in DOMAIN m |-> Message(g, m[i])]
           off == <<Off(g)>>
           f == Frames(g, m)
           S == FramesOf(g)
<1>1. n - k + 1 \in Nat /\ DOMAIN m = 1 .. n - k + 1 /\ \A i \in 1 .. n - k + 1 : m[i] = k + i - 1
  BY DEF FromTo
<1>2. /\ mid \in Seq(S) /\ Len(mid) = n - k + 1
      /\ \A i \in 1 .. n - k + 1 : mid[i] = Message(g, k + i - 1)
  <2>1. /\ DOMAIN mid = 1 .. n - k + 1 /\ mid = [i \in 1 .. n - k + 1 |-> mid[i]]
        /\ \A i \in 1 .. n - k + 1 : mid[i] = Message(g, k + i - 1)
    BY <1>1
  <2>2. \A i \in 1 .. n - k + 1 : mid[i] \in S
    BY <2>1 DEF FramesOf
  <2> HIDE DEF mid, m
  <2> QED BY <1>1, <2>1, <2>2
<1>3. /\ on \in Seq(S) /\ Len(on) = 1 /\ on[1] = On(g)
      /\ off \in Seq(S) /\ Len(off) = 1 /\ off[1] = Off(g)
  BY DEF FramesOf
<1>4. f = (on \o mid) \o off
  BY DEF Frames, On, Off
<1> HIDE DEF on, m, mid, off, S, f
<1> DEFINE h == on \o mid
<1>l. PICK l \in Nat : l = n - k + 1
  BY <1>1
<1>5. /\ h \in Seq(S) /\ Len(h) = l + 1
      /\ h[1] = On(g) /\ \A i \in 1 .. l : h[i + 1] = Message(g, k + i - 1)
  <2>1. /\ h \in Seq(S) /\ Len(h) = Len(on) + Len(mid)
        /\ \A i \in 1 .. Len(on) + Len(mid) : h[i] = IF i <= Len(on) THEN on[i] ELSE mid[i - Len(on)]
    BY <1>2, <1>3, ConcatProperties
  <2>2. /\ h \in Seq(S) /\ Len(h) = l + 1
        /\ \A i \in 1 .. l + 1 : h[i] = IF i <= 1 THEN on[i] ELSE mid[i - 1]
    BY <1>2, <1>3, <1>l, <2>1
  <2> HIDE DEF h
  <2>3. h[1] = On(g)
    BY <1>3, <2>2
  <2>4. ASSUME NEW i \in 1 .. l PROVE h[i + 1] = Message(g, k + i - 1)
    <3>1. i + 1 \in 1 .. l + 1 /\ ~ (i + 1 <= 1) /\ (i + 1) - 1 = i
      OBVIOUS
    <3>2. h[i + 1] = mid[i]
      BY <2>2, <3>1
    <3> QED BY <1>2, <1>l, <3>2
  <2> QED BY <2>2, <2>3, <2>4
<1>6. f = h \o off
  BY <1>4
<1> HIDE DEF h
<1>7. /\ f \in Seq(S) /\ Len(f) = l + 2
      /\ \A i \in 1 .. l + 1 : f[i] = h[i]
      /\ f[l + 2] = Off(g)
  <2>1. /\ f \in Seq(S) /\ Len(f) = Len(h) + Len(off)
        /\ \A i \in 1 .. Len(h) + Len(off) : f[i] = IF i <= Len(h) THEN h[i] ELSE off[i - Len(h)]
    BY <1>3, <1>5, <1>6, ConcatProperties
  <2>2. /\ f \in Seq(S) /\ Len(f) = l + 2
        /\ \A i \in 1 .. l + 2 : f[i] = IF i <= l + 1 THEN h[i] ELSE off[i - (l + 1)]
    BY <1>3, <1>5, <2>1
  <2>3. l + 2 \in 1 .. l + 2 /\ ~ (l + 2 <= l + 1) /\ (l + 2) - (l + 1) = 1
    OBVIOUS
  <2>4. f[l + 2] = off[1]
    BY <2>2, <2>3
  <2> QED BY <1>3, <2>2, <2>4
<1>8. f # << >> /\ Len(f) # 1 /\ Head(f) = f[1]
  BY <1>1, <1>l, <1>7
<1>9. Head(f) = On(g)
  BY <1>5, <1>7, <1>8
<1>10. /\ Tail(f) \in Seq(S) /\ Len(Tail(f)) = l + 1
       /\ \A i \in 1 .. l + 1 : Tail(f)[i] = f[i + 1]
  BY <1>7, <1>8, HeadTailProperties
<1> DEFINE r == Rest(g, k, n)
<1>11. r \in Seq(S) /\ Len(r) = l + 1
  <2>1. k <= n + 1
    OBVIOUS
  <2>2. r \in Seq(FramesOf(g)) /\ Len(r) = n - k + 2
    BY <2>1, RestFacts
  <2> QED BY <1>l, <2>2 DEF S
<1>12. \A i \in 1 .. l + 1 : r[i] = IF i <= l THEN Message(g, k + i - 1) ELSE Off(g)
  BY <1>l DEF Rest
<1> HIDE DEF r
<1>13. ASSUME NEW i \in 1 .. l + 1 PROVE Tail(f)[i] = r[i]
  <2>1. CASE i <= l
    <3>1. Tail(f)[i] = h[i + 1]
      BY <1>7, <1>10, <2>1
    <3>2. h[i + 1] = Message(g, k + i - 1)
      BY <1>5, <2>1
    <3> QED BY <1>12, <2>1, <3>1, <3>2
  <2>2. CASE i = l + 1
    <3>1. Tail(f)[i] = Off(g) /\ ~ (i <= l)
      BY <1>7, <1>10, <2>2
    <3> QED BY <1>12, <3>1
  <2>3. i <= l \/ i = l + 1
    OBVIOUS
  <2> QED BY <2>1, <2>2, <2>3
<1>14. Tail(f) = r
  BY <1>10, <1>11, <1>13, SeqEqual
<1> QED BY <1>7, <1>8, <1>9, <1>14 DEF f, m, r, S

-----------------------------------------------------------------------------
(* The invariant.                                                           *)

RowStatus == {"scheduled", "delivered"}

TaskType == [todo    : Seq(UNION {FramesOf(g) : g \in Groups}),
             sending : BOOLEAN,
             to      : SUBSET Sockets]

\* The bubbles before k are delivered, the others are not.
Prefix(g, k) ==
  /\ k \in 1 .. Len(rows[g]) + 1
  /\ \A p \in 1 .. Len(rows[g]) : rows[g][p] = IF p < k THEN "delivered" ELSE "scheduled"

\* A task is at bubble k, or about to show that it is typing.
TaskOK(g, k) ==
  task[g] # NoTask =>
    /\ up
    /\ \/ task[g].todo = Rest(g, k, Len(rows[g]))
       \/ k <= Len(rows[g]) /\ task[g].todo = Frames(g, FromTo(k, Len(rows[g])))

\* The broadcast of bubble p is under way.
OutNow(g, p) == task[g].sending /\ Frame(g) = Message(g, p)

\* What is delivered was broadcast; what is not was at most once per crash so
\* far, and once more while its broadcast is under way or after it failed to
\* be recorded, and then nobody broadcasts it until the next crash.
SentOK(g, k) ==
  /\ Len(sent[g]) = Len(rows[g])
  /\ \A p \in 1 .. Len(rows[g]) :
       /\ sent[g][p] <= 1 + crashes
       /\ p < k => sent[g][p] >= 1
       /\ ~ up => sent[g][p] <= crashes
       /\ task[g] # NoTask /\ k <= p =>
            IF OutNow(g, p) THEN sent[g][p] >= 1 ELSE sent[g][p] <= crashes

GroupInv(g) == \E k \in Nat : Prefix(g, k) /\ TaskOK(g, k) /\ SentOK(g, k)

DeliveryInv ==
  /\ rows \in [Groups -> Seq(RowStatus)]
  /\ task \in [Groups -> TaskType \cup {NoTask}]
  /\ sent \in [Groups -> Seq(Nat)]
  /\ registered \subseteq Sockets
  /\ crashes \in Nat
  /\ \A g \in Groups : GroupInv(g)

\* What recover() reads of a group are its bubbles from k on, in order.
LEMMA RecoverFacts ==
  ASSUME NEW g, NEW k, rows[g] \in Seq(RowStatus), Prefix(g, k)
  PROVE  /\ ToRecover(g) = FromTo(k, Len(rows[g]))
         /\ ToRecover(g) = << >> <=> k = Len(rows[g]) + 1
<1> DEFINE U == Undelivered(g)
<1>n. PICK n \in Nat : n = Len(rows[g])
  OBVIOUS
<1>1. k \in Nat /\ 1 <= k /\ k <= n + 1 /\ DOMAIN rows[g] = 1 .. n
  BY <1>n DEF Prefix
<1>2. U = k .. n
  BY <1>1, <1>n DEF Undelivered, Prefix
<1>3. PICK l \in Nat : l = n - k + 1
  BY <1>1
<1>4. Cardinality(U) = l
  <2>1. k \in Int /\ n \in Int
    BY <1>1
  <2>2. Cardinality(k .. n) = IF k > n THEN 0 ELSE n - k + 1
    BY <2>1, FS_Interval
  <2> HIDE DEF U
  <2> QED BY <1>1, <1>2, <1>3, <2>2
<1>5. ASSUME NEW p \in U PROVE Cardinality({q \in U : q < p}) = p - k
  <2>1. {q \in U : q < p} = k .. (p - 1) /\ p \in Int
    BY <1>1, <1>2
  <2>2. Cardinality(k .. (p - 1)) = p - k
    BY <1>1, <1>2, <2>1, FS_Interval
  <2> QED BY <2>1, <2>2
<1>6. ASSUME NEW i \in 1 .. l
      PROVE  (CHOOSE p \in U : Cardinality({q \in U : q < p}) = i - 1) = k + i - 1
  <2>1. k + i - 1 \in U
    BY <1>1, <1>2, <1>3
  <2>2. \A p \in U : Cardinality({q \in U : q < p}) = i - 1 <=> p = k + i - 1
    BY <1>1, <1>2, <1>5
  <2> HIDE DEF U
  <2> QED BY <2>1, <2>2
<1>7. ToRecover(g) = [i \in 1 .. l |-> k + i - 1]
  <2>1. ToRecover(g) =
          [i \in 1 .. Cardinality(U) |-> CHOOSE p \in U : Cardinality({q \in U : q < p}) = i - 1]
    BY DEF ToRecover, Sorted
  <2> HIDE DEF U
  <2> QED BY <1>4, <1>6, <2>1
<1>8. FromTo(k, n) = [i \in 1 .. l |-> k + i - 1]
  BY <1>3 DEF FromTo
<1>9. [i \in 1 .. l |-> k + i - 1] = << >> <=> l = 0
  <2> DEFINE f == [i \in 1 .. l |-> k + i - 1]
  <2>1. f \in [1 .. l -> Int]
    BY <1>1
  <2> HIDE DEF f
  <2>2. f \in Seq(Int) /\ Len(f) = l
    BY <2>1
  <2>3. f = << >> <=> l = 0
    BY <2>2
  <2> QED BY <2>3 DEF f
<1> QED BY <1>1, <1>3, <1>7, <1>8, <1>9, <1>n

\* Where a task can be, and what it does after its frame.
LEMMA FrameCases ==
  ASSUME DeliveryInv, NEW g \in Groups, Running(g),
         NEW k \in Nat, Prefix(g, k), TaskOK(g, k)
  PROVE  \/ /\ k <= Len(rows[g]) /\ Frame(g) = On(g)
            /\ Advance(g) = Start(Rest(g, k, Len(rows[g])))
         \/ /\ k <= Len(rows[g]) /\ Frame(g) = Message(g, k)
            /\ Advance(g) = Start(Rest(g, k + 1, Len(rows[g])))
         \/ /\ k = Len(rows[g]) + 1 /\ Frame(g) = Off(g)
            /\ Advance(g) = NoTask
<1>n. PICK n \in Nat : n = Len(rows[g])
  BY DEF DeliveryInv
<1>1. 1 <= k /\ k <= n + 1
  BY <1>n DEF Prefix
<1>2. CASE k <= n /\ task[g].todo = Frames(g, FromTo(k, n))
  <2>1. /\ Len(task[g].todo) # 1
        /\ Head(task[g].todo) = On(g) /\ Tail(task[g].todo) = Rest(g, k, n)
    BY <1>1, <1>2, FramesFacts
  <2> QED BY <1>n, <1>2, <2>1 DEF Frame, Advance
<1>3. CASE k <= n /\ task[g].todo = Rest(g, k, n)
  <2>1. /\ Len(task[g].todo) # 1
        /\ Head(task[g].todo) = Message(g, k) /\ Tail(task[g].todo) = Rest(g, k + 1, n)
    <3>1. /\ Len(Rest(g, k, n)) = n - k + 2
          /\ Head(Rest(g, k, n)) = Message(g, k) /\ Tail(Rest(g, k, n)) = Rest(g, k + 1, n)
      BY <1>1, <1>3, RestFacts
    <3> QED BY <1>1, <1>3, <3>1
  <2> QED BY <1>n, <1>3, <2>1 DEF Frame, Advance
<1>4. CASE k = n + 1 /\ task[g].todo = Rest(g, k, n)
  <2>1. Len(task[g].todo) = 1 /\ Head(task[g].todo) = Off(g)
    <3>1. Len(Rest(g, k, n)) = n - k + 2 /\ Head(Rest(g, k, n)) = Off(g)
      BY <1>1, <1>4, RestFacts
    <3> QED BY <1>4, <3>1
  <2> QED BY <1>n, <1>4, <2>1 DEF Frame, Advance
<1> QED BY <1>n, <1>1, <1>2, <1>3, <1>4 DEF TaskOK, Running

\* A group that a step leaves alone.
LEMMA GroupSame ==
  ASSUME NEW g, GroupInv(g), rows'[g] = rows[g], task'[g] = task[g], sent'[g] = sent[g],
         crashes' = crashes, up' = up
  PROVE  GroupInv(g)'
BY DEF GroupInv, Prefix, TaskOK, SentOK, OutNow, Frame

\* At first nothing is scheduled.
LEMMA DeliveryInitInv == Init => DeliveryInv
<1> SUFFICES ASSUME Init PROVE DeliveryInv
  OBVIOUS
<1>1. ASSUME NEW g \in Groups PROVE GroupInv(g)
  <2>1. rows[g] = << >> /\ task[g] = NoTask /\ sent[g] = << >> /\ Len(<< >>) = 0
    BY DEF Init
  <2>2. Prefix(g, 1) /\ TaskOK(g, 1) /\ SentOK(g, 1)
    BY <2>1 DEF Prefix, TaskOK, SentOK
  <2> QED BY <2>2 DEF GroupInv
<1>2. /\ rows \in [Groups -> Seq(RowStatus)] /\ sent \in [Groups -> Seq(Nat)]
      /\ task \in [Groups -> TaskType \cup {NoTask}] /\ crashes \in Nat
      /\ registered \subseteq Sockets
  BY DEF Init
<1> QED BY <1>1, <1>2 DEF DeliveryInv

\* Tasks, whatever their frames.
LEMMA StartType ==
  ASSUME NEW g \in Groups, NEW todo \in Seq(FramesOf(g))
  PROVE  /\ Start(todo) \in TaskType
         /\ Start(todo).todo = todo /\ Start(todo).sending = FALSE
         /\ Start(todo) # NoTask
<1>1. FramesOf(g) \subseteq UNION {FramesOf(h) : h \in Groups}
  OBVIOUS
<1>2. todo \in Seq(UNION {FramesOf(h) : h \in Groups})
  <2> DEFINE S == FramesOf(g)
             T == UNION {FramesOf(h) : h \in Groups}
  <2> HIDE DEF S, T
  <2>1. S \subseteq T /\ todo \in Seq(S)
    BY <1>1 DEF S, T
  <2>2. todo \in Seq(T)
    BY <2>1
  <2> QED BY <2>2 DEF T
<1> QED BY <1>2 DEF Start, TaskType, NoTask

\* A step of one group.
LEMMA OneGroup ==
  ASSUME DeliveryInv, NEW g \in Groups,
         rows' \in [Groups -> Seq(RowStatus)],
         task' \in [Groups -> TaskType \cup {NoTask}],
         sent' \in [Groups -> Seq(Nat)],
         registered' \subseteq Sockets, UNCHANGED <<crashes, up>>,
         \A h \in Groups : h # g =>
           rows'[h] = rows[h] /\ task'[h] = task[h] /\ sent'[h] = sent[h],
         GroupInv(g)'
  PROVE  DeliveryInv'
<1>1. ASSUME NEW h \in Groups PROVE GroupInv(h)'
  <2>1. CASE h = g
    BY <2>1
  <2>2. CASE h # g
    BY <2>2, GroupSame DEF DeliveryInv
  <2> QED BY <2>1, <2>2
<1> QED BY <1>1 DEF DeliveryInv

\* respond() schedules a group.
LEMMA ScheduleKeeps ==
  ASSUME DeliveryInv, NEW g \in Groups, NEW n \in 1 .. MaxBubbles, ScheduleGroup(g, n)
  PROVE  DeliveryInv'
<1> DEFINE r == [p \in 1 .. n |-> "scheduled"]
           z == [p \in 1 .. n |-> 0]
           f == Frames(g, FromTo(1, n))
<1>1. n \in Nat /\ 1 <= n
  BY DeliveryAssumption
<1>2. /\ r \in Seq(RowStatus) /\ Len(r) = n /\ \A p \in 1 .. n : r[p] = "scheduled"
      /\ z \in Seq(Nat) /\ Len(z) = n /\ \A p \in 1 .. n : z[p] = 0
  <2>1. r \in [1 .. n -> RowStatus] /\ z \in [1 .. n -> Nat]
    BY DEF RowStatus
  <2>2. \A p \in 1 .. n : r[p] = "scheduled" /\ z[p] = 0
    OBVIOUS
  <2> HIDE DEF r, z
  <2> QED BY <1>1, <2>1, <2>2
<1>3. /\ Start(f) \in TaskType /\ Start(f) # NoTask
      /\ Start(f).todo = f /\ Start(f).sending = FALSE
  <2>1. f \in Seq(FramesOf(g))
    BY <1>1, FramesFacts
  <2> QED BY <2>1, StartType
<1>4. /\ rows' = [rows EXCEPT ![g] = r] /\ task' = [task EXCEPT ![g] = Start(f)]
      /\ sent' = [sent EXCEPT ![g] = z] /\ UNCHANGED <<crashes, up, registered>> /\ up
  BY DEF ScheduleGroup
<1> HIDE DEF r, z, f
<1>5. rows'[g] = r /\ task'[g] = Start(f) /\ sent'[g] = z
  BY <1>4 DEF DeliveryInv
<1>6. GroupInv(g)'
  <2>1. Prefix(g, 1)'
    BY <1>1, <1>2, <1>5 DEF Prefix
  <2>2. TaskOK(g, 1)'
    BY <1>1, <1>2, <1>3, <1>4, <1>5 DEF TaskOK, f
  <2>3. SentOK(g, 1)'
    BY <1>1, <1>2, <1>3, <1>4, <1>5 DEF SentOK, OutNow, DeliveryInv
  <2> QED BY <2>1, <2>2, <2>3 DEF GroupInv
<1>7. /\ rows' \in [Groups -> Seq(RowStatus)] /\ sent' \in [Groups -> Seq(Nat)]
      /\ task' \in [Groups -> TaskType \cup {NoTask}] /\ registered' \subseteq Sockets
  BY <1>2, <1>3, <1>4 DEF DeliveryInv
<1>8. \A h \in Groups : h # g =>
        rows'[h] = rows[h] /\ task'[h] = task[h] /\ sent'[h] = sent[h]
  BY <1>4 DEF DeliveryInv
<1> QED BY <1>4, <1>6, <1>7, <1>8, OneGroup

\* A broadcast begins.
LEMMA BroadcastKeeps ==
  ASSUME DeliveryInv, NEW g \in Groups, Broadcast(g)
  PROVE  DeliveryInv'
<1>t. /\ rows \in [Groups -> Seq(RowStatus)] /\ sent \in [Groups -> Seq(Nat)]
      /\ task \in [Groups -> TaskType \cup {NoTask}] /\ crashes \in Nat
      /\ registered \subseteq Sockets
  BY DEF DeliveryInv
<1>k. PICK k \in Nat : Prefix(g, k) /\ TaskOK(g, k) /\ SentOK(g, k)
  BY DEF DeliveryInv, GroupInv
<1>n. PICK n \in Nat : n = Len(rows[g]) /\ 1 <= k /\ k <= n + 1
  BY <1>t, <1>k DEF Prefix
<1>1. /\ Running(g) /\ task[g] \in TaskType /\ ~ task[g].sending /\ up
      /\ UNCHANGED <<rows, crashes, up, registered>>
  BY <1>t, <1>k DEF Broadcast, Running, TaskOK
<1>2. PICK S \in SUBSET Sockets :
        task' = [task EXCEPT ![g] = [task[g] EXCEPT !.sending = TRUE, !.to = S]]
  <2>1. task' = [task EXCEPT ![g] = [task[g] EXCEPT !.sending = TRUE,
                                     !.to = {s \in registered : ChannelOf[s] = ChannelOf[g]}]]
    BY <1>t DEF Broadcast
  <2> QED BY <2>1, <1>t
<1>3. /\ task'[g] \in TaskType /\ task'[g] # NoTask
      /\ task'[g].todo = task[g].todo /\ task'[g].sending = TRUE
      /\ \A h \in Groups : h # g => task'[h] = task[h]
      /\ task' \in [Groups -> TaskType \cup {NoTask}]
  <2>1. task'[g] = [task[g] EXCEPT !.sending = TRUE, !.to = S]
    BY <1>t, <1>2
  <2>2. /\ task'[g] \in TaskType /\ task'[g] # NoTask
        /\ task'[g].todo = task[g].todo /\ task'[g].sending = TRUE
    BY <1>1, <2>1 DEF TaskType, NoTask
  <2> QED BY <1>t, <1>2, <2>2
<1>4. Prefix(g, k)' /\ TaskOK(g, k)' /\ Frame(g)' = Frame(g)
  BY <1>k, <1>1, <1>3 DEF Prefix, TaskOK, Frame, Running
<1>5. \A p \in 1 .. n : ~ OutNow(g, p)
  BY <1>1 DEF OutNow
<1>6. CASE Frame(g) = Message(g, k) /\ k <= n
  <2>1. sent' = [sent EXCEPT ![g][k] = @ + 1]
    <3>1. Frame(g).kind = "message" /\ Frame(g).position = k
      BY <1>6, FrameKinds
    <3> QED BY <3>1 DEF Broadcast
  <2>2. sent[g] \in Seq(Nat) /\ Len(sent[g]) = n /\ k \in 1 .. n
    BY <1>t, <1>k, <1>n, <1>6 DEF SentOK
  <2>3. /\ sent'[g] \in Seq(Nat) /\ Len(sent'[g]) = n
        /\ \A p \in 1 .. n : sent'[g][p] = IF p = k THEN sent[g][k] + 1 ELSE sent[g][p]
    <3>1. sent'[g] = [sent[g] EXCEPT ![k] = sent[g][k] + 1] /\ sent[g][k] + 1 \in Nat
      BY <1>t, <2>1, <2>2
    <3> QED BY <2>2, <3>1, ExceptSeq
  <2>4. sent' \in [Groups -> Seq(Nat)] /\ \A h \in Groups : h # g => sent'[h] = sent[h]
    BY <1>t, <2>1, <2>3
  <2>5. SentOK(g, k)'
    <3>1. \A p : OutNow(g, p)' <=> p = k
      BY <1>3, <1>4, <1>6, FrameKinds DEF OutNow
    <3>2. \A p \in 1 .. n : sent[g][p] \in Nat /\ (k <= p => sent[g][p] <= crashes)
      BY <1>k, <1>n, <1>1, <1>5, <2>2 DEF SentOK, Running
    <3>3. /\ \A p \in 1 .. n : sent'[g][p] <= 1 + crashes
          /\ \A p \in 1 .. n : p < k => sent'[g][p] >= 1
          /\ \A p \in 1 .. n : k <= p =>
               IF p = k THEN sent'[g][p] >= 1 ELSE sent'[g][p] <= crashes
      <4>1. \A p \in 1 .. n : sent[g][p] <= 1 + crashes /\ (p < k => sent[g][p] >= 1)
        BY <1>k, <1>n DEF SentOK
      <4>2. ASSUME NEW p \in 1 .. n, p # k
            PROVE  /\ sent'[g][p] <= 1 + crashes /\ (p < k => sent'[g][p] >= 1)
                   /\ k <= p => sent'[g][p] <= crashes
        BY <2>3, <3>2, <4>1, <4>2
      <4>3. /\ sent'[g][k] = sent[g][k] + 1
            /\ sent[g][k] \in Nat /\ sent[g][k] <= crashes
        BY <2>2, <2>3, <3>2
      <4>4. sent'[g][k] <= 1 + crashes /\ sent'[g][k] >= 1
        BY <1>t, <4>3
      <4> QED BY <4>2, <4>4
    <3>4. rows' = rows /\ crashes' = crashes /\ up' = up /\ up
      BY <1>1, <1>t
    <3> QED BY <1>n, <2>3, <3>1, <3>3, <3>4 DEF SentOK
  <2> QED BY <1>t, <1>1, <1>3, <1>4, <2>4, <2>5, OneGroup DEF GroupInv
<1>7. CASE Frame(g) \in {On(g), Off(g)}
  <2>1. sent' = sent
    BY <1>7, FrameKinds DEF Broadcast
  <2>2. \A p : ~ OutNow(g, p)'
    BY <1>4, <1>7, FrameKinds DEF OutNow
  <2>3. SentOK(g, k)'
    BY <1>k, <1>n, <1>1, <1>3, <1>5, <2>1, <2>2 DEF SentOK, Running
  <2> QED BY <1>t, <1>1, <1>3, <1>4, <2>1, <2>3, OneGroup DEF GroupInv
<1> QED BY <1>k, <1>n, <1>1, <1>6, <1>7, FrameCases

\* A frame reaches one socket, or the socket is dropped.
LEMMA SendKeeps ==
  ASSUME DeliveryInv, NEW g \in Groups, NEW s \in Sockets, SendTo(g, s)
  PROVE  DeliveryInv'
<1>t. /\ rows \in [Groups -> Seq(RowStatus)] /\ sent \in [Groups -> Seq(Nat)]
      /\ task \in [Groups -> TaskType \cup {NoTask}]
      /\ registered \subseteq Sockets
  BY DEF DeliveryInv
<1>k. PICK k \in Nat : Prefix(g, k) /\ TaskOK(g, k) /\ SentOK(g, k)
  BY DEF DeliveryInv, GroupInv
<1>1. /\ Running(g) /\ task[g] \in TaskType
      /\ UNCHANGED <<rows, sent, crashes, up>> /\ registered' \subseteq Sockets
  BY <1>t DEF SendTo, Running
<1>2. PICK S \in SUBSET Sockets : task' = [task EXCEPT ![g] = [task[g] EXCEPT !.to = S]]
  <2>1. task' = [task EXCEPT ![g] = [task[g] EXCEPT !.to = task[g].to \ {s}]]
    BY <1>t DEF SendTo
  <2>2. task[g].to \ {s} \in SUBSET Sockets
    BY <1>1 DEF TaskType
  <2> QED BY <2>1, <2>2
<1>3. /\ task'[g] \in TaskType /\ task'[g] # NoTask
      /\ task'[g].todo = task[g].todo /\ task'[g].sending = task[g].sending
      /\ \A h \in Groups : h # g => task'[h] = task[h]
      /\ task' \in [Groups -> TaskType \cup {NoTask}]
  <2>1. task'[g] = [task[g] EXCEPT !.to = S]
    BY <1>t, <1>2
  <2>2. /\ task'[g] \in TaskType /\ task'[g] # NoTask
        /\ task'[g].todo = task[g].todo /\ task'[g].sending = task[g].sending
    BY <1>1, <2>1 DEF TaskType, NoTask
  <2> QED BY <1>t, <1>2, <2>2
<1>4. Prefix(g, k)' /\ TaskOK(g, k)' /\ \A p : OutNow(g, p)' <=> OutNow(g, p)
  BY <1>k, <1>1, <1>3 DEF Prefix, TaskOK, OutNow, Frame, Running
<1>5. SentOK(g, k)'
  BY <1>k, <1>1, <1>3, <1>4 DEF SentOK, Running
<1> QED BY <1>t, <1>1, <1>3, <1>4, <1>5, OneGroup DEF GroupInv

\* A frame is done: the row of a bubble is marked, and the next frame's turn.
LEMMA DoneKeeps ==
  ASSUME DeliveryInv, NEW g \in Groups, FrameDone(g)
  PROVE  DeliveryInv'
<1>t. /\ rows \in [Groups -> Seq(RowStatus)] /\ sent \in [Groups -> Seq(Nat)]
      /\ task \in [Groups -> TaskType \cup {NoTask}] /\ crashes \in Nat
      /\ registered \subseteq Sockets
  BY DEF DeliveryInv
<1>k. PICK k \in Nat : Prefix(g, k) /\ TaskOK(g, k) /\ SentOK(g, k)
  BY DEF DeliveryInv, GroupInv
<1>n. PICK n \in Nat : n = Len(rows[g]) /\ 1 <= k /\ k <= n + 1
  BY <1>t, <1>k DEF Prefix
<1>1. /\ Running(g) /\ task[g] # NoTask /\ task[g].sending /\ up
      /\ UNCHANGED <<sent, crashes, up, registered>>
      /\ task' = [task EXCEPT ![g] = Advance(g)] /\ task'[g] = Advance(g)
  BY <1>t, <1>k DEF FrameDone, Running, TaskOK
<1>2. \A h \in Groups : h # g => task'[h] = task[h]
  BY <1>t, <1>1
<1>3. CASE k <= n /\ Frame(g) = On(g) /\ Advance(g) = Start(Rest(g, k, n))
  <2>1. rows' = rows
    BY <1>3, FrameKinds DEF FrameDone
  <2>2. Rest(g, k, n) \in Seq(FramesOf(g))
    BY <1>n, RestFacts
  <2>3. /\ task'[g] \in TaskType /\ task'[g] # NoTask
        /\ task'[g].todo = Rest(g, k, n) /\ task'[g].sending = FALSE
    <3>1. task'[g] = Start(Rest(g, k, n))
      BY <1>1, <1>3
    <3> QED BY <2>2, <3>1, StartType, Zenon
  <2>4. Prefix(g, k)' /\ TaskOK(g, k)' /\ \A p : ~ OutNow(g, p)'
    BY <1>k, <1>n, <1>1, <2>1, <2>3 DEF Prefix, TaskOK, OutNow
  <2>5. \A p : ~ OutNow(g, p)
    BY <1>3, FrameKinds DEF OutNow
  <2>6. SentOK(g, k)'
    BY <1>k, <1>1, <2>1, <2>3, <2>4, <2>5 DEF SentOK
  <2>7. task' \in [Groups -> TaskType \cup {NoTask}]
    BY <1>t, <1>1, <2>3
  <2> QED BY <1>t, <1>1, <1>2, <2>1, <2>4, <2>6, <2>7, OneGroup DEF GroupInv
<1>4. CASE k <= n /\ Frame(g) = Message(g, k) /\ Advance(g) = Start(Rest(g, k + 1, n))
  <2>1. rows' = [rows EXCEPT ![g][k] = "delivered"]
    <3>1. Frame(g).kind = "message" /\ Frame(g).position = k
      BY <1>4, FrameKinds
    <3> QED BY <3>1 DEF FrameDone
  <2>2. /\ rows'[g] \in Seq(RowStatus) /\ Len(rows'[g]) = n
        /\ \A p \in 1 .. n : rows'[g][p] = IF p = k THEN "delivered" ELSE rows[g][p]
    <3>1. rows'[g] = [rows[g] EXCEPT ![k] = "delivered"] /\ "delivered" \in RowStatus
      BY <1>t, <2>1 DEF RowStatus
    <3>2. rows[g] \in Seq(RowStatus) /\ k \in 1 .. Len(rows[g])
      BY <1>t, <1>n, <1>4
    <3> QED BY <1>n, <3>1, <3>2, ExceptSeq
  <2>3. rows' \in [Groups -> Seq(RowStatus)] /\ \A h \in Groups : h # g => rows'[h] = rows[h]
    BY <1>t, <2>1, <2>2
  <2>4. Rest(g, k + 1, n) \in Seq(FramesOf(g))
    <3>1. k + 1 \in Nat /\ 1 <= k + 1 /\ k + 1 <= n + 1
      BY <1>n, <1>4
    <3> QED BY <3>1, RestFacts
  <2>5. /\ task'[g] \in TaskType /\ task'[g] # NoTask
        /\ task'[g].todo = Rest(g, k + 1, n) /\ task'[g].sending = FALSE
    <3>1. task'[g] = Start(Rest(g, k + 1, n))
      BY <1>1, <1>4
    <3> QED BY <2>4, <3>1, StartType, Zenon
  <2>6. Prefix(g, k + 1)' 
    <3>1. \A p \in 1 .. n : rows'[g][p] = IF p < k + 1 THEN "delivered" ELSE "scheduled"
      BY <1>k, <1>n, <2>2 DEF Prefix
    <3> QED BY <1>n, <1>4, <2>2, <3>1 DEF Prefix
  <2>7. TaskOK(g, k + 1)' /\ \A p : ~ OutNow(g, p)'
    BY <1>1, <2>2, <2>5 DEF TaskOK, OutNow
  <2>8. SentOK(g, k + 1)'
    <3>1. \A p : OutNow(g, p) <=> p = k
      BY <1>1, <1>4, FrameKinds DEF OutNow
    <3>2. /\ Len(sent[g]) = n
          /\ \A p \in 1 .. n : /\ sent[g][p] <= 1 + crashes
                               /\ p < k => sent[g][p] >= 1
                               /\ p = k => sent[g][p] >= 1
                               /\ p > k => sent[g][p] <= crashes
      BY <1>k, <1>n, <1>1, <3>1 DEF SentOK
    <3> QED BY <1>n, <1>1, <2>2, <2>7, <3>2 DEF SentOK
  <2>9. task' \in [Groups -> TaskType \cup {NoTask}]
    BY <1>t, <1>1, <2>5
  <2>10. GroupInv(g)'
    <3>1. k + 1 \in Nat
      OBVIOUS
    <3> QED BY <2>6, <2>7, <2>8, <3>1 DEF GroupInv
  <2> QED BY <1>t, <1>1, <1>2, <2>3, <2>9, <2>10, OneGroup
<1>5. CASE Frame(g) = Off(g) /\ Advance(g) = NoTask
  <2>1. rows' = rows
    BY <1>5, FrameKinds DEF FrameDone
  <2>2. Prefix(g, k)' /\ TaskOK(g, k)' /\ SentOK(g, k)'
    BY <1>k, <1>1, <1>5, <2>1 DEF Prefix, TaskOK, SentOK
  <2>3. task' \in [Groups -> TaskType \cup {NoTask}]
    BY <1>t, <1>1, <1>5
  <2> QED BY <1>t, <1>1, <1>2, <2>1, <2>2, <2>3, OneGroup DEF GroupInv
<1> QED BY <1>k, <1>n, <1>1, <1>3, <1>4, <1>5, FrameCases

\* The transaction raises and the task is gone.
LEMMA RaiseKeeps ==
  ASSUME DeliveryInv, NEW g \in Groups, CommitRaises(g)
  PROVE  DeliveryInv'
<1>t. /\ rows \in [Groups -> Seq(RowStatus)] /\ sent \in [Groups -> Seq(Nat)]
      /\ task \in [Groups -> TaskType \cup {NoTask}]
      /\ registered \subseteq Sockets
  BY DEF DeliveryInv
<1>1. /\ task' = [task EXCEPT ![g] = NoTask]
      /\ UNCHANGED <<rows, sent, registered, crashes, up>>
  BY DEF CommitRaises
<1>2. task'[g] = NoTask
  BY <1>t, <1>1
<1>3. PICK k \in Nat : Prefix(g, k) /\ TaskOK(g, k) /\ SentOK(g, k)
  BY DEF DeliveryInv, GroupInv
<1>4. Prefix(g, k)' /\ TaskOK(g, k)' /\ SentOK(g, k)'
  BY <1>1, <1>2, <1>3 DEF Prefix, TaskOK, SentOK
<1>5. /\ task' \in [Groups -> TaskType \cup {NoTask}]
      /\ \A h \in Groups : h # g => task'[h] = task[h]
  BY <1>t, <1>1
<1> QED BY <1>t, <1>1, <1>4, <1>5, OneGroup DEF GroupInv

\* The process is killed: what was broadcast once more may be so again.
LEMMA CrashKeeps ==
  ASSUME DeliveryInv, Crash
  PROVE  DeliveryInv'
<1>1. /\ UNCHANGED <<rows, sent>> /\ crashes' = crashes + 1 /\ registered' = {}
      /\ task' = [g \in Groups |-> NoTask]
  BY DEF Crash
<1>2. ASSUME NEW g \in Groups PROVE GroupInv(g)'
  <2>1. PICK k \in Nat : Prefix(g, k) /\ SentOK(g, k)
    BY DEF DeliveryInv, GroupInv
  <2>2. task'[g] = NoTask /\ rows'[g] = rows[g] /\ sent'[g] = sent[g]
    BY <1>1
  <2>3. Prefix(g, k)' /\ TaskOK(g, k)'
    BY <2>1, <2>2 DEF Prefix, TaskOK
  <2>4. SentOK(g, k)'
    <3>1. rows[g] \in Seq(RowStatus) /\ sent[g] \in Seq(Nat) /\ crashes \in Nat
      BY DEF DeliveryInv
    <3>2. \A p \in 1 .. Len(rows[g]) : sent[g][p] \in Nat
      BY <2>1, <3>1 DEF SentOK
    <3> QED BY <1>1, <2>1, <2>2, <3>1, <3>2 DEF SentOK
  <2> QED BY <2>3, <2>4 DEF GroupInv
<1> QED BY <1>1, <1>2 DEF DeliveryInv

\* recover() gives every group a task for the bubbles that are scheduled.
LEMMA RecoverKeeps ==
  ASSUME DeliveryInv, Recover
  PROVE  DeliveryInv'
<1>1. /\ UNCHANGED <<rows, sent, crashes, registered>> /\ ~ up /\ up'
      /\ \A g \in Groups : task'[g] = IF ToRecover(g) = << >> THEN NoTask
                                                          ELSE Start(Frames(g, ToRecover(g)))
      /\ task' = [g \in Groups |-> task'[g]]
  BY DEF Recover
<1>2. ASSUME NEW g \in Groups PROVE GroupInv(g)' /\ task'[g] \in TaskType \cup {NoTask}
  <2>1. PICK k \in Nat : Prefix(g, k) /\ SentOK(g, k)
    BY DEF DeliveryInv, GroupInv
  <2>t. rows[g] \in Seq(RowStatus)
    BY DEF DeliveryInv
  <2>n. PICK n \in Nat : n = Len(rows[g]) /\ 1 <= k /\ k <= n + 1
    BY <2>1, <2>t DEF Prefix
  <2>2. ToRecover(g) = FromTo(k, n) /\ (ToRecover(g) = << >> <=> k = n + 1)
    BY <2>1, <2>t, <2>n, RecoverFacts
  <2>3. Prefix(g, k)' /\ rows'[g] = rows[g] /\ sent'[g] = sent[g]
    BY <1>1, <2>1 DEF Prefix
  <2>4. CASE k = n + 1
    <3>1. task'[g] = NoTask
      BY <1>1, <2>2, <2>4
    <3>2. TaskOK(g, k)' /\ SentOK(g, k)'
      BY <1>1, <2>1, <2>3, <3>1 DEF TaskOK, SentOK
    <3> QED BY <2>3, <3>1, <3>2 DEF GroupInv
  <2>5. CASE k <= n
    <3>1. Frames(g, FromTo(k, n)) \in Seq(FramesOf(g))
      BY <2>n, <2>5, FramesFacts
    <3>2. task'[g] = Start(Frames(g, FromTo(k, n)))
      BY <1>1, <2>2, <2>5
    <3>3. /\ task'[g] \in TaskType /\ task'[g].sending = FALSE
          /\ task'[g].todo = Frames(g, FromTo(k, n))
      BY <3>1, <3>2, StartType
    <3>4. TaskOK(g, k)' /\ \A p : ~ OutNow(g, p)'
      BY <1>1, <2>3, <2>5, <2>n, <3>3 DEF TaskOK, OutNow
    <3>5. SentOK(g, k)'
      BY <1>1, <2>1, <2>3, <3>4 DEF SentOK
    <3> QED BY <2>3, <3>3, <3>4, <3>5 DEF GroupInv
  <2> QED BY <2>n, <2>4, <2>5
<1>3. task' \in [Groups -> TaskType \cup {NoTask}]
  BY <1>1, <1>2
<1> QED BY <1>1, <1>2, <1>3 DEF DeliveryInv

\* Every step of the event loop keeps the invariant.
LEMMA DeliveryStepInv == DeliveryInv /\ [Next]_vars => DeliveryInv'
<1> SUFFICES ASSUME DeliveryInv, [Next]_vars PROVE DeliveryInv'
  OBVIOUS
<1>1. ASSUME UNCHANGED <<rows, task, sent, crashes, up>>, registered' \subseteq Sockets
      PROVE  DeliveryInv'
  BY <1>1, GroupSame DEF DeliveryInv
<1>2. ASSUME NEW s \in Sockets, Accept(s) \/ Attach(s) \/ Reject(s) \/ Hangup(s) \/ Detach(s)
      PROVE  DeliveryInv'
  BY <1>1, <1>2 DEF Accept, Attach, Reject, Hangup, Detach, DeliveryInv
<1>3. CASE UNCHANGED vars
  BY <1>1, <1>3 DEF vars, DeliveryInv
<1> QED BY <1>2, <1>3, ScheduleKeeps, BroadcastKeeps, SendKeeps, DoneKeeps, RaiseKeeps, CrashKeeps,
           RecoverKeeps DEF Next, TaskStep

\* The rows and the tasks agree in every state.
THEOREM DeliveryInvariance == Spec => []DeliveryInv
BY DeliveryInitInv, DeliveryStepInv, PTL DEF Spec

\* The rows tell how far a delivery has come, for any number of replies,
\* clients, crashes and failing commits.
THEOREM RowsTellTheTruth == Spec => []RowsTellDelivery
<1>1. DeliveryInv => RowsTellDelivery
  <2> SUFFICES ASSUME DeliveryInv, NEW g \in Groups, NEW p \in DOMAIN rows[g]
               PROVE  /\ rows[g][p] = "delivered" =>
                           sent[g][p] >= 1 /\ \A q \in 1 .. p - 1 : rows[g][q] = "delivered"
                      /\ sent[g][p] <= 1 + crashes
    BY DEF RowsTellDelivery
  <2>1. PICK k \in Nat : Prefix(g, k) /\ SentOK(g, k)
    BY DEF DeliveryInv, GroupInv
  <2>2. PICK n \in Nat : n = Len(rows[g]) /\ DOMAIN rows[g] = 1 .. n
    BY DEF DeliveryInv
  <2>3. p \in 1 .. n /\ sent[g][p] <= 1 + crashes
    BY <2>1, <2>2 DEF SentOK
  <2>4. ASSUME rows[g][p] = "delivered"
        PROVE  sent[g][p] >= 1 /\ \A q \in 1 .. p - 1 : rows[g][q] = "delivered"
    <3>1. p < k
      BY <2>1, <2>2, <2>3, <2>4 DEF Prefix
    <3>2. \A q \in 1 .. p - 1 : q \in 1 .. n /\ q < k
      BY <2>2, <2>3, <3>1
    <3> QED BY <2>1, <2>2, <2>3, <3>1, <3>2 DEF Prefix, SentOK
  <2> QED BY <2>3, <2>4
<1> QED BY <1>1, DeliveryInvariance, PTL

\* A bubble whose row says delivered is not broadcast again, whatever
\* crashes, recoveries and connections come after.
THEOREM NeverTwiceAfterDelivered == Spec => DeliveredOnce
<1>1. ASSUME DeliveryInv, [Next]_vars, NEW g \in Groups, NEW p \in DOMAIN rows[g],
             rows[g][p] = "delivered"
      PROVE  sent'[g][p] = sent[g][p]
  <2>1. PICK k \in Nat : Prefix(g, k) /\ TaskOK(g, k)
    BY <1>1 DEF DeliveryInv, GroupInv
  <2>t. /\ rows \in [Groups -> Seq(RowStatus)] /\ sent \in [Groups -> Seq(Nat)]
        /\ p \in 1 .. Len(rows[g])
    BY <1>1 DEF DeliveryInv
  <2>2. p # k
    BY <1>1, <2>1, <2>t DEF Prefix
  <2>3. ASSUME NEW h \in Groups, Broadcast(h) PROVE sent'[g][p] = sent[g][p]
    <3>1. CASE h # g
      BY <2>3, <2>t, <3>1 DEF Broadcast
    <3>2. CASE h = g
      <4>1. Frame(g).kind = "message" => Frame(g).position = k
        <5>1. Running(g)
          BY <2>3, <3>2 DEF Broadcast
        <5>2. Frame(g) = On(g) \/ Frame(g) = Message(g, k) \/ Frame(g) = Off(g)
          BY <1>1, <2>1, <5>1, FrameCases
        <5> QED BY <5>2, FrameKinds
      <4> QED BY <2>2, <2>3, <2>t, <3>2, <4>1 DEF Broadcast
    <3> QED BY <3>1, <3>2
  <2>4. ASSUME NEW h \in Groups, NEW n \in 1 .. MaxBubbles, ScheduleGroup(h, n)
        PROVE  sent'[g][p] = sent[g][p]
    <3>1. h # g
      BY <2>4, <2>t DEF ScheduleGroup
    <3> QED BY <2>4, <2>t, <3>1 DEF ScheduleGroup
  <2>5. CASE sent' = sent
    BY <2>5
  <2> QED BY <1>1, <2>3, <2>4, <2>5
          DEF Next, TaskStep, SendTo, FrameDone, CommitRaises, Accept, Attach, Reject, Hangup, Detach,
              Crash, Recover, vars
<1>2. DeliveryInv /\ [Next]_vars =>
        [\A g \in Groups : \A p \in DOMAIN rows[g] :
           rows[g][p] = "delivered" => sent'[g][p] = sent[g][p]]_vars
  BY <1>1
<1> QED BY <1>2, DeliveryInvariance, PTL DEF Spec, DeliveredOnce

-----------------------------------------------------------------------------
(* What a client sees of a reply: a run is the frames a task broadcasts,    *)
(* from typing on to typing off, and a piece is some of them in a row.      *)

\* Frame j of a run over bubbles k to n: k - 1 is typing on, n + 1 typing off.
RunAt(g, k, n, j) ==
  IF j = k - 1 THEN On(g) ELSE IF j = n + 1 THEN Off(g) ELSE Message(g, j)

\* The m frames of that run from frame a on.
Piece(g, k, n, a, m) == [i \in 1 .. m |-> RunAt(g, k, n, a + i - 1)]

\* The frames of a run are told apart from the others.
LEMMA RunAtFacts ==
  ASSUME NEW g, NEW k \in Nat, NEW n \in Nat, 1 <= k, k <= n, NEW j \in k - 1 .. n + 1
  PROVE  /\ RunAt(g, k, n, j) \in FramesOf(g)
         /\ RunAt(g, k, n, j) = On(g) <=> j = k - 1
<1>1. \A p : On(g) # Off(g) /\ On(g) # Message(g, p)
  <2>1. On(g).on # Off(g).on
    BY DEF On, Off, Typing
  <2> QED BY <2>1, FrameKinds
<1> QED BY <1>1 DEF RunAt, FramesOf

\* A piece is a sequence of frames of its group.
LEMMA PieceType ==
  ASSUME NEW g, NEW k \in Nat, NEW n \in Nat, 1 <= k, k <= n,
         NEW a \in Nat, NEW m \in Nat, k - 1 <= a, a + m <= n + 2
  PROVE  Piece(g, k, n, a, m) \in Seq(FramesOf(g))
<1>1. \A i \in 1 .. m : RunAt(g, k, n, a + i - 1) \in FramesOf(g)
  BY RunAtFacts
<1> QED BY <1>1 DEF Piece

\* It has the frames it names.
LEMMA PieceAt ==
  ASSUME NEW g, NEW k \in Nat, NEW n \in Nat, NEW a \in Nat, NEW m \in Nat
  PROVE  \A i \in 1 .. m : Piece(g, k, n, a, m)[i] = RunAt(g, k, n, a + i - 1)
BY DEF Piece

\* It has as many frames as it says.
LEMMA PieceLen ==
  ASSUME NEW g, NEW k \in Nat, NEW n \in Nat, 1 <= k, k <= n,
         NEW a \in Nat, NEW m \in Nat, k - 1 <= a, a + m <= n + 2
  PROVE  Len(Piece(g, k, n, a, m)) = m
<1> DEFINE p == Piece(g, k, n, a, m)
<1>1. p \in Seq(FramesOf(g)) /\ DOMAIN p = 1 .. m
  BY PieceType DEF Piece
<1> HIDE DEF p
<1>2. Len(p) = m
  BY <1>1
<1> QED BY <1>2 DEF p

\* The first frame of a piece.
LEMMA PieceHead ==
  ASSUME NEW g, NEW k \in Nat, NEW n \in Nat, 1 <= k, k <= n,
         NEW a \in Nat, NEW m \in Nat, k - 1 <= a, a + m <= n + 2, m # 0
  PROVE  Head(Piece(g, k, n, a, m)) = RunAt(g, k, n, a)
<1> DEFINE p == Piece(g, k, n, a, m)
<1>1. p \in Seq(FramesOf(g)) /\ Len(p) = m
  BY PieceType, PieceLen
<1>2. p[1] = RunAt(g, k, n, a)
  <2>1. 1 \in 1 .. m /\ a + 1 - 1 = a
    OBVIOUS
  <2> QED BY <2>1, PieceAt
<1> HIDE DEF p
<1>3. Head(p) = p[1]
  BY <1>1
<1> QED BY <1>2, <1>3 DEF p

\* What is left of a piece after its first frame.
LEMMA PieceTail ==
  ASSUME NEW g, NEW k \in Nat, NEW n \in Nat, 1 <= k, k <= n,
         NEW a \in Nat, NEW m \in Nat, k - 1 <= a, a + m <= n + 2, m # 0
  PROVE  Tail(Piece(g, k, n, a, m)) = Piece(g, k, n, a + 1, m - 1)
<1> DEFINE p == Piece(g, k, n, a, m)
           q == Piece(g, k, n, a + 1, m - 1)
           S == FramesOf(g)
<1>1. p \in Seq(S) /\ Len(p) = m /\ \A i \in 1 .. m : p[i] = RunAt(g, k, n, a + i - 1)
  BY PieceType, PieceLen, PieceAt
<1>2. /\ q \in Seq(S) /\ Len(q) = m - 1
      /\ \A i \in 1 .. m - 1 : q[i] = RunAt(g, k, n, (a + 1) + i - 1)
  <2>1. a + 1 \in Nat /\ m - 1 \in Nat /\ k - 1 <= a + 1 /\ (a + 1) + (m - 1) <= n + 2
    OBVIOUS
  <2>2. q \in Seq(S)
    BY <2>1, PieceType
  <2>3. Len(q) = m - 1
    BY <2>1, PieceLen
  <2>4. \A i \in 1 .. m - 1 : q[i] = RunAt(g, k, n, (a + 1) + i - 1)
    BY <2>1, PieceAt
  <2> QED BY <2>2, <2>3, <2>4
<1> HIDE DEF p, q, S
<1>3. p # << >>
  BY <1>1
<1>4. /\ Tail(p) \in Seq(S) /\ Len(Tail(p)) = m - 1
      /\ \A i \in 1 .. m - 1 : Tail(p)[i] = p[i + 1]
  BY <1>1, <1>3, HeadTailProperties
<1>5. \A i \in 1 .. m - 1 : Tail(p)[i] = q[i]
  <2>1. \A i \in 1 .. m - 1 : i + 1 \in 1 .. m /\ a + (i + 1) - 1 = (a + 1) + i - 1
    OBVIOUS
  <2> QED BY <1>1, <1>2, <1>4, <2>1
<1>6. Tail(p) = q
  BY <1>2, <1>4, <1>5, SeqEqual
<1> QED BY <1>6 DEF p, q

\* Two pieces that meet are one.
Joins(g, k, n, a, m, b, l) ==
  Piece(g, k, n, a, m) \o Piece(g, k, n, b, l) = Piece(g, k, n, a, m + l)

\* A piece that ends where the next one begins joins it.
LEMMA PieceConcat ==
  ASSUME NEW g, NEW k \in Nat, NEW n \in Nat, 1 <= k, k <= n,
         NEW a \in Nat, NEW m \in Nat, NEW b \in Nat, NEW l \in Nat,
         k - 1 <= a, b <= a + m, a + m <= b, b + l <= n + 2
  PROVE  Joins(g, k, n, a, m, b, l)
<1> DEFINE p == Piece(g, k, n, a, m)
           q == Piece(g, k, n, b, l)
           r == Piece(g, k, n, a, m + l)
           S == FramesOf(g)
<1>1. /\ p \in Seq(S) /\ Len(p) = m
      /\ \A i \in 1 .. m : p[i] = RunAt(g, k, n, a + i - 1)
  <2>1. a + m <= n + 2
    OBVIOUS
  <2> QED BY <2>1, PieceType, PieceLen, PieceAt
<1>2. /\ q \in Seq(S) /\ Len(q) = l
      /\ \A i \in 1 .. l : q[i] = RunAt(g, k, n, b + i - 1)
  <2>1. k - 1 <= b
    OBVIOUS
  <2> QED BY <2>1, PieceType, PieceLen, PieceAt
<1>3. /\ r \in Seq(S) /\ Len(r) = m + l
      /\ \A i \in 1 .. m + l : r[i] = RunAt(g, k, n, a + i - 1)
  <2>1. m + l \in Nat /\ a + (m + l) <= n + 2
    OBVIOUS
  <2> QED BY <2>1, PieceType, PieceLen, PieceAt
<1> HIDE DEF p, q, r, S
<1>4. /\ p \o q \in Seq(S) /\ Len(p \o q) = m + l
      /\ \A i \in 1 .. m + l : (p \o q)[i] = IF i <= m THEN p[i] ELSE q[i - m]
  BY <1>1, <1>2, ConcatProperties
<1>5. ASSUME NEW i \in 1 .. m + l PROVE (p \o q)[i] = r[i]
  <2>1. CASE i <= m
    BY <1>1, <1>3, <1>4, <2>1
  <2>2. CASE ~ (i <= m)
    <3>1. i - m \in 1 .. l /\ b + (i - m) - 1 = a + i - 1
      BY <2>2
    <3>2. q[i - m] = RunAt(g, k, n, a + i - 1)
      BY <1>2, <3>1
    <3> QED BY <1>3, <1>4, <2>2, <3>2
  <2> QED BY <2>1, <2>2
<1>6. p \o q = r
  BY <1>3, <1>4, <1>5, SeqEqual
<1> QED BY <1>6 DEF p, q, r, Joins

\* A piece grows by the next frame.
LEMMA PieceAppend ==
  ASSUME NEW g, NEW k \in Nat, NEW n \in Nat, 1 <= k, k <= n,
         NEW a \in Nat, NEW m \in Nat, k - 1 <= a, a + m + 1 <= n + 2
  PROVE  Append(Piece(g, k, n, a, m), RunAt(g, k, n, a + m)) = Piece(g, k, n, a, m + 1)
<1> DEFINE p == Piece(g, k, n, a, m)
           r == Piece(g, k, n, a, m + 1)
           S == FramesOf(g)
<1>1. /\ p \in Seq(S) /\ Len(p) = m
      /\ \A i \in 1 .. m : p[i] = RunAt(g, k, n, a + i - 1)
  <2>1. a + m <= n + 2
    OBVIOUS
  <2> QED BY <2>1, PieceType, PieceLen, PieceAt
<1>2. /\ r \in Seq(S) /\ Len(r) = m + 1
      /\ \A i \in 1 .. m + 1 : r[i] = RunAt(g, k, n, a + i - 1)
  <2>1. m + 1 \in Nat /\ a + (m + 1) <= n + 2
    OBVIOUS
  <2>2. r \in Seq(S)
    BY <2>1, PieceType
  <2>3. Len(r) = m + 1
    BY <2>1, PieceLen
  <2>4. \A i \in 1 .. m + 1 : r[i] = RunAt(g, k, n, a + i - 1)
    BY <2>1, PieceAt
  <2> QED BY <2>2, <2>3, <2>4
<1>3. RunAt(g, k, n, a + m) \in S
  <2>1. a + m \in k - 1 .. n + 1
    OBVIOUS
  <2> QED BY <2>1, RunAtFacts
<1> DEFINE x == RunAt(g, k, n, a + m)
           t == Append(p, x)
<1> HIDE DEF x, p, r, S
<1>4. /\ t \in Seq(S) /\ Len(t) = m + 1
      /\ \A i \in 1 .. m : t[i] = p[i]
      /\ t[m + 1] = x
  BY <1>1, <1>3 DEF x
<1>5. ASSUME NEW i \in 1 .. m + 1 PROVE t[i] = r[i]
  <2>1. CASE i <= m
    BY <1>1, <1>2, <1>4, <2>1
  <2>2. CASE i = m + 1
    <3>1. a + i - 1 = a + m
      BY <2>2
    <3> QED BY <1>2, <1>4, <2>2, <3>1 DEF x
  <2>3. i <= m \/ i = m + 1
    OBVIOUS
  <2> QED BY <2>1, <2>2, <2>3
<1> HIDE DEF t
<1>6. t = r
  BY <1>2, <1>4, <1>5, SeqEqual
<1> QED BY <1>6 DEF t, p, r, x

\* The frames a task starts with are the whole of its run.
LEMMA PieceWhole ==
  ASSUME NEW g, NEW k \in Nat, NEW n \in Nat, 1 <= k, k <= n
  PROVE  Frames(g, FromTo(k, n)) = Piece(g, k, n, k - 1, n + 3 - k)
<1> DEFINE f == Frames(g, FromTo(k, n))
           p == Piece(g, k, n, k - 1, n + 3 - k)
           S == FramesOf(g)
<1>m. PICK m \in Nat : m = n + 2 - k
  OBVIOUS
<1>1. f \in Seq(S) /\ f # << >> /\ Head(f) = On(g) /\ Tail(f) = Rest(g, k, n)
  BY FramesFacts
<1>2. /\ Rest(g, k, n) \in Seq(S) /\ Len(Rest(g, k, n)) = m
  <2>1. k <= n + 1 /\ n - k + 2 = m
    BY <1>m
  <2>2. Rest(g, k, n) \in Seq(FramesOf(g)) /\ Len(Rest(g, k, n)) = n - k + 2
    BY <2>1, RestFacts
  <2> QED BY <2>1, <2>2
<1>3. /\ p \in Seq(S) /\ Len(p) = m + 1
      /\ \A i \in 1 .. m + 1 : p[i] = RunAt(g, k, n, k - 1 + i - 1)
  <2>1. k - 1 \in Nat /\ n + 3 - k = m + 1 /\ m + 1 \in Nat /\ (k - 1) + (m + 1) <= n + 2
    BY <1>m
  <2>2. LET r == Piece(g, k, n, k - 1, m + 1) IN
        /\ r \in Seq(S) /\ Len(r) = m + 1
        /\ \A i \in 1 .. m + 1 : r[i] = RunAt(g, k, n, k - 1 + i - 1)
    BY <2>1, PieceType, PieceLen, PieceAt
  <2> QED BY <2>1, <2>2
<1>4. \A i \in 1 .. m : Rest(g, k, n)[i] = RunAt(g, k, n, k + i - 1)
  BY <1>m DEF Rest, RunAt
<1> HIDE DEF f, p, S
<1>5. Len(f) = m + 1 /\ f[1] = On(g) /\ \A i \in 1 .. m : f[i + 1] = Rest(g, k, n)[i]
  <2>1. /\ Len(Tail(f)) = Len(f) - 1 /\ Head(f) = f[1]
        /\ \A i \in 1 .. Len(Tail(f)) : Tail(f)[i] = f[i + 1]
    BY <1>1, HeadTailProperties
  <2>2. Len(f) = m + 1
    <3>1. Len(f) \in Nat
      BY <1>1
    <3>2. Len(Tail(f)) = m /\ Len(Tail(f)) = Len(f) - 1
      BY <1>1, <1>2, <2>1
    <3> HIDE DEF f
    <3> QED BY <3>1, <3>2
  <2> QED BY <1>1, <1>2, <2>1, <2>2
<1>6. ASSUME NEW i \in 1 .. m + 1 PROVE f[i] = p[i]
  <2>1. CASE i = 1
    <3>1. p[1] = RunAt(g, k, n, k - 1)
      BY <1>3
    <3> QED BY <1>5, <2>1, <3>1 DEF RunAt
  <2>2. CASE i # 1
    <3>1. i - 1 \in 1 .. m /\ (i - 1) + 1 = i /\ k + (i - 1) - 1 = k - 1 + i - 1
      BY <2>2
    <3>2. f[i] = RunAt(g, k, n, k + (i - 1) - 1)
      BY <1>4, <1>5, <3>1
    <3> QED BY <1>3, <3>1, <3>2
  <2> QED BY <2>1, <2>2
<1>7. f = p
  BY <1>1, <1>3, <1>5, <1>6, SeqEqual
<1> QED BY <1>7 DEF f, p

\* What a piece shows is an uninterrupted part of the run.
LEMMA PieceSegment ==
  ASSUME NEW g, NEW k \in Nat, NEW n \in Nat, 1 <= k, k <= n,
         NEW a \in Nat, NEW m \in Nat, k - 1 <= a, a + m <= n + 2
  PROVE  Segment(Piece(g, k, n, a, m), Frames(g, FromTo(k, n)))
<1> DEFINE f == Frames(g, FromTo(k, n))
           p == Piece(g, k, n, a, m)
           S == FramesOf(g)
           i == a - (k - 1)
           j == a - (k - 1) + m
           t == SubSeq(f, i + 1, j)
<1>l. PICK l \in Nat : l = n + 3 - k
  OBVIOUS
<1>1. /\ f \in Seq(S) /\ Len(f) = l
      /\ \A x \in 1 .. l : f[x] = RunAt(g, k, n, k - 1 + x - 1)
  <2>1. k - 1 \in Nat /\ (k - 1) + l <= n + 2 /\ f = Piece(g, k, n, k - 1, l)
    BY <1>l, PieceWhole
  <2> HIDE DEF f
  <2> QED BY <2>1, PieceType, PieceLen, PieceAt
<1>2. /\ p \in Seq(S) /\ Len(p) = m
      /\ \A x \in 1 .. m : p[x] = RunAt(g, k, n, a + x - 1)
  BY PieceType, PieceLen, PieceAt
<1>3. i \in 0 .. l /\ j \in 0 .. l /\ j - (i + 1) + 1 = m
  BY <1>l
<1>4. \A x \in 1 .. m : i + 1 + x - 1 \in 1 .. l /\ k - 1 + (i + 1 + x - 1) - 1 = a + x - 1
  BY <1>l
<1> HIDE DEF f, p, S
<1>5. t \in Seq(S) /\ Len(t) = m /\ \A x \in 1 .. m : t[x] = f[i + 1 + x - 1]
  <2>1. \A x \in i + 1 .. j : x \in 1 .. l
    BY <1>l
  <2>2. \A x \in i + 1 .. j : f[x] \in S
    BY <1>1, <2>1
  <2> HIDE DEF i, j
  <2>3. i + 1 \in Int /\ j \in Int
    BY <1>3
  <2>4. /\ t \in Seq(S)
        /\ Len(t) = IF i + 1 <= j THEN j - (i + 1) + 1 ELSE 0
        /\ \A x \in 1 .. j - (i + 1) + 1 : t[x] = f[i + 1 + x - 1]
    BY <2>2, <2>3, SubSeqProperties
  <2> QED BY <1>3, <2>3, <2>4
<1>6. \A x \in 1 .. m : t[x] = p[x]
  <2> HIDE DEF t, i, j
  <2> QED BY <1>1, <1>2, <1>4, <1>5
<1>7. t = p
  <2> HIDE DEF t
  <2> QED BY <1>2, <1>5, <1>6, SeqEqual
<1> HIDE DEF i, j
<1> QED BY <1>1, <1>3, <1>7 DEF Segment, p, f

-----------------------------------------------------------------------------
(* What a client sees of a group.                                           *)

\* A client that receives one more frame sees it after the others of its
\* group, and no change of the other groups.
LEMMA OfGroupStep ==
  ASSUME NEW F, NEW frames \in Seq(F), NEW e \in F, NEW g
  PROVE  /\ OfGroup(frames, g) \in Seq(F)
         /\ OfGroup(Append(frames, e), g) =
              IF e.kind # "attached" /\ e.group = g
              THEN Append(OfGroup(frames, g), e) ELSE OfGroup(frames, g)
<1> DEFINE Taken(q) == CHOOSE t : t = [n \in 0 .. Len(q) |->
                         IF n = 0 THEN << >>
                         ELSE IF q[n].kind # "attached" /\ q[n].group = g
                              THEN Append(t[n - 1], q[n]) ELSE t[n - 1]]
<1>1. ASSUME NEW q \in Seq(F)
      PROVE  /\ Taken(q) \in [0 .. Len(q) -> Seq(F)] /\ Taken(q)[0] = << >>
             /\ \A n \in 1 .. Len(q) : Taken(q)[n] =
                  IF q[n].kind # "attached" /\ q[n].group = g
                  THEN Append(Taken(q)[n - 1], q[n]) ELSE Taken(q)[n - 1]
  <2> DEFINE N == Len(q)
             step == [x \in (1 .. N) \X Seq(F) |->
                       IF q[x[1]].kind # "attached" /\ q[x[1]].group = g
                       THEN Append(x[2], q[x[1]]) ELSE x[2]]
  <2>1. N \in Nat /\ step \in [(1 .. N) \X Seq(F) -> Seq(F)] /\ << >> \in Seq(F)
    OBVIOUS
  <2>2. PICK f \in [0 .. N -> Seq(F)] : f[0] = << >> /\ \A n \in 1 .. N : f[n] = step[<<n, f[n - 1]>>]
    <3> DEFINE W == Seq(F)
    <3>1. N \in Nat /\ step \in [(1 .. N) \X W -> W]
      BY <2>1
    <3>a. << >> \in W
      OBVIOUS
    <3> HIDE DEF step, N, W
    <3>2. \E f : Solves(f, W, << >>, N, step)
      BY <3>1, <3>a, Recursion
    <3> QED BY <3>2 DEF W, Solves
  <2>3. ASSUME NEW n \in 1 .. N
        PROVE  f[n] = IF q[n].kind # "attached" /\ q[n].group = g THEN Append(f[n - 1], q[n]) ELSE f[n - 1]
    <3>1. f[n - 1] \in Seq(F)
      BY <2>1
    <3>2. step[<<n, f[n - 1]>>] = IF q[n].kind # "attached" /\ q[n].group = g
                                  THEN Append(f[n - 1], q[n]) ELSE f[n - 1]
      BY <3>1
    <3> QED BY <2>2, <3>2
  <2>4. f = [n \in 0 .. Len(q) |->
               IF n = 0 THEN << >>
               ELSE IF q[n].kind # "attached" /\ q[n].group = g
                    THEN Append(f[n - 1], q[n]) ELSE f[n - 1]]
    <3>1. \A n \in 0 .. N : n # 0 => n \in 1 .. N
      OBVIOUS
    <3> QED BY <2>2, <2>3, <3>1
  <2>5. Taken(q) = [n \in 0 .. Len(q) |->
               IF n = 0 THEN << >>
               ELSE IF q[n].kind # "attached" /\ q[n].group = g
                    THEN Append(Taken(q)[n - 1], q[n]) ELSE Taken(q)[n - 1]]
    BY <2>4
  <2> HIDE DEF Taken
  <2> DEFINE t == Taken(q)
  <2>6. /\ DOMAIN t = 0 .. N /\ t[0] = << >>
        /\ \A n \in 1 .. N : t[n] = IF q[n].kind # "attached" /\ q[n].group = g
                                    THEN Append(t[n - 1], q[n]) ELSE t[n - 1]
    <3> HIDE DEF step
    <3>1. N \in Nat /\ 0 \in 0 .. N /\ \A n \in 1 .. N : n \in 0 .. N /\ n # 0
      BY <2>1
    <3> QED BY <2>5, <3>1
  <2>7. \A n \in 0 .. N : t[n] = f[n]
    <3>1. \A n \in 1 .. N : t[n - 1] = f[n - 1] => t[n] = f[n]
      BY <2>3, <2>6
    <3>2. t[0] = f[0] /\ \A n \in 1 .. N : t[n - 1] = f[n - 1] => t[n] = f[n]
      BY <2>2, <2>6, <3>1
    <3>3. N \in Nat
      BY <2>1
    <3> HIDE DEF t, N, step
    <3>4. Agree(t, f, N)
      BY <3>2, <3>3 DEF Agree
    <3> QED BY <3>4, SameRecursion
  <2> QED BY <2>5, <2>6, <2>7
<1>2. \A q : OfGroup(q, g) = Taken(q)[Len(q)]
  BY DEF OfGroup
<1> HIDE DEF Taken
<1> DEFINE l == Append(frames, e)
           N == Len(frames)
<1>3. /\ l \in Seq(F) /\ Len(l) = N + 1 /\ l[N + 1] = e /\ N \in Nat
      /\ \A n \in 1 .. N : l[n] = frames[n]
  OBVIOUS
<1> HIDE DEF l
<1>4. \A n \in 0 .. N : Taken(l)[n] = Taken(frames)[n]
  <2>1. \A n \in 1 .. N : n \in 1 .. Len(l)
    BY <1>3
  <2>2. \A n \in 1 .. N : Taken(l)[n - 1] = Taken(frames)[n - 1] => Taken(l)[n] = Taken(frames)[n]
    BY <1>1, <1>3, <2>1
  <2>3. Taken(l)[0] = Taken(frames)[0]
    BY <1>1, <1>3
  <2>4. N \in Nat
    BY <1>3
  <2> DEFINE f == Taken(l)
             h == Taken(frames)
  <2>5. f[0] = h[0] /\ \A n \in 1 .. N : f[n - 1] = h[n - 1] => f[n] = h[n]
    BY <2>2, <2>3
  <2> HIDE DEF N, f, h
  <2>6. \A n \in 0 .. N : f[n] = h[n]
    <3>1. Agree(f, h, N)
      BY <2>4, <2>5 DEF Agree
    <3> QED BY <3>1, SameRecursion
  <2> QED BY <2>6 DEF f, h
<1>5. Taken(l)[N + 1] = IF e.kind # "attached" /\ e.group = g
                        THEN Append(Taken(frames)[N], e) ELSE Taken(frames)[N]
  <2>1. N + 1 \in 1 .. Len(l) /\ (N + 1) - 1 = N /\ N \in 0 .. N
    BY <1>3
  <2> QED BY <1>1, <1>3, <1>4, <2>1
<1>6. Taken(frames)[N] \in Seq(F)
  BY <1>1, <1>3
<1> QED BY <1>2, <1>3, <1>5, <1>6 DEF l

\* A client that received nothing sees nothing.
LEMMA OfGroupNone ==
  ASSUME NEW g
  PROVE  OfGroup(<< >>, g) = << >>
<1> DEFINE t == [n \in 0 .. 0 |-> << >>]
           step(u) == [n \in 0 .. Len(<< >>) |->
                         IF n = 0 THEN << >>
                         ELSE IF << >>[n].kind # "attached" /\ << >>[n].group = g
                              THEN Append(u[n - 1], << >>[n]) ELSE u[n - 1]]
           c == CHOOSE u : u = step(u)
<1>1. \A u : step(u) = t
  <2>1. Len(<< >>) = 0 /\ \A n \in 0 .. 0 : n = 0
    OBVIOUS
  <2> QED BY <2>1
<1>2. c = step(c)
  <2> HIDE DEF step, t
  <2>1. t = step(t)
    BY <1>1
  <2> QED BY <2>1
<1>3. c[0] = << >>
  <2> HIDE DEF c
  <2> QED BY <1>1, <1>2
<1>4. OfGroup(<< >>, g) = c[Len(<< >>)]
  BY DEF OfGroup
<1> HIDE DEF c
<1> QED BY <1>3, <1>4

SocketStates == {"new", "accepted", "open", "closed"}
AllFrames    == {Attached} \cup UNION {FramesOf(g) : g \in Groups}

\* Every frame says its group, the attached frame none.
LEMMA FrameGroup ==
  /\ Attached.kind = "attached"
  /\ \A g : \A f \in FramesOf(g) : f.kind # "attached" /\ f.group = g /\ f # Attached
<1>1. ASSUME NEW g, NEW f \in FramesOf(g)
      PROVE  f.kind # "attached" /\ f.group = g
  BY DEF FramesOf, On, Off, Typing, Message
<1>2. Attached.kind = "attached"
  BY DEF Attached
<1> QED BY <1>1, <1>2

SameChannel(s, g) == ChannelOf[s] = ChannelOf[g]

\* A client has received nothing before it attached, and the attached frame
\* first; it is in the registry as long as it is there.
SocketOK(s) ==
  /\ socket[s] \in {"new", "accepted"} => inbox[s] = << >>
  /\ s \in registered => socket[s] = "open"
  /\ s \in alive => up /\ socket[s] \in {"accepted", "open"}
  /\ s \in alive /\ socket[s] = "open" => s \in registered /\ inbox[s] # << >>
  /\ \A i \in DOMAIN inbox[s] : inbox[s][i] = Attached <=> i = 1

\* A client sees m frames, from frame a on, of a run that began at bubble k.
Shows(s, g, k, a, m) ==
  /\ 1 <= k /\ k <= Len(rows[g])
  /\ k - 1 <= a /\ 1 <= m /\ a + m <= Len(rows[g]) + 2
  /\ View(s, g) = Piece(g, k, Len(rows[g]), a, m)

ViewOK(s, g) ==
  View(s, g) # << >> => SameChannel(s, g) /\ \E k, a, m \in Nat : Shows(s, g, k, a, m)

\* A task is at frame c of the run that began at bubble k.
AtFrame(g, k, c) ==
  /\ 1 <= k /\ k <= Len(rows[g])
  /\ Running(g) =>
       /\ k - 1 <= c /\ c <= Len(rows[g]) + 1
       /\ task[g].todo = Piece(g, k, Len(rows[g]), c, Len(rows[g]) + 2 - c)
       /\ task[g].to \subseteq Sockets
       /\ \A s \in task[g].to : SameChannel(s, g) /\ socket[s] \in {"open", "closed"}

\* A client that is there has seen of that run what was sent since it
\* attached: up to the frame before c, or to c if this one reached it already.
LiveOK(s, g, k, c) ==
  View(s, g) # << >> =>
    \E a, m \in Nat :
      /\ Shows(s, g, k, a, m)
      /\ Running(g) => a + m = IF task[g].sending /\ s \notin task[g].to THEN c + 1 ELSE c

RunOK(g) ==
  /\ Running(g) => up /\ rows[g] # << >>
  /\ rows[g] # << >> =>
       \E k, c \in Nat : AtFrame(g, k, c) /\ \A s \in alive : LiveOK(s, g, k, c)

ViewInv ==
  /\ socket \in [Sockets -> SocketStates]
  /\ inbox \in [Sockets -> Seq(AllFrames)]
  /\ alive \subseteq Sockets
  /\ \A s \in Sockets : SocketOK(s)
  /\ \A s \in Sockets, g \in Groups : ViewOK(s, g)
  /\ \A g \in Groups : RunOK(g)

\* A view a step leaves alone.
LEMMA ViewSame ==
  ASSUME NEW s, inbox'[s] = inbox[s]
  PROVE  \A g : View(s, g)' = View(s, g)
BY DEF View

\* One more frame, and what a client sees of each group after it.
LEMMA ViewGrows ==
  ASSUME inbox \in [Sockets -> Seq(AllFrames)], NEW s \in Sockets, NEW f \in AllFrames,
         inbox' = [inbox EXCEPT ![s] = Append(inbox[s], f)]
  PROVE  /\ inbox' \in [Sockets -> Seq(AllFrames)]
         /\ \A r \in Sockets : r # s => \A g : View(r, g)' = View(r, g)
         /\ \A g : View(s, g)' = IF f.kind # "attached" /\ f.group = g
                                 THEN Append(View(s, g), f) ELSE View(s, g)
<1>1. inbox[s] \in Seq(AllFrames) /\ Append(inbox[s], f) \in Seq(AllFrames)
  <2> DEFINE W == AllFrames
  <2> HIDE DEF W
  <2>1. f \in W /\ inbox[s] \in Seq(W)
    BY DEF W
  <2>2. Append(inbox[s], f) \in Seq(W)
    BY <2>1
  <2> QED BY <2>1, <2>2 DEF W
<1>2. inbox' \in [Sockets -> Seq(AllFrames)] /\ inbox'[s] = Append(inbox[s], f)
  BY <1>1
<1>3. \A r \in Sockets : r # s => inbox'[r] = inbox[r]
  OBVIOUS
<1>4. ASSUME NEW g
      PROVE  View(s, g)' = IF f.kind # "attached" /\ f.group = g
                           THEN Append(View(s, g), f) ELSE View(s, g)
  BY <1>1, <1>2, OfGroupStep DEF View
<1> QED BY <1>2, <1>3, <1>4, ViewSame

\* A view stays right as long as its group keeps its number of rows.
LEMMA ViewKept ==
  ASSUME NEW s, NEW g, ViewOK(s, g), View(s, g)' = View(s, g), Len(rows'[g]) = Len(rows[g])
  PROVE  ViewOK(s, g)'
BY DEF ViewOK, Shows, SameChannel

\* A run goes on beside a step of something else.
LEMMA RunKept ==
  ASSUME NEW g, RunOK(g), task'[g] = task[g], up' = up, Len(rows'[g]) = Len(rows[g]),
         rows'[g] = << >> <=> rows[g] = << >>,
         \A s \in alive' : View(s, g)' # << >> => s \in alive /\ View(s, g)' = View(s, g),
         Running(g) => \A s \in task[g].to \cap Sockets : socket[s] \in {"open", "closed"} =>
                         socket'[s] \in {"open", "closed"}
  PROVE  RunOK(g)'
<1> SUFFICES ASSUME rows[g] # << >>
             PROVE  \E k, c \in Nat : AtFrame(g, k, c)' /\ \A s \in alive' : LiveOK(s, g, k, c)'
  BY DEF RunOK, Running
<1>1. PICK k \in Nat, c \in Nat : AtFrame(g, k, c) /\ \A s \in alive : LiveOK(s, g, k, c)
  BY DEF RunOK
<1>2. AtFrame(g, k, c)'
  BY <1>1 DEF AtFrame, Running, SameChannel
<1>3. ASSUME NEW s \in alive' PROVE LiveOK(s, g, k, c)'
  BY <1>1 DEF LiveOK, Shows, Running
<1> QED BY <1>2, <1>3

\* At first nobody sees anything.
LEMMA ViewInitInv == Init => ViewInv
<1> SUFFICES ASSUME Init PROVE ViewInv
  OBVIOUS
<1>1. /\ socket \in [Sockets -> SocketStates] /\ inbox \in [Sockets -> Seq(AllFrames)]
      /\ alive \subseteq Sockets
  BY DEF Init, SocketStates
<1>2. ASSUME NEW s \in Sockets
      PROVE  SocketOK(s) /\ inbox[s] = << >> /\ \A g : View(s, g) = << >>
  <2>1. inbox[s] = << >> /\ s \notin alive /\ s \notin registered /\ DOMAIN inbox[s] = {}
    BY DEF Init
  <2> QED BY <2>1, OfGroupNone DEF SocketOK, View
<1>3. ASSUME NEW g \in Groups PROVE RunOK(g)
  <2>1. task[g] = NoTask /\ rows[g] = << >>
    BY <1>3 DEF Init
  <2> QED BY <2>1 DEF RunOK, Running
<1> QED BY <1>1, <1>2, <1>3 DEF ViewInv, ViewOK

\* A step of a connection's handler other than the first frame, or of its
\* client, changes no view.
LEMMA HandlerKeepsViews ==
  ASSUME ViewInv, NEW s \in Sockets, Accept(s) \/ Reject(s) \/ Hangup(s) \/ Detach(s)
  PROVE  ViewInv'
<1>t. /\ socket \in [Sockets -> SocketStates] /\ inbox \in [Sockets -> Seq(AllFrames)]
      /\ alive \subseteq Sockets
  BY DEF ViewInv
<1>1. UNCHANGED <<rows, task, inbox, up>>
  BY DEF Accept, Reject, Hangup, Detach
<1>2. /\ socket' \in [Sockets -> SocketStates] /\ alive' \subseteq Sockets
      /\ \A r \in Sockets : r # s =>
           socket'[r] = socket[r] /\ (r \in alive' <=> r \in alive)
             /\ (r \in registered' <=> r \in registered)
  BY <1>t DEF Accept, Reject, Hangup, Detach, SocketStates
<1>3. ASSUME NEW r \in Sockets PROVE SocketOK(r)'
  <2>1. SocketOK(r)
    BY DEF ViewInv
  <2>2. CASE r # s
    BY <1>1, <1>2, <2>1, <2>2 DEF SocketOK
  <2>3. CASE r = s
    BY <1>t, <1>1, <2>1, <2>3 DEF SocketOK, Accept, Reject, Hangup, Detach
  <2> QED BY <2>2, <2>3
<1>4. \A r \in Sockets, g \in Groups : View(r, g)' = View(r, g) /\ ViewOK(r, g)'
  BY <1>1, ViewSame, ViewKept DEF ViewInv
<1>5. ASSUME NEW g \in Groups PROVE RunOK(g)'
  <2>1. ASSUME NEW r \in alive', View(r, g)' # << >> PROVE r \in alive /\ View(r, g)' = View(r, g)
    <3>1. r \in Sockets /\ View(r, g)' = View(r, g)
      BY <1>2, <1>4
    <3>2. CASE r # s
      BY <1>2, <3>1, <3>2
    <3>3. CASE r = s
      <4>1. ~ Accept(s)
        <5> SUFFICES ASSUME Accept(s) PROVE FALSE
          OBVIOUS
        <5>1. inbox[s] = << >>
          BY DEF ViewInv, SocketOK, Accept
        <5> QED BY <2>1, <3>1, <3>3, <5>1, OfGroupNone DEF View
      <4> QED BY <3>1, <3>3, <4>1 DEF Reject, Hangup, Detach
    <3> QED BY <3>2, <3>3
  <2>2. ASSUME NEW r \in Sockets, socket[r] \in {"open", "closed"}
        PROVE  socket'[r] \in {"open", "closed"}
    BY <1>t, <1>2, <2>2 DEF Accept, Reject, Hangup, Detach
  <2>3. RunOK(g)
    BY DEF ViewInv
  <2> QED BY <1>1, <2>1, <2>2, <2>3, RunKept
<1> QED BY <1>t, <1>1, <1>2, <1>3, <1>4, <1>5 DEF ViewInv

\* A connection attaches: its first frame is no group's.
LEMMA AttachKeepsViews ==
  ASSUME ViewInv, NEW s \in Sockets, Attach(s)
  PROVE  ViewInv'
<1>t. /\ socket \in [Sockets -> SocketStates] /\ inbox \in [Sockets -> Seq(AllFrames)]
      /\ alive \subseteq Sockets
  BY DEF ViewInv
<1>1. /\ UNCHANGED <<rows, task, up, alive>> /\ registered' = registered \cup {s}
      /\ socket' = [socket EXCEPT ![s] = "open"] /\ socket[s] = "accepted"
  BY DEF Attach
<1>2. inbox[s] = << >>
  BY <1>1 DEF ViewInv, SocketOK
<1>3. /\ inbox' \in [Sockets -> Seq(AllFrames)]
      /\ \A r \in Sockets : r # s => inbox'[r] = inbox[r]
      /\ \A r \in Sockets : \A g : View(r, g)' = View(r, g)
      /\ inbox'[s] = IF s \in alive THEN <<Attached>> ELSE << >>
  <2>1. CASE s \in alive
    <3>1. inbox' = [inbox EXCEPT ![s] = Append(inbox[s], Attached)] /\ Attached \in AllFrames
      BY <2>1 DEF Attach, AllFrames
    <3>2. /\ inbox' \in [Sockets -> Seq(AllFrames)]
          /\ \A r \in Sockets : r # s => \A g : View(r, g)' = View(r, g)
          /\ \A g : View(s, g)' = View(s, g)
      BY <1>t, <3>1, ViewGrows, FrameGroup
    <3>3. inbox'[s] = <<Attached>> /\ \A r \in Sockets : r # s => inbox'[r] = inbox[r]
      BY <1>t, <1>2, <3>1
    <3> QED BY <2>1, <3>2, <3>3
  <2>2. CASE s \notin alive
    <3>1. inbox' = inbox
      BY <2>2 DEF Attach
    <3> QED BY <1>t, <1>2, <2>2, <3>1, ViewSame
  <2> QED BY <2>1, <2>2
<1>4. socket' \in [Sockets -> SocketStates] /\ socket'[s] = "open"
      /\ \A r \in Sockets : r # s => socket'[r] = socket[r]
  BY <1>t, <1>1 DEF SocketStates
<1>5. ASSUME NEW r \in Sockets PROVE SocketOK(r)'
  <2>1. SocketOK(r)
    BY DEF ViewInv
  <2>2. CASE r # s
    BY <1>1, <1>3, <1>4, <2>1, <2>2 DEF SocketOK
  <2>3. CASE r = s
    <3>1. \A i \in DOMAIN inbox'[s] : inbox'[s][i] = Attached <=> i = 1
      BY <1>3
    <3>2. s \in alive => inbox'[s] # << >> /\ up'
      BY <1>1, <1>3, <2>1, <2>3 DEF SocketOK
    <3> QED BY <1>1, <1>4, <2>3, <3>1, <3>2 DEF SocketOK
  <2> QED BY <2>2, <2>3
<1>6. \A r \in Sockets, g \in Groups : ViewOK(r, g)'
  BY <1>1, <1>3, ViewKept DEF ViewInv
<1>7. ASSUME NEW g \in Groups PROVE RunOK(g)'
  <2>1. \A r \in alive' : r \in alive /\ View(r, g)' = View(r, g)
    BY <1>t, <1>1, <1>3
  <2>2. ASSUME NEW r \in Sockets, socket[r] \in {"open", "closed"}
        PROVE  socket'[r] \in {"open", "closed"}
    BY <1>t, <1>1, <2>2
  <2>3. RunOK(g)
    BY DEF ViewInv
  <2> QED BY <1>1, <2>1, <2>2, <2>3, RunKept
<1> QED BY <1>t, <1>1, <1>3, <1>4, <1>5, <1>6, <1>7 DEF ViewInv

\* A step of the scheduler that sends nothing and ends no connection.
LEMMA TaskKeepsViews ==
  ASSUME ViewInv, NEW g \in Groups, UNCHANGED <<socket, alive, registered, inbox, up>>,
         \A h \in Groups : h # g => rows'[h] = rows[h] /\ task'[h] = task[h],
         rows[g] = << >> \/ Len(rows'[g]) = Len(rows[g]),
         rows[g] \in Seq(RowStatus), RunOK(g)'
  PROVE  ViewInv'
<1>1. \A s \in Sockets : SocketOK(s)'
  BY DEF ViewInv, SocketOK
<1>2. \A s : \A h : View(s, h)' = View(s, h)
  BY ViewSame
<1>3. ASSUME NEW s \in Sockets, NEW h \in Groups PROVE ViewOK(s, h)'
  <2>1. ViewOK(s, h)
    BY DEF ViewInv
  <2>2. CASE Len(rows'[h]) = Len(rows[h])
    BY <1>2, <2>1, <2>2, ViewKept
  <2>3. CASE h = g /\ rows[g] = << >>
    <3>1. View(s, g) = << >>
      BY <2>1, <2>3 DEF ViewOK, Shows
    <3> QED BY <1>2, <2>3, <3>1 DEF ViewOK
  <2> QED BY <2>2, <2>3
<1>4. ASSUME NEW h \in Groups, h # g PROVE RunOK(h)'
  BY <1>2, <1>4, RunKept DEF ViewInv
<1> QED BY <1>1, <1>3, <1>4 DEF ViewInv

\* respond() schedules a group: nobody has seen anything of it.
LEMMA ScheduleKeepsViews ==
  ASSUME DeliveryInv, ViewInv, NEW g \in Groups, NEW n \in 1 .. MaxBubbles, ScheduleGroup(g, n)
  PROVE  ViewInv'
<1>t. /\ rows \in [Groups -> Seq(RowStatus)] /\ task \in [Groups -> TaskType \cup {NoTask}]
  BY DEF DeliveryInv
<1>1. n \in Nat /\ 1 <= n
  BY DeliveryAssumption
<1> DEFINE r == [p \in 1 .. n |-> "scheduled"]
           f == Frames(g, FromTo(1, n))
<1>2. r # << >> /\ Len(r) = n
  <2>1. r \in Seq({"scheduled"}) /\ Len(r) = n
    BY <1>1
  <2> HIDE DEF r
  <2> QED BY <1>1, <2>1
<1>3. f = Piece(g, 1, n, 0, n + 2) /\ f \in Seq(FramesOf(g))
  <2>1. 1 - 1 = 0 /\ n + 3 - 1 = n + 2
    BY <1>1
  <2>2. f = Piece(g, 1, n, 1 - 1, n + 3 - 1)
    BY <1>1, PieceWhole
  <2> QED BY <1>1, <2>1, <2>2, FramesFacts
<1> HIDE DEF r, f
<1>4. /\ rows[g] = << >> /\ up /\ UNCHANGED <<socket, alive, registered, inbox, up>>
      /\ rows' = [rows EXCEPT ![g] = r] /\ task' = [task EXCEPT ![g] = Start(f)]
  BY DEF ScheduleGroup, r, f
<1>5. rows'[g] = r /\ task'[g] = Start(f)
      /\ \A h \in Groups : h # g => rows'[h] = rows[h] /\ task'[h] = task[h]
  BY <1>t, <1>4
<1>6. \A s \in Sockets : View(s, g)' = << >>
  <2>1. ASSUME NEW s \in Sockets PROVE View(s, g) = << >>
    BY <1>4 DEF ViewInv, ViewOK, Shows
  <2> QED BY <1>4, <2>1, ViewSame
<1>7. AtFrame(g, 1, 0)'
  <2>1. Start(f).todo = f /\ Start(f).to = {}
    BY DEF Start
  <2> QED BY <1>1, <1>2, <1>3, <1>5, <2>1 DEF AtFrame
<1>8. \A s \in alive' : LiveOK(s, g, 1, 0)'
  BY <1>4, <1>6 DEF LiveOK, ViewInv
<1>9. RunOK(g)'
  BY <1>2, <1>4, <1>5, <1>7, <1>8 DEF RunOK
<1> QED BY <1>t, <1>4, <1>5, <1>9, TaskKeepsViews

\* Where a task is, in the numbers of its run.
LEMMA AtFrameFacts ==
  ASSUME DeliveryInv, NEW g \in Groups, Running(g), NEW k \in Nat, NEW c \in Nat, AtFrame(g, k, c)
  PROVE  LET n == Len(rows[g]) IN
         /\ n \in Nat /\ 1 <= k /\ k <= n /\ k - 1 <= c /\ c <= n + 1 /\ rows[g] # << >>
         /\ Frame(g) = RunAt(g, k, n, c) /\ Frame(g) \in FramesOf(g)
         /\ c = n + 1 => Advance(g) = NoTask
         /\ c # n + 1 => Advance(g) = Start(Piece(g, k, n, c + 1, n + 1 - c))
<1>n. PICK n \in Nat : n = Len(rows[g])
  BY DEF DeliveryInv
<1>1. /\ 1 <= k /\ k <= n /\ k - 1 <= c /\ c <= n + 1
      /\ task[g].todo = Piece(g, k, n, c, n + 2 - c)
  BY <1>n DEF AtFrame
<1>m. PICK m \in Nat : m = n + 1 - c
  BY <1>1
<1>2. task[g].todo = Piece(g, k, n, c, m + 1) /\ c + m + 1 <= n + 2 /\ m + 1 \in Nat
  <2>1. m + 1 = n + 2 - c
    BY <1>m
  <2> QED BY <1>1, <1>m, <2>1
<1>3. /\ Head(task[g].todo) = RunAt(g, k, n, c)
      /\ Tail(task[g].todo) = Piece(g, k, n, c + 1, m)
  <2>1. m + 1 # 0 /\ (m + 1) - 1 = m /\ c + (m + 1) <= n + 2
    BY <1>2
  <2>l. PICK l \in Nat : l = m + 1 /\ l # 0 /\ c + l <= n + 2
    BY <2>1
  <2>k. 1 <= k /\ k <= n /\ k - 1 <= c /\ l # 0 /\ c + l <= n + 2
    BY <1>1, <2>l
  <2>2. Head(Piece(g, k, n, c, l)) = RunAt(g, k, n, c)
    BY <2>k, PieceHead
  <2>3. Tail(Piece(g, k, n, c, l)) = Piece(g, k, n, c + 1, l - 1)
    BY <2>k, PieceTail
  <2> QED BY <1>2, <2>1, <2>l, <2>2, <2>3
<1>4. Len(task[g].todo) = m + 1
  <2>1. c + (m + 1) <= n + 2
    BY <1>2
  <2> QED BY <1>1, <1>2, <2>1, PieceLen
<1>5. RunAt(g, k, n, c) \in FramesOf(g)
  BY <1>1, RunAtFacts
<1>6. rows[g] # << >>
  BY <1>n, <1>1
<1>7. c = n + 1 => Advance(g) = NoTask
  BY <1>m, <1>4 DEF Advance
<1>8. c # n + 1 => Advance(g) = Start(Piece(g, k, n, c + 1, n + 1 - c))
  BY <1>m, <1>3, <1>4 DEF Advance
<1> QED BY <1>n, <1>1, <1>3, <1>5, <1>6, <1>7, <1>8 DEF Frame

\* A broadcast begins: it goes to whoever is registered, so to every client
\* of the channel that is there.
LEMMA BroadcastKeepsViews ==
  ASSUME DeliveryInv, ViewInv, NEW g \in Groups, Broadcast(g)
  PROVE  ViewInv'
<1>t. /\ rows \in [Groups -> Seq(RowStatus)] /\ task \in [Groups -> TaskType \cup {NoTask}]
      /\ registered \subseteq Sockets
  BY DEF DeliveryInv
<1>1. PICK k \in Nat, c \in Nat : AtFrame(g, k, c) /\ \A s \in alive : LiveOK(s, g, k, c)
  BY DEF ViewInv, RunOK, Broadcast
<1> DEFINE to == {s \in registered : ChannelOf[s] = ChannelOf[g]}
<1>2. /\ UNCHANGED <<rows, socket, alive, registered, inbox, up>> /\ Running(g) /\ ~ task[g].sending
      /\ task' = [task EXCEPT ![g] = [task[g] EXCEPT !.sending = TRUE, !.to = to]]
  BY <1>t DEF Broadcast
<1>3. /\ task[g] \in TaskType /\ \A h \in Groups : h # g => task'[h] = task[h]
      /\ task'[g] = [task[g] EXCEPT !.sending = TRUE, !.to = to]
  BY <1>t, <1>2 DEF Running
<1>4. /\ task'[g] # NoTask /\ task'[g].todo = task[g].todo
      /\ task'[g].sending /\ task'[g].to = to
  <2>1. task[g] # NoTask
    BY <1>2 DEF Running
  <2> QED BY <1>3 DEF TaskType, NoTask
<1>5. AtFrame(g, k, c)'
  <2>1. ASSUME NEW s \in to PROVE s \in Sockets /\ SameChannel(s, g) /\ socket[s] = "open"
    BY <1>t DEF ViewInv, SocketOK, SameChannel
  <2> HIDE DEF to
  <2> QED BY <1>1, <1>2, <1>4, <2>1 DEF AtFrame, Running, SameChannel
<1>6. ASSUME NEW s \in alive PROVE LiveOK(s, g, k, c)'
  <2> SUFFICES ASSUME View(s, g) # << >> PROVE LiveOK(s, g, k, c)'
    BY <1>2 DEF LiveOK, View
  <2>1. s \in Sockets
    BY DEF ViewInv
  <2>2. PICK a \in Nat, m \in Nat : Shows(s, g, k, a, m) /\ a + m = c
    BY <1>1, <1>2, <1>6 DEF LiveOK
  <2>3. s \in to
    <3>1. inbox[s] # << >>
      BY OfGroupNone DEF View
    <3>2. socket[s] = "open" /\ s \in registered
      BY <2>1, <3>1, <1>6 DEF ViewInv, SocketOK
    <3>3. ChannelOf[s] = ChannelOf[g]
      BY <2>1 DEF ViewInv, ViewOK, SameChannel
    <3> QED BY <3>2, <3>3
  <2>4. Shows(s, g, k, a, m)'
    BY <1>2, <2>2 DEF Shows, View
  <2> HIDE DEF to
  <2> QED BY <1>4, <2>2, <2>3, <2>4 DEF LiveOK
<1>7. RunOK(g)'
  BY <1>2, <1>5, <1>6 DEF RunOK, ViewInv
<1> QED BY <1>t, <1>2, <1>3, <1>7, TaskKeepsViews

\* The frame reaches one client, which then has seen one frame more; a
\* connection that is gone is dropped.
LEMMA SendKeepsViews ==
  ASSUME DeliveryInv, ViewInv, NEW g \in Groups, NEW s \in Sockets, SendTo(g, s)
  PROVE  ViewInv'
<1>t. /\ rows \in [Groups -> Seq(RowStatus)] /\ task \in [Groups -> TaskType \cup {NoTask}]
      /\ registered \subseteq Sockets /\ socket \in [Sockets -> SocketStates]
      /\ inbox \in [Sockets -> Seq(AllFrames)] /\ alive \subseteq Sockets
  BY DEF DeliveryInv, ViewInv
<1>1. PICK k \in Nat, c \in Nat : AtFrame(g, k, c) /\ \A r \in alive : LiveOK(r, g, k, c)
  BY DEF ViewInv, RunOK, SendTo
<1>n. PICK n \in Nat : n = Len(rows[g])
  BY <1>t
<1>2. /\ UNCHANGED <<rows, socket, alive, up>> /\ Running(g) /\ task[g].sending
      /\ s \in task[g].to
      /\ task' = [task EXCEPT ![g] = [task[g] EXCEPT !.to = task[g].to \ {s}]]
  BY <1>t DEF SendTo
<1>3. /\ task[g] \in TaskType /\ \A h \in Groups : h # g => task'[h] = task[h]
      /\ task'[g] = [task[g] EXCEPT !.to = task[g].to \ {s}]
  BY <1>t, <1>2 DEF Running
<1>4. /\ task'[g] # NoTask /\ task'[g].todo = task[g].todo
      /\ task'[g].sending /\ task'[g].to = task[g].to \ {s}
  BY <1>2, <1>3 DEF TaskType, NoTask
<1>5. AtFrame(g, k, c)'
  BY <1>1, <1>2, <1>4 DEF AtFrame, Running, SameChannel
<1>6. /\ 1 <= k /\ k <= n /\ k - 1 <= c /\ c <= n + 1 /\ rows[g] # << >>
      /\ Frame(g) = RunAt(g, k, n, c) /\ Frame(g) \in FramesOf(g)
  BY <1>1, <1>2, <1>n, AtFrameFacts
<1>7. CASE s \notin alive
  <2>1. registered' = registered \ {s} /\ inbox' = inbox
    BY <1>7 DEF SendTo
  <2>2. \A r : \A h : View(r, h)' = View(r, h)
    BY <2>1, ViewSame
  <2>3. \A r \in Sockets : SocketOK(r)'
    BY <1>2, <1>7, <2>1 DEF ViewInv, SocketOK
  <2>4. \A r \in Sockets, h \in Groups : ViewOK(r, h)'
    BY <1>2, <2>2, ViewKept DEF ViewInv
  <2>5. \A h \in Groups : h # g => RunOK(h)'
    BY <1>2, <1>3, <2>2, RunKept DEF ViewInv
  <2>6. ASSUME NEW r \in alive PROVE LiveOK(r, g, k, c)'
    <3>1. r # s /\ LiveOK(r, g, k, c)
      BY <1>1, <1>7, <2>6
    <3>2. \A a, m : Shows(r, g, k, a, m)' <=> Shows(r, g, k, a, m)
      BY <1>2, <2>2 DEF Shows
    <3> QED BY <1>2, <1>4, <2>2, <3>1, <3>2 DEF LiveOK, Running
  <2>7. RunOK(g)'
    BY <1>2, <1>5, <2>6 DEF RunOK, ViewInv
  <2>8. \A h \in Groups : RunOK(h)'
    BY <2>5, <2>7
  <2> QED BY <1>t, <1>2, <2>1, <2>3, <2>4, <2>8 DEF ViewInv
<1>8. CASE s \in alive
  <2> DEFINE f == Frame(g)
  <2>1. /\ registered' = registered /\ f \in AllFrames
        /\ inbox' = [inbox EXCEPT ![s] = Append(inbox[s], f)]
    BY <1>6, <1>8 DEF SendTo, AllFrames
  <2>2. f.kind # "attached" /\ f.group = g /\ f # Attached
    BY <1>6, FrameGroup
  <2> HIDE DEF f
  <2>3. /\ inbox' \in [Sockets -> Seq(AllFrames)]
        /\ \A r \in Sockets : r # s => \A h : View(r, h)' = View(r, h)
        /\ \A h : View(s, h)' = IF h = g THEN Append(View(s, g), f) ELSE View(s, h)
    <3>1. /\ inbox' \in [Sockets -> Seq(AllFrames)]
          /\ \A r \in Sockets : r # s => \A h : View(r, h)' = View(r, h)
          /\ \A h : View(s, h)' = IF f.kind # "attached" /\ f.group = h
                                  THEN Append(View(s, h), f) ELSE View(s, h)
      BY <1>t, <2>1, ViewGrows
    <3> QED BY <2>2, <3>1
  <2>4. SameChannel(s, g) /\ socket[s] = "open"
    BY <1>1, <1>2, <1>8 DEF AtFrame, ViewInv, SocketOK
  <2>5. ASSUME NEW r \in Sockets PROVE SocketOK(r)'
    <3>1. SocketOK(r)
      BY DEF ViewInv
    <3>2. CASE r # s
      <4>1. inbox'[r] = inbox[r]
        BY <1>t, <2>1, <3>2
      <4> QED BY <1>2, <2>1, <3>1, <4>1 DEF SocketOK
    <3>3. CASE r = s
      <4>1. inbox[s] # << >> /\ inbox[s] \in Seq(AllFrames) /\ inbox'[s] = Append(inbox[s], f)
        BY <1>t, <1>8, <2>1, <2>4, <3>1, <3>3 DEF SocketOK
      <4>2. PICK l \in Nat \ {0} : l = Len(inbox[s])
        BY <4>1, EmptySeq
      <4>3. /\ DOMAIN inbox'[s] = 1 .. l + 1 /\ DOMAIN inbox[s] = 1 .. l
            /\ inbox'[s][l + 1] = f /\ \A i \in 1 .. l : inbox'[s][i] = inbox[s][i]
        <5> DEFINE W == AllFrames
                   q == inbox[s]
        <5>1. q \in Seq(W) /\ f \in W /\ l = Len(q)
          BY <2>1, <4>1, <4>2
        <5> HIDE DEF W, q
        <5>2. /\ DOMAIN Append(q, f) = 1 .. l + 1 /\ DOMAIN q = 1 .. l
              /\ Append(q, f)[l + 1] = f /\ \A i \in 1 .. l : Append(q, f)[i] = q[i]
          BY <5>1
        <5> QED BY <4>1, <5>2 DEF q
      <4>4. \A i \in DOMAIN inbox'[s] : inbox'[s][i] = Attached <=> i = 1
        <5>1. \A i \in 1 .. l : inbox[s][i] = Attached <=> i = 1
          BY <3>1, <3>3, <4>3 DEF SocketOK
        <5>2. \A i \in 1 .. l + 1 : i \in 1 .. l \/ (i = l + 1 /\ i # 1)
          OBVIOUS
        <5> QED BY <2>2, <4>3, <5>1, <5>2
      <4>5. inbox'[s] # << >>
        BY <4>3
      <4> QED BY <1>2, <1>8, <2>1, <2>4, <3>1, <3>3, <4>4, <4>5 DEF SocketOK
    <3> QED BY <3>2, <3>3
  <2>6. ASSUME NEW r \in alive PROVE LiveOK(r, g, k, c)'
    <3>1. r \in Sockets /\ LiveOK(r, g, k, c)
      BY <1>t, <1>1, <2>6
    <3>2. CASE r # s
      <4>1. View(r, g)' = View(r, g)
        BY <2>3, <3>1, <3>2
      <4>2. \A a, m : Shows(r, g, k, a, m)' <=> Shows(r, g, k, a, m)
        BY <1>2, <4>1 DEF Shows
      <4> QED BY <1>2, <1>4, <3>1, <3>2, <4>1, <4>2 DEF LiveOK, Running
    <3>3. CASE r = s /\ View(s, g) = << >>
      <4>1. View(s, g)' = <<f>>
        BY <2>3, <3>3
      <4>2. <<f>> = Piece(g, k, n, c, 1)
        BY <1>6 DEF Piece, f
      <4>3. Shows(s, g, k, c, 1)'
        BY <1>2, <1>6, <1>n, <4>1, <4>2 DEF Shows
      <4>4. c + 1 = IF task'[g].sending /\ s \notin task'[g].to THEN c + 1 ELSE c
        BY <1>4
      <4> QED BY <3>3, <4>3, <4>4 DEF LiveOK
    <3>4. CASE r = s /\ View(s, g) # << >>
      <4>1. PICK a \in Nat, m \in Nat : Shows(s, g, k, a, m) /\ a + m = c
        BY <1>2, <3>1, <3>4 DEF LiveOK
      <4>2. /\ k - 1 <= a /\ 1 <= m /\ a + m + 1 <= n + 2
            /\ View(s, g) = Piece(g, k, n, a, m)
        BY <1>6, <1>n, <4>1 DEF Shows
      <4>3. View(s, g)' = Piece(g, k, n, a, m + 1)
        <5>1. f = RunAt(g, k, n, a + m)
          BY <1>6, <4>1 DEF f
        <5>2. 1 <= k /\ k <= n /\ k - 1 <= a /\ a + m + 1 <= n + 2
          BY <1>6, <4>2
        <5>3. Append(Piece(g, k, n, a, m), RunAt(g, k, n, a + m)) = Piece(g, k, n, a, m + 1)
          BY <5>2, PieceAppend
        <5> QED BY <2>3, <4>2, <5>1, <5>3
      <4>4. m + 1 \in Nat /\ 1 <= m + 1 /\ a + (m + 1) <= n + 2 /\ a + (m + 1) = c + 1
        BY <4>1, <4>2
      <4>5. Shows(s, g, k, a, m + 1)'
        BY <1>2, <1>6, <1>n, <4>2, <4>3, <4>4 DEF Shows
      <4>6. a + (m + 1) = IF task'[g].sending /\ s \notin task'[g].to THEN c + 1 ELSE c
        BY <1>4, <4>4
      <4> QED BY <3>4, <4>4, <4>5, <4>6 DEF LiveOK
    <3> QED BY <3>2, <3>3, <3>4
  <2>7. ASSUME NEW r \in Sockets, NEW h \in Groups PROVE ViewOK(r, h)'
    <3>1. ViewOK(r, h)
      BY DEF ViewInv
    <3>2. CASE r # s \/ h # g
      <4>1. View(r, h)' = View(r, h)
        BY <2>3, <3>2
      <4> QED BY <1>2, <3>1, <4>1, ViewKept
    <3>3. CASE r = s /\ h = g
      <4>1. View(s, g)' # << >> => \E a, m \in Nat : Shows(s, g, k, a, m)'
        BY <1>8, <2>6 DEF LiveOK
      <4>2. SameChannel(s, g)'
        BY <2>4 DEF SameChannel
      <4> QED BY <3>3, <4>1, <4>2 DEF ViewOK
    <3> QED BY <3>2, <3>3
  <2>8. ASSUME NEW h \in Groups, h # g PROVE RunOK(h)'
    <3>1. RunOK(h) /\ \A r \in alive : View(r, h)' = View(r, h)
      BY <1>t, <2>3, <2>8 DEF ViewInv
    <3> QED BY <1>2, <1>3, <2>8, <3>1, RunKept
  <2>9. RunOK(g)'
    BY <1>2, <1>5, <2>6 DEF RunOK, ViewInv
  <2>10. \A h \in Groups : RunOK(h)'
    BY <2>8, <2>9
  <2> QED BY <1>t, <1>2, <2>3, <2>5, <2>7, <2>10 DEF ViewInv
<1> QED BY <1>7, <1>8

\* A frame is done: the next one goes on where it stopped.
LEMMA DoneKeepsViews ==
  ASSUME DeliveryInv, DeliveryInv', ViewInv, NEW g \in Groups, FrameDone(g)
  PROVE  ViewInv'
<1>t. /\ rows \in [Groups -> Seq(RowStatus)] /\ task \in [Groups -> TaskType \cup {NoTask}]
  BY DEF DeliveryInv
<1>1. PICK k \in Nat, c \in Nat : AtFrame(g, k, c) /\ \A r \in alive : LiveOK(r, g, k, c)
  BY DEF ViewInv, RunOK, FrameDone
<1>n. PICK n \in Nat : n = Len(rows[g])
  BY <1>t
<1>2. /\ UNCHANGED <<socket, alive, registered, inbox, up>> /\ Running(g) /\ task[g].sending
      /\ task[g].to = {} /\ task'[g] = Advance(g)
      /\ \A h \in Groups : h # g => task'[h] = task[h] /\ rows'[h] = rows[h]
  BY <1>t DEF FrameDone
<1>3. /\ 1 <= k /\ k <= n /\ k - 1 <= c /\ c <= n + 1 /\ rows[g] # << >>
      /\ c = n + 1 => Advance(g) = NoTask
      /\ c # n + 1 => Advance(g) = Start(Piece(g, k, n, c + 1, n + 1 - c))
  BY <1>1, <1>2, <1>n, AtFrameFacts
<1>4. Len(rows'[g]) = n /\ rows'[g] # << >>
  <2>1. CASE rows' = rows
    BY <1>n, <1>3, <2>1
  <2>2. CASE rows' = [rows EXCEPT ![g][Frame(g).position] = "delivered"]
    <3>1. rows'[g] = [rows[g] EXCEPT ![Frame(g).position] = "delivered"]
      BY <1>t, <2>2
    <3>d. rows[g] \in Seq(RowStatus) /\ DOMAIN rows[g] = 1 .. n
      BY <1>t, <1>n
    <3>2. DOMAIN rows'[g] = 1 .. n /\ rows'[g] \in Seq(RowStatus)
      BY <3>1, <3>d DEF DeliveryInv
    <3>3. Len(rows'[g]) = n
      BY <1>n, <3>2
    <3> QED BY <1>3, <3>3
  <2> QED BY <2>1, <2>2 DEF FrameDone
<1>5. \A s : View(s, g)' = View(s, g)
  BY <1>2, ViewSame
<1>6. \A s, a, m : Shows(s, g, k, a, m)' <=> Shows(s, g, k, a, m)
  BY <1>n, <1>4, <1>5 DEF Shows
<1>7. CASE c = n + 1
  <2>1. ~ Running(g)'
    BY <1>2, <1>3, <1>7 DEF Running
  <2>2. AtFrame(g, k, c)'
    BY <1>3, <1>4, <2>1 DEF AtFrame
  <2>3. \A s \in alive : LiveOK(s, g, k, c)'
    BY <1>1, <1>5, <1>6, <2>1 DEF LiveOK
  <2>4. RunOK(g)'
    BY <1>2, <2>1, <2>2, <2>3 DEF RunOK
  <2> QED BY <1>t, <1>n, <1>2, <1>4, <2>4, TaskKeepsViews
<1>8. CASE c # n + 1
  <2> DEFINE p == Piece(g, k, n, c + 1, n + 1 - c)
  <2>1. /\ task'[g].todo = p /\ task'[g].sending = FALSE /\ task'[g].to = {}
        /\ p = Piece(g, k, n, c + 1, n + 2 - (c + 1))
    <3>1. n + 2 - (c + 1) = n + 1 - c
      BY <1>3
    <3> HIDE DEF p
    <3>2. task'[g] = Start(p)
      BY <1>2, <1>3, <1>8 DEF p
    <3>3. task'[g].todo = p /\ task'[g].sending = FALSE /\ task'[g].to = {}
      BY <3>2 DEF Start
    <3> QED BY <3>1, <3>3 DEF p
  <2> HIDE DEF p
  <2>2. AtFrame(g, k, c + 1)'
    BY <1>3, <1>4, <1>8, <2>1 DEF AtFrame
  <2>3. ASSUME NEW s \in alive PROVE LiveOK(s, g, k, c + 1)'
    <3>1. LiveOK(s, g, k, c)
      BY <1>1
    <3>2. View(s, g) # << >> => \E a, m \in Nat : Shows(s, g, k, a, m) /\ a + m = c + 1
      BY <1>2, <3>1 DEF LiveOK
    <3> QED BY <1>5, <1>6, <2>1, <3>2 DEF LiveOK
  <2>4. RunOK(g)'
    BY <1>2, <1>3, <1>4, <2>2, <2>3 DEF RunOK, ViewInv
  <2> QED BY <1>t, <1>n, <1>2, <1>4, <2>4, TaskKeepsViews
<1> QED BY <1>7, <1>8

\* The task dies: nothing more is sent.
LEMMA RaiseKeepsViews ==
  ASSUME DeliveryInv, ViewInv, NEW g \in Groups, CommitRaises(g)
  PROVE  ViewInv'
<1>t. /\ rows \in [Groups -> Seq(RowStatus)] /\ task \in [Groups -> TaskType \cup {NoTask}]
  BY DEF DeliveryInv
<1>1. PICK k \in Nat, c \in Nat : AtFrame(g, k, c) /\ \A r \in alive : LiveOK(r, g, k, c)
  BY DEF ViewInv, RunOK, CommitRaises
<1>2. /\ UNCHANGED <<rows, socket, alive, registered, inbox, up>> /\ task'[g] = NoTask
      /\ \A h \in Groups : h # g => task'[h] = task[h]
  BY <1>t DEF CommitRaises
<1>3. ~ Running(g)' /\ \A s : View(s, g)' = View(s, g)
  BY <1>2, ViewSame DEF Running
<1>4. AtFrame(g, k, c)'
  BY <1>1, <1>2, <1>3 DEF AtFrame
<1>5. \A s, a, m : Shows(s, g, k, a, m)' <=> Shows(s, g, k, a, m)
  BY <1>2, <1>3 DEF Shows
<1>6. \A s \in alive : LiveOK(s, g, k, c)'
  BY <1>1, <1>3, <1>5 DEF LiveOK
<1>7. RunOK(g)'
  BY <1>2, <1>3, <1>4, <1>6 DEF RunOK
<1> QED BY <1>t, <1>2, <1>7, TaskKeepsViews

\* The process is killed: the views are what they are, and nobody is there.
LEMMA CrashKeepsViews ==
  ASSUME DeliveryInv, ViewInv, Crash
  PROVE  ViewInv'
<1>1. /\ UNCHANGED <<rows, inbox>> /\ alive' = {} /\ registered' = {}
      /\ task' = [g \in Groups |-> NoTask]
      /\ socket' = [s \in Sockets |-> IF socket[s] = "new" THEN "new" ELSE "closed"]
  BY DEF Crash
<1>2. \A s \in Sockets : SocketOK(s)'
  BY <1>1 DEF ViewInv, SocketOK
<1>3. \A s \in Sockets, g \in Groups : ViewOK(s, g)'
  BY <1>1, ViewSame, ViewKept DEF ViewInv
<1>4. ASSUME NEW g \in Groups PROVE RunOK(g)'
  <2>1. ~ Running(g)'
    BY <1>1 DEF Running
  <2>2. ASSUME rows[g] # << >> PROVE \E k, c \in Nat : AtFrame(g, k, c)'
    <3>1. PICK k \in Nat, c \in Nat : AtFrame(g, k, c)
      BY <2>2 DEF ViewInv, RunOK
    <3>2. AtFrame(g, k, c)'
      BY <1>1, <2>1, <3>1 DEF AtFrame
    <3> QED BY <3>2
  <2> QED BY <1>1, <2>1, <2>2 DEF RunOK
<1>5. socket' \in [Sockets -> SocketStates] /\ inbox' \in [Sockets -> Seq(AllFrames)]
  BY <1>1 DEF ViewInv, SocketStates
<1> QED BY <1>1, <1>2, <1>3, <1>4, <1>5 DEF ViewInv

\* recover() starts a run over what is scheduled, while nobody is there.
LEMMA RecoverKeepsViews ==
  ASSUME DeliveryInv, ViewInv, Recover
  PROVE  ViewInv'
<1>1. /\ UNCHANGED <<rows, socket, alive, registered, inbox>> /\ ~ up /\ up'
      /\ \A g \in Groups : task'[g] = IF ToRecover(g) = << >> THEN NoTask
                                                          ELSE Start(Frames(g, ToRecover(g)))
  BY DEF Recover
<1>2. alive = {}
  <2>1. \A s \in alive : s \in Sockets /\ SocketOK(s)
    BY DEF ViewInv
  <2> QED BY <1>1, <2>1 DEF SocketOK
<1>3. \A s \in Sockets : SocketOK(s)'
  BY <1>1, <1>2 DEF ViewInv, SocketOK
<1>4. \A s \in Sockets, g \in Groups : ViewOK(s, g)'
  BY <1>1, ViewSame, ViewKept DEF ViewInv
<1>5. ASSUME NEW g \in Groups PROVE RunOK(g)'
  <2>t. rows[g] \in Seq(RowStatus)
    BY DEF DeliveryInv
  <2>1. PICK k \in Nat : Prefix(g, k)
    BY DEF DeliveryInv, GroupInv
  <2>n. PICK n \in Nat : n = Len(rows[g]) /\ 1 <= k /\ k <= n + 1
    BY <2>1, <2>t DEF Prefix
  <2>2. ToRecover(g) = FromTo(k, n) /\ (ToRecover(g) = << >> <=> k = n + 1)
    BY <2>1, <2>t, <2>n, RecoverFacts
  <2>3. CASE k = n + 1
    <3>1. ~ Running(g)'
      BY <1>1, <2>2, <2>3 DEF Running
    <3>2. rows[g] # << >> => AtFrame(g, 1, 0)'
      <4> SUFFICES ASSUME rows[g] # << >> PROVE AtFrame(g, 1, 0)'
        OBVIOUS
      <4>1. 1 <= Len(rows'[g])
        BY <1>1, <2>t, <2>n
      <4> QED BY <3>1, <4>1 DEF AtFrame
    <3> QED BY <1>1, <1>2, <3>1, <3>2 DEF RunOK
  <2>4. CASE k <= n
    <3> DEFINE f == Frames(g, FromTo(k, n))
    <3>1. f = Piece(g, k, n, k - 1, n + 3 - k) /\ n + 3 - k = n + 2 - (k - 1)
      BY <2>n, <2>4, PieceWhole
    <3>2. task'[g] = Start(f)
      BY <1>1, <2>2, <2>4, <2>n
    <3> HIDE DEF f
    <3>3. task'[g].todo = f /\ task'[g].to = {}
      BY <3>2 DEF Start
    <3>4. k - 1 \in Nat /\ k - 1 <= n + 1
      BY <2>n
    <3>5. AtFrame(g, k, k - 1)'
      BY <1>1, <2>n, <2>4, <3>1, <3>3, <3>4 DEF AtFrame
    <3>6. rows[g] # << >>
      BY <2>n, <2>4
    <3> QED BY <1>1, <1>2, <3>4, <3>5, <3>6 DEF RunOK
  <2> QED BY <2>n, <2>3, <2>4
<1> QED BY <1>1, <1>3, <1>4, <1>5 DEF ViewInv

\* Every step keeps the views right.
LEMMA ViewStepInv == DeliveryInv /\ DeliveryInv' /\ ViewInv /\ [Next]_vars => ViewInv'
<1> SUFFICES ASSUME DeliveryInv, DeliveryInv', ViewInv, [Next]_vars PROVE ViewInv'
  OBVIOUS
<1>1. CASE UNCHANGED vars
  <2>1. UNCHANGED <<rows, task, socket, alive, registered, inbox, up>>
    BY <1>1 DEF vars
  <2>2. \A s \in Sockets : SocketOK(s)'
    BY <2>1 DEF ViewInv, SocketOK
  <2>3. \A s : \A g : View(s, g)' = View(s, g)
    BY <2>1, ViewSame
  <2>4. \A s \in Sockets, g \in Groups : ViewOK(s, g)'
    BY <2>1, <2>3, ViewKept DEF ViewInv
  <2>5. \A g \in Groups : RunOK(g)'
    BY <2>1, <2>3, RunKept DEF ViewInv
  <2> QED BY <2>1, <2>2, <2>4, <2>5 DEF ViewInv
<1> QED BY <1>1, HandlerKeepsViews, AttachKeepsViews, ScheduleKeepsViews, BroadcastKeepsViews,
           SendKeepsViews, DoneKeepsViews, RaiseKeepsViews, CrashKeepsViews, RecoverKeepsViews
        DEF Next, TaskStep

\* What every client sees fits the runs, in every state.
THEOREM ViewInvariance == Spec => []ViewInv
<1>1. Init => ViewInv
  BY ViewInitInv
<1>2. DeliveryInv /\ DeliveryInv' /\ ViewInv /\ [Next]_vars => ViewInv'
  BY ViewStepInv
<1> QED BY <1>1, <1>2, DeliveryInvariance, PTL DEF Spec

\* Every client sees, of each reply in its channel, an uninterrupted piece of
\* one run of its sequence, and nothing of the replies of other channels.
THEOREM EveryViewIsASegment == Spec => []ViewsAreSegments
<1>1. DeliveryInv /\ ViewInv => ViewsAreSegments
  <2> SUFFICES ASSUME DeliveryInv, ViewInv, NEW s \in Sockets, NEW g \in Groups
               PROVE  /\ \A i \in DOMAIN inbox[s] : inbox[s][i] = Attached <=> i = 1
                      /\ IF ChannelOf[s] = ChannelOf[g] /\ rows[g] # << >>
                         THEN \E k \in 1 .. Len(rows[g]) :
                                Segment(View(s, g), Frames(g, FromTo(k, Len(rows[g]))))
                         ELSE View(s, g) = << >>
    BY DEF ViewsAreSegments, ViewInv, SocketOK
  <2>1. \A i \in DOMAIN inbox[s] : inbox[s][i] = Attached <=> i = 1
    BY DEF ViewInv, SocketOK
  <2>n. PICK n \in Nat : n = Len(rows[g]) /\ (rows[g] # << >> => 1 <= n)
    BY EmptySeq DEF DeliveryInv
  <2>2. ViewOK(s, g)
    BY DEF ViewInv
  <2>3. CASE View(s, g) # << >>
    <3>1. PICK k \in Nat, a \in Nat, m \in Nat : Shows(s, g, k, a, m)
      BY <2>2, <2>3 DEF ViewOK
    <3>2. Segment(Piece(g, k, n, a, m), Frames(g, FromTo(k, n)))
      BY <2>n, <3>1, PieceSegment DEF Shows
    <3>3. /\ k \in 1 .. Len(rows[g]) /\ rows[g] # << >> /\ ChannelOf[s] = ChannelOf[g]
          /\ View(s, g) = Piece(g, k, n, a, m)
      BY <2>n, <2>2, <2>3, <3>1 DEF Shows, ViewOK, SameChannel
    <3> QED BY <2>1, <2>n, <3>2, <3>3
  <2>4. CASE View(s, g) = << >>
    <3>1. ASSUME rows[g] # << >> PROVE Segment(<< >>, Frames(g, FromTo(1, n)))
      <4>1. Piece(g, 1, n, 0, 0) = << >>
        BY DEF Piece
      <4>2. Segment(Piece(g, 1, n, 0, 0), Frames(g, FromTo(1, n)))
        BY <2>n, <3>1, PieceSegment
      <4> QED BY <4>1, <4>2
    <3>2. rows[g] # << >> => 1 \in 1 .. Len(rows[g])
      BY <2>n
    <3> QED BY <2>1, <2>n, <2>4, <3>1, <3>2
  <2> QED BY <2>3, <2>4
<1> QED BY <1>1, DeliveryInvariance, ViewInvariance, PTL

\* A client that saw typing go on and is still there has every frame the task
\* has sent, and with what the task has left the whole of its run.
THEOREM NothingIsMissed == Spec => []NothingMissed
<1>1. DeliveryInv /\ ViewInv => NothingMissed
  <2> SUFFICES ASSUME DeliveryInv, ViewInv, NEW s \in Sockets, NEW g \in Groups,
                      s \in alive, View(s, g) # << >>, Running(g), ~ task[g].sending,
                      Head(View(s, g)) = Typing(g, TRUE)
               PROVE  View(s, g) \o task[g].todo \in
                        {Frames(g, FromTo(k, Len(rows[g]))) : k \in DOMAIN rows[g]}
    BY DEF NothingMissed
  <2>n. PICK n \in Nat : n = Len(rows[g]) /\ DOMAIN rows[g] = 1 .. n
    BY DEF DeliveryInv
  <2>1. PICK k \in Nat, c \in Nat : AtFrame(g, k, c) /\ LiveOK(s, g, k, c)
    BY DEF ViewInv, RunOK
  <2>2. PICK a \in Nat, m \in Nat : Shows(s, g, k, a, m) /\ a + m = c
    BY <2>1 DEF LiveOK
  <2>3. /\ 1 <= k /\ k <= n /\ k - 1 <= a /\ 1 <= m /\ a + m <= n + 2
        /\ View(s, g) = Piece(g, k, n, a, m)
        /\ c <= n + 1 /\ task[g].todo = Piece(g, k, n, c, n + 2 - c)
    BY <2>1, <2>2, <2>n DEF Shows, AtFrame
  <2>4. Head(View(s, g)) = RunAt(g, k, n, a)
    <3>1. m # 0
      BY <2>3
    <3>2. Head(Piece(g, k, n, a, m)) = RunAt(g, k, n, a)
      BY <2>3, <3>1, PieceHead
    <3> QED BY <2>3, <3>2
  <2>5. a = k - 1
    <3>1. a \in k - 1 .. n + 1
      BY <2>3
    <3>2. RunAt(g, k, n, a) = On(g)
      BY <2>4 DEF On
    <3>3. RunAt(g, k, n, a) = On(g) <=> a = k - 1
      BY <2>3, <3>1, RunAtFacts
    <3> QED BY <3>2, <3>3
  <2>6. PICK l \in Nat : l = n + 2 - c
    BY <2>2, <2>3
  <2>7. Piece(g, k, n, a, m) \o Piece(g, k, n, c, l) = Piece(g, k, n, a, m + l)
    <3>1. c <= a + m /\ a + m <= c /\ c + l <= n + 2
      BY <2>2, <2>6
    <3>2. 1 <= k /\ k <= n /\ k - 1 <= a
      BY <2>3
    <3>3. Joins(g, k, n, a, m, c, l)
      BY <3>1, <3>2, PieceConcat
    <3> QED BY <3>3 DEF Joins
  <2>8. m + l = n + 3 - k
    BY <2>2, <2>5, <2>6
  <2>9. Frames(g, FromTo(k, n)) = Piece(g, k, n, k - 1, n + 3 - k)
    BY <2>3, PieceWhole
  <2>10. View(s, g) \o task[g].todo = Frames(g, FromTo(k, n))
    BY <2>2, <2>3, <2>5, <2>6, <2>7, <2>8, <2>9
  <2>11. k \in DOMAIN rows[g]
    BY <2>n, <2>3
  <2> QED BY <2>n, <2>10, <2>11
<1> QED BY <1>1, DeliveryInvariance, ViewInvariance, PTL
=============================================================================
