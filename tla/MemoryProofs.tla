---------------------------- MODULE MemoryProofs ----------------------------
(***************************************************************************)
(* Proofs about Memory and Recall: sequence numbers are dense, a key has   *)
(* one answer and its body is stored once, a fact contradicts the newest   *)
(* earlier one about its subject, and what is recalled is the best.        *)
(*                                                                         *)
(* The invariant says what the window between the two commits means: the   *)
(* key of the handler in it has no record yet, and its batch is the last   *)
(* one appended.                                                           *)
(***************************************************************************)
EXTENDS Recall, FiniteSetTheorems, SequenceTheorems, Induction, TLAPS

\* A batch in the history, and a row of memory_messages.
Batch == [owner : Owners, key : Keys \cup {NoKey}, broken : BOOLEAN]
Row == [owner : Owners, scope : Scopes, seq : Nat, message : Messages]

\* The handler between its commits answers for the last batch.
WindowOK ==
  handler # Idle =>
    /\ records[<<handler.owner, handler.key>>] = NoRecord
    /\ Len(appends) > 0
    /\ appends[Len(appends)].owner = handler.owner
    /\ appends[Len(appends)].key = handler.key
    /\ ~ appends[Len(appends)].broken

\* An answer is the record.
AnswersOK ==
  \A o \in Owners, k \in Keys :
    answers[<<o, k>>] \subseteq (IF records[<<o, k>>] = NoRecord THEN {} ELSE {records[<<o, k>>]})

\* A batch under a key that was not broken off has its record, or is the
\* one of the handler at work.
AppendsOK ==
  \A i \in DOMAIN appends :
    appends[i].key \in Keys /\ ~ appends[i].broken =>
      \/ records[<<appends[i].owner, appends[i].key>>] # NoRecord
      \/ handler # Idle /\ i = Len(appends)

\* Two batches under one key are the same one, if neither was broken off.
UniqueOK ==
  \A i, j \in DOMAIN appends :
    /\ appends[i].key \in Keys /\ appends[j].key = appends[i].key
    /\ appends[j].owner = appends[i].owner
    /\ ~ appends[i].broken /\ ~ appends[j].broken
    => i = j

KeysInv ==
  /\ MemoryTypeOK /\ WindowOK /\ AnswersOK /\ AppendsOK /\ UniqueOK

-----------------------------------------------------------------------------
\* NoRecord is not a response, Idle is not a handler at work.
LEMMA Markers ==
  /\ \A n \in Nat : n # NoRecord
  /\ \A h \in [owner : Owners, key : Keys, size : Nat] : h # Idle
<1>1. \A n \in Nat : n # NoRecord
  BY DEF NoRecord
<1>2. ASSUME NEW h \in [owner : Owners, key : Keys, size : Nat] PROVE h # Idle
  <2>1. "size" \in DOMAIN h
    OBVIOUS
  <2>2. "size" \notin DOMAIN Idle
    BY DEF Idle
  <2> QED BY <2>1, <2>2
<1> QED BY <1>1, <1>2

\* What an element of a sequence is.
LEMMA Elements ==
  ASSUME NEW S, NEW q \in Seq(S)
  PROVE  /\ Len(q) \in Nat /\ DOMAIN q = 1 .. Len(q)
         /\ \A i \in DOMAIN q : q[i] \in S
OBVIOUS

\* What a row appended to a sequence leaves alone.
LEMMA Appended ==
  ASSUME NEW S, NEW q \in Seq(S), NEW x \in S, NEW r, r = Append(q, x)
  PROVE  /\ r \in Seq(S) /\ Len(q) \in Nat /\ Len(r) = Len(q) + 1
         /\ r[Len(r)] = x
         /\ \A i \in DOMAIN r : i # Len(r) => i \in DOMAIN q /\ r[i] = q[i]
OBVIOUS

-----------------------------------------------------------------------------
(* The sequence numbers.                                                    *)

\* The rows of a scope before the i-th of the table.
Before(rows, o, s, i) == {j \in InScope(rows, o, s) : j < i}

\* A scope without rows, or with a last one.  This is what makes the maximum
\* of the numbers in NextSeq exist, without an induction over the table.
LastOK(rows) ==
  \A o \in Owners, s \in Scopes :
    \/ InScope(rows, o, s) = {}
    \/ \E m \in InScope(rows, o, s) : \A i \in InScope(rows, o, s) : i <= m

\* DenseSequence of any table.
Dense(rows) ==
  \A i \in DOMAIN rows : rows[i].seq = Cardinality(Before(rows, rows[i].owner, rows[i].scope, i))

\* The rows of a scope can be counted.
LEMMA ScopeFinite ==
  ASSUME NEW rows \in Seq(Row), NEW o, NEW s
  PROVE  /\ IsFiniteSet(InScope(rows, o, s)) /\ Cardinality(InScope(rows, o, s)) \in Nat
         /\ InScope(rows, o, s) \subseteq 1 .. Len(rows)
         /\ \A i \in Nat : IsFiniteSet(Before(rows, o, s, i))
<1>1. DOMAIN rows = 1 .. Len(rows) /\ Len(rows) \in Nat
  BY Elements
<1>2. InScope(rows, o, s) \subseteq 1 .. Len(rows)
  BY <1>1 DEF InScope
<1>3. IsFiniteSet(1 .. Len(rows))
  BY <1>1, FS_Interval
<1>4. IsFiniteSet(InScope(rows, o, s))
  BY <1>2, <1>3, FS_Subset
<1>5. ASSUME NEW i \in Nat PROVE IsFiniteSet(Before(rows, o, s, i))
  BY <1>4, FS_Subset DEF Before
<1> QED BY <1>2, <1>4, <1>5, FS_CardinalityType

\* coalesce(max(seq), -1) + 1 is the number of rows of the scope.
LEMMA MaxIsCount ==
  ASSUME NEW rows \in Seq(Row), Dense(rows), LastOK(rows), NEW o \in Owners, NEW s \in Scopes
  PROVE  Newest({rows[i].seq : i \in InScope(rows, o, s)}) + 1 = Cardinality(InScope(rows, o, s))
<1> DEFINE C == InScope(rows, o, s)
           Q == {rows[i].seq : i \in C}
<1>1. IsFiniteSet(C) /\ Cardinality(C) \in Nat /\ C \subseteq 1 .. Len(rows) /\ Len(rows) \in Nat
  BY ScopeFinite, Elements
<1>2. \A i \in C : rows[i].owner = o /\ rows[i].scope = s /\ i \in DOMAIN rows
  BY DEF InScope
<1>3. \A i \in C : rows[i].seq = Cardinality(Before(rows, o, s, i))
  BY <1>2 DEF Dense
<1>4. CASE C = {}
  <2>1. Q = {} /\ Cardinality(C) = 0
    BY <1>4, FS_EmptySet
  <2> QED BY <2>1 DEF Newest
<1>5. CASE C # {}
  <2>1. PICK m \in C : \A i \in C : i <= m
    BY <1>5 DEF LastOK
  <2>2. Before(rows, o, s, m) = C \ {m}
    BY <2>1, <1>1 DEF Before
  <2>3. rows[m].seq = Cardinality(C) - 1
    BY <2>1, <2>2, <1>1, <1>3, FS_RemoveElement
  <2>4. ASSUME NEW i \in C PROVE rows[i].seq <= Cardinality(C) - 1
    <3>1. Before(rows, o, s, i) \subseteq C \ {i}
      BY <1>1 DEF Before
    <3>2. Cardinality(C \ {i}) = Cardinality(C) - 1 /\ IsFiniteSet(C \ {i})
      BY <1>1, FS_RemoveElement
    <3>3. Cardinality(Before(rows, o, s, i)) <= Cardinality(C) - 1
      BY <3>1, <3>2, FS_Subset
    <3> QED BY <3>3, <1>3
  <2>5. Cardinality(C) - 1 \in Q /\ Q # {}
    BY <2>1, <2>3
  <2>6. \A q \in Q : q <= Cardinality(C) - 1
    BY <2>4
  <2>7. \A q \in Q : q \in Int
    <3>1. \A i \in C : rows[i] \in Row
      BY <1>2, Elements
    <3> QED BY <3>1 DEF Row
  <2> HIDE DEF Q
  <2>8. (CHOOSE n \in Q : \A q \in Q : q <= n) = Cardinality(C) - 1
    <3>1. \A n \in Q : (\A q \in Q : q <= n) => n = Cardinality(C) - 1
      BY <2>5, <2>6, <2>7, <1>1
    <3> QED BY <3>1, <2>5, <2>6
  <2>9. Newest(Q) = Cardinality(C) - 1
    BY <2>5, <2>8 DEF Newest
  <2> QED BY <2>9, <1>1 DEF Q
<1> QED BY <1>4, <1>5

\* What the first commit does to memory_messages: the rows are in the scope,
\* numbered from the number of rows it had.
LEMMA BatchRows ==
  ASSUME NEW o \in Owners, NEW s \in Scopes, NEW b \in Batches,
         messages \in Seq(Row), Dense(messages), LastOK(messages),
         NEW rows, rows = WithMessages(o, s, b)
  PROVE  /\ rows \in Seq(Row) /\ Len(rows) = Len(messages) + Len(b)
         /\ Len(messages) \in Nat /\ Len(b) \in Nat \ {0}
         /\ \A i \in 1 .. Len(messages) : rows[i] = messages[i]
         /\ \A i \in Len(messages) + 1 .. Len(rows) :
              /\ rows[i].owner = o /\ rows[i].scope = s
              /\ rows[i].seq = Cardinality(InScope(messages, o, s)) + i - Len(messages) - 1
<1> DEFINE start == NextSeq(o, s)
           new == [i \in DOMAIN b |->
                     [owner |-> o, scope |-> s, seq |-> start + i - 1, message |-> b[i]]]
<1>1. start = Cardinality(InScope(messages, o, s)) /\ start \in Nat
  BY MaxIsCount, ScopeFinite DEF NextSeq
<1>2. b \in Seq(Messages) /\ b # << >>
  BY MemoryAssumption
<1>3. Len(b) \in Nat \ {0} /\ DOMAIN b = 1 .. Len(b) /\ \A i \in DOMAIN b : b[i] \in Messages
  BY <1>2, EmptySeq, Elements
<1> HIDE DEF start
<1>4. \A i \in 1 .. Len(b) :
        [owner |-> o, scope |-> s, seq |-> start + i - 1, message |-> b[i]] \in Row
  BY <1>1, <1>3 DEF Row
<1>5. new \in Seq(Row) /\ Len(new) = Len(b)
  BY <1>3, <1>4
<1>6. \A i \in 1 .. Len(b) : new[i].owner = o /\ new[i].scope = s /\ new[i].seq = start + i - 1
  BY <1>3
<1>7. rows = messages \o new
  BY DEF WithMessages, start
<1> HIDE DEF new
<1>8. /\ rows \in Seq(Row) /\ Len(rows) = Len(messages) + Len(b)
      /\ \A i \in 1 .. Len(messages) + Len(b) :
           rows[i] = IF i <= Len(messages) THEN messages[i] ELSE new[i - Len(messages)]
  <2>1. /\ messages \o new \in Seq(Row)
        /\ Len(messages \o new) = Len(messages) + Len(new)
        /\ \A i \in 1 .. Len(messages) + Len(new) :
             (messages \o new)[i] =
               IF i <= Len(messages) THEN messages[i] ELSE new[i - Len(messages)]
    <3>1. new \in Seq(Row)
      BY <1>5
    <3> QED BY <3>1, ConcatProperties
  <2> QED BY <2>1, <1>5, <1>7
<1>9. Len(messages) \in Nat
  BY Elements
<1>10. \A i \in 1 .. Len(messages) : rows[i] = messages[i]
  BY <1>3, <1>8, <1>9
<1>11. ASSUME NEW i \in Len(messages) + 1 .. Len(rows)
       PROVE  /\ rows[i].owner = o /\ rows[i].scope = s
              /\ rows[i].seq = start + i - Len(messages) - 1
  <2>1. i - Len(messages) \in 1 .. Len(b) /\ rows[i] = new[i - Len(messages)]
    BY <1>3, <1>8, <1>9
  <2>2. start + (i - Len(messages)) - 1 = start + i - Len(messages) - 1
    BY <1>1, <1>9
  <2> QED BY <2>1, <2>2, <1>6
<1> QED BY <1>1, <1>3, <1>8, <1>9, <1>10, <1>11

\* Hence the numbers stay dense, and the scope has a last row: the last one
\* of the batch.
LEMMA BatchDense ==
  ASSUME NEW o \in Owners, NEW s \in Scopes, NEW b \in Batches,
         messages \in Seq(Row), Dense(messages), LastOK(messages),
         NEW rows, rows = WithMessages(o, s, b)
  PROVE  rows \in Seq(Row) /\ Dense(rows) /\ LastOK(rows)
<1> DEFINE n == Len(messages)
<1>1. /\ rows \in Seq(Row) /\ n \in Nat /\ Len(rows) \in Nat /\ Len(rows) > n
      /\ DOMAIN rows = 1 .. Len(rows) /\ DOMAIN messages = 1 .. n
      /\ \A i \in 1 .. n : rows[i] = messages[i]
      /\ \A i \in n + 1 .. Len(rows) :
           /\ rows[i].owner = o /\ rows[i].scope = s
           /\ rows[i].seq = Cardinality(InScope(messages, o, s)) + i - n - 1
  BY BatchRows, Elements
<1> HIDE DEF n
<1>2. ASSUME NEW p, NEW q PROVE InScope(rows, p, q) \cap (1 .. n) = InScope(messages, p, q)
  <2>1. 1 .. n \subseteq DOMAIN rows /\ 1 .. n = DOMAIN messages
    BY <1>1
  <2>2. ASSUME NEW i \in 1 .. n
        PROVE  i \in InScope(rows, p, q) <=> i \in InScope(messages, p, q)
    BY <2>1, <1>1 DEF InScope
  <2>3. InScope(messages, p, q) \subseteq 1 .. n
    BY <2>1 DEF InScope
  <2> QED BY <2>2, <2>3
<1>3. ASSUME NEW p, NEW q, NEW i \in InScope(rows, p, q)
      PROVE  i \in 1 .. Len(rows) /\ (i > n => p = o /\ q = s)
  <2>1. i \in 1 .. Len(rows) /\ rows[i].owner = p /\ rows[i].scope = q
    BY <1>1 DEF InScope
  <2> QED BY <2>1, <1>1
<1>4. n + 1 .. Len(rows) \subseteq InScope(rows, o, s)
  <2> SUFFICES ASSUME NEW i \in n + 1 .. Len(rows) PROVE i \in InScope(rows, o, s)
    OBVIOUS
  <2>1. i \in DOMAIN rows
    BY <1>1
  <2>2. rows[i].owner = o /\ rows[i].scope = s
    BY <1>1
  <2> QED BY <2>1, <2>2 DEF InScope
<1>5. Dense(rows)
  <2> SUFFICES ASSUME NEW i \in 1 .. Len(rows)
               PROVE  rows[i].seq = Cardinality(Before(rows, rows[i].owner, rows[i].scope, i))
    BY <1>1 DEF Dense
  <2>1. CASE i <= n
    <3>1. \A p, q : Before(rows, p, q, i) = Before(messages, p, q, i)
      BY <2>1, <1>1, <1>2, <1>3 DEF Before, InScope
    <3> QED BY <3>1, <2>1, <1>1 DEF Dense
  <2>2. CASE i > n
    <3> DEFINE C == InScope(messages, o, s)
               D == n + 1 .. i - 1
    <3>1. /\ rows[i].owner = o /\ rows[i].scope = s
          /\ rows[i].seq = Cardinality(C) + i - n - 1
      BY <2>2, <1>1
    <3>2. IsFiniteSet(C) /\ Cardinality(C) \in Nat /\ C \subseteq 1 .. n
      <4> HIDE DEF C
      <4>1. C = InScope(messages, o, s)
        BY DEF C
      <4> QED BY <4>1, ScopeFinite DEF n
    <3>3. IsFiniteSet(D) /\ Cardinality(D) = i - n - 1
      <4>1. n + 1 \in Int /\ i - 1 \in Int
        BY <1>1
      <4>2. /\ IsFiniteSet(D)
            /\ Cardinality(D) = IF n + 1 > i - 1 THEN 0 ELSE (i - 1) - (n + 1) + 1
        BY <4>1, FS_Interval
      <4>3. (IF n + 1 > i - 1 THEN 0 ELSE (i - 1) - (n + 1) + 1) = i - n - 1
        BY <2>2, <1>1
      <4> QED BY <4>2, <4>3
    <3>4. C \cap D = {}
      BY <3>2, <1>1
    <3>5. Before(rows, o, s, i) = C \cup D
      <4>1. C \cup D \subseteq Before(rows, o, s, i)
        BY <2>2, <3>2, <1>1, <1>2, <1>4 DEF Before
      <4>2. Before(rows, o, s, i) \subseteq C \cup D
        BY <1>1, <1>2, <1>3 DEF Before
      <4> QED BY <4>1, <4>2
    <3> HIDE DEF C, D
    <3>6. Cardinality(C \cup D) = Cardinality(C) + Cardinality(D) - Cardinality(C \cap D)
      BY <3>2, <3>3, FS_Union
    <3>7. Cardinality(C \cap D) = 0
      BY <3>4, FS_EmptySet
    <3> QED BY <3>1, <3>2, <3>3, <3>5, <3>6, <3>7, <1>1
  <2> QED BY <2>1, <2>2, <1>1
<1>6. LastOK(rows)
  <2> SUFFICES ASSUME NEW p \in Owners, NEW q \in Scopes
               PROVE  \/ InScope(rows, p, q) = {}
                      \/ \E m \in InScope(rows, p, q) : \A i \in InScope(rows, p, q) : i <= m
    BY DEF LastOK
  <2>1. CASE p = o /\ q = s
    <3>1. Len(rows) \in InScope(rows, p, q)
      BY <2>1, <1>1, <1>4
    <3>2. \A i \in InScope(rows, p, q) : i <= Len(rows)
      BY <1>1, <1>3
    <3> QED BY <3>1, <3>2
  <2>2. CASE ~ (p = o /\ q = s)
    <3>1. InScope(rows, p, q) \subseteq 1 .. n
      BY <2>2, <1>1, <1>3
    <3>2. InScope(rows, p, q) = InScope(messages, p, q)
      BY <3>1, <1>2
    <3> QED BY <3>2 DEF LastOK
  <2> QED BY <2>1, <2>2
<1> QED BY <1>1, <1>5, <1>6

-----------------------------------------------------------------------------
(* The keys.                                                                *)

\* Nothing is stored and no key is known at first.
LEMMA InitKeys == Init => KeysInv
<1> SUFFICES ASSUME Init PROVE KeysInv
  OBVIOUS
<1> USE DEF Init
<1>1. MemoryTypeOK
  BY DEF MemoryTypeOK, NoRecord
<1>2. WindowOK
  BY DEF WindowOK
<1>3. AnswersOK
  BY DEF AnswersOK
<1>4. AppendsOK /\ UniqueOK
  BY DEF AppendsOK, UniqueOK
<1> QED BY <1>1, <1>2, <1>3, <1>4 DEF KeysInv

\* The early return under a key that has a record.
LEMMA ReplayKeys ==
  ASSUME KeysInv, NEW o \in Owners, NEW k \in Keys \cup {NoKey}, NEW b \in Batches,
         Replay(o, k, b)
  PROVE  KeysInv'
<1> USE DEF KeysInv
<1>1. k \in Keys /\ records[<<o, k>>] # NoRecord /\ handler = Idle
  BY DEF Replay
<1>2. answers' = [answers EXCEPT ![<<o, k>>] = @ \cup {records[<<o, k>>]}]
  BY <1>1 DEF Replay, Answer
<1>3. UNCHANGED <<messages, facts, records, handler, appends>>
  BY DEF Replay
<1>4. records[<<o, k>>] \in Nat
  BY <1>1 DEF MemoryTypeOK
<1>5. MemoryTypeOK'
  BY <1>2, <1>3, <1>4, <1>1 DEF MemoryTypeOK
<1>6. AnswersOK'
  BY <1>1, <1>2, <1>3 DEF AnswersOK, MemoryTypeOK
<1>7. (WindowOK /\ AppendsOK /\ UniqueOK)'
  BY <1>3 DEF WindowOK, AppendsOK, UniqueOK
<1> QED BY <1>5, <1>6, <1>7

\* The second commit.
LEMMA RecordKeys == ASSUME KeysInv, Record PROVE KeysInv'
<1> USE DEF KeysInv
<1>1. PICK o \in Owners, k \in Keys, n \in Nat :
        handler = [owner |-> o, key |-> k, size |-> n]
  BY DEF Record, MemoryTypeOK
<1>2. /\ handler # Idle
      /\ records[<<o, k>>] = NoRecord
  BY <1>1 DEF Record, WindowOK
<1>3. records' = [records EXCEPT ![<<o, k>>] = n]
  BY <1>1, <1>2 DEF Record
<1>4. k # NoKey
  BY MemoryAssumption
<1>5. answers' = [answers EXCEPT ![<<o, k>>] = @ \cup {n}]
  BY <1>1, <1>4 DEF Record, Answer
<1>6. handler' = Idle /\ UNCHANGED <<messages, facts, appends>>
  BY DEF Record
<1>7. n # NoRecord
  BY Markers
<1>8. MemoryTypeOK'
  BY <1>3, <1>5, <1>6 DEF MemoryTypeOK
<1>9. WindowOK'
  BY <1>6 DEF WindowOK
<1>10. AnswersOK'
  BY <1>2, <1>3, <1>5, <1>7 DEF AnswersOK, MemoryTypeOK
<1>11. AppendsOK'
  <2> SUFFICES ASSUME NEW i \in DOMAIN appends, appends[i].key \in Keys, ~ appends[i].broken
               PROVE  records'[<<appends[i].owner, appends[i].key>>] # NoRecord
    BY <1>6 DEF AppendsOK
  <2>1. appends[i].owner \in Owners
    <3>1. appends \in Seq(Batch)
      BY DEF MemoryTypeOK, Batch
    <3>2. appends[i] \in Batch
      BY <3>1, Elements
    <3> QED BY <3>2 DEF Batch
  <2>2. CASE records[<<appends[i].owner, appends[i].key>>] # NoRecord
    BY <2>1, <2>2, <1>3, <1>7 DEF MemoryTypeOK
  <2>3. CASE i = Len(appends)
    <3>1. appends[i].owner = o /\ appends[i].key = k
      BY <2>3, <1>1, <1>2 DEF WindowOK
    <3> QED BY <3>1, <1>3, <1>7 DEF MemoryTypeOK
  <2> QED BY <2>2, <2>3 DEF AppendsOK
<1>12. UniqueOK'
  BY <1>6 DEF UniqueOK
<1> QED BY <1>8, <1>9, <1>10, <1>11, <1>12

\* The first commit: the batch is the newest, and nothing is stored for its
\* key unless by handlers that broke off.
LEMMA AppendKeys ==
  ASSUME KeysInv, NEW o \in Owners, NEW k \in Keys \cup {NoKey}, NEW s \in Scopes,
         NEW b \in Batches, AppendBatch(o, k, s, b), messages' \in Seq(Row)
  PROVE  KeysInv'
<1> USE DEF KeysInv
<1> DEFINE new == [owner |-> o, key |-> k, broken |-> FALSE]
<1>1. /\ handler = Idle
      /\ k \in Keys => records[<<o, k>>] = NoRecord
      /\ appends' = Append(appends, new)
      /\ UNCHANGED <<records, answers>>
  BY MemoryAssumption DEF AppendBatch
<1>2. handler' = IF k = NoKey THEN Idle ELSE [owner |-> o, key |-> k, size |-> Len(b)]
  BY DEF AppendBatch
<1>3. Len(b) \in Nat
  BY MemoryAssumption
<1>4. appends \in Seq(Batch)
  BY DEF MemoryTypeOK, Batch
<1>5. /\ Len(appends') = Len(appends) + 1 /\ Len(appends) \in Nat
      /\ appends'[Len(appends')] = new
      /\ \A i \in DOMAIN appends' : i # Len(appends') => i \in DOMAIN appends /\ appends'[i] = appends[i]
      /\ appends' \in Seq(Batch)
  <2>1. new \in Batch
    BY DEF Batch
  <2>2. appends' = Append(appends, new)
    BY <1>1
  <2> HIDE DEF new
  <2> QED BY <2>1, <2>2, <1>4, Appended
<1>6. MemoryTypeOK'
  BY <1>1, <1>2, <1>3, <1>5 DEF MemoryTypeOK, Batch, Row
<1>7. WindowOK'
  <2> SUFFICES ASSUME handler' # Idle
               PROVE  /\ records'[<<handler'.owner, handler'.key>>] = NoRecord
                      /\ Len(appends') > 0
                      /\ appends'[Len(appends')].owner = handler'.owner
                      /\ appends'[Len(appends')].key = handler'.key
                      /\ ~ appends'[Len(appends')].broken
    BY DEF WindowOK
  <2>1. k \in Keys /\ handler'.owner = o /\ handler'.key = k
    BY <1>2
  <2>2. records'[<<o, k>>] = NoRecord
    BY <2>1, <1>1
  <2>3. Len(appends') > 0
    BY <1>5
  <2>4. new.owner = o /\ new.key = k /\ ~ new.broken
    OBVIOUS
  <2> HIDE DEF new
  <2> QED BY <2>1, <2>2, <2>3, <2>4, <1>5
<1>8. AnswersOK'
  BY <1>1 DEF AnswersOK
<1>9. ASSUME NEW i \in DOMAIN appends, appends[i].key \in Keys, ~ appends[i].broken
      PROVE  records[<<appends[i].owner, appends[i].key>>] # NoRecord
  BY <1>9, <1>1 DEF AppendsOK
<1>10. AppendsOK'
  <2> SUFFICES ASSUME NEW i \in DOMAIN appends', appends'[i].key \in Keys, ~ appends'[i].broken
               PROVE  \/ records[<<appends'[i].owner, appends'[i].key>>] # NoRecord
                      \/ handler' # Idle /\ i = Len(appends')
    BY <1>1 DEF AppendsOK
  <2>1. CASE i = Len(appends')
    <3>1. k \in Keys /\ k # NoKey
      BY <2>1, <1>5, MemoryAssumption
    <3> QED BY <3>1, <2>1, <1>2, <1>3, Markers
  <2>2. CASE i # Len(appends')
    BY <2>2, <1>5, <1>9
  <2> QED BY <2>1, <2>2
<1>11. UniqueOK'
  <2> SUFFICES ASSUME NEW i \in DOMAIN appends', NEW j \in DOMAIN appends',
                      appends'[i].key \in Keys, appends'[j].key = appends'[i].key,
                      appends'[j].owner = appends'[i].owner,
                      ~ appends'[i].broken, ~ appends'[j].broken
               PROVE  i = j
    BY DEF UniqueOK
  <2>1. CASE i # Len(appends') /\ j # Len(appends')
    BY <2>1, <1>5 DEF UniqueOK
  <2>2. CASE i = Len(appends') /\ j # Len(appends')
    BY <2>2, <1>5, <1>9, <1>1
  <2>3. CASE i # Len(appends') /\ j = Len(appends')
    BY <2>3, <1>5, <1>9, <1>1
  <2> QED BY <2>1, <2>2, <2>3
<1> QED BY <1>6, <1>7, <1>8, <1>10, <1>11

\* A kill between the commits: the batch no longer counts.
LEMMA BreakKeys == ASSUME KeysInv, BreakOff PROVE KeysInv'
<1> USE DEF KeysInv
<1>1. /\ handler # Idle /\ handler' = Idle
      /\ appends' = [appends EXCEPT ![Len(appends)].broken = TRUE]
      /\ UNCHANGED <<messages, facts, records, answers>>
  BY DEF BreakOff
<1>2. appends \in Seq(Batch)
  BY DEF MemoryTypeOK, Batch
<1>3. Len(appends) \in DOMAIN appends
  <2>1. Len(appends) > 0
    BY <1>1 DEF WindowOK
  <2> QED BY <2>1, <1>2, Elements
<1>4. /\ DOMAIN appends' = DOMAIN appends
      /\ \A i \in DOMAIN appends : i # Len(appends) => appends'[i] = appends[i]
      /\ appends'[Len(appends)].broken = TRUE
  <2> DEFINE n == Len(appends)
             e == [appends[n] EXCEPT !.broken = TRUE]
  <2>1. appends' = [appends EXCEPT ![n] = e]
    BY <1>1
  <2>2. e.broken = TRUE
    <3>1. appends[n] \in Batch
      BY <1>2, <1>3, Elements
    <3> QED BY <3>1 DEF Batch
  <2>3. n \in DOMAIN appends
    BY <1>3
  <2> HIDE DEF n, e
  <2>4. DOMAIN appends' = DOMAIN appends
    BY <2>1
  <2>5. \A i \in DOMAIN appends : i # n => appends'[i] = appends[i]
    BY <2>1
  <2>6. appends'[n].broken = TRUE
    BY <2>1, <2>2, <2>3
  <2> QED BY <2>4, <2>5, <2>6 DEF n
<1>5. appends' \in Seq(Batch)
  <2> DEFINE n == Len(appends)
             e == [appends[n] EXCEPT !.broken = TRUE]
  <2>1. e \in Batch
    <3>1. appends[n] \in Batch
      BY <1>2, <1>3, Elements
    <3> QED BY <3>1 DEF Batch
  <2>2. appends' = [appends EXCEPT ![n] = e]
    BY <1>1
  <2>3. n \in 1 .. Len(appends)
    BY <1>2, <1>3, Elements
  <2> HIDE DEF n, e
  <2>4. [appends EXCEPT ![n] = e] \in Seq(Batch)
    BY <2>1, <2>3, <1>2, ExceptSeq
  <2> QED BY <2>2, <2>4
<1>6. MemoryTypeOK'
  <2>1. UNCHANGED <<messages, records, answers>> /\ handler' = Idle
    BY <1>1
  <2> QED BY <2>1, <1>5 DEF MemoryTypeOK, Batch
<1>7. WindowOK' /\ AnswersOK'
  BY <1>1 DEF WindowOK, AnswersOK
<1>8. AppendsOK'
  BY <1>1, <1>4 DEF AppendsOK
<1>9. UniqueOK'
  BY <1>4 DEF UniqueOK
<1> QED BY <1>6, <1>7, <1>8, <1>9

-----------------------------------------------------------------------------
(* The two together, and what follows.                                      *)

MemoryInv == KeysInv /\ Dense(messages) /\ LastOK(messages)

\* The empty set and a set of one element have at most one.
LEMMA AtMostOne ==
  ASSUME NEW A, A = {} \/ \E n : A = {n}
  PROVE  Cardinality(A) <= 1
<1>1. CASE A = {}
  <2>1. Cardinality(A) = 0
    BY <1>1, FS_EmptySet
  <2> QED BY <2>1
<1>2. ASSUME NEW n, A = {n} PROVE Cardinality(A) <= 1
  <2>1. Cardinality({n}) = 1
    BY FS_Singleton
  <2> QED BY <2>1, <1>2
<1> QED BY <1>1, <1>2

\* The invariant holds before the first ingest.
LEMMA InitMemory == Init => MemoryInv
<1> SUFFICES ASSUME Init PROVE MemoryInv
  OBVIOUS
<1>1. messages = << >>
  BY DEF Init
<1>2. Dense(messages)
  BY <1>1 DEF Dense
<1>3. LastOK(messages)
  BY <1>1 DEF LastOK, InScope
<1> QED BY <1>2, <1>3, InitKeys DEF MemoryInv

\* Every step keeps it.
LEMMA StepMemory == MemoryInv /\ [Next]_vars => MemoryInv'
<1> SUFFICES ASSUME MemoryInv, [Next]_vars PROVE MemoryInv'
  OBVIOUS
<1>1. KeysInv /\ messages \in Seq(Row) /\ Dense(messages) /\ LastOK(messages)
  BY DEF MemoryInv, KeysInv, MemoryTypeOK, Row
<1>2. ASSUME messages' = messages PROVE Dense(messages') /\ LastOK(messages')
  BY <1>1, <1>2
<1>3. ASSUME NEW o \in Owners, NEW k \in Keys \cup {NoKey}, NEW b \in Batches, Replay(o, k, b)
      PROVE  MemoryInv'
  <2>1. messages' = messages
    BY <1>3 DEF Replay
  <2> QED BY <2>1, <1>1, <1>2, <1>3, ReplayKeys DEF MemoryInv
<1>4. ASSUME NEW o \in Owners, NEW k \in Keys \cup {NoKey}, NEW b \in Batches, NEW s \in Scopes,
             AppendBatch(o, k, s, b)
      PROVE  MemoryInv'
  <2>1. messages' = WithMessages(o, s, b)
    BY <1>4 DEF AppendBatch
  <2>2. messages' \in Seq(Row) /\ Dense(messages') /\ LastOK(messages')
    BY <2>1, <1>1, BatchDense
  <2> QED BY <2>2, <1>1, <1>4, AppendKeys DEF MemoryInv
<1>5. ASSUME Record PROVE MemoryInv'
  <2>1. messages' = messages
    BY <1>5 DEF Record
  <2> QED BY <2>1, <1>1, <1>2, <1>5, RecordKeys DEF MemoryInv
<1>6. ASSUME BreakOff PROVE MemoryInv'
  <2>1. messages' = messages
    BY <1>6 DEF BreakOff
  <2> QED BY <2>1, <1>1, <1>2, <1>6, BreakKeys DEF MemoryInv
<1>7. ASSUME UNCHANGED vars PROVE MemoryInv'
  BY <1>7, <1>1 DEF vars, MemoryInv, KeysInv, MemoryTypeOK, WindowOK, AnswersOK, AppendsOK, UniqueOK
<1> QED BY <1>3, <1>4, <1>5, <1>6, <1>7 DEF Next

\* The inductive invariant of social memory, for any tenants, keys, scopes
\* and transcripts and any kills between the two commits of an ingest.
THEOREM MemoryInvariance == Spec => []MemoryInv
<1>1. Init => MemoryInv
  BY InitMemory
<1>2. MemoryInv /\ [Next]_vars => MemoryInv'
  BY StepMemory
<1> QED BY <1>1, <1>2, PTL DEF Spec

\* Sequence numbers of a scope are 0, 1, 2, ... in the order of arrival: the
\* unique constraint of memory_messages never fails an ingest, and recall's
\* ORDER BY seq is the order in which things were said.
THEOREM SequenceIsDense == Spec => []DenseSequence
<1>1. MemoryInv => DenseSequence
  BY DEF MemoryInv, Dense, DenseSequence, Before
<1> QED BY <1>1, MemoryInvariance, PTL

\* Every answer under an idempotency key is the recorded one.
THEOREM KeyHasOneAnswer == Spec => []OneAnswerPerKey
<1>1. ASSUME MemoryInv, NEW o \in Owners, NEW k \in Keys
      PROVE  Cardinality(answers[o, k]) <= 1
  <2> DEFINE A == answers[<<o, k>>]
  <2>1. A \subseteq (IF records[<<o, k>>] = NoRecord THEN {} ELSE {records[<<o, k>>]})
    BY <1>1 DEF MemoryInv, KeysInv, AnswersOK
  <2> HIDE DEF A
  <2>2. A = {} \/ \E n : A = {n}
    BY <2>1
  <2>3. Cardinality(A) <= 1
    BY <2>2, AtMostOne
  <2> QED BY <2>3 DEF A
<1>2. MemoryInv => OneAnswerPerKey
  BY <1>1 DEF OneAnswerPerKey
<1> QED BY <1>2, MemoryInvariance, PTL

\* Only a kill between its two commits lets the body of a key be stored again.
THEOREM KeyStoredOnlyOnce == Spec => []KeyStoredOnce
<1>1. ASSUME MemoryInv, NEW o \in Owners, NEW k \in Keys
      PROVE  Cardinality({i \in Under(o, k) : ~ appends[i].broken}) <= 1
  <2> DEFINE B == {i \in Under(o, k) : ~ appends[i].broken}
  <2>1. ASSUME NEW i \in B, NEW j \in B PROVE i = j
    <3>1. /\ i \in DOMAIN appends /\ appends[i].owner = o /\ appends[i].key = k
          /\ j \in DOMAIN appends /\ appends[j].owner = o /\ appends[j].key = k
          /\ ~ appends[i].broken /\ ~ appends[j].broken
      BY DEF Under
    <3> QED BY <3>1, <1>1 DEF MemoryInv, KeysInv, UniqueOK
  <2>2. B = {} \/ \E n : B = {n}
    BY <2>1
  <2> HIDE DEF B
  <2>3. Cardinality(B) <= 1
    BY <2>2, AtMostOne
  <2> QED BY <2>3 DEF B
<1>2. MemoryInv => KeyStoredOnce
  BY <1>1 DEF KeyStoredOnce
<1> QED BY <1>2, MemoryInvariance, PTL

-----------------------------------------------------------------------------
(* The links between facts.                                                 *)

\* A row of memory_facts, and a mention of a subject in a batch.
Texts == {TextOf[m] : m \in Messages}
Fact == [owner : Owners, scope : Scopes, subject : Subjects, text : Texts,
         evidence : Nat, contradicts : Int]
Mention(b) == [offset : 0 .. Len(b) - 1, subject : Subjects]

\* The earlier facts of a table about the same subject in the same scope.
Same(rows, o, s, subject) == {i \in InScope(rows, o, s) : rows[i].subject = subject}
About(rows, i) ==
  {j \in InScope(rows, rows[i].owner, rows[i].scope) : j < i /\ rows[j].subject = rows[i].subject}

\* NewestContradicted of any table.
LinkOK(rows, i) ==
  IF rows[i].contradicts = -1
  THEN \A j \in About(rows, i) :
         rows[j].text # rows[i].text => \E m \in About(rows, i) : m > j
  ELSE /\ rows[i].contradicts \in About(rows, i)
       /\ rows[rows[i].contradicts].text # rows[i].text
       /\ \A j \in About(rows, i) : j <= rows[i].contradicts

Linked(rows) == \A i \in DOMAIN rows : LinkOK(rows, i)
Tables == {rows \in Seq(Fact) : Linked(rows)}

\* The subjects of a message, as facts of a batch.
LEMMA PieceOfMention ==
  ASSUME NEW b \in Batches, NEW n \in 1 .. Len(b)
  PROVE  [k \in DOMAIN SubjectsOf[b[n]] |->
            [offset |-> n - 1, subject |-> SubjectsOf[b[n]][k]]] \in Seq(Mention(b))
<1>1. b \in Seq(Messages) /\ Len(b) \in Nat /\ b[n] \in Messages
  BY MemoryAssumption
<1>2. PICK q : q = SubjectsOf[b[n]] /\ q \in Seq(Subjects)
  BY <1>1, MemoryAssumption
<1>3. PICK l \in Nat : l = Len(q) /\ DOMAIN q = 1 .. l /\ \A k \in 1 .. l : q[k] \in Subjects
  BY <1>2
<1>4. n - 1 \in 0 .. Len(b) - 1
  BY <1>1
<1>5. \A k \in 1 .. l : [offset |-> n - 1, subject |-> q[k]] \in Mention(b)
  BY <1>3, <1>4 DEF Mention
<1> DEFINE W == Mention(b)
<1>6. [k \in 1 .. l |-> [offset |-> n - 1, subject |-> q[k]]] \in [1 .. l -> W]
  BY <1>5
<1> HIDE DEF W
<1>7. [k \in 1 .. l |-> [offset |-> n - 1, subject |-> q[k]]] \in Seq(W)
  BY <1>6
<1> QED BY <1>2, <1>3, <1>7 DEF W

\* The mentions of a batch are a list of them.
LEMMA MentionsType ==
  ASSUME NEW b \in Batches
  PROVE  Mentions(b) \in Seq(Mention(b))
<1> DEFINE N == Len(b)
           W == Seq(Mention(b))
           Piece(n) == [k \in DOMAIN SubjectsOf[b[n]] |->
                         [offset |-> n - 1, subject |-> SubjectsOf[b[n]][k]]]
           up == CHOOSE t : t = [n \in 0 .. Len(b) |->
                   IF n = 0 THEN << >>
                   ELSE t[n - 1] \o [k \in DOMAIN SubjectsOf[b[n]] |->
                          [offset |-> n - 1, subject |-> SubjectsOf[b[n]][k]]]]
           step == [x \in (1 .. N) \X W |-> x[2] \o Piece(x[1])]
<1>1. Mentions(b) = up[N]
  BY DEF Mentions
<1>2. N \in Nat /\ \A n \in 1 .. N : Piece(n) \in W
  BY MemoryAssumption, PieceOfMention
<1> HIDE DEF Piece
<1>3. << >> \in W /\ \A q, r \in W : q \o r \in W
  OBVIOUS
<1> HIDE DEF W
<1>4. step \in [(1 .. N) \X W -> W]
  BY <1>2, <1>3
<1>5. PICK f : Solves(f, W, << >>, N, step)
  <2> HIDE DEF step, N
  <2> QED BY <1>2, <1>3, <1>4, Recursion
<1>6. /\ f \in [0 .. N -> W] /\ f[0] = << >>
      /\ \A n \in 1 .. N : f[n] = f[n - 1] \o Piece(n)
  <2>1. /\ f \in [0 .. N -> W] /\ f[0] = << >> /\ \A n \in 1 .. N : f[n] = step[<<n, f[n - 1]>>]
    BY <1>5 DEF Solves
  <2>2. \A n \in 1 .. N : f[n - 1] \in W
    BY <1>2, <2>1
  <2>3. \A n \in 1 .. N : step[<<n, f[n - 1]>>] = f[n - 1] \o Piece(n)
    BY <2>2
  <2> QED BY <2>1, <2>3
<1>7. f = [n \in 0 .. N |-> IF n = 0 THEN << >> ELSE f[n - 1] \o Piece(n)]
  <2>1. \A n \in 0 .. N : n # 0 => n \in 1 .. N
    BY <1>2
  <2> QED BY <1>6, <2>1
<1>8. up = [n \in 0 .. N |-> IF n = 0 THEN << >> ELSE up[n - 1] \o Piece(n)]
  BY <1>7 DEF Piece
<1> HIDE DEF up
<1>9. up[0] = << >> /\ \A n \in 1 .. N : up[n] = up[n - 1] \o Piece(n)
  <2>1. 0 \in 0 .. N /\ \A n \in 1 .. N : n \in 0 .. N /\ n # 0
    BY <1>2
  <2> QED BY <1>8, <2>1
<1>10. \A n \in 0 .. N : up[n] = f[n]
  <2>1. up[0] = f[0] /\ \A n \in 1 .. N : up[n - 1] = f[n - 1] => up[n] = f[n]
    BY <1>6, <1>9
  <2> HIDE DEF N
  <2>2. Agree(up, f, N)
    BY <1>2, <2>1 DEF Agree
  <2> QED BY <2>2, SameRecursion
<1>11. up[N] \in W
  BY <1>2, <1>6, <1>10
<1> QED BY <1>1, <1>11 DEF W

\* The newest of a set of positions is its last one.
LEMMA NewestIs ==
  ASSUME NEW S \in SUBSET Nat, S # {}, NEW n \in Nat, \A i \in S : i <= n
  PROVE  Newest(S) \in S /\ \A i \in S : i <= Newest(S)
<1>1. \E m \in S : \A i \in S : i <= m
  <2>1. S \in SUBSET Int /\ n \in Int
    OBVIOUS
  <2> QED BY <2>1, GreatestInteger
<1> QED BY <1>1 DEF Newest

\* The row _append inserts for a mention, after the rows of the table.
FactOf(rows, o, s, b, start, mention) ==
  LET text == TextOf[b[mention.offset + 1]]
      prior == Prior(rows, o, s, mention.subject) IN
  [owner |-> o, scope |-> s, subject |-> mention.subject, text |-> text,
   evidence |-> start + mention.offset,
   contradicts |-> IF prior # -1 /\ rows[prior].text # text THEN prior ELSE -1]

\* by_subject is the last of the facts about a subject, or there are none.
LEMMA PriorIs ==
  ASSUME NEW rows \in Seq(Fact), NEW o, NEW s, NEW subject,
         NEW p, p = Prior(rows, o, s, subject), NEW S, S = Same(rows, o, s, subject)
  PROVE  /\ S = {} => p = -1
         /\ S # {} => p \in S /\ p \in 1 .. Len(rows) /\ \A i \in S : i <= p
<1>1. p = Newest(S)
  BY DEF Prior, Same
<1>2. S \subseteq 1 .. Len(rows) /\ Len(rows) \in Nat
  BY DEF Same, InScope
<1>3. ASSUME S # {} PROVE p \in S /\ \A i \in S : i <= p
  <2>1. S \in SUBSET Nat /\ \A i \in S : i <= Len(rows)
    BY <1>2
  <2>2. Newest(S) \in S /\ \A i \in S : i <= Newest(S)
    BY <1>2, <1>3, <2>1, NewestIs
  <2> QED BY <1>1, <2>2
<1>4. S = {} => p = -1
  BY <1>1 DEF Newest
<1> QED BY <1>2, <1>3, <1>4

\* A fact linked as _append links it keeps the links of the table in order.
LEMMA FactKeepsLinks ==
  ASSUME NEW rows \in Tables, NEW o \in Owners, NEW s \in Scopes, NEW b \in Batches,
         NEW start \in Nat, NEW mention \in Mention(b)
  PROVE  Append(rows, FactOf(rows, o, s, b, start, mention)) \in Tables
<1> DEFINE e == FactOf(rows, o, s, b, start, mention)
           p == Prior(rows, o, s, mention.subject)
           S == Same(rows, o, s, mention.subject)
           l == Append(rows, e)
           N == Len(rows)
<1>1. rows \in Seq(Fact) /\ Linked(rows) /\ N \in Nat /\ DOMAIN rows = 1 .. N
  BY DEF Tables
<1>2. /\ S = {} => p = -1
      /\ S # {} => p \in S /\ p \in 1 .. N /\ \A i \in S : i <= p
  <2> HIDE DEF p, S
  <2>1. p = Prior(rows, o, s, mention.subject) /\ S = Same(rows, o, s, mention.subject)
    BY DEF p, S
  <2> QED BY <1>1, <2>1, PriorIs
<1>3. /\ e.owner = o /\ e.scope = s /\ e.subject = mention.subject
      /\ e.contradicts = IF p # -1 /\ rows[p].text # e.text THEN p ELSE -1
  BY DEF FactOf
<1>4. e \in Fact
  <2>1. b \in Seq(Messages) /\ mention.offset \in 0 .. Len(b) - 1 /\ mention.subject \in Subjects
    BY MemoryAssumption DEF Mention
  <2>2. TextOf[b[mention.offset + 1]] \in Texts
    <3>1. mention.offset + 1 \in 1 .. Len(b)
      BY <2>1
    <3>2. b[mention.offset + 1] \in Messages
      BY <2>1, <3>1
    <3> QED BY <3>2 DEF Texts
  <2>3. start + mention.offset \in Nat
    BY <2>1
  <2>4. p \in Int
    BY <1>2
  <2> HIDE DEF p
  <2>5. (IF p # -1 /\ rows[p].text # TextOf[b[mention.offset + 1]] THEN p ELSE -1) \in Int
    BY <2>4
  <2> QED BY <2>1, <2>2, <2>3, <2>5 DEF FactOf, Fact, p
<1> HIDE DEF e
<1>5. /\ l \in Seq(Fact) /\ Len(l) = N + 1 /\ l[N + 1] = e /\ DOMAIN l = 1 .. N + 1
      /\ \A i \in 1 .. N : l[i] = rows[i]
  BY <1>1, <1>4
<1> HIDE DEF l, p, S
<1>6. ASSUME NEW i \in 1 .. N PROVE LinkOK(l, i)
  <2>1. About(l, i) = About(rows, i) /\ About(rows, i) \subseteq 1 .. N
    BY <1>1, <1>5 DEF About, InScope
  <2>2. LinkOK(rows, i)
    BY <1>1 DEF Linked
  <2>3. l[i] = rows[i] /\ \A j \in About(rows, i) : l[j] = rows[j]
    BY <1>5, <2>1
  <2> QED BY <2>1, <2>2, <2>3 DEF LinkOK
<1>7. LinkOK(l, N + 1)
  <2>1. About(l, N + 1) = S /\ S \subseteq 1 .. N
    <3>1. S = {i \in 1 .. N : rows[i].owner = o /\ rows[i].scope = s /\ rows[i].subject = mention.subject}
      BY <1>1 DEF Same, InScope, S
    <3>2. About(l, N + 1) =
            {i \in 1 .. N + 1 : l[i].owner = o /\ l[i].scope = s /\ i < N + 1 /\ l[i].subject = mention.subject}
      BY <1>3, <1>5 DEF About, InScope
    <3> QED BY <1>1, <1>5, <3>1, <3>2
  <2>2. \A i \in S : l[i] = rows[i]
    BY <1>5, <2>1
  <2>3. CASE S = {}
    BY <1>2, <1>3, <1>5, <2>1, <2>3 DEF LinkOK
  <2>4. CASE S # {}
    <3>1. /\ p \in S /\ \A i \in S : i <= p
          /\ p # -1 /\ l[p] = rows[p] /\ p \in Int
      BY <1>2, <2>2, <2>4
    <3>2. CASE rows[p].text # e.text
      <4>1. l[N + 1].contradicts = p /\ l[N + 1].text = e.text
        BY <1>3, <1>5, <3>1, <3>2
      <4> QED BY <2>1, <3>1, <3>2, <4>1 DEF LinkOK
    <3>3. CASE rows[p].text = e.text
      <4>1. l[N + 1].contradicts = -1 /\ l[N + 1].text = e.text
        BY <1>3, <1>5, <3>3
      <4>2. ASSUME NEW j \in S, l[j].text # e.text PROVE p > j
        <5>1. j # p /\ j <= p /\ j \in Int
          BY <2>1, <3>1, <3>3, <4>2
        <5> QED BY <3>1, <5>1
      <4> QED BY <2>1, <3>1, <4>1, <4>2 DEF LinkOK
    <3> QED BY <3>2, <3>3
  <2> QED BY <2>3, <2>4
<1>8. Linked(l)
  BY <1>1, <1>5, <1>6, <1>7 DEF Linked
<1>9. l \in Tables
  BY <1>5, <1>8 DEF Tables
<1> QED BY <1>9 DEF l, e

\* So do all the facts of a batch, each of which sees the earlier ones.
LEMMA BatchKeepsLinks ==
  ASSUME facts \in Tables, NEW o \in Owners, NEW s \in Scopes, NEW b \in Batches,
         NextSeq(o, s) \in Nat
  PROVE  WithFacts(o, s, b) \in Tables
<1> DEFINE new == Mentions(b)
           N == Len(Mentions(b))
           start == NextSeq(o, s)
           up == CHOOSE t : t = [n \in 0 .. Len(Mentions(b)) |->
                   IF n = 0 THEN facts
                   ELSE Append(t[n - 1], FactOf(t[n - 1], o, s, b, NextSeq(o, s), Mentions(b)[n]))]
           step == [x \in (1 .. N) \X Tables |->
                      Append(x[2], FactOf(x[2], o, s, b, start, new[x[1]]))]
<1>1. WithFacts(o, s, b) = up[N]
  BY DEF WithFacts, FactOf
<1>2. N \in Nat /\ \A n \in 1 .. N : new[n] \in Mention(b)
  BY MentionsType
<1> HIDE DEF new, start, N
<1>3. step \in [(1 .. N) \X Tables -> Tables]
  <2>1. \A n \in 1 .. N, rows \in Tables : Append(rows, FactOf(rows, o, s, b, start, new[n])) \in Tables
    BY <1>2, FactKeepsLinks DEF start
  <2> QED BY <2>1
<1>4. PICK f : Solves(f, Tables, facts, N, step)
  <2> HIDE DEF step
  <2> QED BY <1>2, <1>3, Recursion
<1>5. /\ f \in [0 .. N -> Tables] /\ f[0] = facts
      /\ \A n \in 1 .. N : f[n] = Append(f[n - 1], FactOf(f[n - 1], o, s, b, start, new[n]))
  <2>1. /\ f \in [0 .. N -> Tables] /\ f[0] = facts /\ \A n \in 1 .. N : f[n] = step[<<n, f[n - 1]>>]
    BY <1>4 DEF Solves
  <2>2. \A n \in 1 .. N : f[n - 1] \in Tables
    BY <1>2, <2>1
  <2>3. \A n \in 1 .. N : step[<<n, f[n - 1]>>] =
          Append(f[n - 1], FactOf(f[n - 1], o, s, b, start, new[n]))
    BY <2>2
  <2> QED BY <2>1, <2>3
<1>6. f = [n \in 0 .. N |-> IF n = 0 THEN facts
                            ELSE Append(f[n - 1], FactOf(f[n - 1], o, s, b, start, new[n]))]
  <2>1. \A n \in 0 .. N : n # 0 => n \in 1 .. N
    BY <1>2
  <2> QED BY <1>5, <2>1
<1>7. up = [n \in 0 .. N |-> IF n = 0 THEN facts
                             ELSE Append(up[n - 1], FactOf(up[n - 1], o, s, b, start, new[n]))]
  BY <1>6 DEF N, start, new
<1> HIDE DEF up
<1>8. up[0] = facts /\ \A n \in 1 .. N :
        up[n] = Append(up[n - 1], FactOf(up[n - 1], o, s, b, start, new[n]))
  <2>1. 0 \in 0 .. N /\ \A n \in 1 .. N : n \in 0 .. N /\ n # 0
    BY <1>2
  <2> QED BY <1>7, <2>1
<1>9. \A n \in 0 .. N : up[n] = f[n]
  <2>1. up[0] = f[0] /\ \A n \in 1 .. N : up[n - 1] = f[n - 1] => up[n] = f[n]
    BY <1>5, <1>8
  <2>2. Agree(up, f, N)
    BY <1>2, <2>1 DEF Agree
  <2> QED BY <2>2, SameRecursion
<1> QED BY <1>1, <1>2, <1>5, <1>9

\* However batches, replays and kills follow each other, a fact contradicts
\* the newest earlier one about its subject in its scope, exactly if their
\* texts differ.
THEOREM ContradictsTheNewest == Spec => []NewestContradicted
<1>1. Init => facts \in Tables
  BY DEF Init, Tables, Linked
<1>2. MemoryInv /\ facts \in Tables /\ [Next]_vars => (facts \in Tables)'
  <2> SUFFICES ASSUME MemoryInv, facts \in Tables, [Next]_vars PROVE facts' \in Tables
    BY DEF Tables, Linked, LinkOK, About, InScope, Fact
  <2>1. CASE facts' = facts
    BY <2>1
  <2>2. ASSUME NEW o \in Owners, NEW k \in Keys \cup {NoKey}, NEW b \in Batches, NEW s \in Scopes,
               AppendBatch(o, k, s, b)
        PROVE  facts' \in Tables
    <3>1. NextSeq(o, s) \in Nat
      <4>1. messages \in Seq(Row) /\ Dense(messages) /\ LastOK(messages)
        BY DEF MemoryInv, KeysInv, MemoryTypeOK, Row
      <4> QED BY <4>1, MaxIsCount, ScopeFinite DEF NextSeq
    <3> QED BY <2>2, <3>1, BatchKeepsLinks DEF AppendBatch
  <2> QED BY <2>1, <2>2 DEF Next, Replay, Record, BreakOff, vars
<1>3. facts \in Tables => NewestContradicted
  BY DEF Tables, Linked, LinkOK, About, NewestContradicted
<1> QED BY <1>1, <1>2, <1>3, MemoryInvariance, PTL DEF Spec

-----------------------------------------------------------------------------
(* Recall.  InOrder numbers the elements of a finite set by how many come   *)
(* before them; no two have the same number, so by the pigeonhole principle *)
(* every number is taken and the CHOOSE in InOrder has one to find.         *)

\* R orders any two elements of S one way.
Orders(R, S) ==
  /\ \A i, j \in S : i # j => <<i, j>> \in R \/ <<j, i>> \in R
  /\ \A i \in S : <<i, i>> \notin R
  /\ \A i, j, k \in S : <<i, j>> \in R /\ <<j, k>> \in R => <<i, k>> \in R

\* How many elements of S come before i.
Rank(S, R, i) == Cardinality({j \in S : <<j, i>> \in R})

\* Ranks are below the number of elements.
LEMMA RankType ==
  ASSUME NEW S, NEW R, IsFiniteSet(S), Orders(R, S), NEW i \in S
  PROVE  Rank(S, R, i) \in 0 .. Cardinality(S) - 1
<1> DEFINE P == {j \in S : <<j, i>> \in R}
<1>1. P \in SUBSET (S \ {i})
  BY DEF Orders
<1>2. IsFiniteSet(S \ {i}) /\ Cardinality(S \ {i}) = Cardinality(S) - 1
  BY FS_RemoveElement
<1>3. IsFiniteSet(P) /\ Cardinality(P) <= Cardinality(S \ {i})
  BY <1>1, <1>2, FS_Subset
<1>4. Cardinality(P) \in Nat /\ Cardinality(S) \in Nat
  BY <1>3, FS_CardinalityType
<1> HIDE DEF P
<1>5. Cardinality(P) \in 0 .. Cardinality(S) - 1
  BY <1>2, <1>3, <1>4
<1> QED BY <1>5 DEF Rank, P

\* What comes before has a lower rank.
LEMMA RankGrows ==
  ASSUME NEW S, NEW R, IsFiniteSet(S), Orders(R, S), NEW i \in S, NEW j \in S, <<i, j>> \in R
  PROVE  Rank(S, R, i) < Rank(S, R, j)
<1> DEFINE P(x) == {k \in S : <<k, x>> \in R}
<1>1. P(i) \in SUBSET P(j)
  BY DEF Orders
<1>2. i \in P(j) /\ i \notin P(i)
  BY DEF Orders
<1>3. P(j) \in SUBSET S
  OBVIOUS
<1>4. IsFiniteSet(P(j))
  BY <1>3, FS_Subset
<1>5. P(i) # P(j)
  BY <1>2
<1> HIDE DEF P
<1>6. IsFiniteSet(P(i)) /\ Cardinality(P(i)) <= Cardinality(P(j)) /\ Cardinality(P(i)) # Cardinality(P(j))
  BY <1>1, <1>4, <1>5, FS_Subset
<1>7. Cardinality(P(i)) \in Nat /\ Cardinality(P(j)) \in Nat
  BY <1>4, <1>6, FS_CardinalityType
<1>8. Cardinality(P(i)) < Cardinality(P(j))
  BY <1>6, <1>7
<1> QED BY <1>8 DEF Rank, P

\* No two elements have the same rank.
LEMMA RanksDiffer ==
  ASSUME NEW S, NEW R, IsFiniteSet(S), Orders(R, S), NEW i \in S, NEW j \in S,
         Rank(S, R, i) = Rank(S, R, j)
  PROVE  i = j
<1> SUFFICES ASSUME i # j PROVE FALSE
  OBVIOUS
<1>1. Rank(S, R, i) \in Int
  BY RankType
<1>2. <<i, j>> \in R \/ <<j, i>> \in R
  BY DEF Orders
<1>3. CASE <<i, j>> \in R
  <2>1. Rank(S, R, i) < Rank(S, R, j)
    BY <1>3, RankGrows
  <2> QED BY <1>1, <2>1
<1>4. CASE <<j, i>> \in R
  <2>1. Rank(S, R, j) < Rank(S, R, i)
    BY <1>4, RankGrows
  <2> QED BY <1>1, <2>1
<1> QED BY <1>2, <1>3, <1>4

\* Every rank is some element's.
LEMMA RanksTaken ==
  ASSUME NEW S, NEW R, IsFiniteSet(S), Orders(R, S), NEW n \in 0 .. Cardinality(S) - 1
  PROVE  \E i \in S : Rank(S, R, i) = n
<1> DEFINE T == 0 .. Cardinality(S) - 1
           f == [i \in S |-> Rank(S, R, i)]
<1>1. Cardinality(S) \in Nat
  BY FS_CardinalityType
<1>2. IsFiniteSet(T) /\ Cardinality(T) = Cardinality(S)
  <2> DEFINE c == Cardinality(S)
  <2>1. c \in Nat
    BY <1>1
  <2> HIDE DEF c
  <2>2. 0 \in Int /\ c - 1 \in Int
    BY <2>1
  <2>3. IsFiniteSet(0 .. c - 1) /\ Cardinality(0 .. c - 1) = IF 0 > c - 1 THEN 0 ELSE c - 1 - 0 + 1
    BY <2>2, FS_Interval
  <2>4. IsFiniteSet(0 .. c - 1) /\ Cardinality(0 .. c - 1) = c
    BY <2>1, <2>3
  <2> QED BY <2>4 DEF c
<1>3. f \in [S -> T]
  BY RankType
<1>4. ASSUME NEW i \in S, NEW j \in S, f[i] = f[j] PROVE i = j
  <2>1. Rank(S, R, i) = Rank(S, R, j)
    BY <1>4
  <2> QED BY <2>1, RanksDiffer
<1> HIDE DEF f, T
<1>5. f \in Injection(S, T)
  BY <1>3, <1>4 DEF Injection, IsInjective
<1>6. f \in Surjection(S, T)
  BY <1>2, <1>5, FS_Injection
<1>7. n \in T
  BY DEF T
<1>8. \E i \in S : f[i] = n
  BY <1>6, <1>7 DEF Surjection
<1> QED BY <1>8 DEF f

\* InOrder enumerates S: the n-th element is the one of rank n - 1, and they
\* follow each other in the order R.
LEMMA InOrderIs ==
  ASSUME NEW S, NEW R, IsFiniteSet(S), Orders(R, S)
  PROVE  /\ Cardinality(S) \in Nat /\ DOMAIN InOrder(S, R) = 1 .. Cardinality(S)
         /\ InOrder(S, R) \in [1 .. Cardinality(S) -> S]
         /\ \A n \in 1 .. Cardinality(S) :
              InOrder(S, R)[n] \in S /\ Rank(S, R, InOrder(S, R)[n]) = n - 1
         /\ \A i \in S : Rank(S, R, i) + 1 \in 1 .. Cardinality(S)
                         /\ InOrder(S, R)[Rank(S, R, i) + 1] = i
         /\ \A m, n \in 1 .. Cardinality(S) :
              m < n => <<InOrder(S, R)[m], InOrder(S, R)[n]>> \in R
<1> DEFINE c == Cardinality(S)
           t == InOrder(S, R)
<1>1. c \in Nat
  BY FS_CardinalityType
<1>2. t = [n \in 1 .. c |-> CHOOSE i \in S : Rank(S, R, i) = n - 1]
  BY DEF InOrder, Rank
<1> HIDE DEF t
<1>3. ASSUME NEW n \in 1 .. c PROVE t[n] \in S /\ Rank(S, R, t[n]) = n - 1
  <2>1. n - 1 \in 0 .. Cardinality(S) - 1
    BY <1>1
  <2>2. \E i \in S : Rank(S, R, i) = n - 1
    BY <2>1, RanksTaken
  <2>3. t[n] = CHOOSE i \in S : Rank(S, R, i) = n - 1
    BY <1>2
  <2> QED BY <2>2, <2>3
<1>5. ASSUME NEW i \in S PROVE Rank(S, R, i) + 1 \in 1 .. c /\ t[Rank(S, R, i) + 1] = i
  <2> DEFINE r == Rank(S, R, i)
  <2>1. r \in 0 .. c - 1
    BY RankType
  <2> HIDE DEF r
  <2>2. r + 1 \in 1 .. c /\ (r + 1) - 1 = r
    BY <1>1, <2>1
  <2>3. t[r + 1] \in S /\ Rank(S, R, t[r + 1]) = r
    BY <1>3, <2>2
  <2>4. t[r + 1] = i
    BY <2>3, RanksDiffer DEF r
  <2> QED BY <2>2, <2>4 DEF r
<1>6. ASSUME NEW m \in 1 .. c, NEW n \in 1 .. c, m < n PROVE <<t[m], t[n]>> \in R
  <2>1. t[m] \in S /\ t[n] \in S /\ Rank(S, R, t[m]) = m - 1 /\ Rank(S, R, t[n]) = n - 1
    BY <1>3
  <2>2. t[m] # t[n]
    BY <1>1, <1>6, <2>1
  <2>3. <<t[n], t[m]>> \notin R
    <3> SUFFICES ASSUME <<t[n], t[m]>> \in R PROVE FALSE
      OBVIOUS
    <3>1. Rank(S, R, t[n]) < Rank(S, R, t[m])
      BY <2>1, RankGrows
    <3> QED BY <1>1, <1>6, <2>1, <3>1
  <2> QED BY <2>1, <2>2, <2>3 DEF Orders
<1>7. DOMAIN t = 1 .. c /\ t \in [1 .. c -> S]
  BY <1>2, <1>3
<1> QED BY <1>1, <1>3, <1>5, <1>6, <1>7 DEF t

\* The relations that sort by score and by seq are orders of a scope's rows,
\* and a row's seq tells when it was stored.
LEMMA SeqOrder ==
  ASSUME MemoryInv, NEW o \in Owners, NEW s \in Scopes,
         NEW i \in InScope(messages, o, s), NEW j \in InScope(messages, o, s)
  PROVE  /\ messages[i].seq \in Nat /\ messages[j].seq \in Nat /\ i \in Nat /\ j \in Nat
         /\ messages[i].seq < messages[j].seq <=> i < j
<1> DEFINE C == InScope(messages, o, s)
           R == {x \in C \X C : x[1] < x[2]}
<1>1. messages \in Seq(Row) /\ Dense(messages)
  BY DEF MemoryInv, KeysInv, MemoryTypeOK, Row
<1>2. IsFiniteSet(C) /\ C \subseteq 1 .. Len(messages) /\ Len(messages) \in Nat
  BY <1>1, ScopeFinite, Elements
<1>3. \A k \in C : k \in Nat /\ k \in DOMAIN messages /\ messages[k] \in Row
  BY <1>1, <1>2, Elements
<1>4. \A k \in C : messages[k].seq \in Nat /\ messages[k].owner = o /\ messages[k].scope = s
  BY <1>3 DEF InScope, Row
<1>5. Orders(R, C)
  <2> HIDE DEF C
  <2>1. \A k \in C : k \in Nat
    BY <1>3
  <2>2. \A x \in C, y \in C : <<x, y>> \in R <=> x < y
    OBVIOUS
  <2> HIDE DEF R
  <2> QED BY <2>1, <2>2 DEF Orders
<1>6. \A k \in C : messages[k].seq = Rank(C, R, k)
  <2> SUFFICES ASSUME NEW k \in C PROVE messages[k].seq = Rank(C, R, k)
    OBVIOUS
  <2>1. {l \in C : <<l, k>> \in R} = Before(messages, o, s, k)
    <3>1. Before(messages, o, s, k) = {l \in C : l < k}
      BY DEF Before
    <3> HIDE DEF C
    <3>2. \A l \in C : <<l, k>> \in R <=> l < k
      OBVIOUS
    <3> QED BY <3>1, <3>2
  <2>2. messages[k].seq = Cardinality(Before(messages, o, s, k))
    BY <1>1, <1>3, <1>4 DEF Dense
  <2> QED BY <2>1, <2>2 DEF Rank
<1>7. \A k, l \in C : k < l => messages[k].seq < messages[l].seq
  <2> SUFFICES ASSUME NEW k \in C, NEW l \in C, k < l PROVE messages[k].seq < messages[l].seq
    OBVIOUS
  <2>1. <<k, l>> \in R
    OBVIOUS
  <2> HIDE DEF C, R
  <2>2. Rank(C, R, k) < Rank(C, R, l)
    BY <1>2, <1>5, <2>1, RankGrows
  <2> QED BY <1>6, <2>2
<1>8. i \in C /\ j \in C
  OBVIOUS
<1> HIDE DEF C
<1> QED BY <1>3, <1>4, <1>7, <1>8

\* Sorting by seq and sorting by score order any rows of a scope.
LEMMA SortsOrder ==
  ASSUME MemoryInv, NEW o \in Owners, NEW s \in Scopes, NEW q \in Queries,
         NEW S \in SUBSET InScope(messages, o, s)
  PROVE  Orders(BySeq(S), S) /\ Orders(ByScore(q, S), S)
<1>1. \A i, j \in S : /\ messages[i].seq \in Nat /\ i \in Nat
                      /\ messages[i].seq < messages[j].seq <=> i < j
  BY SeqOrder
<1>2. \A i \in S : Score(q, i) \in Nat
  <2> SUFFICES ASSUME NEW i \in S PROVE Score(q, i) \in Nat
    OBVIOUS
  <2>1. messages \in Seq(Row) /\ i \in DOMAIN messages
    BY DEF MemoryInv, KeysInv, MemoryTypeOK, Row, InScope
  <2>2. messages[i].message \in Messages
    <3>1. messages[i] \in Row
      BY <2>1, Elements
    <3> QED BY <3>1 DEF Row
  <2>3. Overlap \in [Queries -> [Messages -> Nat]]
    BY RecallAssumption
  <2> QED BY <2>2, <2>3 DEF Score
<1>3. \A i, j \in S : <<i, j>> \in BySeq(S) <=> i < j
  BY <1>1 DEF BySeq
<1>4. \A i, j \in S : <<i, j>> \in ByScore(q, S) <=>
         \/ Score(q, i) > Score(q, j)
         \/ Score(q, i) = Score(q, j) /\ i < j
  BY <1>1 DEF ByScore
<1>5. Orders(BySeq(S), S)
  BY <1>1, <1>3 DEF Orders
<1>6. Orders(ByScore(q, S), S)
  <2>1. \A i, j \in S : i # j => <<i, j>> \in ByScore(q, S) \/ <<j, i>> \in ByScore(q, S)
    BY <1>1, <1>2, <1>4
  <2>2. \A i \in S : <<i, i>> \notin ByScore(q, S)
    BY <1>1, <1>2, <1>4
  <2>3. \A i, j, k \in S : <<i, j>> \in ByScore(q, S) /\ <<j, k>> \in ByScore(q, S)
                             => <<i, k>> \in ByScore(q, S)
    BY <1>1, <1>2, <1>4
  <2> QED BY <2>1, <2>2, <2>3 DEF Orders
<1> QED BY <1>5, <1>6

\* The rows picked are the best of those that match.
LEMMA PickedIsBest ==
  ASSUME MemoryInv, NEW o \in Owners, NEW s \in Scopes, NEW q \in Queries
  PROVE  Best(o, s, q, Picked(o, s, q))
<1> DEFINE M == Matches(o, s, q)
           R == ByScore(q, M)
           t == InOrder(M, R)
           c == Cardinality(M)
           k == IF c < RecallLimit THEN c ELSE RecallLimit
           P == Picked(o, s, q)
<1>1. M \in SUBSET InScope(messages, o, s)
  BY DEF Matches
<1>2. IsFiniteSet(M)
  <2>1. messages \in Seq(Row)
    BY DEF MemoryInv, KeysInv, MemoryTypeOK, Row
  <2>2. IsFiniteSet(InScope(messages, o, s))
    BY <2>1, ScopeFinite
  <2> QED BY <1>1, <2>2, FS_Subset
<1>3. Orders(R, M)
  BY <1>1, SortsOrder
<1>4. RecallLimit \in Nat \ {0}
  BY RecallAssumption
<1>5. P = {t[n] : n \in {m \in DOMAIN t : m <= RecallLimit}}
  BY DEF Picked, Scored
<1>6. \A i, j \in M : <<i, j>> \in R => \/ Score(q, i) > Score(q, j)
                                        \/ Score(q, i) = Score(q, j) /\ i < j
  <2>1. \A i, j \in M : messages[i].seq < messages[j].seq <=> i < j
    BY <1>1, SeqOrder
  <2> QED BY <2>1 DEF ByScore
<1> HIDE DEF M, R, P
<1>7. /\ c \in Nat /\ DOMAIN t = 1 .. c
      /\ \A n \in 1 .. c : t[n] \in M
      /\ \A i \in M : \E n \in 1 .. c : t[n] = i
      /\ \A m, n \in 1 .. c : m < n => <<t[m], t[n]>> \in R
  BY <1>2, <1>3, InOrderIs
<1> HIDE DEF t, c
<1>8. k \in Nat /\ k <= c
  BY <1>4, <1>7
<1>9. {m \in DOMAIN t : m <= RecallLimit} = 1 .. k
  BY <1>4, <1>7
<1>10. P = {t[n] : n \in 1 .. k}
  BY <1>5, <1>9
<1>11. P \subseteq M
  BY <1>7, <1>8, <1>10
<1>12. Cardinality(P) = k
  <2> DEFINE f == [n \in 1 .. k |-> t[n]]
  <2> HIDE DEF k
  <2>1. f \in Surjection(1 .. k, P)
    BY <1>10 DEF Surjection
  <2>2. \A m, n \in 1 .. k : f[m] = f[n] => m = n
    <3> SUFFICES ASSUME NEW m \in 1 .. k, NEW n \in 1 .. k, t[m] = t[n], m # n PROVE FALSE
      OBVIOUS
    <3>1. m \in 1 .. c /\ n \in 1 .. c
      BY <1>7, <1>8
    <3>2. <<t[m], t[n]>> \in R \/ <<t[n], t[m]>> \in R
      BY <1>7, <1>8, <3>1
    <3>3. <<t[m], t[m]>> \in R /\ t[m] \in M
      BY <1>7, <3>1, <3>2
    <3> QED BY <1>3, <3>3 DEF Orders
  <2>3. f \in Injection(1 .. k, P)
    BY <2>1, <2>2 DEF Surjection, Injection, IsInjective
  <2>4. IsFiniteSet(1 .. k) /\ Cardinality(1 .. k) = k
    <3>1. 1 \in Int /\ k \in Int
      BY <1>8
    <3>2. IsFiniteSet(1 .. k) /\ Cardinality(1 .. k) = IF 1 > k THEN 0 ELSE k - 1 + 1
      BY <3>1, FS_Interval
    <3> QED BY <1>8, <3>2
  <2>5. Cardinality(P) = Cardinality(1 .. k)
    BY <2>1, <2>3, <2>4, FS_Surjection
  <2> QED BY <2>4, <2>5
<1>13. ASSUME NEW i \in P, NEW j \in M \ P
       PROVE  \/ Score(q, i) > Score(q, j)
              \/ Score(q, i) = Score(q, j) /\ i < j
  <2>1. PICK m \in 1 .. k : t[m] = i
    BY <1>10
  <2>2. PICK n \in 1 .. c : t[n] = j
    BY <1>7
  <2>3. n \notin 1 .. k
    BY <1>10, <2>2
  <2>4. m \in 1 .. c /\ m < n
    BY <1>7, <1>8, <2>3
  <2>5. <<i, j>> \in R
    BY <1>7, <2>1, <2>2, <2>4
  <2> QED BY <1>6, <1>11, <2>5
<1> QED BY <1>11, <1>12, <1>13 DEF Best, M, P, c

\* However batches, replays and kills follow each other, what a client recalls
\* is the best of what its scope holds, in the order in which it was said.
THEOREM RecallsTheBest == Spec => []RecallIsBest
<1>1. MemoryInv => RecallIsBest
  <2> SUFFICES ASSUME MemoryInv, NEW o \in Owners, NEW s \in Scopes, NEW q \in Queries
               PROVE  \E T \in SUBSET DOMAIN messages :
                        /\ Best(o, s, q, T)
                        /\ \E said \in [1 .. Cardinality(T) -> T] :
                             /\ \A m, n \in DOMAIN said : m < n => said[m] < said[n]
                             /\ Retrieve(o, s, q) = [n \in DOMAIN said |-> messages[said[n]].message]
    BY DEF RecallIsBest
  <2> DEFINE T == Picked(o, s, q)
             said == InOrder(T, BySeq(T))
             c == Cardinality(T)
  <2>1. Best(o, s, q, T)
    BY PickedIsBest
  <2>2. T \in SUBSET InScope(messages, o, s) /\ T \in SUBSET DOMAIN messages
    BY <2>1 DEF Best, Matches, InScope
  <2>3. IsFiniteSet(T)
    <3>1. messages \in Seq(Row)
      BY DEF MemoryInv, KeysInv, MemoryTypeOK, Row
    <3>2. IsFiniteSet(InScope(messages, o, s))
      BY <3>1, ScopeFinite
    <3> QED BY <2>2, <3>2, FS_Subset
  <2>4. Retrieve(o, s, q) = [n \in DOMAIN said |-> messages[said[n]].message]
    BY DEF Retrieve
  <2>5. Orders(BySeq(T), T)
    BY <2>2, SortsOrder
  <2>6. \A i, j \in T : <<i, j>> \in BySeq(T) => i < j
    <3>1. \A i, j \in T : messages[i].seq < messages[j].seq <=> i < j
      BY <2>2, SeqOrder
    <3> QED BY <3>1 DEF BySeq
  <2> HIDE DEF T
  <2>7. /\ DOMAIN said = 1 .. c
        /\ \A n \in 1 .. c : said[n] \in T
        /\ \A m, n \in 1 .. c : m < n => <<said[m], said[n]>> \in BySeq(T)
    BY <2>3, <2>5, InOrderIs
  <2>8. said \in [1 .. c -> T]
    BY <2>3, <2>5, InOrderIs
  <2> HIDE DEF said, c
  <2>9. \A m, n \in DOMAIN said : m < n => said[m] < said[n]
    BY <2>6, <2>7
  <2> QED BY <2>1, <2>2, <2>4, <2>8, <2>9 DEF c
<1> QED BY <1>1, MemoryInvariance, PTL
=============================================================================
