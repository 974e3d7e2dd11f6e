------------------------------- MODULE Memory -------------------------------
(***************************************************************************)
(* Social memory: POST ingest of routes/social_memory.py with the append   *)
(* of engine/memory.py.                                                    *)
(*                                                                         *)
(* The handler never awaits, so handlers do not interleave, but it commits *)
(* twice: the batch with its facts, then the idempotency record.  It may   *)
(* be killed, or its second transaction may raise, between the two; the    *)
(* client, who got no answer, may then send the request again, with the    *)
(* same body or another one.                                               *)
(***************************************************************************)
EXTENDS Integers, Sequences, FiniteSets

CONSTANTS
  Owners,       \* tenants
  Keys,         \* values of the idempotency-key header
  Scopes,       \* scope ids
  Messages,     \* messages of a transcript: a speaker and a text
  TextOf,       \* the text of each message
  SubjectsOf,   \* the lower-cased subjects _subjects() finds in each message, in order
  Batches,      \* the transcripts clients send
  MaxAppends    \* bound: batches appended

NoKey == "none"

Subjects == UNION {{SubjectsOf[m][k] : k \in DOMAIN SubjectsOf[m]} : m \in Messages}

ASSUME MemoryAssumption ==
  /\ NoKey \notin Keys
  /\ Batches \subseteq Seq(Messages) \ {<< >>}
  /\ DOMAIN TextOf = Messages /\ SubjectsOf \in [Messages -> Seq(Subjects)]
  /\ MaxAppends \in Nat

VARIABLES
  messages,   \* rows of memory_messages by id
  facts,      \* rows of memory_facts by id
  records,    \* idempotency_records: the response per (owner, key)
  handler,    \* the ingest between its two commits, if there is one
  appends,    \* history: per batch appended, whose key and whether its handler broke off
  answers     \* history: the 200 answers given per (owner, key)

vars == <<messages, facts, records, handler, appends, answers>>

Idle == [owner |-> "none"]
NoRecord == -1

\* Rows of one owner and scope, by position.
InScope(rows, o, s) == {i \in DOMAIN rows : rows[i].owner = o /\ rows[i].scope = s}

\* The largest element of a set of natural numbers, -1 if it is empty.
Newest(S) == IF S = {} THEN -1 ELSE CHOOSE n \in S : \A m \in S : m <= n

-----------------------------------------------------------------------------
(* engine/memory.py: ingest.                                                *)

\* Bug: one sequence for all scopes of an owner.
NextSeqOfOwner(o, s) ==
  Newest({messages[i].seq : i \in {j \in DOMAIN messages : messages[j].owner = o}}) + 1

\* coalesce(max(seq), -1) + 1.
NextSeq(o, s) == Newest({messages[i].seq : i \in InScope(messages, o, s)}) + 1

\* Bug: the index of subjects keeps the first fact.
PriorOldest(rows, o, s, subject) ==
  LET same == {i \in InScope(rows, o, s) : rows[i].subject = subject} IN
  IF same = {} THEN -1 ELSE CHOOSE i \in same : \A j \in same : i <= j

\* by_subject: the fact inserted last for the subject, -1 if there is none.
\* (The facts read at the start come without ORDER BY; taken in id order.)
Prior(rows, o, s, subject) ==
  Newest({i \in InScope(rows, o, s) : rows[i].subject = subject})

\* The facts of one batch as pairs of offset and subject, in the order they
\* are inserted.
Mentions(b) ==
  LET upTo[n \in 0 .. Len(b)] ==
        IF n = 0 THEN << >>
        ELSE upTo[n - 1] \o [k \in DOMAIN SubjectsOf[b[n]] |->
                               [offset |-> n - 1, subject |-> SubjectsOf[b[n]][k]]]
  IN upTo[Len(b)]

\* The table after the facts of batch b were inserted one by one, each linked
\* to the newest fact of its subject if that one has another text.
WithFacts(o, s, b) ==
  LET new == Mentions(b)
      start == NextSeq(o, s)
      upTo[n \in 0 .. Len(new)] ==
        IF n = 0 THEN facts
        ELSE LET text == TextOf[b[new[n].offset + 1]]
                 prior == Prior(upTo[n - 1], o, s, new[n].subject) IN
             Append(upTo[n - 1],
               [owner |-> o, scope |-> s, subject |-> new[n].subject, text |-> text,
                evidence |-> start + new[n].offset,
                contradicts |-> IF prior # -1 /\ upTo[n - 1][prior].text # text
                                THEN prior ELSE -1])
  IN upTo[Len(new)]

WithMessages(o, s, b) ==
  messages \o [i \in DOMAIN b |->
    [owner |-> o, scope |-> s, seq |-> NextSeq(o, s) + i - 1, message |-> b[i]]]

-----------------------------------------------------------------------------
(* routes/social_memory.py: ingest.                                         *)

Answer(o, k, n) ==
  answers' = IF k = NoKey THEN answers
             ELSE [answers EXCEPT ![<<o, k>>] = @ \cup {n}]

\* Bug: a replay answers for the body it came with.
ReplayForBody(o, k, b) ==
  /\ handler = Idle
  /\ k # NoKey /\ records[o, k] # NoRecord
  /\ Answer(o, k, Len(b))
  /\ UNCHANGED <<messages, facts, records, handler, appends>>

\* The key has a record: its response, whatever the body and the scope.
Replay(o, k, b) ==
  /\ handler = Idle
  /\ k # NoKey /\ records[o, k] # NoRecord
  /\ Answer(o, k, records[o, k])
  /\ UNCHANGED <<messages, facts, records, handler, appends>>

\* Bug: the record is looked for when it is written, not before.
AppendUnchecked(o, k, s, b) ==
  /\ handler = Idle /\ Len(appends) < MaxAppends
  /\ messages' = WithMessages(o, s, b)
  /\ facts' = WithFacts(o, s, b)
  /\ appends' = Append(appends, [owner |-> o, key |-> k, broken |-> FALSE])
  /\ handler' = IF k = NoKey THEN Idle ELSE [owner |-> o, key |-> k, size |-> Len(b)]
  /\ UNCHANGED <<records, answers>>

\* No record: the batch and its facts are committed.  Without a key that is
\* all, and the client is answered.
AppendBatch(o, k, s, b) ==
  /\ handler = Idle /\ Len(appends) < MaxAppends
  /\ k # NoKey => records[o, k] = NoRecord
  /\ messages' = WithMessages(o, s, b)
  /\ facts' = WithFacts(o, s, b)
  /\ appends' = Append(appends, [owner |-> o, key |-> k, broken |-> FALSE])
  /\ handler' = IF k = NoKey THEN Idle ELSE [owner |-> o, key |-> k, size |-> Len(b)]
  /\ UNCHANGED <<records, answers>>

\* The second commit: the response under the key, unless there is one.
Record ==
  /\ handler # Idle
  /\ records' = [records EXCEPT ![<<handler.owner, handler.key>>] =
                   IF @ = NoRecord THEN handler.size ELSE @]
  /\ Answer(handler.owner, handler.key, handler.size)
  /\ handler' = Idle
  /\ UNCHANGED <<messages, facts, appends>>

\* The process is killed before the second commit, or that commit raises:
\* the batch stays, the client has no answer.
BreakOff ==
  /\ handler # Idle
  /\ handler' = Idle
  /\ appends' = [appends EXCEPT ![Len(appends)].broken = TRUE]
  /\ UNCHANGED <<messages, facts, records, answers>>

-----------------------------------------------------------------------------
Init ==
  /\ messages = << >> /\ facts = << >>
  /\ records = [x \in Owners \X Keys |-> NoRecord]
  /\ handler = Idle
  /\ appends = << >>
  /\ answers = [x \in Owners \X Keys |-> {}]

Next ==
  \/ \E o \in Owners, k \in Keys \cup {NoKey}, b \in Batches :
        Replay(o, k, b) \/ \E s \in Scopes : AppendBatch(o, k, s, b)
  \/ Record \/ BreakOff

Spec == Init /\ [][Next]_vars

-----------------------------------------------------------------------------
(* Properties.                                                              *)

\* Type invariant.
MemoryTypeOK ==
  /\ messages \in Seq([owner : Owners, scope : Scopes, seq : Nat, message : Messages])
  /\ records \in [Owners \X Keys -> Nat \cup {NoRecord}]
  /\ handler = Idle \/ handler \in [owner : Owners, key : Keys, size : Nat]
  /\ appends \in Seq([owner : Owners, key : Keys \cup {NoKey}, broken : BOOLEAN])
  /\ answers \in [Owners \X Keys -> SUBSET Nat]

\* Raw messages are in owner/scope order: the n-th message ever stored in a
\* scope has seq n - 1, so the unique constraint never fails, recall's order
\* by seq is the order of arrival, and other scopes and tenants do not show.
DenseSequence ==
  \A i \in DOMAIN messages :
    messages[i].seq =
      Cardinality({j \in InScope(messages, messages[i].owner, messages[i].scope) : j < i})

\* Whoever sends a key, with whatever body and scope and after whatever
\* crash, is given the same response as everybody before.
OneAnswerPerKey ==
  \A o \in Owners, k \in Keys : Cardinality(answers[o, k]) <= 1

Under(o, k) == {i \in DOMAIN appends : appends[i].owner = o /\ appends[i].key = k}

\* A key's body reaches memory once: of the batches appended under it, all
\* but one are of handlers that broke off before their second commit.
KeyStoredOnce ==
  \A o \in Owners, k \in Keys :
    Cardinality({i \in Under(o, k) : ~ appends[i].broken}) <= 1

\* A fact contradicts the newest earlier fact about its subject in its own
\* scope, and is linked to it exactly when their texts differ.  The links of
\* a batch count its own earlier facts, so a chain of links never skips one.
NewestContradicted ==
  \A i \in DOMAIN facts :
    LET about == {j \in InScope(facts, facts[i].owner, facts[i].scope) :
                    j < i /\ facts[j].subject = facts[i].subject} IN
    IF facts[i].contradicts = -1
    THEN \A j \in about :
           facts[j].text # facts[i].text => \E m \in about : m > j
    ELSE /\ facts[i].contradicts \in about
         /\ facts[facts[i].contradicts].text # facts[i].text
         /\ \A j \in about : j <= facts[i].contradicts
=============================================================================
