------------------------------- MODULE Recall -------------------------------
(***************************************************************************)
(* What recall and ask of engine/memory.py select from the messages stored *)
(* by Memory.  They bill the owner (see CreditLedger) and then only read,  *)
(* so they are operators of the state.  Tokens are abstracted to the       *)
(* number of them that a query shares with a message and its speaker.      *)
(***************************************************************************)
EXTENDS Memory

CONSTANTS
  Queries,      \* questions, or the messages a context is recalled for
  Overlap,      \* the shared tokens of each query and message
  RecallLimit   \* the messages selected at most; 6 in the code

ASSUME RecallAssumption ==
  /\ Overlap \in [Queries -> [Messages -> Nat]]
  /\ RecallLimit \in Nat \ {0}

-----------------------------------------------------------------------------
(* engine/memory.py: _retrieve.                                             *)

Score(q, i) == Overlap[q][messages[i].message]

\* The rows of the scope with a token of the query.
Matches(o, s, q) == {i \in InScope(messages, o, s) : Score(q, i) > 0}

\* The elements of S in the order R, a set of pairs: the n-th is the one that
\* n - 1 others come before.
InOrder(S, R) ==
  [n \in 1 .. Cardinality(S) |->
    CHOOSE i \in S : Cardinality({j \in S : <<j, i>> \in R}) = n - 1]

ByScore(q, S) ==
  {x \in S \X S :
     \/ Score(q, x[1]) > Score(q, x[2])
     \/ Score(q, x[1]) = Score(q, x[2]) /\ messages[x[1]].seq < messages[x[2]].seq}

BySeq(S) == {x \in S \X S : messages[x[1]].seq < messages[x[2]].seq}

\* scored.sort(key=(-score, seq)).
Scored(o, s, q) ==
  LET rows == Matches(o, s, q) IN InOrder(rows, ByScore(q, rows))

\* scored[:limit].
Picked(o, s, q) ==
  {Scored(o, s, q)[n] : n \in {m \in DOMAIN Scored(o, s, q) : m <= RecallLimit}}

\* Bug: the messages stay in the order of their scores.
RetrieveByScore(o, s, q) ==
  [n \in 1 .. Cardinality(Picked(o, s, q)) |-> messages[Scored(o, s, q)[n]].message]

\* The messages picked, in transcript order.
Retrieve(o, s, q) ==
  LET rows == InOrder(Picked(o, s, q), BySeq(Picked(o, s, q))) IN
  [n \in DOMAIN rows |-> messages[rows[n]].message]

-----------------------------------------------------------------------------
(* Properties.                                                              *)

\* The reference: rows T of the scope, as many as match up to the limit, and
\* none left out that shares more tokens than one of T, or as many and is
\* older.
Best(o, s, q, T) ==
  /\ T \subseteq Matches(o, s, q)
  /\ Cardinality(T) = LET all == Cardinality(Matches(o, s, q)) IN
                      IF all < RecallLimit THEN all ELSE RecallLimit
  /\ \A i \in T, j \in Matches(o, s, q) \ T :
       \/ Score(q, i) > Score(q, j)
       \/ Score(q, i) = Score(q, j) /\ i < j

\* What a client recalls is the best that its scope holds, in the order in
\* which it was said, however batches and scopes were interleaved.
RecallIsBest ==
  \A o \in Owners, s \in Scopes, q \in Queries :
    \E T \in SUBSET DOMAIN messages :
      /\ Best(o, s, q, T)
      /\ \E said \in [1 .. Cardinality(T) -> T] :
           /\ \A m, n \in DOMAIN said : m < n => said[m] < said[n]
           /\ Retrieve(o, s, q) = [n \in DOMAIN said |-> messages[said[n]].message]
=============================================================================
