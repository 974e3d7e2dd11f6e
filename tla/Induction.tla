------------------------------ MODULE Induction ------------------------------
(***************************************************************************)
(* Lemmas the proofs of several modules rest on: induction over the        *)
(* naturals without an operator parameter, least and greatest elements of  *)
(* bounded sets of integers, and functions defined by recursion.           *)
(***************************************************************************)
EXTENDS Integers, FiniteSets, FiniteSetTheorems, TLAPS

\* Every non-empty set of naturals has a least element: the sets 0 .. n - 1
\* are well-founded under strict inclusion.
LEMMA LeastNatural ==
  ASSUME NEW S \in SUBSET Nat, S # {}
  PROVE  \E m \in S : \A n \in S : m <= n
<1> DEFINE Below(n) == 0 .. n - 1
           T == {Below(n) : n \in S}
<1>1. T \subseteq FiniteSubsetsOf(Nat) /\ T # {}
  <2>1. ASSUME NEW n \in Nat PROVE Below(n) \in SUBSET Nat /\ IsFiniteSet(Below(n))
    BY FS_Interval
  <2> QED BY <2>1 DEF FiniteSubsetsOf
<1>2. PICK x \in T : \A y \in T : ~ (<<y, x>> \in StrictSubsetOrdering(Nat))
  <2> HIDE DEF T
  <2> QED BY <1>1, FS_StrictSubsetOrderingWellFounded, WFMin
<1>3. PICK m \in S : x = Below(m)
  OBVIOUS
<1>4. ASSUME NEW n \in S, n < m PROVE FALSE
  <2>1. Below(n) \in T /\ Below(n) \in SUBSET Nat /\ Below(m) \in SUBSET Nat
    OBVIOUS
  <2>2. Below(n) \subseteq Below(m)
    BY <1>4
  <2>3. n \in Below(m) /\ n \notin Below(n)
    BY <1>4
  <2>4. <<Below(n), Below(m)>> \in StrictSubsetOrdering(Nat)
    <3> HIDE DEF Below
    <3> QED BY <2>1, <2>2, <2>3 DEF StrictSubsetOrdering
  <2> QED BY <1>2, <1>3, <2>1, <2>4
<1> QED BY <1>4

\* Induction: a set that holds 0 and every successor holds every natural.
LEMMA Induction ==
  ASSUME NEW S, 0 \in S, \A n \in Nat : n \in S => n + 1 \in S
  PROVE  \A n \in Nat : n \in S
<1> DEFINE C == Nat \ S
<1> SUFFICES ASSUME C # {} PROVE FALSE
  OBVIOUS
<1>1. PICK m \in C : \A n \in C : m <= n
  BY LeastNatural
<1>2. m \in Nat /\ m # 0
  OBVIOUS
<1>3. m - 1 \in Nat /\ m - 1 \notin C
  BY <1>1, <1>2
<1> QED BY <1>2, <1>3

\* A non-empty set of integers with a lower bound has a least element.
LEMMA LeastInteger ==
  ASSUME NEW S \in SUBSET Int, S # {}, NEW b \in Int, \A n \in S : b <= n
  PROVE  \E m \in S : \A n \in S : m <= n
<1> DEFINE T == {n - b : n \in S}
<1>1. T \in SUBSET Nat /\ T # {}
  <2>1. ASSUME NEW n \in S PROVE n - b \in Nat
    BY <2>1
  <2> QED BY <2>1
<1>2. PICK t \in T : \A u \in T : t <= u
  <2> HIDE DEF T
  <2> QED BY <1>1, LeastNatural
<1>3. PICK m \in S : t = m - b
  OBVIOUS
<1>4. ASSUME NEW n \in S PROVE m <= n
  <2>1. n - b \in T
    OBVIOUS
  <2> QED BY <1>2, <1>3, <2>1
<1> QED BY <1>4

\* A non-empty set of integers with an upper bound has a greatest element.
LEMMA GreatestInteger ==
  ASSUME NEW S \in SUBSET Int, S # {}, NEW b \in Int, \A n \in S : n <= b
  PROVE  \E m \in S : \A n \in S : n <= m
<1> DEFINE T == {- n : n \in S}
<1>1. T \in SUBSET Int /\ T # {} /\ \A t \in T : - b <= t
  <2>1. ASSUME NEW n \in S PROVE - n \in Int /\ - b <= - n
    BY <2>1
  <2> QED BY <2>1
<1>2. PICK t \in T : \A u \in T : t <= u
  <2> HIDE DEF T
  <2>1. - b \in Int
    OBVIOUS
  <2> QED BY <1>1, <2>1, LeastInteger
<1>3. PICK m \in S : t = - m
  OBVIOUS
<1>4. ASSUME NEW n \in S PROVE n <= m
  <2>1. - n \in T
    OBVIOUS
  <2> QED BY <1>2, <1>3, <2>1
<1> QED BY <1>4

-----------------------------------------------------------------------------
(* Functions defined by recursion over 0 .. N.                              *)

\* f starts with base and goes from n - 1 to n as step says.
Solves(f, S, base, N, step) ==
  /\ f \in [0 .. N -> S] /\ f[0] = base
  /\ \A n \in 1 .. N : f[n] = step[<<n, f[n - 1]>>]

\* A recursion whose steps stay in S has a solution.
LEMMA Recursion ==
  ASSUME NEW S, NEW base \in S, NEW N \in Nat, NEW step \in [(1 .. N) \X S -> S]
  PROVE  \E f : Solves(f, S, base, N, step)
<1> DEFINE Upto(m) == \E f \in [0 .. m -> S] :
                        f[0] = base /\ \A n \in 1 .. m : f[n] = step[<<n, f[n - 1]>>]
           Good == {m \in Nat : m <= N => Upto(m)}
<1>1. 0 \in Good
  <2> DEFINE z == [n \in 0 .. 0 |-> base]
  <2>1. z \in [0 .. 0 -> S] /\ z[0] = base
    OBVIOUS
  <2>2. \A n \in 1 .. 0 : z[n] = step[<<n, z[n - 1]>>]
    OBVIOUS
  <2> HIDE DEF z
  <2> QED BY <2>1, <2>2
<1>2. ASSUME NEW m \in Nat, m \in Good PROVE m + 1 \in Good
  <2> SUFFICES ASSUME m + 1 <= N PROVE Upto(m + 1)
    OBVIOUS
  <2>1. PICK f \in [0 .. m -> S] : f[0] = base /\ \A n \in 1 .. m : f[n] = step[<<n, f[n - 1]>>]
    BY <1>2
  <2> DEFINE h == [n \in 0 .. m + 1 |-> IF n <= m THEN f[n] ELSE step[<<m + 1, f[m]>>]]
  <2>2. f[m] \in S /\ step[<<m + 1, f[m]>>] \in S
    OBVIOUS
  <2>3. h \in [0 .. m + 1 -> S]
    BY <2>2
  <2>4. h[0] = base
    BY <2>1
  <2>5. ASSUME NEW n \in 1 .. m + 1 PROVE h[n] = step[<<n, h[n - 1]>>]
    <3>1. n - 1 \in 0 .. m /\ h[n - 1] = f[n - 1]
      OBVIOUS
    <3>2. CASE n <= m
      <4>1. h[n] = f[n] /\ n \in 1 .. m
        BY <3>2
      <4> HIDE DEF h
      <4> QED BY <2>1, <3>1, <4>1
    <3>3. CASE n = m + 1
      <4>1. h[n] = step[<<m + 1, f[m]>>] /\ n - 1 = m
        BY <3>3
      <4> HIDE DEF h
      <4> QED BY <3>1, <3>3, <4>1
    <3> QED BY <3>2, <3>3
  <2> HIDE DEF h
  <2> QED BY <2>3, <2>4, <2>5
<1> HIDE DEF Good
<1>3. N \in Good
  BY <1>1, <1>2, Induction
<1>4. Upto(N)
  BY <1>3 DEF Good
<1> QED BY <1>4 DEF Solves

\* f and h start alike and take the same steps up to N.
Agree(f, h, N) ==
  /\ N \in Nat /\ f[0] = h[0]
  /\ \A n \in 1 .. N : f[n - 1] = h[n - 1] => f[n] = h[n]

\* Two functions that take the same steps from the same start are the same.
LEMMA SameRecursion ==
  ASSUME NEW f, NEW h, NEW N, Agree(f, h, N)
  PROVE  \A n \in 0 .. N : f[n] = h[n]
<1> USE DEF Agree
<1> DEFINE Good == {m \in Nat : m <= N => f[m] = h[m]}
<1>1. 0 \in Good
  OBVIOUS
<1>2. ASSUME NEW m \in Nat, m \in Good PROVE m + 1 \in Good
  <2> SUFFICES ASSUME m + 1 <= N PROVE f[m + 1] = h[m + 1]
    OBVIOUS
  <2>1. m + 1 \in 1 .. N /\ (m + 1) - 1 = m /\ f[m] = h[m]
    BY <1>2
  <2> QED BY <2>1
<1> HIDE DEF Good
<1>3. \A n \in Nat : n \in Good
  BY <1>1, <1>2, Induction
<1> QED BY <1>3 DEF Good
=============================================================================
