------------------------- MODULE CreditLedgerProofs -------------------------
(***************************************************************************)
(* Theorems about CreditLedger, for every set of owners, components and    *)
(* reservation ids, every grant, every price list and every grace period.  *)
(***************************************************************************)
EXTENDS CreditLedger, FiniteSetTheorems, TLAPS

Tables == [ReservationIds -> Row \cup {NoRow}]

States == {"reserved", "captured", "released"}

(***************************************************************************)
(* The inductive invariant.  The three safety properties compare numbers   *)
(* of units, and cardinalities only obey arithmetic on finite sets: that   *)
(* the unit sets are finite is the strengthening that makes them           *)
(* inductive.                                                              *)
(***************************************************************************)
FiniteUnits ==
  \A o \in Owners :
    /\ \A st \in States : IsFiniteSet(Units(reservation, o, st))
    /\ IsFiniteSet(UsageUnits(usage, o))

LedgerInv ==
  /\ LedgerTypeOK
  /\ FiniteUnits
  /\ Solvent
  /\ Conserved
  /\ ChargesBacked

-----------------------------------------------------------------------------
(* What the units of a table are, and how one row changes them.             *)

\* A row of n credits contributes n units.
LEMMA BlockOfUnits ==
  ASSUME NEW x, NEW n \in Nat
  PROVE  /\ IsFiniteSet({x} \X (1 .. n))
         /\ Cardinality({x} \X (1 .. n)) = n
<1>1. IsFiniteSet({x}) /\ Cardinality({x}) = 1
  BY FS_Singleton
<1>2. IsFiniteSet(1 .. n) /\ Cardinality(1 .. n) = n
  BY FS_Interval
<1>3. Cardinality({x} \X (1 .. n)) = 1 * n
  BY <1>1, <1>2, FS_Product
<1> QED BY <1>1, <1>2, <1>3, FS_Product

\* Adding a block of units whose first component is new adds n to the count.
LEMMA AddBlock ==
  ASSUME NEW S, IsFiniteSet(S), NEW x, NEW n \in Nat,
         \A u \in S : u[1] # x
  PROVE  /\ IsFiniteSet(S \cup ({x} \X (1 .. n)))
         /\ Cardinality(S \cup ({x} \X (1 .. n))) = Cardinality(S) + n
<1> DEFINE B == {x} \X (1 .. n)
<1>1. IsFiniteSet(B) /\ Cardinality(B) = n
  BY BlockOfUnits
<1>2. S \cap B = {}
  <2>1. \A u \in B : u[1] = x
    OBVIOUS
  <2> QED BY <2>1
<1>3. Cardinality(S \cap B) = 0
  BY <1>2, FS_EmptySet
<1>4. Cardinality(S) \in Nat
  BY FS_CardinalityType
<1> HIDE DEF B
<1>5. /\ IsFiniteSet(S \cup B)
      /\ Cardinality(S \cup B) = Cardinality(S) + n - 0
  BY <1>1, <1>3, FS_Union
<1>6. Cardinality(S) + n - 0 = Cardinality(S) + n
  BY <1>4
<1> QED BY <1>5, <1>6 DEF B

\* The units of a table, one by one.
LEMMA UnitsMember ==
  ASSUME NEW rows, NEW o, NEW st
  PROVE  /\ \A u \in Units(rows, o, st) : u[1] \in RowsOf(rows, o, st)
         /\ \A u : u \in Units(rows, o, st)
              <=> \E r \in RowsOf(rows, o, st) :
                    u \in {r} \X (1 .. rows[r].credits)
BY DEF Units

\* A row that enters the selected rows adds its credits to their sum.
LEMMA RowJoins ==
  ASSUME NEW f, NEW g, NEW o, NEW st, NEW r \in ReservationIds,
         g[r].credits \in Nat,
         RowsOf(g, o, st) = RowsOf(f, o, st) \cup {r},
         r \notin RowsOf(f, o, st),
         \A q \in RowsOf(f, o, st) : g[q].credits = f[q].credits,
         IsFiniteSet(Units(f, o, st))
  PROVE  /\ IsFiniteSet(Units(g, o, st))
         /\ Cardinality(Units(g, o, st))
              = Cardinality(Units(f, o, st)) + g[r].credits
<1>1. \A u : u \in Units(g, o, st)
          <=> u \in Units(f, o, st) \cup ({r} \X (1 .. g[r].credits))
  <2>1. \A u : u \in Units(g, o, st)
           <=> \/ \E q \in RowsOf(f, o, st) : u \in {q} \X (1 .. g[q].credits)
               \/ u \in {r} \X (1 .. g[r].credits)
    BY UnitsMember
  <2>2. \A u : u \in Units(f, o, st)
           <=> \E q \in RowsOf(f, o, st) : u \in {q} \X (1 .. g[q].credits)
    BY UnitsMember
  <2> QED BY <2>1, <2>2
<1>2. Units(g, o, st) = Units(f, o, st) \cup ({r} \X (1 .. g[r].credits))
  BY <1>1
<1>3. \A u \in Units(f, o, st) : u[1] # r
  BY UnitsMember
<1> DEFINE S == Units(f, o, st)
           n == g[r].credits
<1>4. /\ IsFiniteSet(S) /\ n \in Nat
      /\ \A u \in S : u[1] # r
  BY <1>3
<1> HIDE DEF S, n
<1>5. /\ IsFiniteSet(S \cup ({r} \X (1 .. n)))
      /\ Cardinality(S \cup ({r} \X (1 .. n))) = Cardinality(S) + n
  BY <1>4, AddBlock
<1> QED BY <1>2, <1>5 DEF S, n

\* A row that leaves the selected rows takes its credits with it.
LEMMA RowLeaves ==
  ASSUME NEW f, NEW g, NEW o, NEW st, NEW r \in ReservationIds,
         f[r].credits \in Nat,
         RowsOf(f, o, st) = RowsOf(g, o, st) \cup {r},
         r \notin RowsOf(g, o, st),
         \A q \in RowsOf(g, o, st) : g[q].credits = f[q].credits,
         IsFiniteSet(Units(f, o, st))
  PROVE  /\ IsFiniteSet(Units(g, o, st))
         /\ Cardinality(Units(g, o, st)) + f[r].credits
              = Cardinality(Units(f, o, st))
<1>1. Units(g, o, st) \subseteq Units(f, o, st)
  BY UnitsMember
<1>2. IsFiniteSet(Units(g, o, st))
  BY <1>1, FS_Subset
<1> QED BY <1>2, RowJoins

\* The same rows with the same credits have the same units.
LEMMA RowsKept ==
  ASSUME NEW f, NEW g, NEW o, NEW st,
         RowsOf(g, o, st) = RowsOf(f, o, st),
         \A q \in RowsOf(f, o, st) : g[q].credits = f[q].credits
  PROVE  Units(g, o, st) = Units(f, o, st)
BY UnitsMember DEF Units

\* An appended usage event adds its credits to its owner's charges only.
LEMMA EventAppended ==
  ASSUME NEW events \in Seq(UsageEvent), NEW e \in UsageEvent, NEW o,
         IsFiniteSet(UsageUnits(events, o))
  PROVE  LET more == Append(events, e) IN
         /\ IsFiniteSet(UsageUnits(more, o))
         /\ Cardinality(UsageUnits(more, o))
              = Cardinality(UsageUnits(events, o))
                + (IF e.owner = o THEN e.credits ELSE 0)
<1> DEFINE more == Append(events, e)
           k    == Len(events) + 1
<1>1. /\ DOMAIN more = DOMAIN events \cup {k}
      /\ k \notin DOMAIN events
      /\ more[k] = e
      /\ \A j \in DOMAIN events : more[j] = events[j]
  OBVIOUS
<1>2. \A j \in EventsOf(events, o) : more[j] = events[j]
  BY <1>1 DEF EventsOf
<1>3. Cardinality(UsageUnits(events, o)) \in Nat
  BY FS_CardinalityType
<1> HIDE DEF more, k
<1>4. CASE e.owner = o
  <2>1. EventsOf(more, o) = EventsOf(events, o) \cup {k}
    BY <1>1, <1>4 DEF EventsOf
  <2>2. UsageUnits(more, o) = UsageUnits(events, o) \cup ({k} \X (1 .. e.credits))
    BY <1>1, <1>2, <2>1 DEF UsageUnits
  <2>3. \A u \in UsageUnits(events, o) : u[1] # k
    BY <1>1 DEF UsageUnits, EventsOf
  <2>4. e.credits \in Nat
    BY DEF UsageEvent
  <2> DEFINE S == UsageUnits(events, o)
             n == e.credits
  <2>a. /\ IsFiniteSet(S) /\ n \in Nat
        /\ \A u \in S : u[1] # k
    BY <2>3, <2>4
  <2> HIDE DEF S, n
  <2>b. /\ IsFiniteSet(S \cup ({k} \X (1 .. n)))
        /\ Cardinality(S \cup ({k} \X (1 .. n))) = Cardinality(S) + n
    BY <2>a, AddBlock
  <2>5. /\ IsFiniteSet(UsageUnits(more, o))
        /\ Cardinality(UsageUnits(more, o))
             = Cardinality(UsageUnits(events, o)) + e.credits
    BY <2>2, <2>b DEF S, n
  <2> QED BY <1>4, <2>5 DEF more
<1>5. CASE e.owner # o
  <2>1. EventsOf(more, o) = EventsOf(events, o)
    BY <1>1, <1>5 DEF EventsOf
  <2>2. UsageUnits(more, o) = UsageUnits(events, o)
    BY <1>2, <2>1 DEF UsageUnits
  <2> QED BY <1>3, <1>5, <2>2 DEF more
<1> QED BY <1>4, <1>5
-----------------------------------------------------------------------------
(* The inductive step, one lemma per transaction.                           *)

\* A new ledger: every owner has its grant, no row and no event exists.
LEMMA InitInv == LedgerInit => LedgerInv
<1> SUFFICES ASSUME LedgerInit PROVE LedgerInv
  OBVIOUS
<1>1. LedgerTypeOK
  BY LedgerAssumption DEF LedgerInit, LedgerTypeOK, NoRow
<1>2. ASSUME NEW o \in Owners, NEW st \in States
      PROVE  Units(reservation, o, st) = {}
  <2>1. RowsOf(reservation, o, st) = {}
    BY DEF LedgerInit, RowsOf, NoRow, States
  <2> QED BY <2>1, UnitsMember
<1>3. ASSUME NEW o \in Owners PROVE UsageUnits(usage, o) = {}
  <2>1. EventsOf(usage, o) = {}
    BY DEF LedgerInit, EventsOf
  <2> QED BY <2>1 DEF UsageUnits
<1>4. IsFiniteSet({}) /\ Cardinality({}) = 0
  BY FS_EmptySet
<1>5. FiniteUnits
  BY <1>2, <1>3, <1>4 DEF FiniteUnits
<1>6. ASSUME NEW o \in Owners
      PROVE  Reserved(o) = 0 /\ Captured(o) = 0 /\ Charged(o) = 0
  BY <1>2, <1>3, <1>4 DEF Reserved, Captured, Charged, States
<1>7. Solvent /\ Conserved /\ ChargesBacked
  BY <1>6, LedgerAssumption DEF Solvent, Conserved, ChargesBacked, LedgerInit
<1> QED BY <1>1, <1>5, <1>7 DEF LedgerInv

\* The sums are natural numbers as long as the unit sets are finite.
LEMMA SumTypes ==
  ASSUME FiniteUnits, NEW o \in Owners
  PROVE  Reserved(o) \in Nat /\ Captured(o) \in Nat /\ Charged(o) \in Nat
BY FS_CardinalityType DEF FiniteUnits, States, Reserved, Captured, Charged

\* reserve() holds the price for its owner, and the balance covers it.
LEMMA ReserveEffect ==
  ASSUME LedgerInv,
         NEW o \in Owners, NEW c \in Components, NEW r \in ReservationIds,
         Reserve(o, c, r)
  PROVE  /\ LedgerTypeOK' /\ FiniteUnits'
         /\ prices[c] \in Nat /\ balance' = balance
         /\ Reserved(o) + prices[c] <= balance[o]
         /\ \A p \in Owners :
              /\ Reserved(p)' = Reserved(p) + (IF p = o THEN prices[c] ELSE 0)
              /\ Captured(p)' = Captured(p)
              /\ Charged(p)' = Charged(p)
<1> USE DEF LedgerInv
<1>1. LedgerTypeOK'
  BY DEF Reserve, LedgerTypeOK, Row
<1>2. /\ reservation'[r].state = "reserved"
      /\ reservation'[r].owner = o
      /\ reservation'[r].credits = prices[c]
      /\ prices[c] \in Nat
      /\ \A q \in ReservationIds \ {r} : reservation'[q] = reservation[q]
      /\ reservation[r].state = "absent"
  BY DEF Reserve, LedgerTypeOK, NoRow
<1>3. ASSUME NEW p \in Owners, NEW st \in States, p # o \/ st # "reserved"
      PROVE  Units(reservation', p, st) = Units(reservation, p, st)
  <2>1. RowsOf(reservation', p, st) = RowsOf(reservation, p, st)
    BY <1>2, <1>3 DEF RowsOf, States
  <2>2. \A q \in RowsOf(reservation, p, st) :
           reservation'[q].credits = reservation[q].credits
    BY <1>2 DEF RowsOf, States
  <2> QED BY <2>1, <2>2, RowsKept
<1>4. /\ IsFiniteSet(Units(reservation', o, "reserved"))
      /\ Cardinality(Units(reservation', o, "reserved"))
           = Cardinality(Units(reservation, o, "reserved")) + prices[c]
  <2>1. /\ RowsOf(reservation', o, "reserved")
             = RowsOf(reservation, o, "reserved") \cup {r}
        /\ r \notin RowsOf(reservation, o, "reserved")
        /\ \A q \in RowsOf(reservation, o, "reserved") :
             reservation'[q].credits = reservation[q].credits
    BY <1>2 DEF RowsOf
  <2>2. IsFiniteSet(Units(reservation, o, "reserved"))
    BY DEF FiniteUnits, States
  <2> QED BY <1>2, <2>1, <2>2, RowJoins
<1>5. usage' = usage /\ balance' = balance
  BY DEF Reserve
<1>6. FiniteUnits'
  BY <1>3, <1>4, <1>5 DEF FiniteUnits
<1>7. ASSUME NEW p \in Owners
      PROVE  /\ Reserved(p)' = Reserved(p) + (IF p = o THEN prices[c] ELSE 0)
             /\ Captured(p)' = Captured(p)
             /\ Charged(p)' = Charged(p)
  BY <1>3, <1>4, <1>5, SumTypes DEF Reserved, Captured, Charged, States
<1>8. Reserved(o) + prices[c] <= balance[o]
  BY <1>2, SumTypes DEF Reserve, CanReserve, LedgerTypeOK
<1> QED BY <1>1, <1>2, <1>5, <1>6, <1>7, <1>8

\* A row that stops being reserved, everything else in the table kept.
LEMMA RowSettled ==
  ASSUME NEW f \in Tables, NEW g \in Tables,
         NEW r \in ReservationIds, f[r].state = "reserved",
         NEW new \in {"captured", "released"},
         g[r].state = new, g[r].owner = f[r].owner, g[r].credits = f[r].credits,
         \A q \in ReservationIds \ {r} : g[q] = f[q],
         \A p \in Owners, st \in States : IsFiniteSet(Units(f, p, st))
  PROVE  /\ f[r].owner \in Owners /\ f[r].credits \in Nat
         /\ \A p \in Owners, st \in States : IsFiniteSet(Units(g, p, st))
         /\ Cardinality(Units(g, f[r].owner, "reserved")) + f[r].credits
              = Cardinality(Units(f, f[r].owner, "reserved"))
         /\ Cardinality(Units(g, f[r].owner, new))
              = Cardinality(Units(f, f[r].owner, new)) + f[r].credits
         /\ \A p \in Owners, st \in States :
              p # f[r].owner \/ st \notin {"reserved", new}
                => Units(g, p, st) = Units(f, p, st)
<1> DEFINE o == f[r].owner
           n == f[r].credits
<1>1. f[r] \in Row /\ o \in Owners /\ n \in Nat
  BY DEF Tables, NoRow, Row
<1>2. g[r].state = new /\ g[r].owner = o /\ g[r].credits = n
  OBVIOUS
<1>4. ASSUME NEW p \in Owners, NEW st \in States,
             p # o \/ st \notin {"reserved", new}
      PROVE  Units(g, p, st) = Units(f, p, st)
  <2>1. RowsOf(g, p, st) = RowsOf(f, p, st)
    BY <1>1, <1>2, <1>4 DEF RowsOf
  <2>2. \A q \in RowsOf(f, p, st) : g[q].credits = f[q].credits
    BY <1>2 DEF RowsOf
  <2> QED BY <2>1, <2>2, RowsKept
<1>5. /\ IsFiniteSet(Units(g, o, "reserved"))
      /\ Cardinality(Units(g, o, "reserved")) + n
           = Cardinality(Units(f, o, "reserved"))
  <2>1. /\ RowsOf(f, o, "reserved") = RowsOf(g, o, "reserved") \cup {r}
        /\ r \notin RowsOf(g, o, "reserved")
        /\ \A q \in RowsOf(g, o, "reserved") : g[q].credits = f[q].credits
    BY <1>1, <1>2 DEF RowsOf
  <2>2. IsFiniteSet(Units(f, o, "reserved"))
    BY <1>1 DEF States
  <2> HIDE DEF o
  <2> QED BY <1>1, <2>1, <2>2, RowLeaves
<1>6. /\ IsFiniteSet(Units(g, o, new))
      /\ Cardinality(Units(g, o, new)) = Cardinality(Units(f, o, new)) + n
  <2>1. /\ RowsOf(g, o, new) = RowsOf(f, o, new) \cup {r}
        /\ r \notin RowsOf(f, o, new)
        /\ \A q \in RowsOf(f, o, new) : g[q].credits = f[q].credits
    BY <1>1, <1>2 DEF RowsOf
  <2>2. IsFiniteSet(Units(f, o, new))
    BY <1>1 DEF States
  <2>3. g[r].credits = n /\ g[r].credits \in Nat
    BY <1>1, <1>2
  <2> HIDE DEF o, n
  <2> QED BY <2>1, <2>2, <2>3, RowJoins
<1>7. \A p \in Owners, st \in States : IsFiniteSet(Units(g, p, st))
  BY <1>4, <1>5, <1>6
<1> QED BY <1>1, <1>4, <1>5, <1>6, <1>7

\* A step that settles row r touches no other row and keeps the table typed.
LEMMA SettledRow ==
  ASSUME LedgerTypeOK, NEW r \in ReservationIds, IsReserved(r),
         NEW new \in {"captured", "released"},
         reservation' = [reservation EXCEPT ![r].state = new]
  PROVE  /\ reservation' \in Tables
         /\ reservation'[r].state = new
         /\ reservation'[r].owner = reservation[r].owner
         /\ reservation'[r].credits = reservation[r].credits
         /\ \A q \in ReservationIds \ {r} : reservation'[q] = reservation[q]
<1>1. reservation[r] \in Row
  BY DEF LedgerTypeOK, IsReserved, NoRow
<1>2. [reservation[r] EXCEPT !.state = new] \in Row
  BY <1>1 DEF Row
<1> QED BY <1>2 DEF LedgerTypeOK, Tables

\* capture() turns the credits a row holds into a charge of its owner.
LEMMA CaptureEffect ==
  ASSUME LedgerInv, NEW r \in ReservationIds, IsReserved(r), Capture(r)
  PROVE  LET o == reservation[r].owner
             n == reservation[r].credits
         IN  /\ LedgerTypeOK' /\ FiniteUnits'
             /\ o \in Owners /\ n \in Nat /\ n <= Reserved(o)
             /\ \A p \in Owners :
                  LET d == IF p = o THEN n ELSE 0 IN
                  /\ balance'[p] = balance[p] - d
                  /\ Reserved(p)' = Reserved(p) - d
                  /\ Captured(p)' = Captured(p) + d
                  /\ Charged(p)' = Charged(p) + d
<1> DEFINE o == reservation[r].owner
           n == reservation[r].credits
           e == [owner |-> o, component |-> reservation[r].component, credits |-> n]
<1>1. /\ reservation' = [reservation EXCEPT ![r].state = "captured"]
      /\ balance' = [balance EXCEPT ![o] = @ - n]
      /\ usage' = Append(usage, e)
      /\ prices' = prices /\ clock' = clock
  BY DEF Capture
<1>2. /\ reservation \in Tables
      /\ reservation[r].state = "reserved"
      /\ o \in Owners /\ n \in Nat
      /\ e \in UsageEvent
      /\ usage \in Seq(UsageEvent)
  BY DEF LedgerInv, LedgerTypeOK, Tables, IsReserved, Row, NoRow, UsageEvent
<1>3. /\ reservation' \in Tables
      /\ reservation'[r].state = "captured"
      /\ reservation'[r].owner = o
      /\ reservation'[r].credits = n
      /\ \A q \in ReservationIds \ {r} : reservation'[q] = reservation[q]
  BY <1>1, SettledRow DEF LedgerInv
<1>4. \A p \in Owners, st \in States : IsFiniteSet(Units(reservation, p, st))
  BY DEF LedgerInv, FiniteUnits
<1>5. /\ \A p \in Owners, st \in States : IsFiniteSet(Units(reservation', p, st))
      /\ Cardinality(Units(reservation', o, "reserved")) + n
           = Cardinality(Units(reservation, o, "reserved"))
      /\ Cardinality(Units(reservation', o, "captured"))
           = Cardinality(Units(reservation, o, "captured")) + n
      /\ \A p \in Owners, st \in States :
           p # o \/ st \notin {"reserved", "captured"}
             => Units(reservation', p, st) = Units(reservation, p, st)
  BY <1>2, <1>3, <1>4, RowSettled
<1>6. ASSUME NEW p \in Owners
      PROVE  /\ IsFiniteSet(UsageUnits(usage', p))
             /\ Cardinality(UsageUnits(usage', p))
                  = Cardinality(UsageUnits(usage, p)) + (IF o = p THEN n ELSE 0)
  <2>1. IsFiniteSet(UsageUnits(usage, p))
    BY DEF LedgerInv, FiniteUnits
  <2> HIDE DEF e
  <2>2. LET more == Append(usage, e) IN
          /\ IsFiniteSet(UsageUnits(more, p))
          /\ Cardinality(UsageUnits(more, p))
               = Cardinality(UsageUnits(usage, p))
                 + (IF e.owner = p THEN e.credits ELSE 0)
    BY <1>2, <2>1, EventAppended
  <2>3. e.owner = o /\ e.credits = n
    BY DEF e
  <2> QED BY <1>1, <2>2, <2>3
<1>7. FiniteUnits'
  BY <1>5, <1>6 DEF FiniteUnits
<1>8. LedgerTypeOK'
  BY <1>1, <1>2, <1>3 DEF LedgerInv, LedgerTypeOK, Tables
<1>9. ASSUME NEW p \in Owners
      PROVE  /\ balance'[p] = balance[p] - (IF p = o THEN n ELSE 0)
             /\ Reserved(p)' = Reserved(p) - (IF p = o THEN n ELSE 0)
             /\ Captured(p)' = Captured(p) + (IF p = o THEN n ELSE 0)
             /\ Charged(p)' = Charged(p) + (IF p = o THEN n ELSE 0)
  <2>1. /\ Reserved(p) \in Nat /\ Captured(p) \in Nat
        /\ balance[p] \in Int
    BY SumTypes DEF LedgerInv, LedgerTypeOK
  <2>2. /\ Cardinality(Units(reservation', p, "reserved")) \in Nat
        /\ Cardinality(Units(reservation', p, "captured")) \in Nat
    BY <1>5, FS_CardinalityType DEF States
  <2>3. /\ balance'[p] = balance[p] - (IF p = o THEN n ELSE 0)
        /\ Charged(p)' = Charged(p) + (IF p = o THEN n ELSE 0)
    BY <1>1, <1>2, <1>6 DEF LedgerInv, LedgerTypeOK, Charged
  <2>4. CASE p = o
    BY <1>2, <1>5, <2>1, <2>2, <2>3, <2>4 DEF Reserved, Captured
  <2>5. CASE p # o
    BY <1>5, <2>1, <2>3, <2>5 DEF Reserved, Captured, States
  <2> QED BY <2>4, <2>5
<1>10. n <= Reserved(o)
  <2>1. Cardinality(Units(reservation', o, "reserved")) \in Nat
    BY <1>2, <1>5, FS_CardinalityType DEF States
  <2> QED BY <1>2, <1>5, <2>1 DEF Reserved
<1> QED BY <1>2, <1>7, <1>8, <1>9, <1>10

\* release() gives the credits a row holds back to its owner.
LEMMA ReleaseEffect ==
  ASSUME LedgerInv, NEW r \in ReservationIds, IsReserved(r), Release(r)
  PROVE  /\ LedgerTypeOK' /\ FiniteUnits' /\ balance' = balance
         /\ \A p \in Owners : /\ Reserved(p)' <= Reserved(p)
                              /\ Captured(p)' = Captured(p)
                              /\ Charged(p)' = Charged(p)
<1> DEFINE o == reservation[r].owner
           n == reservation[r].credits
<1>1. /\ reservation' = [reservation EXCEPT ![r].state = "released"]
      /\ balance' = balance /\ usage' = usage
      /\ prices' = prices /\ clock' = clock
  BY DEF Release
<1>2. /\ reservation \in Tables
      /\ reservation[r].state = "reserved"
      /\ o \in Owners /\ n \in Nat
  BY DEF LedgerInv, LedgerTypeOK, Tables, IsReserved, Row, NoRow
<1>3. /\ reservation' \in Tables
      /\ reservation'[r].state = "released"
      /\ reservation'[r].owner = o
      /\ reservation'[r].credits = n
      /\ \A q \in ReservationIds \ {r} : reservation'[q] = reservation[q]
  BY <1>1, SettledRow DEF LedgerInv
<1>4. \A p \in Owners, st \in States : IsFiniteSet(Units(reservation, p, st))
  BY DEF LedgerInv, FiniteUnits
<1>5. /\ \A p \in Owners, st \in States : IsFiniteSet(Units(reservation', p, st))
      /\ Cardinality(Units(reservation', o, "reserved")) + n
           = Cardinality(Units(reservation, o, "reserved"))
      /\ \A p \in Owners, st \in States :
           p # o \/ st \notin {"reserved", "released"}
             => Units(reservation', p, st) = Units(reservation, p, st)
  BY <1>2, <1>3, <1>4, RowSettled
<1>6. FiniteUnits' /\ LedgerTypeOK'
  BY <1>1, <1>3, <1>5 DEF LedgerInv, FiniteUnits, LedgerTypeOK, Tables
<1>7. ASSUME NEW p \in Owners
      PROVE  /\ Reserved(p)' <= Reserved(p)
             /\ Captured(p)' = Captured(p)
             /\ Charged(p)' = Charged(p)
  <2>1. /\ Cardinality(Units(reservation, p, "reserved")) \in Nat
        /\ Cardinality(Units(reservation', p, "reserved")) \in Nat
    BY <1>4, <1>5, FS_CardinalityType DEF States
  <2>2. Reserved(p)' <= Reserved(p)
    <3>1. CASE p = o
      BY <1>2, <1>5, <2>1, <3>1 DEF Reserved
    <3>2. CASE p # o
      BY <1>5, <2>1, <3>2 DEF Reserved, States
    <3> QED BY <3>1, <3>2
  <2>3. Units(reservation', p, "captured") = Units(reservation, p, "captured")
    BY <1>5 DEF States
  <2> QED BY <1>1, <2>2, <2>3 DEF Captured, Charged
<1> QED BY <1>1, <1>6, <1>7

\* reconcile_abandoned() gives credits back to any number of owners.
LEMMA ReconcileEffect ==
  ASSUME LedgerInv, NEW age, Reconcile(age), prices' \in [Components -> Nat]
  PROVE  /\ LedgerTypeOK' /\ FiniteUnits' /\ balance' = balance
         /\ \A p \in Owners : /\ Reserved(p)' <= Reserved(p)
                              /\ Captured(p)' = Captured(p)
                              /\ Charged(p)' = Charged(p)
<1>1. /\ reservation \in Tables
      /\ balance' = balance /\ usage' = usage /\ clock' = clock
  BY DEF LedgerInv, LedgerTypeOK, Tables, Reconcile
<1>2. ASSUME NEW r \in ReservationIds
      PROVE  /\ reservation'[r] \in Row \cup {NoRow}
             /\ ~ IsReserved(r) => reservation'[r] = reservation[r]
             /\ IsReserved(r)
                  => /\ reservation'[r].state \in {"reserved", "released"}
                     /\ reservation'[r].owner = reservation[r].owner
                     /\ reservation'[r].credits = reservation[r].credits
  <2>1. reservation'[r] = IF Abandoned(r, age)
                          THEN [reservation[r] EXCEPT !.state = "released"]
                          ELSE reservation[r]
    BY DEF Reconcile
  <2>2. IsReserved(r) => reservation[r] \in Row
    BY <1>1 DEF Tables, IsReserved, NoRow
  <2>3. CASE Abandoned(r, age)
    BY <2>1, <2>2, <2>3 DEF Abandoned, IsReserved, Row
  <2>4. CASE ~ Abandoned(r, age)
    BY <1>1, <2>1, <2>4 DEF Tables, IsReserved
  <2> QED BY <2>3, <2>4
<1>3. reservation' \in Tables
  BY <1>2 DEF Reconcile, Tables
<1>4. LedgerTypeOK'
  BY <1>1, <1>3 DEF LedgerInv, LedgerTypeOK, Tables
<1>5. ASSUME NEW p \in Owners
      PROVE  /\ Units(reservation', p, "reserved") \subseteq Units(reservation, p, "reserved")
             /\ Units(reservation', p, "captured") = Units(reservation, p, "captured")
             /\ Units(reservation', p, "released")
                  \subseteq Units(reservation, p, "reserved")
                             \cup Units(reservation, p, "released")
  <2>1. /\ RowsOf(reservation', p, "reserved") \subseteq RowsOf(reservation, p, "reserved")
        /\ RowsOf(reservation', p, "captured") = RowsOf(reservation, p, "captured")
        /\ RowsOf(reservation', p, "released")
             \subseteq RowsOf(reservation, p, "reserved")
                        \cup RowsOf(reservation, p, "released")
    BY <1>2 DEF RowsOf, IsReserved
  <2>2. \A r \in ReservationIds :
           reservation[r].state \in States
             => reservation'[r].credits = reservation[r].credits
    BY <1>2
  <2>3. \A st \in States : RowsOf(reservation, p, st)
           \subseteq {r \in ReservationIds : reservation[r].state \in States}
    BY DEF RowsOf
  <2> QED BY <2>1, <2>2, <2>3 DEF Units, States
<1>6. ASSUME NEW p \in Owners
      PROVE  /\ IsFiniteSet(Units(reservation, p, "reserved"))
             /\ IsFiniteSet(Units(reservation, p, "captured"))
             /\ IsFiniteSet(Units(reservation, p, "released"))
  BY DEF LedgerInv, FiniteUnits, States
<1>7. ASSUME NEW p \in Owners, NEW st \in States
      PROVE  IsFiniteSet(Units(reservation', p, st))
  <2>1. IsFiniteSet(Units(reservation, p, "reserved")
                    \cup Units(reservation, p, "released"))
    BY <1>6, FS_Union
  <2> QED BY <1>5, <1>6, <2>1, FS_Subset DEF States
<1>8. FiniteUnits'
  BY <1>1, <1>7 DEF LedgerInv, FiniteUnits
<1>9. \A p \in Owners : Reserved(p)' <= Reserved(p)
  BY <1>5, <1>6, FS_Subset DEF Reserved
<1> QED BY <1>1, <1>4, <1>5, <1>8, <1>9 DEF Captured, Charged

-----------------------------------------------------------------------------
(* The theorems.                                                            *)

\* One step of the ledger preserves the inductive invariant.
LEMMA StepInv == LedgerInv /\ [LedgerNext]_ledgerVars => LedgerInv'
<1> SUFFICES ASSUME LedgerInv, [LedgerNext]_ledgerVars PROVE LedgerInv'
  OBVIOUS
<1>sums. \A p \in Owners :
           /\ Reserved(p) \in Nat /\ Captured(p) \in Nat /\ Charged(p) \in Nat
           /\ balance[p] \in Int
           /\ Reserved(p) <= balance[p]
           /\ balance[p] + Charged(p) = InitialCredits
           /\ Charged(p) = Captured(p)
  BY SumTypes DEF LedgerInv, LedgerTypeOK, Solvent, Conserved, ChargesBacked
<1>same. ASSUME ledgerVars' = ledgerVars PROVE LedgerInv'
  BY <1>same DEF LedgerInv, LedgerTypeOK, FiniteUnits, Solvent, Conserved,
       ChargesBacked, Reserved, Captured, Charged, ledgerVars
<1>back. ASSUME LedgerTypeOK', FiniteUnits', balance' = balance,
                \A p \in Owners : /\ Reserved(p)' <= Reserved(p)
                                  /\ Captured(p)' = Captured(p)
                                  /\ Charged(p)' = Charged(p)
         PROVE  LedgerInv'
  <2>1. \A p \in Owners : Reserved(p)' \in Nat
    BY <1>back, FS_CardinalityType DEF FiniteUnits, Reserved, States
  <2>2. Solvent' /\ Conserved' /\ ChargesBacked'
    BY <1>sums, <1>back, <2>1 DEF Solvent, Conserved, ChargesBacked
  <2> QED BY <1>back, <2>2 DEF LedgerInv
<1>1. ASSUME NEW o \in Owners, NEW c \in Components, NEW r \in ReservationIds,
             Reserve(o, c, r)
      PROVE  LedgerInv'
  <2>1. /\ LedgerTypeOK' /\ FiniteUnits'
        /\ prices[c] \in Nat /\ balance' = balance
        /\ Reserved(o) + prices[c] <= balance[o]
        /\ \A p \in Owners :
             /\ Reserved(p)' = Reserved(p) + (IF p = o THEN prices[c] ELSE 0)
             /\ Captured(p)' = Captured(p)
             /\ Charged(p)' = Charged(p)
    BY <1>1, ReserveEffect
  <2>2. Solvent' /\ Conserved' /\ ChargesBacked'
    BY <1>sums, <2>1 DEF Solvent, Conserved, ChargesBacked
  <2> QED BY <2>1, <2>2 DEF LedgerInv
<1>2. ASSUME NEW r \in ReservationIds, Capture(r) PROVE LedgerInv'
  <2>1. CASE IsReserved(r)
    <3> DEFINE o == reservation[r].owner
               n == reservation[r].credits
    <3>1. /\ LedgerTypeOK' /\ FiniteUnits'
          /\ n \in Nat /\ n <= Reserved(o)
          /\ \A p \in Owners :
               LET d == IF p = o THEN n ELSE 0 IN
               /\ balance'[p] = balance[p] - d
               /\ Reserved(p)' = Reserved(p) - d
               /\ Captured(p)' = Captured(p) + d
               /\ Charged(p)' = Charged(p) + d
      BY <1>2, <2>1, CaptureEffect
    <3> HIDE DEF o, n
    <3>2. Solvent' /\ Conserved' /\ ChargesBacked'
      BY <1>sums, <3>1, LedgerAssumption DEF Solvent, Conserved, ChargesBacked
    <3> QED BY <3>1, <3>2 DEF LedgerInv
  <2>2. CASE ~ IsReserved(r)
    BY <1>2, <1>same, <2>2 DEF Capture, ledgerVars
  <2> QED BY <2>1, <2>2
<1>3. ASSUME NEW r \in ReservationIds, Release(r) PROVE LedgerInv'
  <2>1. CASE IsReserved(r)
    BY <1>3, <1>back, <2>1, ReleaseEffect
  <2>2. CASE ~ IsReserved(r)
    BY <1>3, <1>same, <2>2 DEF Release, ledgerVars
  <2> QED BY <2>1, <2>2
<1>4. ASSUME Boot PROVE LedgerInv'
  <2>1. Reconcile(Grace) /\ prices' \in [Components -> Nat]
    BY <1>4, LedgerAssumption DEF Boot
  <2> QED BY <1>back, <2>1, ReconcileEffect
<1>5. ASSUME OperatorReconcile PROVE LedgerInv'
  <2>1. Reconcile(0) /\ prices' \in [Components -> Nat]
    BY <1>5 DEF OperatorReconcile, LedgerInv, LedgerTypeOK
  <2> QED BY <1>back, <2>1, ReconcileEffect
<1>6. ASSUME Tick PROVE LedgerInv'
  BY <1>6 DEF Tick, LedgerInv, LedgerTypeOK, FiniteUnits, Solvent, Conserved,
       ChargesBacked, Reserved, Captured, Charged
<1> QED BY <1>same, <1>1, <1>2, <1>3, <1>4, <1>5, <1>6 DEF LedgerNext

\* The inductive invariant of the ledger holds in every reachable state.
THEOREM LedgerInvariance == LedgerSpec => []LedgerInv
<1> QED BY InitInv, StepInv, PTL DEF LedgerSpec

\* The tables are always well typed.
THEOREM LedgerTypeCorrect == LedgerSpec => []LedgerTypeOK
<1>1. LedgerInv => LedgerTypeOK
  BY DEF LedgerInv
<1> QED BY <1>1, LedgerInvariance, PTL

\* No sequence of reserves, captures, releases, reconciliations and reboots
\* under new prices promises an owner more credits than it has.
THEOREM LedgerSolvency == LedgerSpec => []Solvent
<1>1. LedgerInv => Solvent
  BY DEF LedgerInv
<1> QED BY <1>1, LedgerInvariance, PTL

\* The usage projection accounts for every credit an owner has lost.
THEOREM LedgerConservation == LedgerSpec => []Conserved
<1>1. LedgerInv => Conserved
  BY DEF LedgerInv
<1> QED BY <1>1, LedgerInvariance, PTL

\* No reservation is charged twice, none is captured without its event.
THEOREM LedgerBacking == LedgerSpec => []ChargesBacked
<1>1. LedgerInv => ChargesBacked
  BY DEF LedgerInv
<1> QED BY <1>1, LedgerInvariance, PTL

\* No transaction touches a captured or a released row again.
THEOREM LedgerSettled == LedgerSpec => SettledForever
<1> DEFINE Keep == \A r \in ReservationIds :
                     reservation[r].state \in {"captured", "released"}
                       => reservation'[r] = reservation[r]
<1>1. ASSUME LedgerTypeOK, LedgerNext PROVE Keep
  <2> SUFFICES ASSUME NEW r \in ReservationIds,
                      reservation[r].state \in {"captured", "released"}
               PROVE  reservation'[r] = reservation[r]
    OBVIOUS
  <2>1. ~ IsReserved(r) /\ reservation[r] # NoRow
    BY DEF IsReserved, NoRow
  <2>2. ASSUME NEW q \in ReservationIds, NEW row, q # r,
               reservation' = [reservation EXCEPT ![q] = row]
        PROVE  reservation'[r] = reservation[r]
    BY <1>1, <2>2 DEF LedgerTypeOK
  <2>3. ASSUME NEW o \in Owners, NEW c \in Components,
               NEW q \in ReservationIds, Reserve(o, c, q)
        PROVE  reservation'[r] = reservation[r]
    BY <2>1, <2>2, <2>3 DEF Reserve
  <2>4. ASSUME NEW q \in ReservationIds, Capture(q)
        PROVE  reservation'[r] = reservation[r]
    BY <1>1, <2>1, <2>4 DEF Capture, LedgerTypeOK
  <2>5. ASSUME NEW q \in ReservationIds, Release(q)
        PROVE  reservation'[r] = reservation[r]
    BY <1>1, <2>1, <2>5 DEF Release, LedgerTypeOK
  <2>6. ASSUME NEW age, Reconcile(age)
        PROVE  reservation'[r] = reservation[r]
    BY <2>1, <2>6 DEF Reconcile, Abandoned
  <2>7. CASE Tick
    BY <2>7 DEF Tick
  <2> QED BY <1>1, <2>3, <2>4, <2>5, <2>6, <2>7
          DEF LedgerNext, Boot, OperatorReconcile
<1>2. LedgerTypeOK /\ [LedgerNext]_ledgerVars => [Keep]_ledgerVars
  BY <1>1
<1> QED BY <1>2, LedgerTypeCorrect, PTL DEF LedgerSpec, SettledForever

-----------------------------------------------------------------------------
(* The ledger implements the account.                                       *)

\* What an owner sees of a ledger state lies between nothing and the grant.
LEMMA AccountBounds ==
  ASSUME LedgerInv, NEW o \in Owners
  PROVE  /\ Reserved(o) \in 0 .. InitialCredits
         /\ Charged(o) \in Nat
         /\ balance[o] - Reserved(o) \in 0 .. InitialCredits
<1>1. /\ Reserved(o) \in Nat /\ Charged(o) \in Nat /\ balance[o] \in Int
      /\ Reserved(o) <= balance[o]
      /\ balance[o] + Charged(o) = InitialCredits
  BY SumTypes DEF LedgerInv, LedgerTypeOK, Solvent, Conserved
<1> QED BY <1>1, LedgerAssumption

\* Giving back what the reservations of any owners held is a Return.
LEMMA GivingBackIsReturn ==
  ASSUME LedgerInv, LedgerInv', balance' = balance,
         \A p \in Owners : Reserved(p)' <= Reserved(p) /\ Charged(p)' = Charged(p)
  PROVE  Account!Return
<1> DEFINE n == [p \in Owners |-> Reserved(p) - Reserved(p)']
<1>1. ASSUME NEW p \in Owners
      PROVE  Reserved(p) \in 0 .. InitialCredits /\ Reserved(p)' \in Nat
             /\ balance[p] \in Int
  <2>1. Reserved(p)' \in Nat
    BY FS_CardinalityType DEF LedgerInv, FiniteUnits, Reserved, States
  <2> QED BY <2>1, AccountBounds DEF LedgerInv, LedgerTypeOK
<1>2. n \in [Owners -> 0 .. InitialCredits]
  BY <1>1, LedgerAssumption
<1>3. \A p \in Owners : /\ n[p] <= Reserved(p)
                        /\ Reserved(p)' = Reserved(p) - n[p]
                        /\ balance'[p] - Reserved(p)'
                             = (balance[p] - Reserved(p)) + n[p]
  BY <1>1
<1> HIDE DEF n
<1> QED BY <1>2, <1>3 DEF Account!Return

\* Setting credits of one owner aside is a Hold.
LEMMA SettingAsideIsHold ==
  ASSUME LedgerInv, NEW o \in Owners, NEW n \in 0 .. InitialCredits,
         n <= balance[o] - Reserved(o), balance' = balance,
         \A p \in Owners : /\ Reserved(p)' = Reserved(p) + (IF p = o THEN n ELSE 0)
                          /\ Charged(p)' = Charged(p)
  PROVE  Account!Hold(o, n)
<1> DEFINE avl == [p \in Owners |-> balance[p] - Reserved(p)]
           hld == [p \in Owners |-> Reserved(p)]
           spt == [p \in Owners |-> Charged(p)]
<1>1. ASSUME NEW p \in Owners
      PROVE  Reserved(p) \in Int /\ balance[p] \in Int
  BY AccountBounds DEF LedgerInv, LedgerTypeOK
<1>2. \A p \in Owners : avl'[p] = (IF p = o THEN avl[p] - n ELSE avl[p])
  BY <1>1
<1>3. \A p \in Owners : hld'[p] = (IF p = o THEN hld[p] + n ELSE hld[p])
  BY <1>1
<1>4. spt' = spt
  OBVIOUS
<1>5. n <= avl[o]
  OBVIOUS
<1>6. avl' = [avl EXCEPT ![o] = @ - n]
  BY <1>2
<1>7. hld' = [hld EXCEPT ![o] = @ + n]
  BY <1>3
<1> QED BY <1>4, <1>5, <1>6, <1>7 DEF Account!Hold

\* Charging one owner held credits is a Spend.
LEMMA ChargingIsSpend ==
  ASSUME LedgerInv, NEW o \in Owners, NEW n \in 0 .. InitialCredits,
         n <= Reserved(o),
         \A p \in Owners : LET d == IF p = o THEN n ELSE 0 IN
            /\ balance'[p] = balance[p] - d
            /\ Reserved(p)' = Reserved(p) - d
            /\ Charged(p)' = Charged(p) + d
  PROVE  Account!Spend(o, n)
<1> DEFINE avl == [p \in Owners |-> balance[p] - Reserved(p)]
           hld == [p \in Owners |-> Reserved(p)]
           spt == [p \in Owners |-> Charged(p)]
<1>1. ASSUME NEW p \in Owners
      PROVE  Reserved(p) \in Int /\ balance[p] \in Int /\ Charged(p) \in Int
  BY AccountBounds DEF LedgerInv, LedgerTypeOK
<1>2. \A p \in Owners : avl'[p] = avl[p]
  BY <1>1
<1>3. \A p \in Owners : hld'[p] = (IF p = o THEN hld[p] - n ELSE hld[p])
  BY <1>1
<1>4. \A p \in Owners : spt'[p] = (IF p = o THEN spt[p] + n ELSE spt[p])
  BY <1>1
<1>5. n <= hld[o]
  OBVIOUS
<1>6. avl' = avl
  BY <1>2
<1>7. hld' = [hld EXCEPT ![o] = @ - n]
  BY <1>3
<1>8. spt' = [spt EXCEPT ![o] = @ + n]
  BY <1>4
<1> QED BY <1>5, <1>6, <1>7, <1>8 DEF Account!Spend

\* The ledger implements the account: initially everything is available, and
\* each transaction is a hold, a spend, a return or invisible.
THEOREM LedgerImplementsAccount == LedgerSpec => ImplementsAccount
<1>1. LedgerInit => Account!AccountInit
  <2> SUFFICES ASSUME LedgerInit PROVE Account!AccountInit
    OBVIOUS
  <2>1. LedgerInv
    BY InitInv
  <2>2. ASSUME NEW o \in Owners
        PROVE  /\ balance[o] = InitialCredits
               /\ Reserved(o) = 0 /\ Charged(o) = 0
    <3>1. RowsOf(reservation, o, "reserved") = {} /\ EventsOf(usage, o) = {}
      BY DEF LedgerInit, RowsOf, NoRow, EventsOf
    <3>2. Units(reservation, o, "reserved") = {} /\ UsageUnits(usage, o) = {}
      BY <3>1 DEF Units, UsageUnits
    <3> QED BY <3>2, FS_EmptySet DEF Reserved, Charged, LedgerInit
  <2> QED BY <2>2, LedgerAssumption DEF Account!AccountInit
<1>2. LedgerInv /\ LedgerInv' /\ [LedgerNext]_ledgerVars
        => [Account!AccountNext]_(Account!accountVars)
  <2> SUFFICES ASSUME LedgerInv, LedgerInv', [LedgerNext]_ledgerVars
               PROVE  Account!AccountNext \/ UNCHANGED Account!accountVars
    OBVIOUS
  <2>same. ASSUME reservation' = reservation, balance' = balance, usage' = usage
           PROVE  UNCHANGED Account!accountVars
    BY <2>same DEF Account!accountVars, Reserved, Charged
  <2>1. ASSUME NEW o \in Owners, NEW c \in Components, NEW r \in ReservationIds,
               Reserve(o, c, r)
        PROVE  Account!AccountNext
    <3>1. /\ prices[c] \in Nat /\ balance' = balance
          /\ Reserved(o) + prices[c] <= balance[o]
          /\ \A p \in Owners :
               /\ Reserved(p)' = Reserved(p) + (IF p = o THEN prices[c] ELSE 0)
               /\ Charged(p)' = Charged(p)
      BY <2>1, ReserveEffect
    <3>2. \A p \in Owners : /\ Reserved(p) \in 0 .. InitialCredits
                            /\ balance[p] \in Int
                            /\ balance[p] - Reserved(p) \in 0 .. InitialCredits
      BY AccountBounds DEF LedgerInv, LedgerTypeOK
    <3>3. PICK n \in 0 .. InitialCredits : n = prices[c]
      BY <3>1, <3>2, LedgerAssumption
    <3>4. \A p \in Owners :
             /\ Reserved(p)' = Reserved(p) + (IF p = o THEN n ELSE 0)
             /\ Charged(p)' = Charged(p)
      BY <3>1, <3>3
    <3>5. balance' = balance /\ n <= balance[o] - Reserved(o)
      BY <3>1, <3>2, <3>3
    <3>6. Account!Hold(o, n)
      BY <3>4, <3>5, SettingAsideIsHold
    <3> QED BY <3>6 DEF Account!AccountNext
  <2>2. ASSUME NEW r \in ReservationIds, Capture(r), IsReserved(r)
        PROVE  Account!AccountNext
    <3> DEFINE o == reservation[r].owner
               n == reservation[r].credits
    <3>1. /\ o \in Owners /\ n \in Nat /\ n <= Reserved(o)
          /\ \A p \in Owners :
               LET d == IF p = o THEN n ELSE 0 IN
               /\ balance'[p] = balance[p] - d
               /\ Reserved(p)' = Reserved(p) - d
               /\ Charged(p)' = Charged(p) + d
      BY <2>2, CaptureEffect
    <3>2. \A p \in Owners : /\ Reserved(p) \in 0 .. InitialCredits
                            /\ balance[p] \in Int
                            /\ Charged(p) \in Nat
      BY AccountBounds DEF LedgerInv, LedgerTypeOK
    <3>3. n \in 0 .. InitialCredits
      BY <3>1, <3>2, LedgerAssumption
    <3> HIDE DEF o, n
    <3>4. Account!Spend(o, n)
      BY <3>1, <3>3, ChargingIsSpend
    <3> QED BY <3>1, <3>3, <3>4 DEF Account!AccountNext
  <2>3. ASSUME NEW r \in ReservationIds, Release(r), IsReserved(r)
        PROVE  Account!AccountNext
    BY <2>3, ReleaseEffect, GivingBackIsReturn DEF Account!AccountNext
  <2>4. ASSUME NEW age, Reconcile(age), prices' \in [Components -> Nat]
        PROVE  Account!AccountNext
    BY <2>4, ReconcileEffect, GivingBackIsReturn DEF Account!AccountNext
  <2>5. prices' \in [Components -> Nat]
    BY DEF LedgerInv, LedgerTypeOK
  <2>6. CASE UNCHANGED ledgerVars
    BY <2>6, <2>same DEF ledgerVars
  <2>7. ASSUME NEW r \in ReservationIds, ~ IsReserved(r), Capture(r) \/ Release(r)
        PROVE  UNCHANGED Account!accountVars
    BY <2>7, <2>same DEF Capture, Release
  <2>8. CASE Tick
    BY <2>8, <2>same DEF Tick
  <2> QED BY <2>1, <2>2, <2>3, <2>4, <2>5, <2>6, <2>7, <2>8
          DEF LedgerNext, Boot, OperatorReconcile
<1> QED BY <1>1, <1>2, LedgerInvariance, PTL
        DEF LedgerSpec, ImplementsAccount, Account!AccountSpec
=============================================================================
