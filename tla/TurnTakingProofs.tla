-------------------------- MODULE TurnTakingProofs --------------------------
(***************************************************************************)
(* What TLAPS proves of TurnTaking: it implements the ledger, so that the  *)
(* theorems of CreditLedgerProofs hold of the service, and a handler that  *)
(* answers leaves no reservation open.                                     *)
(***************************************************************************)
EXTENDS TurnTaking, CreditLedgerProofs, SequenceTheorems

ThreadType == [owner : Owners \cup {"none"}, epoch : 0 .. MaxEpoch]

HandlerType == [step   : {"idle", "batch", "second", "reply", "capture", "arm",
                          "publish"},
                owner  : Owners \cup {"none"},
                thread : Threads \cup {"none"},
                epoch  : 0 .. MaxEpoch,
                held   : Seq(ReservationIds),
                group  : Groups \cup {"none"}]

\* What each transaction of a handler relies on: the reservations it holds,
\* the owner and the epoch it works for, the group it has scheduled.
HandlerOK(h) ==
  /\ h \in HandlerType
  /\ h.step = "batch" => h.epoch < MaxEpoch /\ h.thread \in Threads
  /\ h.step = "second" => h.owner \in Owners /\ Len(h.held) = 1
  /\ h.step = "capture" => h.held # << >>
  /\ h.step \in {"arm", "publish"} => h.held = << >> /\ h.group \in Groups
  /\ h.step = "idle" => h.held = << >>

HandlerInv == thread \in [Threads -> ThreadType] /\ HandlerOK(handler)

-----------------------------------------------------------------------------
(* The handler.                                                             *)

\* Between two handlers nothing is held and nothing is to be done.
LEMMA IdleOK == HandlerOK(Idle)
BY TurnAssumption DEF HandlerOK, HandlerType, Idle, Handling

\* Settle finds the next transaction and forgets no reservation.
LEMMA SettleOK ==
  ASSUME NEW h \in HandlerType
  PROVE  HandlerOK(Settle(h)) /\ HeldIds(Settle(h)) = HeldIds(h)
<1>1. CASE h.held # << >>
  BY <1>1 DEF Settle, HandlerOK, HandlerType, HeldIds
<1>2. CASE h.held = << >> /\ h.group # "none"
  BY <1>2 DEF Settle, HandlerOK, HandlerType, HeldIds
<1>3. CASE h.held = << >> /\ h.group = "none"
  <2>1. Settle(h) = Idle
    BY <1>3 DEF Settle
  <2>2. HeldIds(h) = {} /\ HeldIds(Idle) = {}
    BY <1>3 DEF HeldIds, Idle, Handling
  <2> QED BY <2>1, <2>2, IdleOK
<1> QED BY <1>1, <1>2, <1>3

\* Reserving once more for the reply.
LEMMA HoldMore ==
  ASSUME NEW h \in HandlerType, NEW r \in ReservationIds
  PROVE  LET k == [h EXCEPT !.step = "reply", !.held = Append(@, r)] IN
         HandlerOK(k) /\ HeldIds(k) = HeldIds(h) \cup {r}
<1> DEFINE k == [h EXCEPT !.step = "reply", !.held = Append(@, r)]
<1>1. h.held \in Seq(ReservationIds) /\ Append(h.held, r) \in Seq(ReservationIds)
  BY DEF HandlerType
<1>2. k.step = "reply" /\ k.held = Append(h.held, r)
  BY DEF HandlerType
<1>3. k \in HandlerType
  BY <1>1 DEF HandlerType
<1>4. HeldIds(k) = HeldIds(h) \cup {r}
  <2>1. /\ DOMAIN Append(h.held, r) = DOMAIN h.held \cup {Len(h.held) + 1}
        /\ \A i \in DOMAIN h.held : Append(h.held, r)[i] = h.held[i]
        /\ Append(h.held, r)[Len(h.held) + 1] = r
    BY <1>1
  <2> HIDE DEF k
  <2> QED BY <1>2, <2>1 DEF HeldIds
<1> HIDE DEF k
<1>5. HandlerOK(k)
  BY <1>2, <1>3 DEF HandlerOK
<1> QED BY <1>4, <1>5 DEF k

\* Capturing what is first.
LEMMA HoldLess ==
  ASSUME NEW h \in HandlerType, h.held # << >>
  PROVE  LET k == [h EXCEPT !.held = Tail(@)] IN
         k \in HandlerType /\ HeldIds(h) = {Head(h.held)} \cup HeldIds(k)
<1> DEFINE k == [h EXCEPT !.held = Tail(@)]
<1>1. h.held \in Seq(ReservationIds) /\ Tail(h.held) \in Seq(ReservationIds)
  BY DEF HandlerType
<1>2. k.held = Tail(h.held)
  BY DEF HandlerType
<1>3. k \in HandlerType
  BY <1>1 DEF HandlerType
<1>4. HeldIds(h) = {Head(h.held)} \cup HeldIds(k)
  <2>1. /\ 1 \in DOMAIN h.held /\ h.held[1] = Head(h.held)
        /\ \A i \in DOMAIN Tail(h.held) :
             i + 1 \in DOMAIN h.held /\ Tail(h.held)[i] = h.held[i + 1]
        /\ \A i \in DOMAIN h.held \ {1} :
             i - 1 \in DOMAIN Tail(h.held) /\ Tail(h.held)[i - 1] = h.held[i]
    BY <1>1
  <2> HIDE DEF k
  <2>2. ASSUME NEW i \in DOMAIN h.held
        PROVE  h.held[i] \in {Head(h.held)} \cup HeldIds(k)
    <3>1. CASE i = 1
      BY <2>1, <3>1
    <3>2. CASE i # 1
      BY <1>2, <2>1, <3>2 DEF HeldIds
    <3> QED BY <3>1, <3>2
  <2>3. ASSUME NEW i \in DOMAIN Tail(h.held)
        PROVE  Tail(h.held)[i] \in HeldIds(h)
    BY <2>1 DEF HeldIds
  <2>4. Head(h.held) \in HeldIds(h)
    BY <2>1 DEF HeldIds
  <2>5. HeldIds(h) \subseteq {Head(h.held)} \cup HeldIds(k)
    BY <2>2 DEF HeldIds
  <2>6. HeldIds(k) \subseteq HeldIds(h)
    BY <1>2, <2>3 DEF HeldIds
  <2> QED BY <2>4, <2>5, <2>6
<1> HIDE DEF k
<1> QED BY <1>3, <1>4 DEF k

\* The service starts between two handlers.
LEMMA HandlerInit == Init => HandlerInv
BY IdleOK, TurnAssumption
   DEF Init, HandlerInv, ThreadType, NoThread

\* Each transaction leaves the handler at its next one, with the owner, the
\* reservations and the group that one relies on.
LEMMA HandlerStepInv == HandlerInv /\ [Next]_vars => HandlerInv'
<1> SUFFICES ASSUME HandlerInv, [Next]_vars PROVE HandlerInv'
  OBVIOUS
<1> USE DEF HandlerInv
<1>same. ASSUME thread' = thread, handler' = handler PROVE HandlerInv'
  BY <1>same
<1>idle. ASSUME thread' = thread, handler' = Idle PROVE HandlerInv'
  BY <1>idle, IdleOK
<1>1. ASSUME NEW o \in Owners, NEW t \in Threads, OpenThread(o, t)
      PROVE  HandlerInv'
  <2>1. thread' \in [Threads -> ThreadType]
    BY <1>1 DEF OpenThread, ThreadType
  <2> QED BY <1>1, <2>1 DEF OpenThread
<1>2. ASSUME NEW o \in Owners, NEW t \in Threads, Submit(o, t)
      PROVE  HandlerInv'
  <2>1. thread[t].epoch \in 0 .. MaxEpoch /\ thread[t].epoch < MaxEpoch
    BY <1>2 DEF Submit, ThreadType
  <2>2. ASSUME NEW held \in Seq(ReservationIds)
        PROVE  HandlerOK(Handling("batch", o, t, thread[t].epoch, held))
    BY <2>1 DEF HandlerOK, HandlerType, Handling
  <2>3. << >> \in Seq(ReservationIds)
        /\ \A r \in ReservationIds : <<r>> \in Seq(ReservationIds)
    OBVIOUS
  <2>4. HandlerOK(handler')
    BY <1>2, <2>2, <2>3 DEF Submit
  <2> QED BY <1>2, <2>4 DEF Submit, tables
<1>3. ASSUME NEW o \in Owners, NEW t \in Threads, NEW e \in 0 .. MaxEpoch,
             Respond(o, t, e)
      PROVE  HandlerInv'
  <2>1. ASSUME NEW r \in ReservationIds
        PROVE  HandlerOK(Handling("second", o, t, e, <<r>>))
    BY DEF HandlerOK, HandlerType, Handling
  <2> QED BY <1>3, <2>1 DEF Respond, tables
<1>4. CASE CommitBatch
  <2>1. HandlerOK(handler')
    BY <1>4, SettleOK DEF CommitBatch, HandlerOK
  <2>2. handler.epoch + 1 \in 0 .. MaxEpoch
    BY <1>4, TurnAssumption DEF CommitBatch, At, HandlerOK, HandlerType
  <2>3. thread' \in [Threads -> ThreadType]
    BY <1>4, <2>2 DEF CommitBatch, ThreadType
  <2> QED BY <2>1, <2>3
<1>5. CASE ReserveSecond
  <2>1. PICK r \in ReservationIds :
          handler' = [handler EXCEPT !.step = "reply", !.held = Append(@, r)]
    BY <1>5 DEF ReserveSecond
  <2>2. HandlerOK(handler')
    BY <2>1, HoldMore DEF HandlerOK
  <2> QED BY <1>5, <2>2 DEF ReserveSecond, tables
<1>6. CASE RefuseSecond
  BY <1>6, <1>idle DEF RefuseSecond, tables
<1>7. ASSUME NEW g \in Groups, CommitReply(g) PROVE HandlerInv'
  <2>1. PICK gg \in Groups \cup {"none"} :
          handler' = Settle([handler EXCEPT !.group = gg])
    BY <1>7 DEF CommitReply, HandlerOK, HandlerType
  <2>2. [handler EXCEPT !.group = gg] \in HandlerType
    BY DEF HandlerOK, HandlerType
  <2> QED BY <1>7, <2>1, <2>2, SettleOK DEF CommitReply
<1>8. CASE CaptureNext
  <2>1. [handler EXCEPT !.held = Tail(@)] \in HandlerType
    BY <1>8, HoldLess DEF CaptureNext, At, HandlerOK
  <2> QED BY <1>8, <2>1, SettleOK DEF CaptureNext, tables
<1>9. CASE Arm
  BY <1>9 DEF Arm, At, tables, HandlerOK, HandlerType
<1>10. CASE Publish
  BY <1>10, <1>idle DEF Publish
<1>11. ASSUME NEW g \in Groups, Deliver(g) \/ DeliveryDies(g) PROVE HandlerInv'
  BY <1>11, <1>same DEF Deliver, DeliveryDies, tables
<1>12. CASE Raise \/ Crash
  BY <1>12, <1>idle DEF Raise, Crash, tables
<1>13. CASE Restart \/ Recover \/ Operator \/ Time \/ UNCHANGED vars
  BY <1>13, <1>same DEF Restart, Recover, Operator, Time, vars, turnVars, tables
<1> QED BY <1>1, <1>2, <1>3, <1>4, <1>5, <1>6, <1>7, <1>8, <1>9, <1>10, <1>11,
           <1>12, <1>13 DEF Next, HandlerStep

\* The handler in progress is always at a transaction the code has, for an
\* owner, a thread and reservations that exist.
THEOREM HandlerInvariance == Spec => []HandlerInv
<1> QED BY HandlerInit, HandlerStepInv, PTL DEF Spec

-----------------------------------------------------------------------------
(* The ledger below the service.                                            *)

\* What a step of the service does to the ledger.
LEMMA StepIsLedgerStep ==
  HandlerInv /\ [Next]_vars => [LedgerNext]_ledgerVars
<1> SUFFICES ASSUME HandlerInv, [Next]_vars PROVE LedgerNext \/ UNCHANGED ledgerVars
  OBVIOUS
<1>1. ASSUME NEW o \in Owners, NEW t \in Threads, Submit(o, t)
      PROVE  LedgerNext \/ UNCHANGED ledgerVars
  BY <1>1, TurnAssumption DEF Submit, LedgerNext
<1>2. ASSUME NEW o \in Owners, NEW t \in Threads, NEW e, Respond(o, t, e)
      PROVE  LedgerNext
  BY <1>2, TurnAssumption DEF Respond, LedgerNext
<1>3. CASE ReserveSecond
  <2>1. handler.owner \in Owners
    BY <1>3 DEF ReserveSecond, At, HandlerInv, HandlerOK
  <2> QED BY <1>3, <2>1, TurnAssumption DEF ReserveSecond, LedgerNext
<1>4. CASE RefuseSecond
  <2>1. handler.held[1] \in ReservationIds
    BY <1>4 DEF RefuseSecond, At, HandlerInv, HandlerOK, HandlerType
  <2> QED BY <1>4, <2>1 DEF RefuseSecond, LedgerNext
<1>5. CASE CaptureNext
  <2>1. Head(handler.held) \in ReservationIds
    BY <1>5 DEF CaptureNext, At, HandlerInv, HandlerOK, HandlerType
  <2> QED BY <1>5, <2>1 DEF CaptureNext, LedgerNext
<1>6. CASE Restart \/ Operator \/ Time
  BY <1>6 DEF Restart, Operator, Time, LedgerNext
<1>7. ASSUME NEW o \in Owners, NEW t \in Threads, OpenThread(o, t)
      PROVE  UNCHANGED ledgerVars
  BY <1>7 DEF OpenThread
<1>8. ASSUME NEW g \in Groups, CommitReply(g) \/ Deliver(g) \/ DeliveryDies(g)
      PROVE  UNCHANGED ledgerVars
  BY <1>8 DEF CommitReply, Deliver, DeliveryDies
<1>9. CASE CommitBatch \/ Arm \/ Publish \/ Raise \/ Crash \/ Recover
  BY <1>9 DEF CommitBatch, Arm, Publish, Raise, Crash, Recover
<1>10. CASE UNCHANGED vars
  BY <1>10 DEF vars
<1> QED BY <1>1, <1>2, <1>3, <1>4, <1>5, <1>6, <1>7, <1>8, <1>9, <1>10
        DEF Next, HandlerStep

\* Every step of the service is a ledger transaction or leaves it alone.
THEOREM ServiceImplementsLedger == Spec => ImplementsLedger
<1>1. Init => LedgerInit
  BY DEF Init
<1> QED BY <1>1, StepIsLedgerStep, HandlerInvariance, PTL
        DEF Spec, ImplementsLedger, LedgerSpec

\* Hence the service never promises an owner more credits than it has, and
\* accounts for each one it takes, whatever crashes, raises or interferes.
THEOREM ServiceSolvency == Spec => [](Solvent /\ Conserved /\ ChargesBacked)
<1>1. LedgerInv => Solvent /\ Conserved /\ ChargesBacked
  BY DEF LedgerInv
<1> QED BY <1>1, ServiceImplementsLedger, LedgerInvariance, PTL DEF ImplementsLedger

-----------------------------------------------------------------------------
(* Answering means settling.                                                *)

\* No ledger transaction but reserve opens a row, and settling closes it.
LEMMA NothingOpens ==
  ASSUME LedgerTypeOK, NEW q \in ReservationIds, IsReserved(q)'
  PROVE  /\ \A r \in ReservationIds :
              Capture(r) \/ Release(r) => IsReserved(q) /\ q # r
         /\ \A age : Reconcile(age) => IsReserved(q)
<1>1. reservation'[q].state = "reserved"
  BY DEF IsReserved
<1>2. ASSUME NEW r \in ReservationIds, NEW st \in {"captured", "released"},
             IF IsReserved(r) THEN reservation' = [reservation EXCEPT ![r].state = st]
                              ELSE UNCHANGED reservation
      PROVE  IsReserved(q) /\ q # r
  <2>1. CASE ~ IsReserved(r)
    BY <1>1, <1>2, <2>1 DEF IsReserved
  <2>2. CASE IsReserved(r)
    <3>1. reservation'[r] = [reservation[r] EXCEPT !.state = st]
          /\ (q # r => reservation'[q] = reservation[q])
      BY <1>2, <2>2 DEF LedgerTypeOK
    <3>2. reservation[r] \in Row
      BY <2>2 DEF LedgerTypeOK, IsReserved, NoRow
    <3>3. reservation'[r].state = st
      BY <3>1, <3>2 DEF Row
    <3> QED BY <1>1, <3>1, <3>3 DEF IsReserved
  <2> QED BY <2>1, <2>2
<1>3. ASSUME NEW age, Reconcile(age) PROVE IsReserved(q)
  <2>1. CASE Abandoned(q, age)
    BY <2>1 DEF Abandoned
  <2>2. CASE ~ Abandoned(q, age)
    BY <1>1, <1>3, <2>2 DEF Reconcile, IsReserved
  <2> QED BY <2>1, <2>2
<1>4. ASSUME NEW r \in ReservationIds, Capture(r) PROVE IsReserved(q) /\ q # r
  BY <1>2, <1>4 DEF Capture
<1>5. ASSUME NEW r \in ReservationIds, Release(r) PROVE IsReserved(q) /\ q # r
  BY <1>2, <1>5 DEF Release
<1> QED BY <1>3, <1>4, <1>5

\* No step of a handler, of a crash or of the operator leaves a row open that
\* neither the handler at work nor a handler that broke off accounts for.
LEMMA SettledStep ==
  ASSUME HandlerInv, LedgerTypeOK, AnsweredMeansSettled, [Next]_vars
  PROVE  AnsweredMeansSettled'
<1> SUFFICES ASSUME NEW q \in ReservationIds, IsReserved(q)'
             PROVE  q \in (HeldIds(handler) \cup crashed \cup raised)'
  BY DEF AnsweredMeansSettled
<1>idle. HeldIds(Idle) = {}
  BY DEF HeldIds, Idle, Handling
<1>old. IsReserved(q) => q \in HeldIds(handler) \cup crashed \cup raised
  BY DEF AnsweredMeansSettled
<1>new. ASSUME NEW o, NEW c, NEW r \in ReservationIds, Reserve(o, c, r), q # r
        PROVE  IsReserved(q)
  BY <1>new DEF Reserve, IsReserved, LedgerTypeOK
<1>1. ASSUME NEW o \in Owners, NEW t \in Threads, Submit(o, t)
      PROVE  q \in (HeldIds(handler) \cup crashed \cup raised)'
  <2>1. CASE UNCHANGED ledgerVars
    BY <1>1, <2>1, <1>old, <1>idle
       DEF Submit, Serving, ledgerVars, IsReserved, history
  <2>2. ASSUME NEW r \in ReservationIds, Reserve(o, "turn-taking", r),
               handler' = Handling("batch", o, t, thread[t].epoch, <<r>>)
        PROVE  q \in (HeldIds(handler) \cup crashed \cup raised)'
    <3>1. r \in HeldIds(handler')
      BY <2>2 DEF HeldIds, Handling
    <3> QED BY <1>1, <2>2, <3>1, <1>old, <1>new, <1>idle
            DEF Submit, Serving, history
  <2> QED BY <1>1, <2>1, <2>2 DEF Submit
<1>2. ASSUME NEW o \in Owners, NEW t \in Threads, NEW e, Respond(o, t, e)
      PROVE  q \in (HeldIds(handler) \cup crashed \cup raised)'
  <2>1. PICK r \in ReservationIds : /\ Reserve(o, "turn-taking", r)
                                    /\ handler' = Handling("second", o, t, e, <<r>>)
    BY <1>2 DEF Respond
  <2>2. r \in HeldIds(handler')
    BY <2>1 DEF HeldIds, Handling
  <2> QED BY <1>2, <2>1, <2>2, <1>old, <1>new, <1>idle
          DEF Respond, Serving, history
<1>3. CASE CommitBatch
  BY <1>3, <1>old, SettleOK
     DEF CommitBatch, HandlerInv, HandlerOK, ledgerVars, IsReserved, history
<1>4. CASE ReserveSecond
  <2>1. PICK r \in ReservationIds :
          /\ Reserve(handler.owner, "theoryofmind", r)
          /\ handler' = [handler EXCEPT !.step = "reply", !.held = Append(@, r)]
    BY <1>4 DEF ReserveSecond
  <2>2. HeldIds(handler') = HeldIds(handler) \cup {r}
    BY <2>1, HoldMore DEF HandlerInv, HandlerOK
  <2> QED BY <1>4, <2>1, <2>2, <1>old, <1>new DEF ReserveSecond, history
<1>5. CASE RefuseSecond
  <2>1. HeldIds(handler) = {handler.held[1]}
    BY <1>5 DEF RefuseSecond, At, HandlerInv, HandlerOK, HandlerType, HeldIds
  <2>2. IsReserved(q) /\ q # handler.held[1]
    <3>1. handler.held[1] \in ReservationIds
      BY <1>5 DEF RefuseSecond, At, HandlerInv, HandlerOK, HandlerType
    <3> QED BY <1>5, <3>1, NothingOpens DEF RefuseSecond
  <2> QED BY <1>5, <2>1, <2>2, <1>old DEF RefuseSecond, history
<1>6. ASSUME NEW g \in Groups, CommitReply(g)
      PROVE  q \in (HeldIds(handler) \cup crashed \cup raised)'
  <2>1. PICK gg \in Groups \cup {"none"} :
          handler' = Settle([handler EXCEPT !.group = gg])
    BY <1>6 DEF CommitReply, HandlerInv, HandlerOK, HandlerType
  <2>2. [handler EXCEPT !.group = gg] \in HandlerType
    BY DEF HandlerInv, HandlerOK, HandlerType
  <2>3. HeldIds([handler EXCEPT !.group = gg]) = HeldIds(handler)
    BY DEF HeldIds, HandlerInv, HandlerOK, HandlerType
  <2> QED BY <1>6, <2>1, <2>2, <2>3, <1>old, SettleOK
          DEF CommitReply, ledgerVars, IsReserved, history
<1>7. CASE CaptureNext
  <2>1. /\ [handler EXCEPT !.held = Tail(@)] \in HandlerType
        /\ HeldIds(handler) = {Head(handler.held)}
                                \cup HeldIds([handler EXCEPT !.held = Tail(@)])
    BY <1>7, HoldLess DEF CaptureNext, At, HandlerInv, HandlerOK
  <2>2. IsReserved(q) /\ q # Head(handler.held)
    <3>1. Head(handler.held) \in ReservationIds
      BY <1>7 DEF CaptureNext, At, HandlerInv, HandlerOK, HandlerType
    <3> QED BY <1>7, <3>1, NothingOpens DEF CaptureNext
  <2> QED BY <1>7, <2>1, <2>2, <1>old, SettleOK DEF CaptureNext, history
<1>8. CASE Arm \/ Publish
  <2>1. HeldIds(handler) = {}
    BY <1>8 DEF Arm, Publish, At, HandlerInv, HandlerOK, HeldIds
  <2> QED BY <1>8, <2>1, <1>old DEF Arm, Publish, ledgerVars, IsReserved, history
<1>9. CASE Raise \/ Crash
  BY <1>9, <1>old DEF Raise, Crash, ledgerVars, IsReserved
<1>10. CASE Restart \/ Operator
  <2>1. IsReserved(q)
    BY <1>10, NothingOpens DEF Restart, Boot, Operator, OperatorReconcile
  <2> QED BY <1>10, <2>1, <1>old DEF Restart, Operator, turnVars, history
<1>11. CASE Recover
  BY <1>11, <1>old, TurnAssumption DEF Recover, ledgerVars, IsReserved
<1>12. CASE Time
  BY <1>12, <1>old DEF Time, Tick, IsReserved, turnVars, history
<1>13. ASSUME NEW o \in Owners, NEW t \in Threads, OpenThread(o, t)
      PROVE  q \in (HeldIds(handler) \cup crashed \cup raised)'
  BY <1>13, <1>old DEF OpenThread, ledgerVars, IsReserved, history
<1>14. ASSUME NEW g \in Groups, Deliver(g) \/ DeliveryDies(g)
      PROVE  q \in (HeldIds(handler) \cup crashed \cup raised)'
  BY <1>14, <1>old DEF Deliver, DeliveryDies, ledgerVars, IsReserved, history
<1>15. CASE UNCHANGED vars
  BY <1>15, <1>old DEF vars, ledgerVars, turnVars, IsReserved, history
<1> QED BY <1>1, <1>2, <1>3, <1>4, <1>5, <1>6, <1>7, <1>8, <1>9, <1>10, <1>11,
           <1>12, <1>13, <1>14, <1>15 DEF Next, HandlerStep

\* A handler that answers has captured or released whatever it reserved, on
\* every path and for any number of tenants, threads and faults.
THEOREM AnsweringSettles == Spec => []AnsweredMeansSettled
<1>1. Init => AnsweredMeansSettled
  BY DEF Init, LedgerInit, AnsweredMeansSettled, IsReserved, NoRow
<1>2. Spec => []LedgerTypeOK
  BY ServiceImplementsLedger, LedgerTypeCorrect, PTL DEF ImplementsLedger
<1>3. HandlerInv /\ LedgerTypeOK /\ AnsweredMeansSettled /\ [Next]_vars
        => AnsweredMeansSettled'
  BY SettledStep
<1> QED BY <1>1, <1>2, <1>3, HandlerInvariance, PTL DEF Spec

-----------------------------------------------------------------------------
(* Replies: none is forgotten, none is stale.                               *)

ReplyType == [owner  : Owners \cup {"none"},
              thread : Threads \cup {"none"},
              epoch  : 0 .. MaxEpoch,
              status : {"absent", "empty", "scheduled", "delivered"}]

\* Only a process that is up has a handler, and a handler has no group before
\* the commit of its reply.
HandlerGroupOK ==
  /\ process # "up" => handler = Idle
  /\ handler.step \in {"idle", "batch", "second", "reply"} => handler.group = "none"

\* A group that is armed, or the handler's, is scheduled: no delivery runs
\* beside a handler.  It is armed when the handler announces it.
GroupsOK ==
  /\ handler.group # "none" => reply[handler.group].status = "scheduled"
  /\ handler.step = "publish" => handler.group \in armed
  /\ armed \subseteq Groups
  /\ \A g \in armed : reply[g].status = "scheduled"

\* Until its commit, respond works under its thread's newest epoch.
FreshOK ==
  handler.step \in {"second", "reply"} =>
    handler.thread \in Threads /\ thread[handler.thread].epoch = handler.epoch

ReplyInv ==
  /\ reply \in [Groups -> ReplyType]
  /\ HandlerGroupOK /\ GroupsOK /\ FreshOK /\ NoForgottenReply

\* Settle keeps the group, and is idle only if there is none.
LEMMA SettleGroup ==
  ASSUME NEW h \in HandlerType
  PROVE  /\ Settle(h).group = h.group
         /\ Settle(h).step \in {"capture", "arm", "idle"}
         /\ Settle(h).step = "idle" => h.group = "none"
<1>1. CASE h.held # << >>
  BY <1>1 DEF Settle, HandlerType
<1>2. CASE h.held = << >> /\ h.group # "none"
  BY <1>2 DEF Settle, HandlerType
<1>3. CASE h.held = << >> /\ h.group = "none"
  BY <1>3 DEF Settle, Idle, Handling
<1> QED BY <1>1, <1>2, <1>3

\* At first there are no replies.
LEMMA ReplyInitInv == Init => ReplyInv
<1> SUFFICES ASSUME Init PROVE ReplyInv
  OBVIOUS
<1>1. reply \in [Groups -> ReplyType]
  BY TurnAssumption DEF Init, NoReply, ReplyType
<1>2. HandlerGroupOK /\ FreshOK
  BY DEF Init, HandlerGroupOK, FreshOK, Idle, Handling
<1>3. GroupsOK
  BY DEF Init, GroupsOK, Idle, Handling
<1>4. NoForgottenReply
  BY DEF Init, NoForgottenReply, NoReply
<1> QED BY <1>1, <1>2, <1>3, <1>4 DEF ReplyInv

\* Each transaction, fault and restart keeps them.
LEMMA ReplyStepInv == HandlerInv /\ ReplyInv /\ [Next]_vars => ReplyInv'
<1> SUFFICES ASSUME HandlerInv, ReplyInv, [Next]_vars PROVE ReplyInv'
  OBVIOUS
<1>h. handler \in HandlerType /\ HandlerOK(handler) /\ thread \in [Threads -> ThreadType]
  BY DEF HandlerInv, HandlerOK
<1>r. /\ reply \in [Groups -> ReplyType]
      /\ HandlerGroupOK /\ GroupsOK /\ FreshOK /\ NoForgottenReply
  BY DEF ReplyInv
<1>i. /\ Idle.step = "idle" /\ Idle.group = "none"
  BY DEF Idle, Handling
<1>n. "none" \notin Groups
  BY TurnAssumption
<1>1. ASSUME NEW o \in Owners, NEW t \in Threads, OpenThread(o, t) PROVE ReplyInv'
  BY <1>1, <1>r, <1>i DEF OpenThread, Serving, ReplyInv, HandlerGroupOK, GroupsOK, FreshOK,
                          NoForgottenReply, history
<1>2. ASSUME NEW o \in Owners, NEW t \in Threads, Submit(o, t) PROVE ReplyInv'
  <2>1. handler'.step = "batch" /\ handler'.group = "none"
    BY <1>2 DEF Submit, Handling
  <2>2. handler.group = "none" /\ process = "up"
    BY <1>2, <1>i DEF Submit, Serving
  <2>3. UNCHANGED <<thread, reply, armed, process, raised>>
    BY <1>2 DEF Submit, tables, history
  <2> QED BY <2>1, <2>2, <2>3, <1>r DEF ReplyInv, HandlerGroupOK, GroupsOK, FreshOK, NoForgottenReply
<1>3. ASSUME NEW o \in Owners, NEW t \in Threads, NEW e \in 0 .. MaxEpoch, Respond(o, t, e)
      PROVE  ReplyInv'
  <2>1. /\ handler'.step = "second" /\ handler'.group = "none"
        /\ handler'.thread = t /\ handler'.epoch = thread[t].epoch
    BY <1>3 DEF Respond, Handling
  <2>2. handler.group = "none" /\ process = "up"
    BY <1>3, <1>i DEF Respond, Serving
  <2>3. UNCHANGED <<thread, reply, armed, process, raised>>
    BY <1>3 DEF Respond, tables, history
  <2> QED BY <2>1, <2>2, <2>3, <1>r DEF ReplyInv, HandlerGroupOK, GroupsOK, FreshOK, NoForgottenReply
<1>4. CASE CommitBatch
  <2>1. /\ handler'.group = handler.group /\ handler'.step \in {"capture", "arm", "idle"}
        /\ handler.group = "none" /\ process = "up"
    BY <1>4, <1>h, <1>r, SettleGroup DEF CommitBatch, At, HandlerGroupOK
  <2>2. UNCHANGED <<reply, armed, process, raised>>
    BY <1>4 DEF CommitBatch, history
  <2> QED BY <2>1, <2>2, <1>r DEF ReplyInv, HandlerGroupOK, GroupsOK, FreshOK, NoForgottenReply
<1>5. CASE ReserveSecond
  <2>1. PICK r \in ReservationIds :
          handler' = [handler EXCEPT !.step = "reply", !.held = Append(@, r)]
    BY <1>5 DEF ReserveSecond
  <2>2. /\ handler'.step = "reply" /\ handler'.group = handler.group
        /\ handler'.thread = handler.thread /\ handler'.epoch = handler.epoch
    BY <2>1, <1>h DEF HandlerType
  <2>3. handler.step = "second" /\ handler.group = "none" /\ process = "up"
    BY <1>5, <1>r DEF ReserveSecond, At, HandlerGroupOK
  <2>4. UNCHANGED <<thread, reply, armed, process, raised>>
    BY <1>5 DEF ReserveSecond, tables, history
  <2> QED BY <2>2, <2>3, <2>4, <1>r DEF ReplyInv, HandlerGroupOK, GroupsOK, FreshOK, NoForgottenReply
<1>6. CASE RefuseSecond
  <2>1. handler.group = "none" /\ process = "up" /\ handler' = Idle
    BY <1>6, <1>r DEF RefuseSecond, At, HandlerGroupOK
  <2>2. UNCHANGED <<thread, reply, armed, process, raised>>
    BY <1>6 DEF RefuseSecond, tables, history
  <2> QED BY <2>1, <2>2, <1>i, <1>r DEF ReplyInv, HandlerGroupOK, GroupsOK, FreshOK, NoForgottenReply
<1>7. ASSUME NEW g \in Groups, CommitReply(g) PROVE ReplyInv'
  <2>1. PICK status \in {"scheduled", "empty"} :
          /\ reply' = [reply EXCEPT ![g] =
                [owner |-> handler.owner, thread |-> handler.thread,
                 epoch |-> handler.epoch, status |-> status]]
          /\ handler' = Settle([handler EXCEPT !.group = IF status = "scheduled" THEN g ELSE @])
    BY <1>7 DEF CommitReply
  <2>2. /\ handler.group = "none" /\ process = "up" /\ reply[g] = NoReply
        /\ UNCHANGED <<thread, armed, process, raised>>
    BY <1>7, <1>r DEF CommitReply, At, HandlerGroupOK, history
  <2>3. g \notin armed
    BY <2>2, <1>r DEF GroupsOK, NoReply
  <2>4. /\ reply' \in [Groups -> ReplyType]
        /\ reply'[g].status = status
        /\ \A k \in Groups : k # g => reply'[k] = reply[k]
    BY <2>1, <1>h, <1>r DEF HandlerType, ReplyType
  <2>5. /\ handler'.group = IF status = "scheduled" THEN g ELSE "none"
        /\ handler'.step \in {"capture", "arm", "idle"}
        /\ handler'.step = "idle" => handler'.group = "none"
    <3> DEFINE h == [handler EXCEPT !.group = IF status = "scheduled" THEN g ELSE @]
    <3>1. h \in HandlerType /\ h.group = IF status = "scheduled" THEN g ELSE "none"
      BY <1>h, <2>2 DEF HandlerType
    <3>2. handler' = Settle(h)
      BY <2>1
    <3> HIDE DEF h
    <3> QED BY <3>1, <3>2, SettleGroup
  <2>6. HandlerGroupOK' /\ FreshOK'
    BY <2>2, <2>5 DEF HandlerGroupOK, FreshOK
  <2>7. GroupsOK'
    BY <2>2, <2>3, <2>4, <2>5, <1>r DEF GroupsOK
  <2>8. NoForgottenReply'
    BY <2>2, <2>4, <2>5, <1>r, <1>n DEF NoForgottenReply
  <2> QED BY <2>4, <2>6, <2>7, <2>8 DEF ReplyInv
<1>8. CASE CaptureNext
  <2>1. handler.held # << >> /\ handler.step = "capture" /\ process = "up"
    BY <1>8, <1>h DEF CaptureNext, At, HandlerOK
  <2>2. /\ handler'.group = handler.group /\ handler'.step \in {"capture", "arm", "idle"}
        /\ handler'.step = "idle" => handler.group = "none"
    <3> DEFINE h == [handler EXCEPT !.held = Tail(@)]
    <3>1. h \in HandlerType /\ h.group = handler.group
      BY <1>h, <2>1, HoldLess DEF HandlerType
    <3>2. handler' = Settle(h)
      BY <1>8 DEF CaptureNext
    <3> HIDE DEF h
    <3> QED BY <3>1, <3>2, SettleGroup
  <2>3. UNCHANGED <<thread, reply, armed, process, raised>>
    BY <1>8 DEF CaptureNext, tables, history
  <2> QED BY <2>1, <2>2, <2>3, <1>r DEF ReplyInv, HandlerGroupOK, GroupsOK, FreshOK, NoForgottenReply
<1>9. CASE Arm
  <2>1. /\ handler.step = "arm" /\ process = "up" /\ handler.group \in Groups
        /\ armed' = armed \cup {handler.group}
    BY <1>9, <1>h DEF Arm, At, HandlerOK
  <2>2. handler'.step = "publish" /\ handler'.group = handler.group
    BY <1>9, <1>h DEF Arm, HandlerType
  <2>3. UNCHANGED <<thread, reply, process, raised>>
    BY <1>9 DEF Arm, tables, history
  <2>4. GroupsOK'
    BY <2>1, <2>2, <2>3, <1>r, <1>n DEF GroupsOK
  <2> QED BY <2>1, <2>2, <2>3, <2>4, <1>r DEF ReplyInv, HandlerGroupOK, FreshOK, NoForgottenReply
<1>10. CASE Publish
  <2>1. /\ handler.step = "publish" /\ process = "up" /\ handler' = Idle
        /\ handler.group \in armed
    BY <1>10, <1>r DEF Publish, At, GroupsOK
  <2>2. UNCHANGED <<thread, reply, armed, process, raised>>
    BY <1>10 DEF Publish, history
  <2> QED BY <2>1, <2>2, <1>i, <1>r DEF ReplyInv, HandlerGroupOK, GroupsOK, FreshOK, NoForgottenReply
<1>11. ASSUME NEW g \in Groups, Deliver(g) PROVE ReplyInv'
  <2>1. /\ handler.step = "idle" /\ handler.group = "none" /\ process = "up"
        /\ reply' = [reply EXCEPT ![g].status = "delivered"]
        /\ armed' = armed \ {g}
        /\ UNCHANGED <<thread, handler, process, raised>>
    BY <1>11, <1>i DEF Deliver, Serving, history
  <2>2. /\ reply' \in [Groups -> ReplyType]
        /\ reply'[g].status = "delivered"
        /\ \A k \in Groups : k # g => reply'[k] = reply[k]
    BY <2>1, <1>r DEF ReplyType
  <2>3. GroupsOK'
    BY <2>1, <2>2, <1>r DEF GroupsOK
  <2>4. NoForgottenReply'
    BY <2>1, <2>2, <1>r DEF NoForgottenReply
  <2> QED BY <2>1, <2>2, <2>3, <2>4, <1>r DEF ReplyInv, HandlerGroupOK, FreshOK
<1>17. ASSUME NEW g \in Groups, DeliveryDies(g) PROVE ReplyInv'
  <2>1. /\ handler.step = "idle" /\ handler.group = "none" /\ process = "up"
        /\ armed' = armed \ {g} /\ raised' = raised \cup {g}
        /\ UNCHANGED <<thread, reply, handler, process>>
    BY <1>17, <1>i DEF DeliveryDies, Serving, tables
  <2> QED BY <2>1, <1>r DEF ReplyInv, HandlerGroupOK, GroupsOK, FreshOK, NoForgottenReply
<1>12. CASE Raise
  <2>1. /\ handler' = Idle /\ process = "up"
        /\ raised' = raised \cup HeldIds(handler) \cup ({handler.group} \ {"none"})
        /\ UNCHANGED <<thread, reply, armed, process>>
    BY <1>12 DEF Raise, tables
  <2> QED BY <2>1, <1>i, <1>n, <1>r DEF ReplyInv, HandlerGroupOK, GroupsOK, FreshOK, NoForgottenReply
<1>13. CASE Crash
  BY <1>13, <1>i, <1>r DEF Crash, tables, ReplyInv, HandlerGroupOK, GroupsOK, FreshOK, NoForgottenReply
<1>14. CASE Restart
  BY <1>14, <1>r DEF Restart, tables, history, ReplyInv, HandlerGroupOK, GroupsOK, FreshOK,
                     NoForgottenReply
<1>15. CASE Recover
  <2>1. /\ handler = Idle /\ handler' = Idle /\ process' = "up"
        /\ armed' = {g \in Groups : reply[g].status = "scheduled"}
        /\ UNCHANGED <<thread, reply>>
    BY <1>15, <1>r DEF Recover, HandlerGroupOK
  <2> QED BY <2>1, <1>i, <1>r DEF ReplyInv, HandlerGroupOK, GroupsOK, FreshOK, NoForgottenReply
<1>16. CASE Operator \/ Time \/ UNCHANGED vars
  <2>1. UNCHANGED <<thread, reply, armed, handler, process, raised>>
    BY <1>16 DEF Operator, Time, vars, turnVars, tables, history
  <2> QED BY <2>1, <1>r DEF ReplyInv, HandlerGroupOK, GroupsOK, FreshOK, NoForgottenReply
<1> QED BY <1>1, <1>2, <1>3, <1>4, <1>5, <1>6, <1>7, <1>8, <1>9, <1>10, <1>11, <1>12, <1>13,
           <1>14, <1>15, <1>16, <1>17 DEF Next, HandlerStep

\* The strengthening holds of the service.
THEOREM ReplyInvariance == Spec => []ReplyInv
<1> QED BY ReplyInitInv, ReplyStepInv, HandlerInvariance, PTL DEF Spec

\* Whatever crashes or restarts, a committed reply has its task or its
\* handler, unless an exception since the last boot took them.
THEOREM NoReplyForgotten == Spec => []NoForgottenReply
<1>1. ReplyInv => NoForgottenReply
  BY DEF ReplyInv
<1> QED BY <1>1, ReplyInvariance, PTL

\* A reply is written under the newest epoch of its thread.
THEOREM RepliesStayFresh == Spec => RepliesAreFresh
<1>1. ASSUME ReplyInv, [Next]_vars, NEW g \in Groups, reply[g] = NoReply, reply'[g] # NoReply
      PROVE  reply'[g].epoch = thread[reply'[g].thread].epoch
  <2>1. reply \in [Groups -> ReplyType] /\ FreshOK /\ GroupsOK
    BY <1>1 DEF ReplyInv
  <2>2. reply' # reply
    BY <1>1
  <2>3. CASE \E k \in Groups : CommitReply(k)
    <3>1. PICK k \in Groups : CommitReply(k)
      BY <2>3
    <3>2. PICK status \in {"scheduled", "empty"} :
            reply' = [reply EXCEPT ![k] =
                [owner |-> handler.owner, thread |-> handler.thread,
                 epoch |-> handler.epoch, status |-> status]]
      BY <3>1 DEF CommitReply
    <3>3. k = g /\ reply'[g].thread = handler.thread /\ reply'[g].epoch = handler.epoch
      BY <3>2, <2>1, <1>1
    <3>4. handler.step = "reply"
      BY <3>1 DEF CommitReply, At
    <3> QED BY <3>3, <3>4, <2>1 DEF FreshOK
  <2>4. ASSUME NEW k \in Groups, Deliver(k) PROVE FALSE
    <3>1. k # g
      BY <2>4, <2>1, <1>1 DEF Deliver, GroupsOK, NoReply
    <3> QED BY <3>1, <2>4, <2>1, <1>1 DEF Deliver
  <2>5. CASE ~ \E k \in Groups : CommitReply(k) \/ Deliver(k)
    BY <1>1, <2>2, <2>5
       DEF Next, HandlerStep, OpenThread, Submit, Respond, CommitBatch, ReserveSecond, RefuseSecond,
           CaptureNext, Arm, Publish, DeliveryDies, Raise, Crash, Restart, Recover, Operator,
           Time, tables, turnVars, vars
  <2> QED BY <2>3, <2>4, <2>5
<1>2. ReplyInv /\ [Next]_vars =>
        [\A g \in Groups :
           reply[g] = NoReply /\ reply'[g] # NoReply
             => reply'[g].epoch = thread[reply'[g].thread].epoch]_vars
  BY <1>1
<1> QED BY <1>2, ReplyInvariance, PTL DEF Spec, RepliesAreFresh

-----------------------------------------------------------------------------
(* Charges: what is captured, or about to be, is backed by committed work.  *)

RowIs(r, o, c) ==
  /\ reservation[r] \in Row
  /\ reservation[r].owner = o /\ reservation[r].component = c

\* Between its commit and its answer a handler has earned what it holds.
Due(o, c) == {r \in HeldIds(handler) : handler.step = "capture" /\ RowIs(r, o, c)}

Earned(o, c) == Bought(o, c) \cup Due(o, c)

\* The reservations of each command, before its commit.
HoldsOK ==
  /\ \A r \in HeldIds(handler) : reservation[r] \in Row
  /\ handler.step = "batch" =>
       /\ handler.owner \in Owners /\ handler.thread \in Threads
       /\ thread[handler.thread].owner = handler.owner
       /\ thread[handler.thread].epoch = handler.epoch
       /\ \/ handler.held = << >>
          \/ \E r \in ReservationIds : handler.held = <<r>> /\ RowIs(r, handler.owner, "turn-taking")
  /\ handler.step = "second" =>
       \E r \in ReservationIds : handler.held = <<r>> /\ RowIs(r, handler.owner, "turn-taking")
  /\ handler.step = "reply" =>
       /\ handler.owner \in Owners
       /\ \E r, s \in ReservationIds :
            /\ handler.held = <<r, s>>
            /\ RowIs(r, handler.owner, "turn-taking") /\ RowIs(s, handler.owner, "theoryofmind")

\* A budget: E is paid by R, F by R and B.
Budget(E, F, R, B) ==
  /\ IsFiniteSet(E) /\ IsFiniteSet(F) /\ IsFiniteSet(R) /\ IsFiniteSet(B)
  /\ Cardinality(E) <= Cardinality(R)
  /\ Cardinality(F) <= Cardinality(R) + Cardinality(B)

EarnOK ==
  \A o \in Owners :
    Budget(Earned(o, "theoryofmind"), Earned(o, "turn-taking"), Replies(o), Batches(o))

EarnInv == HoldsOK /\ EarnOK

\* One more element at most.
LEMMA OneMore ==
  ASSUME NEW S, IsFiniteSet(S), NEW x, NEW T, T \subseteq S \cup {x}
  PROVE  IsFiniteSet(T) /\ Cardinality(T) <= Cardinality(S) + 1
         /\ Cardinality(S) \in Nat /\ Cardinality(T) \in Nat
<1>1. /\ IsFiniteSet(S \cup {x})
      /\ Cardinality(S \cup {x}) = IF x \in S THEN Cardinality(S) ELSE Cardinality(S) + 1
  BY FS_AddElement
<1>2. IsFiniteSet(T) /\ Cardinality(T) <= Cardinality(S \cup {x})
  BY <1>1, FS_Subset
<1>3. Cardinality(S) \in Nat /\ Cardinality(T) \in Nat
  BY <1>2, FS_CardinalityType
<1> QED BY <1>1, <1>2, <1>3

\* Exactly one more.
LEMMA NewOne ==
  ASSUME NEW S, IsFiniteSet(S), NEW x, x \notin S
  PROVE  IsFiniteSet(S \cup {x}) /\ Cardinality(S \cup {x}) = Cardinality(S) + 1
         /\ Cardinality(S) \in Nat
BY FS_AddElement, FS_CardinalityType

\* Spending less stays within a budget.
LEMMA BudgetLess ==
  ASSUME NEW E, NEW F, NEW R, NEW B, Budget(E, F, R, B),
         NEW G, NEW H, G \subseteq E, H \subseteq F
  PROVE  Budget(G, H, R, B)
<1>1. /\ IsFiniteSet(G) /\ Cardinality(G) <= Cardinality(E)
      /\ IsFiniteSet(H) /\ Cardinality(H) <= Cardinality(F)
  BY FS_Subset DEF Budget
<1>2. /\ Cardinality(G) \in Nat /\ Cardinality(E) \in Nat
      /\ Cardinality(H) \in Nat /\ Cardinality(F) \in Nat
      /\ Cardinality(R) \in Nat /\ Cardinality(B) \in Nat
  BY <1>1, FS_CardinalityType DEF Budget
<1> QED BY <1>1, <1>2 DEF Budget

\* A new batch pays for one element of F.
LEMMA BudgetBatch ==
  ASSUME NEW E, NEW F, NEW R, NEW B, Budget(E, F, R, B),
         NEW G, NEW H, NEW x, NEW y, G \subseteq E, H \subseteq F \cup {x}, y \notin B
  PROVE  Budget(G, H, R, B \cup {y})
<1>1. Budget(G, F, R, B)
  BY BudgetLess
<1>2. IsFiniteSet(H) /\ Cardinality(H) <= Cardinality(F) + 1
      /\ Cardinality(F) \in Nat /\ Cardinality(H) \in Nat
  BY OneMore DEF Budget
<1>3. IsFiniteSet(B \cup {y}) /\ Cardinality(B \cup {y}) = Cardinality(B) + 1
      /\ Cardinality(B) \in Nat
  BY NewOne DEF Budget
<1>4. Cardinality(R) \in Nat
  BY FS_CardinalityType DEF Budget
<1> QED BY <1>1, <1>2, <1>3, <1>4 DEF Budget

\* A new reply pays for one of E and one of F.
LEMMA BudgetReply ==
  ASSUME NEW E, NEW F, NEW R, NEW B, Budget(E, F, R, B),
         NEW G, NEW H, NEW x, NEW z, NEW y,
         G \subseteq E \cup {z}, H \subseteq F \cup {x}, y \notin R
  PROVE  Budget(G, H, R \cup {y}, B)
<1>1. IsFiniteSet(G) /\ Cardinality(G) <= Cardinality(E) + 1
      /\ Cardinality(E) \in Nat /\ Cardinality(G) \in Nat
  BY OneMore DEF Budget
<1>2. IsFiniteSet(H) /\ Cardinality(H) <= Cardinality(F) + 1
      /\ Cardinality(F) \in Nat /\ Cardinality(H) \in Nat
  BY OneMore DEF Budget
<1>3. IsFiniteSet(R \cup {y}) /\ Cardinality(R \cup {y}) = Cardinality(R) + 1
      /\ Cardinality(R) \in Nat
  BY NewOne DEF Budget
<1>4. Cardinality(B) \in Nat
  BY FS_CardinalityType DEF Budget
<1> QED BY <1>1, <1>2, <1>3, <1>4 DEF Budget

\* A row stays a row, of the same owner and component.
LEMMA RowsStay ==
  ASSUME LedgerTypeOK, [LedgerNext]_ledgerVars, NEW q \in ReservationIds, reservation[q] \in Row
  PROVE  /\ reservation'[q] \in Row
         /\ reservation'[q].owner = reservation[q].owner
         /\ reservation'[q].component = reservation[q].component
<1>0. reservation \in [ReservationIds -> Row \cup {NoRow}] /\ reservation[q] # NoRow
  BY DEF LedgerTypeOK, Row, NoRow
<1>1. ASSUME NEW st \in {"captured", "released"},
             reservation'[q] = [reservation[q] EXCEPT !.state = st]
      PROVE  /\ reservation'[q] \in Row
             /\ reservation'[q].owner = reservation[q].owner
             /\ reservation'[q].component = reservation[q].component
  BY <1>1 DEF Row
<1>2. ASSUME reservation'[q] = reservation[q]
      PROVE  /\ reservation'[q] \in Row
             /\ reservation'[q].owner = reservation[q].owner
             /\ reservation'[q].component = reservation[q].component
  BY <1>2
<1>3. ASSUME NEW o \in Owners, NEW c \in Components, NEW r \in ReservationIds, Reserve(o, c, r)
      PROVE  reservation'[q] = reservation[q]
  BY <1>3, <1>0 DEF Reserve
<1>4. ASSUME NEW r \in ReservationIds, Capture(r) \/ Release(r)
      PROVE  \/ reservation'[q] = reservation[q]
             \/ \E st \in {"captured", "released"} :
                  reservation'[q] = [reservation[q] EXCEPT !.state = st]
  BY <1>4, <1>0 DEF Capture, Release
<1>5. ASSUME NEW age, Reconcile(age)
      PROVE  \/ reservation'[q] = reservation[q]
             \/ \E st \in {"captured", "released"} :
                  reservation'[q] = [reservation[q] EXCEPT !.state = st]
  BY <1>5 DEF Reconcile
<1>6. CASE Tick \/ UNCHANGED ledgerVars
  BY <1>6, <1>2 DEF Tick, ledgerVars
<1> QED BY <1>1, <1>2, <1>3, <1>4, <1>5, <1>6 DEF LedgerNext, Boot, OperatorReconcile

\* Only capture() captures, and only the row it is called for.
LEMMA CapturesOne ==
  ASSUME LedgerTypeOK, NEW q \in ReservationIds, reservation'[q].state = "captured",
         reservation[q].state # "captured"
  PROVE  /\ \A o, c : \A r \in ReservationIds : ~ Reserve(o, c, r)
         /\ \A r \in ReservationIds : ~ Release(r)
         /\ \A age : ~ Reconcile(age)
         /\ ~ UNCHANGED reservation
         /\ \A r \in ReservationIds : Capture(r) => q = r
<1>0. reservation \in [ReservationIds -> Row \cup {NoRow}]
  BY DEF LedgerTypeOK
<1>1. ASSUME NEW o, NEW c, NEW r \in ReservationIds, Reserve(o, c, r) PROVE FALSE
  BY <1>0, <1>1 DEF Reserve
<1>2. ASSUME NEW r \in ReservationIds, Release(r) PROVE FALSE
  <2>1. reservation[r] # NoRow => reservation[r] \in Row
    BY <1>0
  <2>2. CASE IsReserved(r)
    <3>1. reservation[r] \in Row
      BY <2>1, <2>2 DEF IsReserved, NoRow
    <3>2. reservation' = [reservation EXCEPT ![r] = [reservation[r] EXCEPT !.state = "released"]]
      BY <1>2, <2>2 DEF Release
    <3>3. [reservation[r] EXCEPT !.state = "released"].state = "released"
      BY <3>1 DEF Row
    <3> QED BY <1>0, <3>2, <3>3
  <2>3. CASE ~ IsReserved(r)
    BY <1>2, <2>3 DEF Release
  <2> QED BY <2>2, <2>3
<1>3. ASSUME NEW age, Reconcile(age) PROVE FALSE
  <2>1. CASE Abandoned(q, age)
    <3>1. reservation[q] \in Row
      BY <1>0, <2>1 DEF Abandoned, IsReserved, NoRow
    <3>2. reservation'[q] = [reservation[q] EXCEPT !.state = "released"]
      BY <1>3, <2>1 DEF Reconcile
    <3> QED BY <3>1, <3>2 DEF Row
  <2>2. CASE ~ Abandoned(q, age)
    BY <1>3, <2>2 DEF Reconcile
  <2> QED BY <2>1, <2>2
<1>4. ASSUME NEW r \in ReservationIds, Capture(r), q # r PROVE FALSE
  BY <1>0, <1>4 DEF Capture
<1> QED BY <1>1, <1>2, <1>3, <1>4

\* What a handler holds are reservations.
LEMMA HeldAreIds == HandlerInv => HeldIds(handler) \subseteq ReservationIds
BY DEF HandlerInv, HandlerOK, HandlerType, HeldIds

\* The service captures a row only in the handler that holds it, after its
\* commit.
LEMMA CapturesHeld ==
  ASSUME HandlerInv, LedgerTypeOK, [Next]_vars, NEW q \in ReservationIds,
         reservation'[q].state = "captured", reservation[q].state # "captured"
  PROVE  handler.step = "capture" /\ q \in HeldIds(handler)
<1>1. CASE CaptureNext
  <2>1. /\ handler.step = "capture" /\ handler.held # << >> /\ handler \in HandlerType
        /\ Capture(Head(handler.held))
    BY <1>1 DEF CaptureNext, At, HandlerInv, HandlerOK
  <2>2. Head(handler.held) \in HeldIds(handler) /\ Head(handler.held) \in ReservationIds
    BY <2>1, HoldLess, HeldAreIds
  <2> QED BY <2>1, <2>2, CapturesOne
<1>2. CASE UNCHANGED reservation
  BY <1>2, CapturesOne
<1>3. ASSUME NEW o \in Owners, NEW t \in Threads, Submit(o, t) \/ \E e \in 0 .. MaxEpoch : Respond(o, t, e)
      PROVE  FALSE
  BY <1>3, CapturesOne DEF Submit, Respond, ledgerVars
<1>4. CASE ReserveSecond
  BY <1>4, CapturesOne DEF ReserveSecond
<1>5. CASE RefuseSecond
  <2>1. handler.held[1] \in ReservationIds
    BY <1>5 DEF RefuseSecond, At, HandlerInv, HandlerOK, HandlerType
  <2> QED BY <1>5, <2>1, CapturesOne DEF RefuseSecond
<1>6. CASE Restart \/ Operator
  BY <1>6, CapturesOne DEF Restart, Boot, Operator, OperatorReconcile
<1>7. ASSUME ~ CaptureNext, ~ ReserveSecond, ~ RefuseSecond, ~ Restart, ~ Operator,
             \A o \in Owners, t \in Threads :
               ~ Submit(o, t) /\ \A e \in 0 .. MaxEpoch : ~ Respond(o, t, e)
      PROVE  UNCHANGED reservation
  BY <1>7 DEF Next, HandlerStep, OpenThread, CommitBatch, CommitReply, Arm, Publish, Deliver,
              DeliveryDies, Raise, Crash, Recover, Time, Tick, vars, ledgerVars
<1> QED BY <1>1, <1>2, <1>3, <1>4, <1>5, <1>6, <1>7

\* Unless a handler commits, nothing more is earned.
LEMMA EarnedLess ==
  ASSUME HandlerInv, LedgerTypeOK, LedgerTypeOK', HoldsOK, [Next]_vars,
         handler'.step = "capture" =>
           handler.step = "capture" /\ HeldIds(handler') \subseteq HeldIds(handler),
         NEW o, NEW c
  PROVE  Earned(o, c)' \subseteq Earned(o, c)
<1>1. [LedgerNext]_ledgerVars
  BY StepIsLedgerStep
<1>2. \A q \in HeldIds(handler) : q \in ReservationIds /\ reservation[q] \in Row
  BY HeldAreIds DEF HoldsOK
<1>3. ASSUME NEW q \in Bought(o, c)' PROVE q \in Earned(o, c)
  <2>1. /\ q \in ReservationIds /\ reservation'[q].state = "captured"
        /\ reservation'[q].owner = o /\ reservation'[q].component = c
    BY DEF Bought, RowsOf
  <2>2. CASE reservation[q].state = "captured"
    <3>1. reservation[q] \in Row
      BY <2>1, <2>2 DEF LedgerTypeOK, NoRow
    <3>2. reservation[q].owner = o /\ reservation[q].component = c
      BY <1>1, <2>1, <3>1, RowsStay
    <3> QED BY <2>1, <2>2, <3>2 DEF Earned, Bought, RowsOf
  <2>3. CASE reservation[q].state # "captured"
    <3>1. handler.step = "capture" /\ q \in HeldIds(handler)
      BY <2>1, <2>3, CapturesHeld
    <3>2. reservation[q].owner = o /\ reservation[q].component = c /\ reservation[q] \in Row
      BY <1>1, <1>2, <2>1, <3>1, RowsStay
    <3> QED BY <3>1, <3>2 DEF Earned, Due, RowIs
  <2> QED BY <2>2, <2>3
<1>4. ASSUME NEW q \in Due(o, c)' PROVE q \in Earned(o, c)
  <2>1. /\ handler'.step = "capture" /\ q \in HeldIds(handler')
        /\ reservation'[q].owner = o /\ reservation'[q].component = c
    BY DEF Due, RowIs
  <2>2. handler.step = "capture" /\ q \in HeldIds(handler)
    BY <2>1
  <2>3. reservation[q].owner = o /\ reservation[q].component = c /\ reservation[q] \in Row
    BY <1>1, <1>2, <2>1, <2>2, RowsStay
  <2> QED BY <2>2, <2>3 DEF Earned, Due, RowIs
<1> QED BY <1>3, <1>4 DEF Earned

\* The epochs of a thread, one more each time.
LEMMA OneMoreEpoch ==
  ASSUME NEW e \in 0 .. MaxEpoch
  PROVE  \A i : i \in 1 .. e + 1 <=> i \in 1 .. e \/ i = e + 1
BY TurnAssumption

\* What a row was held for it still is.
LEMMA RowIsStays ==
  ASSUME LedgerTypeOK, [LedgerNext]_ledgerVars, NEW q \in ReservationIds, NEW o, NEW c,
         RowIs(q, o, c)
  PROVE  RowIs(q, o, c)'
BY RowsStay DEF RowIs

\* A new reservation is a row of its owner and component.
LEMMA ReservedRow ==
  ASSUME LedgerTypeOK, NEW o \in Owners, NEW c \in Components, NEW r \in ReservationIds,
         Reserve(o, c, r)
  PROVE  RowIs(r, o, c)'
<1>1. reservation'[r] = [state |-> "reserved", owner |-> o, component |-> c,
                         credits |-> prices[c], created |-> clock]
  BY DEF Reserve, LedgerTypeOK
<1>2. prices[c] \in Nat /\ clock \in Nat
  BY DEF LedgerTypeOK
<1> QED BY <1>1, <1>2 DEF RowIs, Row

\* The two reservations of a reply.
LEMMA TwoHeld ==
  ASSUME NEW S, NEW r \in S, NEW q \in S
  PROVE  Append(<<r>>, q) = <<r, q>>
<1> DEFINE a == Append(<<r>>, q)
           b == <<r, q>>
<1>1. <<r>> \in Seq(S) /\ b \in Seq(S)
  OBVIOUS
<1>2. a \in Seq(S) /\ Len(a) = 2 /\ a[1] = r /\ a[2] = q
  BY <1>1
<1>3. Len(b) = 2 /\ b[1] = r /\ b[2] = q
  OBVIOUS
<1> HIDE DEF a, b
<1>4. \A i \in 1 .. Len(a) : a[i] = b[i]
  BY <1>2, <1>3
<1>5. a = b
  BY <1>1, <1>2, <1>3, <1>4, SeqEqual
<1> QED BY <1>5 DEF a, b

\* Every transaction leaves its handler with the reservations it needs next.
LEMMA HoldsStep ==
  ASSUME HandlerInv, LedgerTypeOK, HoldsOK, [Next]_vars
  PROVE  HoldsOK'
<1>h. handler \in HandlerType /\ HandlerOK(handler) /\ thread \in [Threads -> ThreadType]
  BY DEF HandlerInv, HandlerOK
<1>s. [LedgerNext]_ledgerVars
  BY StepIsLedgerStep
<1>i. HeldIds(Idle) = {} /\ Idle.step = "idle"
  BY DEF HeldIds, Idle, Handling
<1>c. {"turn-taking", "theoryofmind"} \subseteq Components /\ "none" \notin Owners
  BY TurnAssumption
<1>r. \A r \in HeldIds(handler) : r \in ReservationIds /\ reservation[r] \in Row /\ reservation'[r] \in Row
  BY HeldAreIds, <1>s, RowsStay DEF HoldsOK
<1>less. ASSUME HeldIds(handler') \subseteq HeldIds(handler),
                handler'.step \notin {"batch", "second", "reply"}
         PROVE  HoldsOK'
  BY <1>less, <1>r DEF HoldsOK
<1>same. ASSUME UNCHANGED <<thread, handler>> PROVE HoldsOK'
  <2>1. \A r \in HeldIds(handler') : reservation'[r] \in Row
    BY <1>same, <1>r
  <2>2. \A q \in ReservationIds : \A o, c : RowIs(q, o, c) => RowIs(q, o, c)'
    BY <1>s, RowIsStays
  <2> QED BY <1>same, <2>1, <2>2 DEF HoldsOK
<1>1. ASSUME NEW o \in Owners, NEW t \in Threads, OpenThread(o, t) PROVE HoldsOK'
  BY <1>1, <1>i, <1>less DEF OpenThread, Serving
<1>2. ASSUME NEW o \in Owners, NEW t \in Threads, Submit(o, t) PROVE HoldsOK'
  <2>1. PICK held :
          /\ handler' = Handling("batch", o, t, thread[t].epoch, held)
          /\ held = << >> \/ \E r \in ReservationIds : held = <<r>> /\ Reserve(o, "turn-taking", r)
    <3>1. CASE handler' = Handling("batch", o, t, thread[t].epoch, << >>)
      BY <3>1
    <3>2. ASSUME NEW r \in ReservationIds, Reserve(o, "turn-taking", r),
                 handler' = Handling("batch", o, t, thread[t].epoch, <<r>>)
          PROVE  \E held :
                   /\ handler' = Handling("batch", o, t, thread[t].epoch, held)
                   /\ held = << >> \/ \E q \in ReservationIds :
                                        held = <<q>> /\ Reserve(o, "turn-taking", q)
      BY <3>2
    <3> QED BY <1>2, <3>1, <3>2 DEF Submit
  <2>2. held = << >> \/ \E r \in ReservationIds : held = <<r>> /\ RowIs(r, o, "turn-taking")'
    BY <2>1, <1>c, ReservedRow
  <2>3. \A r \in HeldIds(handler') : reservation'[r] \in Row
    <3>1. HeldIds(handler') = {held[i] : i \in DOMAIN held}
      BY <2>1 DEF HeldIds, Handling
    <3>2. CASE held = << >>
      BY <3>1, <3>2
    <3>3. ASSUME NEW r \in ReservationIds, held = <<r>>, RowIs(r, o, "turn-taking")'
          PROVE  \A q \in HeldIds(handler') : reservation'[q] \in Row
      BY <3>1, <3>3 DEF RowIs
    <3> QED BY <2>2, <3>2, <3>3
  <2>4. thread' = thread /\ thread[t].owner = o
    BY <1>2 DEF Submit, Owns, tables
  <2>5. /\ handler'.step = "batch" /\ handler'.owner = o /\ handler'.thread = t
        /\ handler'.epoch = thread[t].epoch /\ handler'.held = held
    BY <2>1 DEF Handling
  <2> QED BY <2>2, <2>3, <2>4, <2>5 DEF HoldsOK
<1>3. ASSUME NEW o \in Owners, NEW t \in Threads, NEW e \in 0 .. MaxEpoch, Respond(o, t, e)
      PROVE  HoldsOK'
  <2>1. PICK r \in ReservationIds : /\ Reserve(o, "turn-taking", r)
                                    /\ handler' = Handling("second", o, t, e, <<r>>)
    BY <1>3 DEF Respond
  <2>2. RowIs(r, o, "turn-taking")'
    BY <2>1, <1>c, ReservedRow
  <2>3. /\ handler'.step = "second" /\ handler'.owner = o /\ handler'.held = <<r>>
        /\ HeldIds(handler') = {r}
    BY <2>1 DEF Handling, HeldIds
  <2> QED BY <2>2, <2>3 DEF HoldsOK, RowIs
<1>4. CASE CommitBatch
  <2>1. handler' = Settle(handler)
    BY <1>4 DEF CommitBatch
  <2> QED BY <2>1, <1>h, <1>less, SettleOK, SettleGroup
<1>5. CASE ReserveSecond
  <2>1. PICK s \in ReservationIds :
          /\ Reserve(handler.owner, "theoryofmind", s)
          /\ handler' = [handler EXCEPT !.step = "reply", !.held = Append(@, s)]
    BY <1>5 DEF ReserveSecond
  <2>2. handler.step = "second" /\ handler.owner \in Owners
    BY <1>5, <1>h DEF ReserveSecond, At, HandlerOK
  <2>3. PICK r \in ReservationIds : handler.held = <<r>> /\ RowIs(r, handler.owner, "turn-taking")
    BY <2>2 DEF HoldsOK
  <2>4. RowIs(s, handler.owner, "theoryofmind")'
    BY <2>1, <2>2, <1>c, ReservedRow
  <2>5. RowIs(r, handler.owner, "turn-taking")'
    <3>1. \A o : RowIs(r, o, "turn-taking") => RowIs(r, o, "turn-taking")'
      BY <1>s, RowIsStays
    <3>2. PICK o : o = handler.owner
      OBVIOUS
    <3>3. reservation'[r] \in Row /\ reservation'[r].owner = o /\ reservation'[r].component = "turn-taking"
      BY <2>3, <3>1, <3>2 DEF RowIs
    <3> QED BY <3>2, <3>3, <2>1, <1>h DEF RowIs, HandlerType
  <2>6. /\ handler'.step = "reply" /\ handler'.owner = handler.owner /\ handler'.held = <<r, s>>
    <3>1. /\ handler'.step = "reply" /\ handler'.owner = handler.owner
          /\ handler'.held = Append(handler.held, s)
      BY <2>1, <1>h DEF HandlerType
    <3>2. Append(<<r>>, s) = <<r, s>>
      BY TwoHeld
    <3> QED BY <3>1, <3>2, <2>3
  <2>7. HeldIds(handler') = {r, s}
    BY <2>6 DEF HeldIds
  <2> QED BY <2>2, <2>4, <2>5, <2>6, <2>7 DEF HoldsOK, RowIs
<1>6. CASE RefuseSecond \/ Publish \/ Raise \/ Crash
  BY <1>6, <1>i, <1>less DEF RefuseSecond, Publish, Raise, Crash
<1>7. ASSUME NEW g \in Groups, CommitReply(g) PROVE HoldsOK'
  <2>1. PICK gg \in Groups \cup {"none"} :
          handler' = Settle([handler EXCEPT !.group = gg])
    BY <1>7, <1>h DEF CommitReply, HandlerType
  <2>2. [handler EXCEPT !.group = gg] \in HandlerType
    BY <1>h DEF HandlerType
  <2>3. HeldIds([handler EXCEPT !.group = gg]) = HeldIds(handler)
    BY <1>h DEF HeldIds, HandlerType
  <2> QED BY <2>1, <2>2, <2>3, <1>less, SettleOK, SettleGroup
<1>8. CASE CaptureNext
  <2>1. handler.held # << >> /\ handler' = Settle([handler EXCEPT !.held = Tail(@)])
    BY <1>8, <1>h DEF CaptureNext, At, HandlerOK
  <2>2. /\ [handler EXCEPT !.held = Tail(@)] \in HandlerType
        /\ HeldIds([handler EXCEPT !.held = Tail(@)]) \subseteq HeldIds(handler)
    BY <2>1, <1>h, HoldLess
  <2> QED BY <2>1, <2>2, <1>less, SettleOK, SettleGroup
<1>9. CASE Arm
  <2>1. handler'.step = "publish" /\ HeldIds(handler') = HeldIds(handler)
    BY <1>9, <1>h DEF Arm, HandlerType, HeldIds
  <2> QED BY <2>1, <1>less
<1>10. ASSUME NEW g \in Groups, Deliver(g) \/ DeliveryDies(g) PROVE HoldsOK'
  BY <1>10, <1>same DEF Deliver, DeliveryDies, tables
<1>11. CASE Restart \/ Recover \/ Operator \/ Time \/ UNCHANGED vars
  BY <1>11, <1>same DEF Restart, Recover, Operator, Time, vars, turnVars, tables
<1> QED BY <1>1, <1>2, <1>3, <1>4, <1>5, <1>6, <1>7, <1>8, <1>9, <1>10, <1>11 DEF Next, HandlerStep

\* At first nothing is charged.
LEMMA EarnInitInv == Init => EarnInv
<1> SUFFICES ASSUME Init PROVE EarnInv
  OBVIOUS
<1>1. HeldIds(handler) = {} /\ handler.step = "idle"
  BY DEF Init, HeldIds, Idle, Handling
<1>2. \A r \in ReservationIds : reservation[r].state = "absent"
  BY DEF Init, LedgerInit, NoRow
<1>3. \A t \in Threads : thread[t].owner = "none"
  BY DEF Init, NoThread
<1>4. \A g \in Groups : reply[g].owner = "none"
  BY DEF Init, NoReply
<1>5. ASSUME NEW o \in Owners
      PROVE  Budget(Earned(o, "theoryofmind"), Earned(o, "turn-taking"), Replies(o), Batches(o))
  <2>1. o # "none"
    BY TurnAssumption
  <2>2. \A c : Earned(o, c) = {}
    BY <1>1, <1>2 DEF Earned, Due, Bought, RowsOf
  <2>3. Replies(o) = {}
    BY <1>4, <2>1 DEF Replies
  <2>4. Batches(o) = {}
    BY <1>3, <2>1 DEF Batches, Owns
  <2>5. IsFiniteSet({}) /\ Cardinality({}) = 0
    BY FS_EmptySet
  <2>6. Budget({}, {}, {}, {})
    BY <2>5 DEF Budget
  <2> QED BY <2>2, <2>3, <2>4, <2>6
<1> QED BY <1>1, <1>5 DEF EarnInv, EarnOK, HoldsOK

\* A commit leaves the ledger alone: only what its handler holds is newly due.
LEMMA EarnedByCommit ==
  ASSUME UNCHANGED ledgerVars, HeldIds(handler') \subseteq HeldIds(handler), NEW o, NEW c
  PROVE  Earned(o, c)' \subseteq Earned(o, c) \cup {r \in HeldIds(handler) : RowIs(r, o, c)}
BY DEF Earned, Due, Bought, RowsOf, RowIs, ledgerVars

\* Every batch and every reply is paid for at most once.
LEMMA EarnStepInv ==
  ASSUME HandlerInv, ReplyInv, LedgerTypeOK, LedgerTypeOK', EarnInv, [Next]_vars
  PROVE  EarnInv'
<1>h. /\ handler \in HandlerType /\ thread \in [Threads -> ThreadType]
      /\ reply \in [Groups -> ReplyType] /\ HoldsOK
  BY DEF HandlerInv, HandlerOK, ReplyInv, EarnInv
<1>e. HoldsOK'
  BY HoldsStep DEF EarnInv
<1> SUFFICES ASSUME NEW o \in Owners
             PROVE  Budget(Earned(o, "theoryofmind")', Earned(o, "turn-taking")',
                           Replies(o)', Batches(o)')
  BY <1>e DEF EarnInv, EarnOK, Budget
<1>b. Budget(Earned(o, "theoryofmind"), Earned(o, "turn-taking"), Replies(o), Batches(o))
  BY DEF EarnInv, EarnOK
<1>n. o # "none"
  BY TurnAssumption
<1>m. /\ \A x : x \in Batches(o) <=>
             \E t \in Threads : \E i \in 1 .. thread[t].epoch : thread[t].owner = o /\ x = <<t, i>>
      /\ \A x : x \in Batches(o)' <=>
             \E t \in Threads : \E i \in 1 .. thread'[t].epoch : thread'[t].owner = o /\ x = <<t, i>>
  BY DEF Batches, Owns
<1>less. ASSUME handler'.step = "capture" =>
                  handler.step = "capture" /\ HeldIds(handler') \subseteq HeldIds(handler),
                Replies(o)' = Replies(o), Batches(o)' = Batches(o)
         PROVE  Budget(Earned(o, "theoryofmind")', Earned(o, "turn-taking")',
                       Replies(o)', Batches(o)')
  <2>1. \A c : Earned(o, c)' \subseteq Earned(o, c)
    BY <1>h, <1>less, EarnedLess
  <2> QED BY <1>b, <1>less, <2>1, BudgetLess
<1>same. ASSUME UNCHANGED <<thread, reply>>
         PROVE  Replies(o)' = Replies(o) /\ Batches(o)' = Batches(o)
  BY <1>same DEF Replies, Batches, Owns
<1>i. Idle.step = "idle"
  BY DEF Idle, Handling
<1>1. ASSUME NEW p \in Owners, NEW t \in Threads, OpenThread(p, t)
      PROVE  Budget(Earned(o, "theoryofmind")', Earned(o, "turn-taking")', Replies(o)', Batches(o)')
  <2>1. /\ thread[t] = NoThread /\ thread' = [thread EXCEPT ![t].owner = p]
        /\ handler' = handler /\ reply' = reply
    BY <1>1 DEF OpenThread
  <2>2. \A u \in Threads : thread'[u].epoch = thread[u].epoch
    BY <2>1, <1>h DEF ThreadType
  <2>3. \A u \in Threads : u # t => thread'[u].owner = thread[u].owner
    BY <2>1, <1>h DEF ThreadType
  <2>4. thread[t].epoch = 0 /\ thread[t].owner = "none"
    BY <2>1 DEF NoThread
  <2>5. \A i : i \notin 1 .. 0
    OBVIOUS
  <2>6. Batches(o)' = Batches(o)
    <3>1. ASSUME NEW u \in Threads, u = t
          PROVE  \A i : i \notin 1 .. thread[u].epoch /\ i \notin 1 .. thread'[u].epoch
      BY <3>1, <2>2, <2>4, <2>5
    <3>2. \A y : y \in Batches(o)' <=> y \in Batches(o)
      BY <1>m, <2>2, <2>3, <3>1
    <3> QED BY <3>2
  <2>7. Replies(o)' = Replies(o)
    BY <2>1 DEF Replies
  <2> QED BY <2>1, <2>6, <2>7, <1>less
<1>2. ASSUME NEW p \in Owners, NEW t \in Threads, Submit(p, t)
      PROVE  Budget(Earned(o, "theoryofmind")', Earned(o, "turn-taking")', Replies(o)', Batches(o)')
  BY <1>2, <1>same, <1>less DEF Submit, Handling, tables
<1>3. ASSUME NEW p \in Owners, NEW t \in Threads, NEW e \in 0 .. MaxEpoch, Respond(p, t, e)
      PROVE  Budget(Earned(o, "theoryofmind")', Earned(o, "turn-taking")', Replies(o)', Batches(o)')
  BY <1>3, <1>same, <1>less DEF Respond, Handling, tables
<1>4. CASE CommitBatch
  <2> DEFINE t == handler.thread
             e == handler.epoch
  <2>1. /\ handler.step = "batch" /\ handler' = Settle(handler)
        /\ thread' = [thread EXCEPT ![t].epoch = e + 1]
        /\ UNCHANGED ledgerVars /\ reply' = reply
    BY <1>4 DEF CommitBatch, At
  <2>2. /\ t \in Threads /\ thread[t].owner = handler.owner /\ thread[t].epoch = e
        /\ \/ handler.held = << >>
           \/ \E r \in ReservationIds : handler.held = <<r>> /\ RowIs(r, handler.owner, "turn-taking")
    BY <2>1, <1>h DEF HoldsOK
  <2>3. HeldIds(handler') = HeldIds(handler)
    BY <2>1, <1>h, SettleOK
  <2>4. PICK x : \A r \in HeldIds(handler) : r = x /\ RowIs(r, handler.owner, "turn-taking")
    BY <2>2 DEF HeldIds
  <2>5. e \in 0 .. MaxEpoch
    BY <1>h DEF HandlerType
  <2>6. \A u \in Threads : /\ thread'[u].owner = thread[u].owner
                           /\ u # t => thread'[u].epoch = thread[u].epoch
                           /\ u = t => thread'[u].epoch = e + 1
    BY <2>1, <1>h DEF ThreadType
  <2>7. \A c : Earned(o, c)' \subseteq Earned(o, c) \cup {r \in HeldIds(handler) : RowIs(r, o, c)}
    BY <2>1, <2>3, EarnedByCommit
  <2>8. Replies(o)' = Replies(o)
    BY <2>1 DEF Replies
  <2> HIDE DEF t, e
  <2>9. CASE handler.owner = o
    <3>1. \A i : i \in 1 .. e + 1 <=> i \in 1 .. e \/ i = e + 1
      BY <2>5, OneMoreEpoch
    <3>2. e + 1 \notin 1 .. e
      BY <2>5, TurnAssumption
    <3>n. \A y : y \in Batches(o)' <=> y \in Batches(o) \/ y = <<t, e + 1>>
      <4>1. thread[t].owner = o /\ thread[t].epoch = e
        BY <2>2, <2>9
      <4>2. thread'[t].owner = o /\ thread'[t].epoch = e + 1
        BY <2>2, <2>6, <4>1
      <4>3. ASSUME NEW y, y \in Batches(o)' PROVE y \in Batches(o) \/ y = <<t, e + 1>>
        <5>1. PICK u \in Threads : \E i \in 1 .. thread'[u].epoch : thread'[u].owner = o /\ y = <<u, i>>
          BY <4>3, <1>m
        <5>2. PICK i \in 1 .. thread'[u].epoch : thread'[u].owner = o /\ y = <<u, i>>
          BY <5>1
        <5>3. CASE u = t
          <6>1. i \in 1 .. e \/ i = e + 1
            BY <3>1, <4>2, <5>2, <5>3, Zenon
          <6> QED BY <6>1, <1>m, <2>2, <4>1, <5>2, <5>3, Zenon
        <5>4. CASE u # t
          <6>1. thread'[u].epoch = thread[u].epoch /\ thread[u].owner = o
            BY <2>6, <5>2, <5>4
          <6> QED BY <6>1, <1>m, <5>2, Zenon
        <5> QED BY <5>3, <5>4
      <4>4. ASSUME NEW y, y \in Batches(o) PROVE y \in Batches(o)'
        <5>1. PICK u \in Threads : \E i \in 1 .. thread[u].epoch : thread[u].owner = o /\ y = <<u, i>>
          BY <4>4, <1>m
        <5>2. PICK i \in 1 .. thread[u].epoch : thread[u].owner = o /\ y = <<u, i>>
          BY <5>1
        <5>3. CASE u = t
          <6>1. i \in 1 .. e + 1
            BY <3>1, <4>1, <5>2, <5>3, Zenon
          <6> QED BY <6>1, <1>m, <2>2, <4>2, <5>2, <5>3, Zenon
        <5>4. CASE u # t
          <6>1. thread'[u].epoch = thread[u].epoch /\ thread'[u].owner = o
            BY <2>6, <5>2, <5>4
          <6> QED BY <6>1, <1>m, <5>2, Zenon
        <5> QED BY <5>3, <5>4
      <4>5. <<t, e + 1>> \in Batches(o)'
        <5>1. e + 1 \in 1 .. thread'[t].epoch
          BY <3>1, <4>2, Zenon
        <5> QED BY <5>1, <4>2, <1>m, <2>2, Zenon
      <4> QED BY <4>3, <4>4, <4>5
    <3>3. <<t, e + 1>> \notin Batches(o)
      BY <1>m, <2>2, <3>2
    <3>4. Earned(o, "theoryofmind")' \subseteq Earned(o, "theoryofmind")
      BY <2>4, <2>7 DEF RowIs
    <3>5. Earned(o, "turn-taking")' \subseteq Earned(o, "turn-taking") \cup {x}
      BY <2>4, <2>7
    <3>6. PICK G, H, B, y : /\ G = Earned(o, "theoryofmind")' /\ H = Earned(o, "turn-taking")'
                            /\ B = Batches(o) /\ y = <<t, e + 1>>
      OBVIOUS
    <3>7. Budget(G, H, Replies(o), B \cup {y})
      <4>1. G \subseteq Earned(o, "theoryofmind") /\ H \subseteq Earned(o, "turn-taking") \cup {x}
        BY <3>4, <3>5, <3>6
      <4> QED BY <1>b, <3>3, <3>6, <4>1, BudgetBatch
    <3>8. Batches(o)' = B \cup {y}
      BY <3>n, <3>6
    <3> QED BY <2>8, <3>6, <3>7, <3>8
  <2>10. CASE handler.owner # o
    <3>1. \A u \in Threads : thread[u].owner = o => u # t
      BY <2>2, <2>10
    <3>2. \A y : y \in Batches(o)' <=> y \in Batches(o)
      BY <1>m, <2>6, <3>1
    <3>3. Batches(o)' = Batches(o)
      BY <3>2
    <3>4. \A c : Earned(o, c)' \subseteq Earned(o, c)
      BY <2>4, <2>7, <2>10 DEF RowIs
    <3> QED BY <1>b, <2>8, <3>3, <3>4, BudgetLess
  <2> QED BY <2>9, <2>10
<1>5. CASE ReserveSecond
  <2>1. handler'.step = "reply"
    BY <1>5, <1>h DEF ReserveSecond, HandlerType
  <2> QED BY <1>5, <2>1, <1>same, <1>less DEF ReserveSecond, tables
<1>6. CASE RefuseSecond \/ Raise \/ Crash
  BY <1>6, <1>i, <1>same, <1>less DEF RefuseSecond, Raise, Crash, tables
<1>7. ASSUME NEW g \in Groups, CommitReply(g)
      PROVE  Budget(Earned(o, "theoryofmind")', Earned(o, "turn-taking")', Replies(o)', Batches(o)')
  <2>1. PICK status \in {"scheduled", "empty"}, k \in Groups \cup {"none"} :
          /\ reply' = [reply EXCEPT ![g] =
                 [owner |-> handler.owner, thread |-> handler.thread,
                  epoch |-> handler.epoch, status |-> status]]
          /\ handler' = Settle([handler EXCEPT !.group = k])
    BY <1>7, <1>h DEF CommitReply, HandlerType
  <2>2. /\ handler.step = "reply" /\ reply[g] = NoReply
        /\ UNCHANGED ledgerVars /\ thread' = thread
    BY <1>7 DEF CommitReply, At
  <2>3. PICK x, z \in ReservationIds :
          /\ handler.held = <<x, z>>
          /\ RowIs(x, handler.owner, "turn-taking") /\ RowIs(z, handler.owner, "theoryofmind")
    BY <2>2, <1>h DEF HoldsOK
  <2>4. HeldIds(handler) = {x, z}
    BY <2>3 DEF HeldIds
  <2>5. HeldIds(handler') \subseteq HeldIds(handler)
    <3>1. [handler EXCEPT !.group = k] \in HandlerType
      BY <1>h DEF HandlerType
    <3>2. HeldIds([handler EXCEPT !.group = k]) = HeldIds(handler)
      BY <1>h DEF HeldIds, HandlerType
    <3> QED BY <2>1, <3>1, <3>2, SettleOK
  <2>6. \A c : Earned(o, c)' \subseteq Earned(o, c) \cup {r \in HeldIds(handler) : RowIs(r, o, c)}
    BY <2>2, <2>5, EarnedByCommit
  <2>7. Batches(o)' = Batches(o)
    BY <2>2 DEF Batches, Owns
  <2>8. /\ reply'[g].owner = handler.owner /\ reply[g].owner = "none"
        /\ \A h \in Groups : h # g => reply'[h] = reply[h]
    BY <2>1, <2>2, <1>h DEF NoReply
  <2>9. CASE handler.owner = o
    <3>1. Replies(o)' = Replies(o) \cup {g} /\ g \notin Replies(o)
      BY <2>8, <2>9, <1>n DEF Replies
    <3>2. Earned(o, "theoryofmind")' \subseteq Earned(o, "theoryofmind") \cup {z}
      BY <2>3, <2>4, <2>6 DEF RowIs
    <3>3. Earned(o, "turn-taking")' \subseteq Earned(o, "turn-taking") \cup {x}
      BY <2>3, <2>4, <2>6 DEF RowIs
    <3>4. PICK E, F, R, B : /\ E = Earned(o, "theoryofmind") /\ F = Earned(o, "turn-taking")
                            /\ R = Replies(o) /\ B = Batches(o)
      OBVIOUS
    <3>5. PICK G, H : G = Earned(o, "theoryofmind")' /\ H = Earned(o, "turn-taking")'
      OBVIOUS
    <3>6. Budget(E, F, R, B) /\ g \notin R
      BY <1>b, <3>1, <3>4
    <3>7. G \subseteq E \cup {z} /\ H \subseteq F \cup {x}
      BY <3>2, <3>3, <3>4, <3>5
    <3>8. Budget(G, H, R \cup {g}, B)
      BY <3>6, <3>7, BudgetReply
    <3> QED BY <2>7, <3>1, <3>4, <3>5, <3>8
  <2>10. CASE handler.owner # o
    <3>1. Replies(o)' = Replies(o)
      BY <2>8, <2>10, <1>n DEF Replies
    <3>2. \A c : Earned(o, c)' \subseteq Earned(o, c)
      BY <2>3, <2>4, <2>6, <2>10 DEF RowIs
    <3> QED BY <1>b, <2>7, <3>1, <3>2, BudgetLess
  <2> QED BY <2>9, <2>10
<1>8. CASE CaptureNext
  <2>1. /\ handler.step = "capture" /\ handler.held # << >>
        /\ handler' = Settle([handler EXCEPT !.held = Tail(@)])
    BY <1>8 DEF CaptureNext, At, HandlerInv, HandlerOK
  <2>2. HeldIds(handler') \subseteq HeldIds(handler)
    <3>1. /\ [handler EXCEPT !.held = Tail(@)] \in HandlerType
          /\ HeldIds([handler EXCEPT !.held = Tail(@)]) \subseteq HeldIds(handler)
      BY <2>1, <1>h, HoldLess
    <3> QED BY <2>1, <3>1, SettleOK
  <2> QED BY <1>8, <2>1, <2>2, <1>same, <1>less DEF CaptureNext, tables
<1>9. CASE Arm \/ Publish
  <2>1. handler'.step # "capture"
    BY <1>9, <1>h, <1>i DEF Arm, Publish, HandlerType
  <2> QED BY <1>9, <2>1, <1>same, <1>less DEF Arm, Publish, tables
<1>10. ASSUME NEW g \in Groups, Deliver(g)
      PROVE  Budget(Earned(o, "theoryofmind")', Earned(o, "turn-taking")', Replies(o)', Batches(o)')
  <2>1. /\ reply' = [reply EXCEPT ![g].status = "delivered"]
        /\ thread' = thread /\ handler' = handler
    BY <1>10 DEF Deliver
  <2>2. \A k \in Groups : reply'[k].owner = reply[k].owner
    BY <2>1, <1>h DEF ReplyType
  <2>3. Replies(o)' = Replies(o)
    BY <2>2 DEF Replies
  <2>4. Batches(o)' = Batches(o)
    BY <2>1 DEF Batches, Owns
  <2> QED BY <2>1, <2>3, <2>4, <1>less
<1>12. ASSUME NEW g \in Groups, DeliveryDies(g)
      PROVE  Budget(Earned(o, "theoryofmind")', Earned(o, "turn-taking")', Replies(o)', Batches(o)')
  BY <1>12, <1>same, <1>less DEF DeliveryDies, tables
<1>11. CASE Restart \/ Recover \/ Operator \/ Time \/ UNCHANGED vars
  BY <1>11, <1>same, <1>less DEF Restart, Recover, Operator, Time, vars, turnVars, tables
<1> QED BY <1>1, <1>2, <1>3, <1>4, <1>5, <1>6, <1>7, <1>8, <1>9, <1>10, <1>11, <1>12
        DEF Next, HandlerStep

\* Nobody is charged for a reply or a batch that was not committed, whatever
\* crashes, refusals and rollbacks come between the reservation and the
\* capture.
THEOREM WorkBehindEveryCharge == Spec => []ChargesEarned
<1>1. Spec => []LedgerTypeOK
  BY ServiceImplementsLedger, LedgerTypeCorrect, PTL DEF ImplementsLedger
<1>2. HandlerInv /\ ReplyInv /\ LedgerTypeOK /\ LedgerTypeOK' /\ EarnInv /\ [Next]_vars => EarnInv'
  BY EarnStepInv
<1>3. EarnInv => ChargesEarned
  <2> SUFFICES ASSUME EarnInv, NEW o \in Owners
               PROVE  /\ Cardinality(Bought(o, "theoryofmind")) <= Cardinality(Replies(o))
                      /\ Cardinality(Bought(o, "turn-taking"))
                           <= Cardinality(Replies(o)) + Cardinality(Batches(o))
    BY DEF ChargesEarned
  <2>1. Budget(Earned(o, "theoryofmind"), Earned(o, "turn-taking"), Replies(o), Batches(o))
    BY DEF EarnInv, EarnOK
  <2>2. \A c : Bought(o, c) \subseteq Earned(o, c)
    BY DEF Earned
  <2> QED BY <2>1, <2>2, BudgetLess DEF Budget
<1> QED BY <1>1, <1>2, <1>3, EarnInitInv, HandlerInvariance, ReplyInvariance, PTL DEF Spec
=============================================================================
