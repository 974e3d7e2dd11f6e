------------------------------ MODULE JobsProofs ------------------------------
(***************************************************************************)
(* What TLAPS proves of Jobs, for any workers, runs and persona kinds and  *)
(* any faults: sections are written once and in order, a run has one job,  *)
(* a persona outcome is final but for a late fail_job of the operator, and *)
(* work is paid for except where the operator took the charge back.        *)
(*                                                                         *)
(* The properties of runs are not inductive by themselves: a worker is     *)
(* about to write a section because of the stages behind it.  The          *)
(* invariant therefore ties the stage of every worker, of the first as of  *)
(* the second executor of a job, to the sections that are there.           *)
(***************************************************************************)
EXTENDS Jobs, FiniteSetTheorems, SequenceTheorems, TLAPS

JobType == [kind     : Kinds \cup {"audit"},
            run      : Runs \cup {Null},
            status   : {"pending", "running", "succeeded", "failed"},
            lease    : {"none", "held", "expired"},
            progress : {"designing", "generating", "running", "evaluating", Null},
            writer   : Workers \cup {Null}]

RunType == [status   : {"absent", "prepared", "queued", "completed"},
            report   : Workers \cup {Null},
            read     : Workers \cup {Null},
            verdicts : Workers \cup {Null},
            replies  : Workers \cup {Null}]

\* What is left of a handler: for an audit the stage it is at decides the rest.
AuditTodo   == {<<"report", "read", "verdicts", "finish">>, <<"read", "verdicts", "finish">>,
                <<"verdicts", "finish">>, <<"finish">>}
PersonaTodo == {<<"designing", "generating", "finish">>, <<"generating", "finish">>,
                <<"running", "finish">>, <<"evaluating", "finish">>, <<"finish">>}

WorkerType == [job : Nat, todo : AuditTodo \cup PersonaTodo \cup {<< >>},
               onLoop : BOOLEAN, dead : BOOLEAN]

JobsTypeOK ==
  /\ jobs \in Seq(JobType)
  /\ runs \in [Runs -> RunType]
  /\ worker \in [Workers -> WorkerType]
  /\ request \in [command : Kinds \cup {"audit_prepare", "audit_launch", Null},
                  run     : Runs \cup {Null},
                  step    : {"reserved", "released", "billed", Null}]
  /\ paid \in Nat /\ wasted \in Nat /\ free \in Nat

Ended == {"succeeded", "failed"}

\* An audit job is about a run, and no other is about the same one.  It holds
\* a result if it reads succeeded, and one that holds a result has ended.
RowsOK ==
  /\ \A i \in DOMAIN jobs : jobs[i].kind = "audit" <=> jobs[i].run # Null
  /\ \A i, j \in DOMAIN jobs : jobs[i].run = jobs[j].run /\ jobs[i].run # Null => i = j
  /\ \A i \in DOMAIN jobs : jobs[i].run # Null =>
       /\ jobs[i].status = "succeeded" => jobs[i].writer # Null
       /\ jobs[i].writer # Null => jobs[i].status \in Ended

Launched(a) == \E i \in DOMAIN jobs : jobs[i].run = a
Stored(a)   == \E i \in DOMAIN jobs : jobs[i].run = a /\ jobs[i].writer # Null

RunsOK ==
  \A a \in Runs :
    /\ Launched(a) <=> runs[a].status \in {"queued", "completed"}
    /\ Stored(a) <=> runs[a].status = "completed"
    /\ runs[a].status = "completed" => runs[a].replies # Null

\* The sections behind the stage a handler is at are there.
Behind(todo, run) ==
  /\ todo \in AuditTodo
  /\ todo # <<"report", "read", "verdicts", "finish">> => run.report # Null
  /\ todo \in {<<"verdicts", "finish">>, <<"finish">>} => run.read # Null
  /\ todo = <<"finish">> => run.verdicts # Null

Fits(v) ==
  v.job # 0 =>
    /\ v.job \in DOMAIN jobs
    /\ jobs[v.job].kind = "audit" => Behind(v.todo, runs[jobs[v.job].run])
    /\ jobs[v.job].kind # "audit" => v.todo \in PersonaTodo

WorkersOK == \A w \in Workers : Fits(worker[w])

\* A request keeps the run it has looked at, for nobody else gets to it.
RequestOK ==
  /\ request.command = "audit_prepare" => request.run \in Runs /\ runs[request.run].status = "absent"
  /\ request.command = "audit_launch"  => request.run \in Runs /\ runs[request.run].status = "prepared"

Rows == {a \in Runs : runs[a].status # "absent"}

PaidOK == IsFiniteSet(Rows) /\ WorkIsPaid

JobsInv ==
  JobsTypeOK /\ RowsOK /\ RunsOK /\ WorkersOK /\ RequestOK /\ SectionsInOrder /\ PaidOK

\* No name is used twice.
LEMMA Kinds3 == "audit" \notin Kinds /\ Null \notin Kinds /\ Null \notin Runs /\ Null \notin Workers
                /\ "audit_launch" \notin Kinds /\ "audit_prepare" \notin Kinds
BY JobsAssumption DEF Null

\* WorkIsPaid in the terms of this module.
LEMMA PaidForm ==
  /\ WorkIsPaid <=> paid + free = Len(jobs) + Cardinality(Rows) + wasted + Spent
  /\ WorkIsPaid' <=> paid' + free' = Len(jobs') + Cardinality(Rows') + wasted' + Spent'
BY DEF WorkIsPaid, Rows

\* The invariant holds in an empty database.
LEMMA JobsInitInv == Init => JobsInv
<1> SUFFICES ASSUME Init PROVE JobsInv
  OBVIOUS
<1>1. JobsTypeOK
  BY DEF Init, JobsTypeOK, RunType, WorkerType, Polling, NoRequest
<1>2. RowsOK /\ RunsOK /\ SectionsInOrder
  BY DEF Init, RowsOK, RunsOK, SectionsInOrder, Launched, Stored
<1>3. WorkersOK /\ RequestOK
  BY DEF Init, WorkersOK, RequestOK, Fits, Polling, NoRequest, Null
<1>4. Rows = {}
  BY DEF Init, Rows
<1>5. PaidOK
  <2>1. IsFiniteSet(Rows) /\ Cardinality(Rows) = 0
    BY <1>4, FS_EmptySet
  <2>2. Len(jobs) = 0 /\ paid = 0 /\ free = 0 /\ wasted = 0 /\ Spent = 0
    BY DEF Init, Spent, NoRequest, Null
  <2> QED BY <2>1, <2>2, PaidForm DEF PaidOK
<1> QED BY <1>1, <1>2, <1>3, <1>5 DEF JobsInv

-----------------------------------------------------------------------------
(* Rows.                                                                    *)

\* Writing one row leaves the others and the length alone.
LEMMA RowUpdate ==
  ASSUME NEW s \in Seq(JobType), NEW i \in DOMAIN s, NEW r \in JobType
  PROVE  LET t == [s EXCEPT ![i] = r] IN
         /\ t \in Seq(JobType) /\ Len(t) = Len(s) /\ DOMAIN t = DOMAIN s
         /\ \A j \in DOMAIN s : t[j] = IF j = i THEN r ELSE s[j]
BY ExceptSeq

\* A new row comes last.
LEMMA RowAppend ==
  ASSUME NEW s \in Seq(JobType), NEW r \in JobType
  PROVE  LET t == Append(s, r) IN
         /\ t \in Seq(JobType) /\ Len(t) = Len(s) + 1
         /\ DOMAIN t = DOMAIN s \cup {Len(s) + 1} /\ Len(s) + 1 \notin DOMAIN s
         /\ \A j \in DOMAIN s : t[j] = s[j]
         /\ t[Len(s) + 1] = r
BY AppendProperties
-----------------------------------------------------------------------------
(* Steps that leave the runs alone.                                         *)

\* The rows keep what the invariant knows of them.
SameRows ==
  /\ jobs' \in Seq(JobType) /\ Len(jobs') = Len(jobs)
  /\ \A j \in DOMAIN jobs :
       /\ jobs'[j].kind = jobs[j].kind /\ jobs'[j].run = jobs[j].run
       /\ jobs[j].run # Null =>
            /\ jobs'[j].writer = jobs[j].writer
            /\ jobs'[j].status = "succeeded" => jobs[j].status = "succeeded"
            /\ jobs[j].status \in Ended => jobs'[j].status \in Ended

\* Unchanged rows, for one.
LEMMA UnchangedRows == JobsTypeOK /\ UNCHANGED jobs => SameRows
BY DEF JobsTypeOK, SameRows

\* One row written, of the same job.
LEMMA OneRow ==
  ASSUME JobsTypeOK, NEW i \in DOMAIN jobs, NEW r \in JobType,
         jobs' = [jobs EXCEPT ![i] = r],
         r.kind = jobs[i].kind, r.run = jobs[i].run,
         r.run # Null =>
            /\ r.writer = jobs[i].writer
            /\ r.status = "succeeded" => jobs[i].status = "succeeded"
            /\ jobs[i].status \in Ended => r.status \in Ended
  PROVE  SameRows
BY RowUpdate DEF JobsTypeOK, SameRows

\* Then what concerns the rows and the runs stays true.
LEMMA RowsKept ==
  ASSUME JobsInv, SameRows, UNCHANGED runs
  PROVE  /\ RowsOK' /\ RunsOK' /\ SectionsInOrder'
         /\ \A v : Fits(v) => Fits(v)'
         /\ IsFiniteSet(Rows)' /\ Cardinality(Rows)' = Cardinality(Rows)
<1> USE DEF JobsInv
<1>0. DOMAIN jobs' = DOMAIN jobs
  BY DEF SameRows, JobsTypeOK
<1>1. RowsOK'
  BY <1>0 DEF RowsOK, SameRows
<1>2. \A a \in Runs : (Launched(a)' <=> Launched(a)) /\ (Stored(a)' <=> Stored(a))
  BY <1>0, Kinds3 DEF Launched, Stored, SameRows
<1>3. RunsOK' /\ SectionsInOrder'
  BY <1>2 DEF RunsOK, SectionsInOrder
<1>4. \A v : Fits(v) => Fits(v)'
  BY <1>0 DEF Fits, SameRows
<1>5. Rows' = Rows
  BY DEF Rows
<1> QED BY <1>1, <1>3, <1>4, <1>5 DEF PaidOK

\* A step of a worker or the operator that touches neither runs nor billing.
LEMMA WorkerFrame ==
  ASSUME JobsInv, SameRows, UNCHANGED <<runs, billing>>,
         worker' \in [Workers -> WorkerType],
         \A w \in Workers : Fits(worker'[w])
  PROVE  JobsInv'
<1> USE DEF JobsInv
<1>0. UNCHANGED <<runs, request, paid, wasted, free>>
  BY DEF billing
<1>1. JobsTypeOK'
  BY <1>0 DEF JobsTypeOK, SameRows
<1>2. WorkersOK'
  BY <1>0, RowsKept DEF WorkersOK
<1>3. RequestOK'
  BY <1>0 DEF RequestOK
<1>4. PaidOK'
  BY <1>0, RowsKept, PaidForm DEF PaidOK, SameRows, Spent
<1> QED BY <1>0, <1>1, <1>2, <1>3, <1>4, RowsKept

\* Charges and what was taken back, together.
LEMMA SumInNat == \A p, q \in Nat : p + q \in Nat
OBVIOUS

\* What comes in goes out.
Balanced == paid' + free' + wasted + Spent = paid + free + wasted' + Spent'

\* A step of a request that touches neither runs nor jobs: its account.
LEMMA RequestFrame ==
  ASSUME JobsInv, UNCHANGED <<jobs, runs>>,
         worker' \in [Workers -> WorkerType],
         \A w \in Workers : Fits(worker'[w]),
         request' \in [command : Kinds \cup {"audit_prepare", "audit_launch", Null},
                       run : Runs \cup {Null},
                       step : {"reserved", "released", "billed", Null}],
         {paid', wasted', free'} \subseteq Nat, RequestOK',
         Balanced
  PROVE  JobsInv'
<1> USE DEF JobsInv
<1>1. SameRows
  BY UnchangedRows
<1>2. JobsTypeOK'
  BY <1>1 DEF JobsTypeOK, SameRows
<1>3. WorkersOK'
  BY <1>1, RowsKept DEF WorkersOK
<1>4. PaidOK'
  <2>1. /\ Cardinality(Rows) \in Nat /\ Len(jobs) \in Nat
        /\ paid \in Nat /\ wasted \in Nat /\ free \in Nat /\ Spent \in Nat
    BY FS_CardinalityType DEF PaidOK, JobsTypeOK, Spent
  <2>2. IsFiniteSet(Rows') /\ Cardinality(Rows') = Cardinality(Rows) /\ Len(jobs') = Len(jobs)
    BY <1>1, RowsKept
  <2>3. paid + free = Len(jobs) + Cardinality(Rows) + wasted + Spent
    BY PaidForm DEF PaidOK
  <2>4. paid' + free' = Len(jobs') + Cardinality(Rows') + wasted' + Spent'
    <3>1. PICK l \in Nat, c \in Nat, p \in Nat, q \in Nat, w \in Nat, x \in Nat,
               a \in Nat, b \in Nat :
            /\ l = Len(jobs) /\ c = Cardinality(Rows)
            /\ p = paid + free /\ q = paid' + free'
            /\ w = wasted /\ x = wasted' /\ a = Spent /\ b = Spent'
      <4>1. paid' \in Nat /\ free' \in Nat /\ wasted' \in Nat
        OBVIOUS
      <4>2. paid' + free' \in Nat /\ paid + free \in Nat
        BY <2>1, <4>1, SumInNat
      <4>3. Spent' \in Nat
        BY DEF Spent
      <4> QED BY <2>1, <4>1, <4>2, <4>3
    <3>2. p = l + c + w + a /\ q + w + a = p + x + b
      BY <2>3, <3>1 DEF Balanced
    <3>3. q = l + c + x + b
      BY <3>2
    <3> QED BY <2>2, <3>1, <3>3
  <2> QED BY <2>2, <2>4, PaidForm DEF PaidOK
<1> QED BY <1>1, <1>2, <1>3, <1>4, RowsKept

-----------------------------------------------------------------------------
(* The requests.                                                            *)

\* While a request is at work no worker is scheduled: each of these steps
\* finds the workers as they were.
LEMMA ReserveInv ==
  ASSUME JobsInv, NEW command \in Kinds \cup {"audit_prepare", "audit_launch"},
         NEW a \in Runs \cup {Null},
         command \in {"audit_prepare", "audit_launch"} => a \in Runs,
         Reserve(command, a)
  PROVE  JobsInv'
<1> USE DEF JobsInv
<1>1. /\ request = NoRequest
      /\ request' = [command |-> command, run |-> a, step |-> "reserved"]
      /\ UNCHANGED <<jobs, runs, worker, paid, wasted, free>>
  BY DEF Reserve, LoopFree
<1>2. Spent = 0 /\ Spent' = 0
  BY <1>1 DEF Spent, NoRequest, Null
<1>3. RequestOK'
  BY <1>1, Kinds3 DEF RequestOK, Reserve
<1> QED BY <1>1, <1>2, <1>3, RequestFrame DEF JobsTypeOK, WorkersOK, Balanced

\* The capture, or the operator before it: either one charge or one taken
\* back, and the request goes on.
LEMMA BillInv == ASSUME JobsInv, Capture \/ OperatorReleases PROVE JobsInv'
<1> USE DEF JobsInv
<1>1. UNCHANGED <<jobs, runs, worker, wasted>>
  BY DEF Capture, OperatorReleases
<1>2. PICK step \in {"released", "billed"} : request' = [request EXCEPT !.step = step]
  BY DEF Capture, OperatorReleases
<1>3. /\ request' \in [command : Kinds \cup {"audit_prepare", "audit_launch", Null},
                       run : Runs \cup {Null},
                       step : {"reserved", "released", "billed", Null}]
      /\ request'.command = request.command /\ request'.run = request.run
      /\ request'.step = step
  BY <1>2 DEF JobsTypeOK
<1>4. RequestOK'
  BY <1>1, <1>3 DEF RequestOK
<1>5. Spent' = 1
  BY <1>3 DEF Spent
<1>6. /\ paid' \in Nat /\ free' \in Nat
      /\ paid' + free' + Spent = paid + free + 1
  <2>n. paid \in Nat /\ free \in Nat
    BY DEF JobsTypeOK
  <2> HIDE DEF JobsInv
  <2>1. CASE Capture /\ request.step = "reserved"
    <3>1. paid' = paid + 1 /\ free' = free /\ Spent = 0
      BY <2>1 DEF Capture, Spent
    <3> QED BY <2>n, <3>1
  <2>2. CASE Capture /\ request.step = "released"
    <3>1. paid' = paid /\ free' = free /\ Spent = 1
      BY <2>2 DEF Capture, Spent
    <3> QED BY <2>n, <3>1
  <2>3. CASE OperatorReleases
    <3>1. paid' = paid /\ free' = free + 1 /\ Spent = 0
      BY <2>3 DEF OperatorReleases, Spent
    <3> QED BY <2>n, <3>1
  <2> QED BY <2>1, <2>2, <2>3 DEF Capture
<1>7. Balanced
  <2>1. paid \in Nat /\ free \in Nat /\ wasted \in Nat /\ Spent \in Nat
    BY DEF JobsTypeOK, Spent
  <2>2. PICK p \in Nat, q \in Nat, w \in Nat, a \in Nat :
          /\ p = paid + free /\ q = paid' + free' /\ w = wasted /\ a = Spent
    BY <1>1, <1>6, <2>1, SumInNat
  <2>3. q + a = p + 1
    BY <1>6, <2>2
  <2>4. q + w + a = p + w + 1
    BY <2>3
  <2> QED BY <1>1, <1>5, <2>2, <2>4 DEF Balanced
<1> QED BY <1>1, <1>3, <1>4, <1>6, <1>7, RequestFrame DEF JobsTypeOK, WorkersOK

\* A request that raises keeps the invariant.
LEMMA RequestFailsInv == ASSUME JobsInv, RequestFails PROVE JobsInv'
<1> USE DEF JobsInv
<1>1. request' = NoRequest /\ wasted' = wasted + Spent
      /\ UNCHANGED <<jobs, runs, worker, paid, free>>
  BY DEF RequestFails
<1>2. RequestOK'
  BY <1>1 DEF RequestOK, NoRequest, Null
<1>3. Spent \in Nat /\ Spent' = 0
  BY <1>1 DEF Spent, NoRequest, Null
<1> QED BY <1>1, <1>2, <1>3, RequestFrame DEF JobsTypeOK, WorkersOK, Balanced, NoRequest

\* A crash keeps the invariant: what it interrupts is counted as wasted.
LEMMA CrashInv == ASSUME JobsInv, Crash PROVE JobsInv'
<1> USE DEF JobsInv
<1>1. /\ request' = NoRequest /\ wasted' = wasted + Spent
      /\ UNCHANGED <<jobs, runs, paid, free>> /\ worker' = [w \in Workers |-> Polling]
  BY DEF Crash
<1>2. RequestOK'
  BY <1>1 DEF RequestOK, NoRequest, Null
<1>3. worker' \in [Workers -> WorkerType] /\ \A w \in Workers : Fits(worker'[w])
  BY <1>1 DEF WorkerType, Polling, Fits
<1>4. Spent \in Nat /\ Spent' = 0
  BY <1>1 DEF Spent, NoRequest, Null
<1> QED BY <1>1, <1>2, <1>3, <1>4, RequestFrame DEF JobsTypeOK, NoRequest, Balanced

-----------------------------------------------------------------------------
(* The workers, as far as the runs stay as they are.                        *)

\* The stages of a kind, and what is left of them after the first.
LEMMA StagesFit ==
  \A kind \in Kinds \cup {"audit"} :
    /\ kind = "audit" => Stages(kind) = <<"report", "read", "verdicts", "finish">>
    /\ kind # "audit" => Stages(kind) \in PersonaTodo
BY JobsAssumption DEF Stages, PersonaTodo

\* A persona handler that goes on has stages of its own left.
LEMMA PersonaTail ==
  ASSUME NEW t \in PersonaTodo, Head(t) # "finish"
  PROVE  Tail(t) \in PersonaTodo
<1>1. CASE t = <<"designing", "generating", "finish">>
  <2>1. Tail(t) = <<"generating", "finish">>
    BY <1>1
  <2> QED BY <2>1 DEF PersonaTodo
<1>2. CASE t = <<"generating", "finish">>
  <2>1. Tail(t) = <<"finish">>
    BY <1>2
  <2> QED BY <2>1 DEF PersonaTodo
<1>3. CASE t = <<"running", "finish">>
  <2>1. Tail(t) = <<"finish">>
    BY <1>3
  <2> QED BY <2>1 DEF PersonaTodo
<1>4. CASE t = <<"evaluating", "finish">>
  <2>1. Tail(t) = <<"finish">>
    BY <1>4
  <2> QED BY <2>1 DEF PersonaTodo
<1>5. CASE t = <<"finish">>
  <2>1. Head(t) = "finish"
    BY <1>5
  <2> QED BY <2>1
<1> QED BY <1>1, <1>2, <1>3, <1>4, <1>5 DEF PersonaTodo

\* The stage a worker is at tells what kind of job it executes.
LEMMA HeadTellsKind ==
  /\ \A t \in PersonaTodo : Head(t) \notin {"report", "read", "verdicts"}
  /\ \A t \in AuditTodo : Head(t) \notin {"designing", "generating", "running", "evaluating"}
BY DEF PersonaTodo, AuditTodo

\* A worker that changes and the others that stay.
LEMMA OneWorker ==
  ASSUME JobsInv, NEW w \in Workers, NEW v \in WorkerType, Fits(v),
         worker' = [worker EXCEPT ![w] = v]
  PROVE  worker' \in [Workers -> WorkerType] /\ \A x \in Workers : Fits(worker'[x])
BY DEF JobsInv, JobsTypeOK, WorkersOK

\* A worker between two jobs fits.
LEMMA PollingFits == Polling \in WorkerType /\ Fits(Polling)
BY DEF Polling, WorkerType, Fits

\* Claiming a job, for the first or the second time, keeps the invariant.
LEMMA ClaimInv == ASSUME JobsInv, NEW w \in Workers, Claim(w) PROVE JobsInv'
<1> USE DEF JobsInv
<1>1. PICK i \in DOMAIN jobs :
        /\ Claimable(i)
        /\ jobs' = [jobs EXCEPT ![i].lease = "held", ![i].status = "running"]
        /\ worker' = [worker EXCEPT ![w] =
              [job |-> i, todo |-> Stages(jobs[i].kind), onLoop |-> TRUE, dead |-> FALSE]]
  BY DEF Claim
<1> DEFINE r == [jobs[i] EXCEPT !.lease = "held", !.status = "running"]
           v == [job |-> i, todo |-> Stages(jobs[i].kind), onLoop |-> TRUE, dead |-> FALSE]
<1>2. jobs[i] \in JobType /\ i \in Nat \ {0}
  BY DEF JobsTypeOK
<1>3. /\ r \in JobType /\ r.kind = jobs[i].kind /\ r.run = jobs[i].run
      /\ r.status = "running" /\ r.writer = jobs[i].writer
  BY <1>2 DEF JobType
<1>4. jobs' = [jobs EXCEPT ![i] = r]
  BY <1>1 DEF JobsTypeOK
<1>5. SameRows
  BY <1>1, <1>3, <1>4, OneRow DEF Claimable, Terminal, Ended
<1>6. v \in WorkerType /\ Fits(v)
  BY <1>2, StagesFit DEF WorkerType, Fits, Behind, AuditTodo, JobType
<1> QED BY <1>1, <1>5, <1>6, OneWorker, WorkerFrame DEF Claim

\* Reporting progress keeps the invariant.
LEMMA ProgressInv == ASSUME JobsInv, NEW w \in Workers, Progress(w) PROVE JobsInv'
<1> USE DEF JobsInv
<1> DEFINE i == worker[w].job
           t == worker[w].todo
<1>1. worker[w] \in WorkerType /\ i \in DOMAIN jobs /\ jobs[i] \in JobType /\ i # 0 /\ Fits(worker[w])
  BY DEF Progress, AtStage, Busy, WorkersOK, Fits, JobsTypeOK
<1>2. Head(t) \in {"designing", "generating", "running", "evaluating"}
  BY DEF Progress, AtStage
<1>3. jobs[i].kind # "audit" /\ t \in PersonaTodo /\ jobs[i].run = Null
  BY <1>1, <1>2, HeadTellsKind DEF Fits, Behind, RowsOK
<1>4. SameRows
  <2>1. CASE jobs' = jobs
    BY <2>1, UnchangedRows
  <2>2. ASSUME NEW r \in JobType, r.kind = jobs[i].kind, r.run = jobs[i].run,
               jobs' = [jobs EXCEPT ![i] = r]
        PROVE  SameRows
    BY <1>1, <1>3, <2>2, OneRow
  <2>3. [jobs[i] EXCEPT !.status = "running"] \in JobType
    BY <1>1 DEF JobType
  <2>4. [jobs[i] EXCEPT !.progress = Head(t)] \in JobType
    BY <1>1, <1>2 DEF JobType
  <2>5. CASE jobs' = [jobs EXCEPT ![i].status = "running"]
    <3>1. jobs' = [jobs EXCEPT ![i] = [jobs[i] EXCEPT !.status = "running"]]
      BY <2>5
    <3> QED BY <1>1, <2>2, <2>3, <3>1 DEF JobType
  <2>6. CASE jobs' = [jobs EXCEPT ![i].progress = Head(t)]
    <3>1. jobs' = [jobs EXCEPT ![i] = [jobs[i] EXCEPT !.progress = Head(t)]]
      BY <2>6
    <3> QED BY <1>1, <2>2, <2>4, <3>1 DEF JobType
  <2> QED BY <2>1, <2>5, <2>6 DEF Progress
<1>5. worker' \in [Workers -> WorkerType] /\ \A x \in Workers : Fits(worker'[x])
  <2> DEFINE v == [worker[w] EXCEPT !.todo = Tail(t), !.onLoop = FALSE]
  <2>1. worker' = [worker EXCEPT ![w] = v]
    BY DEF Progress, NextStage, JobsTypeOK
  <2>2. Tail(t) \in PersonaTodo
    BY <1>2, <1>3, PersonaTail
  <2>3. v \in WorkerType /\ Fits(v)
    BY <1>1, <1>3, <2>2 DEF WorkerType, Fits
  <2> QED BY <2>1, <2>3, OneWorker
<1> QED BY <1>4, <1>5, WorkerFrame DEF Progress

\* Storing a persona result keeps the invariant.
LEMMA FinishPersonaInv == ASSUME JobsInv, NEW w \in Workers, FinishPersona(w) PROVE JobsInv'
<1> USE DEF JobsInv
<1> DEFINE i == worker[w].job
           r == [jobs[i] EXCEPT !.status = "succeeded", !.writer = w]
<1>1. i \in DOMAIN jobs /\ jobs[i] \in JobType /\ jobs[i].kind # "audit"
  BY DEF FinishPersona, AtStage, Busy, Kind, WorkersOK, Fits, JobsTypeOK
<1>2. jobs[i].run = Null /\ r \in JobType /\ r.kind = jobs[i].kind /\ r.run = Null
  BY <1>1 DEF RowsOK, JobType
<1>3. SameRows
  <2>1. CASE jobs' = jobs
    BY <2>1, UnchangedRows
  <2>2. CASE jobs' = [jobs EXCEPT ![i].status = "succeeded", ![i].writer = w]
    <3>1. jobs' = [jobs EXCEPT ![i] = r]
      BY <1>1, <2>2 DEF JobsTypeOK
    <3> QED BY <1>1, <1>2, <3>1, OneRow
  <2> QED BY <2>1, <2>2 DEF FinishPersona
<1> QED BY <1>3, PollingFits, OneWorker, WorkerFrame DEF FinishPersona

\* Failing a job, by its worker or by the operator.
LEMMA FailedRows ==
  ASSUME JobsInv, NEW i \in DOMAIN jobs,
         jobs' = Failed(i) \/ jobs' = [jobs EXCEPT ![i].status = "failed"]
  PROVE  SameRows
<1> USE DEF JobsInv
<1> DEFINE r == [jobs[i] EXCEPT !.status = "failed"]
<1>1. CASE jobs' = jobs
  BY <1>1, UnchangedRows
<1>2. CASE jobs' = [jobs EXCEPT ![i].status = "failed"]
  <2>1. jobs' = [jobs EXCEPT ![i] = r]
    BY <1>2 DEF JobsTypeOK
  <2>2. jobs[i] \in JobType
    BY DEF JobsTypeOK
  <2>3. /\ r \in JobType /\ r.kind = jobs[i].kind /\ r.run = jobs[i].run
        /\ r.status = "failed" /\ r.writer = jobs[i].writer
    BY <2>2 DEF JobType
  <2> QED BY <2>1, <2>3, OneRow DEF Ended
<1> QED BY <1>1, <1>2 DEF Failed

\* Recording a failure keeps the invariant.
LEMMA FailInv ==
  ASSUME JobsInv
  PROVE  /\ \A w \in Workers : Raise(w) => JobsInv'
         /\ \A i \in DOMAIN jobs : OperatorFails(i) => JobsInv'
<1> USE DEF JobsInv
<1>1. ASSUME NEW w \in Workers, Raise(w) PROVE JobsInv'
  <2>1. worker[w].job \in DOMAIN jobs
    BY <1>1 DEF Raise, Busy, WorkersOK, Fits
  <2> QED BY <1>1, <2>1, FailedRows, PollingFits, OneWorker, WorkerFrame DEF Raise
<1>2. ASSUME NEW i \in DOMAIN jobs, OperatorFails(i) PROVE JobsInv'
  BY <1>2, FailedRows, WorkerFrame DEF OperatorFails, JobsTypeOK, WorkersOK
<1> QED BY <1>1, <1>2

\* A worker that dies, a lease that runs out and a restart keep the invariant.
LEMMA OtherWorkerInv ==
  ASSUME JobsInv
  PROVE  /\ \A w \in Workers : WorkerDies(w) => JobsInv'
         /\ \A i \in DOMAIN jobs : Expire(i) => JobsInv'
         /\ Restart => JobsInv'
         /\ UNCHANGED vars => JobsInv'
<1> USE DEF JobsInv
<1>1. ASSUME NEW w \in Workers, WorkerDies(w) PROVE JobsInv'
  <2> DEFINE v == [Polling EXCEPT !.dead = TRUE]
  <2>1. v \in WorkerType /\ Fits(v)
    BY DEF Polling, WorkerType, Fits
  <2> QED BY <1>1, <2>1, UnchangedRows, OneWorker, WorkerFrame DEF WorkerDies
<1>2. ASSUME NEW i \in DOMAIN jobs, Expire(i) PROVE JobsInv'
  <2> DEFINE r == [jobs[i] EXCEPT !.lease = "expired"]
  <2>1. jobs' = [jobs EXCEPT ![i] = r]
    BY <1>2 DEF Expire, JobsTypeOK
  <2>2. jobs[i] \in JobType
    BY DEF JobsTypeOK
  <2>3. /\ r \in JobType /\ r.kind = jobs[i].kind /\ r.run = jobs[i].run
        /\ r.status = jobs[i].status /\ r.writer = jobs[i].writer
    BY <2>2 DEF JobType
  <2> QED BY <1>2, <2>1, <2>3, OneRow, WorkerFrame DEF Expire, JobsTypeOK, WorkersOK
<1>3. ASSUME UNCHANGED <<jobs, runs, worker, billing>> PROVE JobsInv'
  BY <1>3, UnchangedRows, WorkerFrame DEF JobsTypeOK, WorkersOK
<1> QED BY <1>1, <1>2, <1>3 DEF Restart, vars

-----------------------------------------------------------------------------
(* Steps that write the runs.                                               *)

\* Nothing a worker relies on is taken back.
Grows ==
  /\ DOMAIN jobs \subseteq DOMAIN jobs'
  /\ \A j \in DOMAIN jobs : jobs'[j].kind = jobs[j].kind /\ jobs'[j].run = jobs[j].run
  /\ \A a \in Runs, s \in {"report", "read", "verdicts"} :
       runs[a][s] # Null => runs'[a][s] # Null

\* Then every worker goes on fitting.
LEMMA FitsKept ==
  ASSUME JobsInv, Grows, NEW v, Fits(v)
  PROVE  Fits(v)'
<1> USE DEF JobsInv
<1>1. CASE v.job = 0
  BY <1>1 DEF Fits
<1>2. CASE v.job # 0
  <2>1. v.job \in DOMAIN jobs /\ jobs[v.job] \in JobType
    BY <1>2 DEF Fits, JobsTypeOK
  <2>2. /\ v.job \in DOMAIN jobs'
        /\ jobs'[v.job].kind = jobs[v.job].kind /\ jobs'[v.job].run = jobs[v.job].run
    BY <2>1 DEF Grows
  <2>3. CASE jobs[v.job].kind = "audit"
    <3> DEFINE a == jobs[v.job].run
    <3>1. a \in Runs
      BY <2>1, <2>3 DEF RowsOK, JobType
    <3>2. /\ runs[a].report # Null => runs'[a].report # Null
          /\ runs[a].read # Null => runs'[a].read # Null
          /\ runs[a].verdicts # Null => runs'[a].verdicts # Null
      BY <3>1 DEF Grows
    <3>3. Behind(v.todo, runs[a])
      BY <1>2, <2>3 DEF Fits
    <3>4. Behind(v.todo, runs'[a])
      BY <3>2, <3>3 DEF Behind
    <3> QED BY <2>2, <2>3, <3>4 DEF Fits
  <2>4. CASE jobs[v.job].kind # "audit"
    BY <1>2, <2>2, <2>4 DEF Fits
  <2> QED BY <2>3, <2>4
<1> QED BY <1>1, <1>2

\* The account of a request that ends in one new job or one new run.
LEMMA OneMore ==
  ASSUME JobsInv, JobsTypeOK', IsFiniteSet(Rows'), UNCHANGED <<paid, wasted, free>>,
         Spent = 1, request' = NoRequest,
         Len(jobs') + Cardinality(Rows') = Len(jobs) + Cardinality(Rows) + 1
  PROVE  PaidOK'
<1> USE DEF JobsInv
<1>1. /\ Cardinality(Rows) \in Nat /\ Cardinality(Rows') \in Nat
      /\ Len(jobs) \in Nat /\ Len(jobs') \in Nat
      /\ paid \in Nat /\ wasted \in Nat /\ free \in Nat
  BY FS_CardinalityType DEF PaidOK, JobsTypeOK
<1>2. paid + free = Len(jobs) + Cardinality(Rows) + wasted + 1
  BY PaidForm DEF PaidOK
<1>3. PICK l \in Nat, m \in Nat, c \in Nat, d \in Nat, p \in Nat, w \in Nat :
        /\ l = Len(jobs) /\ m = Len(jobs') /\ c = Cardinality(Rows)
        /\ d = Cardinality(Rows') /\ p = paid + free /\ w = wasted
  BY <1>1
<1>4. p = l + c + w + 1 /\ m + d = l + c + 1
  BY <1>2, <1>3
<1>5. p = m + d + w + 0
  BY <1>4
<1>6. Spent' = 0
  BY DEF Spent, NoRequest, Null
<1>7. paid' + free' = Len(jobs') + Cardinality(Rows') + wasted' + Spent'
  BY <1>3, <1>5, <1>6
<1> QED BY <1>7, PaidForm DEF PaidOK

\* A pending row for a persona kind, or for a prepared run, keeps the rows in order.
LEMMA PendingRow ==
  ASSUME JobsInv, NEW kind \in Kinds \cup {"audit"}, NEW a \in Runs \cup {Null},
         kind = "audit" <=> a # Null, a # Null => ~ Launched(a),
         jobs' = Append(jobs, NewJob(kind, a))
  PROVE  /\ jobs' \in Seq(JobType) /\ Len(jobs') = Len(jobs) + 1
         /\ DOMAIN jobs \subseteq DOMAIN jobs'
         /\ \A j \in DOMAIN jobs : jobs'[j] = jobs[j]
         /\ RowsOK'
         /\ \A b \in Runs : /\ Launched(b)' <=> Launched(b) \/ b = a
                            /\ Stored(b)' <=> Stored(b)
<1> USE DEF JobsInv
<1> DEFINE r == NewJob(kind, a)
           n == Len(jobs) + 1
<1>1. /\ r \in JobType /\ r.kind = kind /\ r.run = a
      /\ r.status = "pending" /\ r.writer = Null
  BY DEF NewJob, JobType, Null
<1> HIDE DEF r
<1>2. jobs' = Append(jobs, r)
  BY DEF r
<1>3. /\ jobs' \in Seq(JobType) /\ Len(jobs') = n
      /\ DOMAIN jobs' = DOMAIN jobs \cup {n} /\ n \notin DOMAIN jobs
      /\ \A j \in DOMAIN jobs : jobs'[j] = jobs[j]
      /\ jobs'[n] = r
  BY <1>1, <1>2, RowAppend DEF JobsTypeOK
<1> HIDE DEF n
<1>4. RowsOK'
  BY <1>1, <1>3 DEF RowsOK, Launched
<1>5. ASSUME NEW b \in Runs
      PROVE  /\ Launched(b)' <=> Launched(b) \/ b = a
             /\ Stored(b)' <=> Stored(b)
  BY <1>1, <1>3 DEF Launched, Stored
<1> QED BY <1>3, <1>4, <1>5 DEF n

\* Enqueueing a persona job keeps the invariant.
LEMMA EnqueueInv == ASSUME JobsInv, NEW kind \in Kinds, Enqueue(kind) PROVE JobsInv'
<1> USE DEF JobsInv
<1>1. /\ jobs' = Append(jobs, NewJob(kind, Null)) /\ request' = NoRequest
      /\ UNCHANGED <<runs, worker, paid, wasted, free>>
  BY DEF Enqueue, Answered
<1>2. Spent = 1
  BY DEF Enqueue, Billed, Spent
<1>3. /\ jobs' \in Seq(JobType) /\ Len(jobs') = Len(jobs) + 1
      /\ DOMAIN jobs \subseteq DOMAIN jobs'
      /\ \A j \in DOMAIN jobs : jobs'[j] = jobs[j]
      /\ RowsOK'
      /\ \A b \in Runs : /\ Launched(b)' <=> Launched(b)
                         /\ Stored(b)' <=> Stored(b)
  <2>1. kind \in Kinds \cup {"audit"} /\ Null \in Runs \cup {Null} /\ ~ (kind = "audit")
    BY Kinds3
  <2>2. kind = "audit" <=> Null # Null
    BY <2>1
  <2> QED BY <1>1, <2>1, <2>2, PendingRow, Kinds3
<1>4. JobsTypeOK'
  BY <1>1, <1>3 DEF JobsTypeOK, NoRequest
<1>5. RunsOK' /\ SectionsInOrder'
  BY <1>1, <1>3 DEF RunsOK, SectionsInOrder
<1>6. Grows
  BY <1>1, <1>3 DEF Grows
<1>7. WorkersOK'
  BY <1>1, <1>6, FitsKept DEF WorkersOK
<1>8. RequestOK'
  BY <1>1 DEF RequestOK, NoRequest, Null
<1>9. PaidOK'
  <2>1. Rows' = Rows
    BY <1>1 DEF Rows
  <2>2. IsFiniteSet(Rows') /\ Cardinality(Rows) \in Nat /\ Len(jobs) \in Nat
    BY <2>1, FS_CardinalityType DEF PaidOK, JobsTypeOK
  <2> QED BY <1>1, <1>2, <1>3, <1>4, <2>1, <2>2, OneMore
<1> QED BY <1>3, <1>4, <1>5, <1>7, <1>8, <1>9

\* Preparing a run keeps the invariant.
LEMMA PrepareInv == ASSUME JobsInv, NEW a \in Runs, Prepare(a) PROVE JobsInv'
<1> USE DEF JobsInv
<1> DEFINE q == [runs[a] EXCEPT !.status = "prepared"]
<1>1. /\ runs' = [runs EXCEPT ![a].status = "prepared"] /\ request' = NoRequest
      /\ request = [command |-> "audit_prepare", run |-> a, step |-> "billed"]
      /\ UNCHANGED <<jobs, worker, paid, wasted, free>>
  BY DEF Prepare, Answered, Billed
<1>2. runs[a] \in RunType /\ runs[a].status = "absent"
  BY <1>1 DEF JobsTypeOK, RequestOK
<1>3. /\ q \in RunType /\ q.status = "prepared"
      /\ q.report = runs[a].report /\ q.read = runs[a].read
      /\ q.verdicts = runs[a].verdicts /\ q.replies = runs[a].replies
  BY <1>2 DEF RunType
<1>4. /\ runs' \in [Runs -> RunType] /\ runs'[a] = q
      /\ \A b \in Runs \ {a} : runs'[b] = runs[b]
  BY <1>1, <1>3 DEF JobsTypeOK
<1> HIDE DEF q
<1>5. JobsTypeOK' /\ RowsOK'
  BY <1>1, <1>4 DEF JobsTypeOK, RowsOK, NoRequest
<1>6. RunsOK'
  BY <1>1, <1>2, <1>3, <1>4 DEF RunsOK, Launched, Stored
<1>7. SectionsInOrder'
  BY <1>3, <1>4 DEF SectionsInOrder
<1>8. Grows
  BY <1>1, <1>3, <1>4 DEF Grows
<1>9. WorkersOK'
  BY <1>1, <1>8, FitsKept DEF WorkersOK
<1>10. RequestOK'
  BY <1>1 DEF RequestOK, NoRequest, Null
<1>11. PaidOK'
  <2>1. Rows' = Rows \cup {a} /\ a \notin Rows
    BY <1>2, <1>3, <1>4 DEF Rows
  <2>2. IsFiniteSet(Rows') /\ Cardinality(Rows') = Cardinality(Rows) + 1
    BY <2>1, FS_AddElement DEF PaidOK
  <2>3. Cardinality(Rows) \in Nat /\ Len(jobs) \in Nat
    BY FS_CardinalityType DEF PaidOK, JobsTypeOK
  <2>4. Len(jobs') + Cardinality(Rows') = Len(jobs) + Cardinality(Rows) + 1
    BY <1>1, <2>2, <2>3
  <2>5. Spent = 1
    BY <1>1 DEF Spent
  <2> QED BY <1>1, <1>5, <2>2, <2>4, <2>5, OneMore
<1> QED BY <1>5, <1>6, <1>7, <1>9, <1>10, <1>11

\* Launching a run keeps the invariant.
LEMMA LaunchInv == ASSUME JobsInv, NEW a \in Runs, Launch(a) PROVE JobsInv'
<1> USE DEF JobsInv
<1> DEFINE q == [runs[a] EXCEPT !.status = "queued"]
<1>1. /\ runs' = [runs EXCEPT ![a].status = "queued"] /\ request' = NoRequest
      /\ jobs' = Append(jobs, NewJob("audit", a))
      /\ request = [command |-> "audit_launch", run |-> a, step |-> "billed"]
      /\ UNCHANGED <<worker, paid, wasted, free>>
  BY DEF Launch, Answered, Billed
<1>2. runs[a] \in RunType /\ runs[a].status = "prepared"
  BY <1>1 DEF JobsTypeOK, RequestOK
<1>3. /\ q \in RunType /\ q.status = "queued"
      /\ q.report = runs[a].report /\ q.read = runs[a].read
      /\ q.verdicts = runs[a].verdicts /\ q.replies = runs[a].replies
  BY <1>2 DEF RunType
<1>4. /\ runs' \in [Runs -> RunType] /\ runs'[a] = q
      /\ \A b \in Runs \ {a} : runs'[b] = runs[b]
  BY <1>1, <1>3 DEF JobsTypeOK
<1> HIDE DEF q
<1>5. /\ jobs' \in Seq(JobType) /\ Len(jobs') = Len(jobs) + 1
      /\ DOMAIN jobs \subseteq DOMAIN jobs'
      /\ \A j \in DOMAIN jobs : jobs'[j] = jobs[j]
      /\ RowsOK'
      /\ \A b \in Runs : /\ Launched(b)' <=> Launched(b) \/ b = a
                         /\ Stored(b)' <=> Stored(b)
  <2>1. a \in Runs \cup {Null} /\ "audit" \in Kinds \cup {"audit"} /\ a # Null /\ ~ Launched(a)
    BY <1>2, Kinds3 DEF RunsOK
  <2>2. "audit" = "audit" <=> a # Null
    BY <2>1
  <2> QED BY <1>1, <2>1, <2>2, PendingRow
<1>6. JobsTypeOK'
  BY <1>1, <1>4, <1>5 DEF JobsTypeOK, NoRequest
<1>7. RunsOK'
  BY <1>2, <1>3, <1>4, <1>5 DEF RunsOK
<1>8. SectionsInOrder'
  BY <1>3, <1>4 DEF SectionsInOrder
<1>9. Grows
  BY <1>3, <1>4, <1>5 DEF Grows
<1>10. WorkersOK'
  BY <1>1, <1>9, FitsKept DEF WorkersOK
<1>11. RequestOK'
  BY <1>1 DEF RequestOK, NoRequest, Null
<1>12. PaidOK'
  <2>1. Rows' = Rows
    BY <1>2, <1>3, <1>4 DEF Rows
  <2>2. IsFiniteSet(Rows') /\ Cardinality(Rows) \in Nat /\ Len(jobs) \in Nat
    BY <2>1, FS_CardinalityType DEF PaidOK, JobsTypeOK
  <2>3. Spent = 1
    BY <1>1 DEF Spent
  <2> QED BY <1>1, <1>5, <1>6, <2>1, <2>2, <2>3, OneMore
<1> QED BY <1>5, <1>6, <1>7, <1>8, <1>10, <1>11, <1>12

\* A step that fills sections of a run, whose status and replies stay, or
\* leaves it as it is, keeps the invariant.
LEMMA SectionFrame ==
  ASSUME JobsInv, NEW a \in Runs, NEW q \in RunType,
         runs' = [runs EXCEPT ![a] = q], UNCHANGED <<jobs, billing>>,
         q.status = runs[a].status, q.replies = runs[a].replies,
         runs[a].report # Null => q.report # Null,
         runs[a].read # Null => q.read # Null,
         runs[a].verdicts # Null => q.verdicts # Null,
         q.verdicts # Null => q.read # Null,
         q.read # Null => q.report # Null,
         worker' \in [Workers -> WorkerType], WorkersOK'
  PROVE  JobsInv'
<1> USE DEF JobsInv
<1>1. /\ runs' \in [Runs -> RunType] /\ runs'[a] = q
      /\ \A b \in Runs \ {a} : runs'[b] = runs[b]
      /\ UNCHANGED <<jobs, request, paid, wasted, free>>
  BY DEF JobsTypeOK, billing
<1>2. JobsTypeOK' /\ RowsOK'
  BY <1>1 DEF JobsTypeOK, RowsOK
<1>3. RunsOK'
  BY <1>1 DEF RunsOK, Launched, Stored
<1>4. SectionsInOrder'
  BY <1>1 DEF SectionsInOrder
<1>6. RequestOK'
  BY <1>1 DEF RequestOK
<1>7. PaidOK'
  <2>1. Rows' = Rows
    BY <1>1 DEF Rows
  <2> QED BY <1>1, <2>1, PaidForm DEF PaidOK, Spent
<1> QED BY <1>2, <1>3, <1>4, <1>6, <1>7

\* A worker of an audit at a section: the job and its run.
LEMMA AtSection ==
  ASSUME JobsInv, NEW w \in Workers, AtStage(w, {"report", "read", "verdicts"})
  PROVE  LET i == worker[w].job IN
         /\ worker[w] \in WorkerType /\ i \in DOMAIN jobs /\ i # 0
         /\ jobs[i].kind = "audit" /\ jobs[i].run \in Runs
         /\ Behind(worker[w].todo, runs[jobs[i].run])
<1> USE DEF JobsInv
<1> DEFINE i == worker[w].job
<1>1. worker[w] \in WorkerType /\ i \in DOMAIN jobs /\ jobs[i] \in JobType /\ i # 0 /\ Fits(worker[w])
  BY DEF AtStage, Busy, WorkersOK, Fits, JobsTypeOK
<1>2. jobs[i].kind = "audit"
  BY <1>1, HeadTellsKind DEF Fits, AtStage
<1> QED BY <1>1, <1>2 DEF Fits, RowsOK, JobType

\* Writing a section, or finding it written by the other executor, keeps the
\* invariant: what is behind the next stage is there.
LEMMA WriteSectionInv == ASSUME JobsInv, NEW w \in Workers, WriteSection(w) PROVE JobsInv'
<1> USE DEF JobsInv
<1>a. AtStage(w, {"report", "read", "verdicts"})
  BY DEF WriteSection
<1>b. PICK i \in DOMAIN jobs, t \in AuditTodo, a \in Runs, missing \in BOOLEAN :
        /\ i = worker[w].job /\ t = worker[w].todo /\ a = jobs[i].run
        /\ missing = (runs[a][Head(t)] = Null)
  BY <1>a, AtSection DEF Behind
<1>c. PICK v : v = [worker[w] EXCEPT !.todo = Tail(t), !.onLoop = ~ missing]
  OBVIOUS
<1>1. /\ worker[w] \in WorkerType /\ i \in DOMAIN jobs /\ i # 0
      /\ jobs[i].kind = "audit" /\ a \in Runs /\ Behind(t, runs[a])
      /\ Head(t) \in {"report", "read", "verdicts"} /\ runs[a] \in RunType
  BY <1>a, <1>b, AtSection DEF AtStage, JobsTypeOK
<1>2. /\ runs' = IF missing THEN [runs EXCEPT ![a][Head(t)] = w] ELSE runs
      /\ worker' = [worker EXCEPT ![w] = v]
      /\ UNCHANGED <<jobs, billing>>
  BY <1>b, <1>c DEF WriteSection, NextStage, JobsTypeOK
<1>3. w # Null
  BY Kinds3
<1>4. ASSUME NEW q \in RunType, runs' = [runs EXCEPT ![a] = q],
             q.status = runs[a].status, q.replies = runs[a].replies,
             runs[a].report # Null => q.report # Null,
             runs[a].read # Null => q.read # Null,
             runs[a].verdicts # Null => q.verdicts # Null,
             q.verdicts # Null => q.read # Null,
             q.read # Null => q.report # Null,
             Behind(Tail(t), q)
      PROVE  JobsInv'
  <2>1. v \in WorkerType /\ v.job = i /\ v.todo = Tail(t)
    BY <1>1, <1>4, <1>b, <1>c DEF WorkerType, Behind
  <2>2. worker' \in [Workers -> WorkerType] /\ worker'[w] = v
        /\ \A x \in Workers \ {w} : worker'[x] = worker[x]
    BY <1>2, <2>1 DEF JobsTypeOK
  <2>3. runs'[a] = q /\ \A b \in Runs \ {a} : runs'[b] = runs[b]
    BY <1>1, <1>4 DEF JobsTypeOK
  <2>4. Fits(v)'
    BY <1>1, <1>2, <1>4, <1>b, <2>1, <2>3 DEF Fits
  <2>5. Grows
    BY <1>2, <1>4, <2>3 DEF Grows
  <2>6. ASSUME NEW x \in Workers PROVE Fits(worker[x])'
    <3>1. CASE x = w
      BY <2>2, <2>4, <3>1
    <3>2. CASE x # w
      <4>1. PICK y : y = worker[x] /\ worker'[x] = y
        BY <2>2, <3>2
      <4>2. Fits(y)
        BY <4>1 DEF WorkersOK
      <4>3. Fits(y)'
        BY <2>5, <4>2, FitsKept
      <4> QED BY <4>1, <4>3
    <3> QED BY <3>1, <3>2
  <2>7. WorkersOK'
    BY <2>6 DEF WorkersOK
  <2> QED BY <1>1, <1>2, <1>4, <2>2, <2>7, SectionFrame
<1>5. CASE t = <<"report", "read", "verdicts", "finish">>
  <2> DEFINE q == [runs[a] EXCEPT !.report = IF missing THEN w ELSE @]
  <2>1. Head(t) = "report" /\ Tail(t) = <<"read", "verdicts", "finish">>
    BY <1>5
  <2>2. /\ q \in RunType /\ q.status = runs[a].status /\ q.replies = runs[a].replies
        /\ q.report # Null /\ q.read = runs[a].read /\ q.verdicts = runs[a].verdicts
    BY <1>1, <1>3, <1>b, <2>1 DEF RunType
  <2>3. runs' = [runs EXCEPT ![a] = q]
    BY <1>1, <1>2, <1>b, <2>1 DEF JobsTypeOK, RunType
  <2>4. Behind(Tail(t), q)
    BY <2>1, <2>2 DEF Behind, AuditTodo
  <2>5. runs[a].verdicts # Null => runs[a].read # Null
    BY <1>1 DEF SectionsInOrder
  <2> HIDE DEF q
  <2> QED BY <1>4, <2>2, <2>3, <2>4, <2>5
<1>6. CASE t = <<"read", "verdicts", "finish">>
  <2> DEFINE q == [runs[a] EXCEPT !.read = IF missing THEN w ELSE @]
  <2>1. Head(t) = "read" /\ Tail(t) = <<"verdicts", "finish">>
    BY <1>6
  <2>2. /\ q \in RunType /\ q.status = runs[a].status /\ q.replies = runs[a].replies
        /\ q.report = runs[a].report /\ q.read # Null /\ q.verdicts = runs[a].verdicts
    BY <1>1, <1>3, <1>b, <2>1 DEF RunType
  <2>3. runs' = [runs EXCEPT ![a] = q]
    BY <1>1, <1>2, <1>b, <2>1 DEF JobsTypeOK, RunType
  <2>4. runs[a].report # Null
    BY <1>1, <1>6 DEF Behind
  <2>5. Behind(Tail(t), q)
    BY <2>1, <2>2, <2>4 DEF Behind, AuditTodo
  <2> HIDE DEF q
  <2> QED BY <1>4, <2>2, <2>3, <2>4, <2>5
<1>7. CASE t = <<"verdicts", "finish">>
  <2> DEFINE q == [runs[a] EXCEPT !.verdicts = IF missing THEN w ELSE @]
  <2>1. Head(t) = "verdicts" /\ Tail(t) = <<"finish">>
    BY <1>7
  <2>2. /\ q \in RunType /\ q.status = runs[a].status /\ q.replies = runs[a].replies
        /\ q.report = runs[a].report /\ q.read = runs[a].read /\ q.verdicts # Null
    BY <1>1, <1>3, <1>b, <2>1 DEF RunType
  <2>3. runs' = [runs EXCEPT ![a] = q]
    BY <1>1, <1>2, <1>b, <2>1 DEF JobsTypeOK, RunType
  <2>4. runs[a].report # Null /\ runs[a].read # Null
    BY <1>1, <1>7 DEF Behind
  <2>5. Behind(Tail(t), q)
    BY <2>1, <2>2, <2>4 DEF Behind, AuditTodo
  <2> HIDE DEF q
  <2> QED BY <1>4, <2>2, <2>3, <2>4, <2>5
<1>8. CASE t = <<"finish">>
  <2>1. Head(t) = "finish"
    BY <1>8
  <2> QED BY <1>1, <2>1
<1> QED BY <1>1, <1>5, <1>6, <1>7, <1>8 DEF Behind, AuditTodo

\* Finishing an audit keeps the invariant: the sections are there, and only
\* this job's run is completed.
LEMMA FinishAuditInv == ASSUME JobsInv, NEW w \in Workers, FinishAudit(w) PROVE JobsInv'
<1> USE DEF JobsInv
<1>a. PICK i \in DOMAIN jobs : i = worker[w].job /\ i # 0
  BY DEF FinishAudit, AtStage, Busy, WorkersOK, Fits
<1>b. jobs[i] \in JobType /\ jobs[i].kind = "audit"
  BY <1>a DEF FinishAudit, Kind, JobsTypeOK
<1>c. PICK a \in Runs : a = jobs[i].run
  BY <1>b DEF RowsOK, JobType
<1>d. PICK r : r = [jobs[i] EXCEPT !.status = "succeeded", !.lease = "none", !.writer = w]
  OBVIOUS
<1>e. PICK q : q = [runs[a] EXCEPT !.status = "completed", !.replies = IF @ = Null THEN w ELSE @]
  OBVIOUS
<1>1. /\ i \in DOMAIN jobs /\ jobs[i] \in JobType /\ jobs[i].kind = "audit" /\ i # 0
      /\ i = worker[w].job /\ a = jobs[i].run
      /\ Fits(worker[w]) /\ a \in Runs /\ runs[a] \in RunType /\ w # Null
  BY <1>a, <1>b, <1>c, Kinds3 DEF WorkersOK, JobsTypeOK
<1>2. /\ jobs' = [jobs EXCEPT ![i] = r]
      /\ runs' = [runs EXCEPT ![a] = q]
      /\ worker' = [worker EXCEPT ![w] = Polling]
      /\ UNCHANGED <<request, paid, wasted, free>>
  BY <1>1, <1>d, <1>e DEF FinishAudit, JobsTypeOK, billing
<1>3. /\ r \in JobType /\ r.kind = "audit" /\ r.run = a
      /\ r.status = "succeeded" /\ r.writer # Null
  BY <1>1, <1>d DEF JobType
<1>4. /\ q \in RunType /\ q.status = "completed" /\ q.replies # Null
      /\ q.report = runs[a].report /\ q.read = runs[a].read /\ q.verdicts = runs[a].verdicts
  BY <1>1, <1>e DEF RunType
<1>5. worker[w].todo = <<"finish">> /\ q.report # Null /\ q.read # Null /\ q.verdicts # Null
  <2>1. Behind(worker[w].todo, runs[a])
    BY <1>1 DEF Fits
  <2>2. Head(worker[w].todo) = "finish"
    BY DEF FinishAudit, AtStage
  <2>3. worker[w].todo = <<"finish">>
    BY <2>1, <2>2 DEF Behind, AuditTodo
  <2> QED BY <1>4, <2>1, <2>3 DEF Behind
<1>6. /\ jobs' \in Seq(JobType) /\ Len(jobs') = Len(jobs) /\ DOMAIN jobs' = DOMAIN jobs
      /\ \A j \in DOMAIN jobs : jobs'[j] = IF j = i THEN r ELSE jobs[j]
  BY <1>1, <1>2, <1>3, RowUpdate DEF JobsTypeOK
<1>7. /\ runs' \in [Runs -> RunType] /\ runs'[a] = q
      /\ \A b \in Runs \ {a} : runs'[b] = runs[b]
  BY <1>1, <1>2, <1>4 DEF JobsTypeOK
<1>8. /\ worker' \in [Workers -> WorkerType] /\ worker'[w] = Polling
      /\ \A x \in Workers \ {w} : worker'[x] = worker[x]
  BY <1>2, PollingFits DEF JobsTypeOK
<1>9. runs[a].status \in {"queued", "completed"}
  BY <1>1 DEF RunsOK, Launched
<1>10. JobsTypeOK'
  BY <1>2, <1>6, <1>7, <1>8 DEF JobsTypeOK
<1>11. RowsOK'
  BY <1>1, <1>3, <1>6 DEF RowsOK, Ended
<1>12. RunsOK'
  <2>1. \A b \in Runs : Launched(b)' <=> Launched(b)
    BY <1>1, <1>3, <1>6 DEF Launched
  <2>2. Stored(a)'
    BY <1>1, <1>3, <1>6 DEF Stored
  <2>3. \A b \in Runs \ {a} : Stored(b)' <=> Stored(b)
    BY <1>1, <1>3, <1>6 DEF Stored
  <2> QED BY <1>4, <1>7, <1>9, <2>1, <2>2, <2>3 DEF RunsOK
<1>13. SectionsInOrder'
  BY <1>4, <1>5, <1>7 DEF SectionsInOrder
<1>14. Grows
  BY <1>1, <1>3, <1>4, <1>6, <1>7 DEF Grows
<1>15. WorkersOK'
  <2>1. Fits(Polling)'
    BY DEF Fits, Polling
  <2> QED BY <1>8, <1>14, <2>1, FitsKept DEF WorkersOK
<1>16. RequestOK'
  <2>1. request = NoRequest
    BY DEF FinishAudit, AtStage, Scheduled
  <2> QED BY <1>2, <2>1 DEF RequestOK, NoRequest, Null
<1>17. PaidOK'
  <2>1. Rows' = Rows
    BY <1>4, <1>7, <1>9 DEF Rows
  <2> QED BY <1>2, <1>6, <2>1, PaidForm DEF PaidOK, Spent
<1> QED BY <1>10, <1>11, <1>12, <1>13, <1>15, <1>16, <1>17

-----------------------------------------------------------------------------
(* The theorems.                                                            *)

\* Every step keeps the invariant.
LEMMA JobsStepInv == JobsInv /\ [Next]_vars => JobsInv'
<1> SUFFICES ASSUME JobsInv, [Next]_vars PROVE JobsInv'
  OBVIOUS
<1>1. ASSUME NEW kind \in Kinds, Reserve(kind, Null) PROVE JobsInv'
  BY <1>1, ReserveInv, Kinds3
<1>2. ASSUME NEW a \in Runs, Reserve("audit_prepare", a) PROVE JobsInv'
  BY <1>2, ReserveInv
<1>3. ASSUME NEW a \in Runs, Reserve("audit_launch", a) PROVE JobsInv'
  BY <1>3, ReserveInv
<1>4. CASE RequestStep \/ OperatorReleases
  BY <1>4, BillInv, EnqueueInv, PrepareInv, LaunchInv, RequestFailsInv DEF RequestStep
<1>5. ASSUME NEW w \in Workers, WorkerStep(w) PROVE JobsInv'
  BY <1>5, ClaimInv, ProgressInv, FinishPersonaInv, WriteSectionInv, FinishAuditInv
     DEF WorkerStep
<1>6. ASSUME NEW w \in Workers, Raise(w) \/ WorkerDies(w) PROVE JobsInv'
  BY <1>6, FailInv, OtherWorkerInv
<1>7. ASSUME NEW i \in DOMAIN jobs, Expire(i) \/ OperatorFails(i) PROVE JobsInv'
  BY <1>7, FailInv, OtherWorkerInv
<1>8. CASE Crash \/ Restart \/ UNCHANGED vars
  BY <1>8, CrashInv, OtherWorkerInv
<1> QED BY <1>1, <1>2, <1>3, <1>4, <1>5, <1>6, <1>7, <1>8 DEF Next

\* The invariant of asynchronous work.
THEOREM JobsInvariance == Spec => []JobsInv
<1>1. JobsInv /\ [Next]_vars => JobsInv'
  BY JobsStepInv
<1> QED BY <1>1, JobsInitInv, PTL DEF Spec

\* spec/04, for any number of workers executing the same audit in turn or at
\* once: its sections appear in order.
THEOREM SectionsAppearInOrder == Spec => []SectionsInOrder
<1>1. JobsInv => SectionsInOrder
  BY DEF JobsInv
<1> QED BY <1>1, JobsInvariance, PTL

\* Every charge is accounted for, whatever fails or is killed after it, and
\* so is every charge the operator takes back.
THEOREM AllWorkIsPaid == Spec => []WorkIsPaid
<1>1. JobsInv => WorkIsPaid
  BY DEF JobsInv, PaidOK
<1> QED BY <1>1, JobsInvariance, PTL

\* A launched run has one job, and is completed with it, in all its sections.
THEOREM RunsHaveOneJob == Spec => []RunsMatchJobs
<1>1. ASSUME JobsInv PROVE RunsMatchJobs
  <2> USE <1>1 DEF JobsInv
  <2> SUFFICES ASSUME NEW a \in Runs
      PROVE  /\ Cardinality(JobsOf(a)) =
                  IF runs[a].status \in {"queued", "completed"} THEN 1 ELSE 0
             /\ runs[a].status = "completed" <=>
                  \E i \in JobsOf(a) : jobs[i].status = "succeeded" \/ Overruled(i)
             /\ runs[a].status = "completed" => \A s \in Sections : runs[a][s] # Null
    BY DEF RunsMatchJobs
  <2>1. ASSUME Launched(a) PROVE Cardinality(JobsOf(a)) = 1
    <3>1. PICK i \in DOMAIN jobs : jobs[i].run = a
      BY <2>1 DEF Launched
    <3>2. JobsOf(a) = {i}
      BY <3>1, Kinds3 DEF JobsOf, RowsOK
    <3> QED BY <3>2, FS_Singleton
  <2>2. ASSUME ~ Launched(a) PROVE Cardinality(JobsOf(a)) = 0
    <3>1. JobsOf(a) = {}
      BY <2>2 DEF Launched, JobsOf
    <3> QED BY <3>1, FS_EmptySet
  <2>3. runs[a].status = "completed" <=>
          \E i \in JobsOf(a) : jobs[i].status = "succeeded" \/ Overruled(i)
    <3>1. \A i \in JobsOf(a) :
            jobs[i].writer # Null <=> (jobs[i].status = "succeeded" \/ Overruled(i))
      BY Kinds3 DEF JobsOf, RowsOK, Overruled, Ended
    <3> QED BY <3>1 DEF RunsOK, Stored, JobsOf
  <2>4. runs[a].status = "completed" => \A s \in Sections : runs[a][s] # Null
    BY DEF RunsOK, SectionsInOrder, Sections
  <2>5. Cardinality(JobsOf(a)) =
          IF runs[a].status \in {"queued", "completed"} THEN 1 ELSE 0
    <3>1. Launched(a) <=> runs[a].status \in {"queued", "completed"}
      BY DEF RunsOK
    <3>2. CASE Launched(a)
      BY <2>1, <3>1, <3>2
    <3>3. CASE ~ Launched(a)
      BY <2>2, <3>1, <3>3
    <3> QED BY <3>2, <3>3
  <2> QED BY <2>3, <2>4, <2>5
<1> QED BY <1>1, JobsInvariance, PTL

\* No step of the service writes the terminal row of a persona job.
LEMMA OutcomeStays ==
  ASSUME JobsInv, Next, NEW j \in DOMAIN jobs,
         jobs[j].kind # "audit", Terminal(j), ~ OperatorFails(j)
  PROVE  jobs'[j] = jobs[j]
<1> USE DEF JobsInv
<1>a. jobs \in Seq(JobType)
  BY DEF JobsTypeOK
<1>1. CASE UNCHANGED jobs
  BY <1>1
<1>2. ASSUME NEW r, jobs' = Append(jobs, r) PROVE jobs'[j] = jobs[j]
  BY <1>2, <1>a
<1>3. ASSUME NEW i \in DOMAIN jobs, jobs' = Failed(i) PROVE jobs'[j] = jobs[j]
  BY <1>3, <1>a DEF Failed
<1>4. ASSUME NEW w \in Workers, WorkerStep(w) PROVE jobs'[j] = jobs[j]
  <2>1. CASE Claim(w)
    BY <1>a, <2>1 DEF Claim, Claimable
  <2>2. CASE Progress(w)
    BY <1>a, <2>2 DEF Progress
  <2>3. CASE FinishPersona(w)
    BY <1>a, <2>3 DEF FinishPersona
  <2>4. CASE FinishAudit(w)
    <3>1. worker[w].job # j
      BY <2>4 DEF FinishAudit, Kind
    <3> QED BY <1>a, <2>4, <3>1 DEF FinishAudit
  <2>5. CASE WriteSection(w)
    BY <2>5 DEF WriteSection
  <2> QED BY <1>4, <2>1, <2>2, <2>3, <2>4, <2>5 DEF WorkerStep
<1>5. ASSUME NEW w \in Workers, Raise(w) \/ WorkerDies(w) PROVE jobs'[j] = jobs[j]
  <2>1. worker[w].job \in DOMAIN jobs
    BY <1>5 DEF Raise, WorkerDies, Busy, WorkersOK, Fits
  <2> QED BY <1>3, <1>5, <2>1 DEF Raise, WorkerDies
<1>6. ASSUME NEW i \in DOMAIN jobs, Expire(i) \/ OperatorFails(i) PROVE jobs'[j] = jobs[j]
  <2>1. CASE Expire(i)
    BY <1>a, <2>1 DEF Expire
  <2>2. CASE OperatorFails(i)
    <3>1. i # j
      BY <2>2
    <3> QED BY <1>a, <2>2, <3>1 DEF OperatorFails
  <2> QED BY <1>6, <2>1, <2>2
<1>7. CASE RequestStep \/ OperatorReleases
  BY <1>2, <1>7 DEF RequestStep, Capture, Enqueue, Prepare, Launch, RequestFails, OperatorReleases
<1> QED BY <1>4, <1>5, <1>6, <1>7 DEF Next, Reserve, Crash, Restart

\* What a client has polled of a finished persona job stays, for any workers,
\* unless the operator fails the job.
THEOREM PersonaOutcomesStay == Spec => PersonaOutcomeFinal
<1> DEFINE Final == \A i \in DOMAIN jobs :
                      jobs[i].kind # "audit" /\ Terminal(i)
                        => \/ [jobs'[i] EXCEPT !.lease = jobs[i].lease] = jobs[i]
                           \/ OperatorFails(i)
<1>1. JobsInv /\ [Next]_vars => [Final]_vars
  <2> SUFFICES ASSUME JobsInv, Next, NEW i \in DOMAIN jobs,
                      jobs[i].kind # "audit", Terminal(i), ~ OperatorFails(i)
               PROVE  [jobs'[i] EXCEPT !.lease = jobs[i].lease] = jobs[i]
    OBVIOUS
  <2>1. jobs'[i] = jobs[i]
    BY OutcomeStays
  <2>2. jobs[i] \in JobType
    BY DEF JobsInv, JobsTypeOK
  <2> QED BY <2>1, <2>2 DEF JobType
<1>2. Spec => [][Final]_vars
  BY <1>1, JobsInvariance, PTL DEF Spec
<1> QED BY <1>2 DEF PersonaOutcomeFinal

\* No step writes a section that is there.
LEMMA SectionStays ==
  ASSUME JobsInv, Next, NEW a \in Runs, NEW s \in Sections, runs[a][s] # Null
  PROVE  runs'[a][s] = runs[a][s]
<1> USE DEF JobsInv
<1>1. CASE UNCHANGED runs
  BY <1>1
<1>2. ASSUME NEW b \in Runs, Prepare(b) \/ Launch(b) PROVE runs'[a][s] = runs[a][s]
  BY <1>2 DEF Prepare, Launch, JobsTypeOK, RunType, Sections
<1>3. ASSUME NEW w \in Workers, WriteSection(w) PROVE runs'[a][s] = runs[a][s]
  BY <1>3 DEF WriteSection, JobsTypeOK, RunType, Sections
<1>4. ASSUME NEW w \in Workers, FinishAudit(w) PROVE runs'[a][s] = runs[a][s]
  <2>1. PICK b : runs' = [runs EXCEPT ![b].status = "completed",
                                      ![b].replies = IF @ = Null THEN w ELSE @]
    BY <1>4 DEF FinishAudit
  <2>2. CASE a # b
    BY <2>1, <2>2 DEF JobsTypeOK
  <2>3. CASE a = b
    <3>1. runs'[a] = [runs[a] EXCEPT !.status = "completed",
                                     !.replies = IF runs[a].replies = Null THEN w ELSE runs[a].replies]
      BY <2>1, <2>3 DEF JobsTypeOK, RunType
    <3>2. runs[a] \in RunType
      BY DEF JobsTypeOK
    <3> QED BY <3>1, <3>2 DEF RunType, Sections
  <2> QED BY <2>2, <2>3
<1>5. CASE RequestStep \/ OperatorReleases
  BY <1>1, <1>2, <1>5 DEF RequestStep, Capture, Enqueue, RequestFails, OperatorReleases
<1>6. ASSUME NEW w \in Workers, WorkerStep(w) \/ Raise(w) \/ WorkerDies(w)
      PROVE  runs'[a][s] = runs[a][s]
  BY <1>1, <1>3, <1>4, <1>6 DEF WorkerStep, Claim, Progress, FinishPersona, Raise, WorkerDies
<1> QED BY <1>1, <1>5, <1>6 DEF Next, Reserve, Expire, OperatorFails, Crash, Restart

\* What a client has read of an audit stays, however often it is executed.
THEOREM SectionsStay == Spec => SectionsWrittenOnce
<1> DEFINE Once == \A a \in Runs, s \in Sections :
                     runs[a][s] # Null => runs'[a][s] = runs[a][s]
<1>1. JobsInv /\ [Next]_vars => [Once]_vars
  BY SectionStays
<1>2. Spec => [][Once]_vars
  BY <1>1, JobsInvariance, PTL DEF Spec
<1> QED BY <1>2 DEF SectionsWrittenOnce

=============================================================================
