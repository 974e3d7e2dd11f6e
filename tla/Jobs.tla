-------------------------------- MODULE Jobs --------------------------------
(***************************************************************************)
(* Asynchronous work: the commands that charge for it and enqueue it       *)
(* (routes/personas.py, routes/observability.py), the leased job queue and *)
(* its workers (jobs.py), the persona handlers (engine/personas.py) and    *)
(* the audit run with its sections.                                        *)
(*                                                                         *)
(* The workers are tasks of one event loop.  An action is one transaction  *)
(* of a worker or of a request handler.  A handler never gives the loop up *)
(* between its charge and what it enqueues, a worker only at its sleeps; a *)
(* crash comes at any time, and so do the transactions of the operator's   *)
(* shell: reconcile_abandoned(0.0), and the read and the unlocked write of *)
(* fail_job.  A lease that runs out while its handler is still asleep lets *)
(* a second worker execute the same job.                                   *)
(***************************************************************************)
EXTENDS Integers, Sequences, FiniteSets

CONSTANTS
  Workers,      \* the tasks of start_workers()
  Runs,         \* audit run ids
  Kinds,        \* persona kinds the instance enqueues
  MaxJobs,      \* bound on rows of `jobs`
  MaxMishaps,   \* bound on crashes, requests that fail after their charge and
                \* reservations the operator takes back, together
  Faults        \* what may go wrong, some of FaultKinds

FaultKinds == {"crash", "raise", "database", "operator"}

\* Bug: the verdicts are written before the read they are about.
StagesVerdictsFirst(kind) ==
  CASE kind = "population"  -> <<"designing", "generating", "finish">>
    [] kind = "enhancement" -> <<"running", "finish">>
    [] kind = "evaluation"  -> <<"evaluating", "finish">>
    [] kind = "audit"       -> <<"report", "verdicts", "read", "finish">>

\* The transactions of each handler, the last of which finishes the job.
Stages(kind) ==
  CASE kind = "population"  -> <<"designing", "generating", "finish">>
    [] kind = "enhancement" -> <<"running", "finish">>
    [] kind = "evaluation"  -> <<"evaluating", "finish">>
    [] kind = "audit"       -> <<"report", "read", "verdicts", "finish">>

Sections == {"report", "read", "verdicts", "replies"}

ASSUME JobsAssumption ==
  /\ Kinds \subseteq {"population", "enhancement", "evaluation"}
  /\ Faults \subseteq FaultKinds
  /\ MaxJobs \in Nat /\ MaxMishaps \in Nat
  /\ "none" \notin Workers \cup Runs

VARIABLES
  jobs,      \* rows of `jobs` by created_at
  runs,      \* rows of `audit_runs`
  worker,    \* the worker tasks
  request,   \* the command from its reservation to its own transaction
  paid,      \* captured charges
  free,      \* history: reservations the operator took back before their capture
  wasted,    \* history: requests that failed charged, or with one taken back
  up,        \* whether the process runs
  crashes    \* number of crashes so far

billing == <<request, paid, wasted, free>>
vars    == <<jobs, runs, worker, billing, up, crashes>>

Null == "none"
NoRequest == [command |-> Null, run |-> Null, step |-> Null]

\* `writer` is the worker whose result the row holds.
NewJob(kind, a) ==
  [kind |-> kind, run |-> a, status |-> "pending", lease |-> "none",
   progress |-> Null, writer |-> Null]

\* A worker executing no job.
Polling == [job |-> 0, todo |-> << >>, onLoop |-> FALSE, dead |-> FALSE]

Terminal(i) == jobs[i].status \in {"succeeded", "failed"}
Busy(w) == worker[w].job # 0
Kind(w) == jobs[worker[w].job].kind

\* w may run: no other task is between two suspensions.
Scheduled(w) ==
  /\ up /\ ~ worker[w].dead
  /\ request = NoRequest /\ \A v \in Workers \ {w} : ~ worker[v].onLoop

LoopFree == up /\ request = NoRequest /\ \A w \in Workers : ~ worker[w].onLoop

-----------------------------------------------------------------------------
(* Request handlers.                                                        *)

\* Whether the command at work has been charged, or its reservation taken back.
Spent == IF request.step \in {"released", "billed"} THEN 1 ELSE 0

WithinBound == crashes + wasted + free < MaxMishaps

\* The reservation of bill(), for a command that goes on: generate, enhance,
\* validate and audit_prepare at once, audit_launch unless the run is launched
\* already.  A refused one is answered 402 and the command is over.
Reserve(command, a) ==
  /\ LoopFree
  /\ command = "audit_prepare" => runs[a].status = "absent"
  /\ command = "audit_launch"  => runs[a].status = "prepared"
  /\ command # "audit_prepare" => Len(jobs) < MaxJobs
  /\ request' = [command |-> command, run |-> a, step |-> "reserved"]
  /\ UNCHANGED <<jobs, runs, worker, paid, wasted, free, up, crashes>>

\* The runbook's reconcile_abandoned(0.0), committed before the capture.
OperatorReleases ==
  /\ "operator" \in Faults
  /\ request.step = "reserved" /\ WithinBound
  /\ request' = [request EXCEPT !.step = "released"]
  /\ free' = free + 1
  /\ UNCHANGED <<jobs, runs, worker, paid, wasted, up, crashes>>

\* Bug: the command reserves, as respond does, and captures nothing.
CaptureForgotten ==
  /\ request.step \in {"reserved", "released"}
  /\ request' = [request EXCEPT !.step = "billed"]
  /\ UNCHANGED <<jobs, runs, worker, paid, wasted, free, up, crashes>>

\* The capture of bill(), which skips a row that is not reserved any more and
\* tells nobody.
Capture ==
  /\ request.step \in {"reserved", "released"}
  /\ paid' = IF request.step = "reserved" THEN paid + 1 ELSE paid
  /\ request' = [request EXCEPT !.step = "billed"]
  /\ UNCHANGED <<jobs, runs, worker, wasted, free, up, crashes>>

Billed(command, a) == request = [command |-> command, run |-> a, step |-> "billed"]

Answered ==
  request' = NoRequest /\ UNCHANGED <<paid, wasted, free, worker, up, crashes>>

\* _enqueue, for generate, enhance and validate.
Enqueue(kind) ==
  /\ Billed(kind, Null)
  /\ jobs' = Append(jobs, NewJob(kind, Null))
  /\ Answered /\ UNCHANGED runs

\* audit_prepare, having read the text.
Prepare(a) ==
  /\ Billed("audit_prepare", a)
  /\ runs' = [runs EXCEPT ![a].status = "prepared"]
  /\ Answered /\ UNCHANGED jobs

\* Bug: the job is enqueued twice.
LaunchAgain(a) ==
  /\ Billed("audit_launch", a)
  /\ runs' = [runs EXCEPT ![a].status = "queued"]
  /\ jobs' = jobs \o <<NewJob("audit", a), NewJob("audit", a)>>
  /\ Answered

\* audit_launch: the run and its job in one transaction.
Launch(a) ==
  /\ Billed("audit_launch", a)
  /\ runs' = [runs EXCEPT ![a].status = "queued"]
  /\ jobs' = Append(jobs, NewJob("audit", a))
  /\ Answered

\* The request raises: in its capture or its own transaction, or because
\* audit_prepare cannot read the text or normalize_blueprint raises.
RequestFails ==
  /\ request # NoRequest
  /\ Spent = 1 => WithinBound
  /\ \/ "database" \in Faults
     \/ request.step = "billed" /\ request.command \in {"audit_prepare", "evaluation"}
  /\ request' = NoRequest
  /\ wasted' = wasted + Spent
  /\ UNCHANGED <<jobs, runs, worker, paid, free, up, crashes>>

-----------------------------------------------------------------------------
(* Workers.                                                                 *)

\* Bug: a running job is left to the worker that claimed it.
ClaimablePending(i) == jobs[i].status = "pending" /\ jobs[i].lease # "held"

Claimable(i) == ~ Terminal(i) /\ jobs[i].lease # "held"

\* claim_next: the oldest claimable job; its handler starts at once.
Claim(w) ==
  /\ Scheduled(w) /\ ~ Busy(w)
  /\ \E i \in DOMAIN jobs :
       /\ Claimable(i) /\ \A k \in 1 .. i - 1 : ~ Claimable(k)
       /\ jobs' = [jobs EXCEPT ![i].lease = "held", ![i].status = "running"]
       /\ worker' = [worker EXCEPT ![w] =
             [job |-> i, todo |-> Stages(jobs[i].kind), onLoop |-> TRUE,
              dead |-> FALSE]]
  /\ UNCHANGED <<runs, billing, up, crashes>>

AtStage(w, stages) ==
  Scheduled(w) /\ Busy(w) /\ Head(worker[w].todo) \in stages

\* The worker is done with this stage, and sleeps or goes straight on.
NextStage(w, sleeps) ==
  worker' = [worker EXCEPT ![w].todo = Tail(@), ![w].onLoop = ~ sleeps]

\* A persona handler reports progress and sleeps; _update_job leaves a
\* terminal row alone.
Progress(w) ==
  /\ AtStage(w, {"designing", "generating", "running", "evaluating"})
  /\ jobs' = IF Terminal(worker[w].job) THEN jobs
             ELSE IF Kind(w) = "enhancement"
             THEN [jobs EXCEPT ![worker[w].job].status = "running"]
             ELSE [jobs EXCEPT ![worker[w].job].progress = Head(worker[w].todo)]
  /\ NextStage(w, TRUE)
  /\ UNCHANGED <<runs, billing, up, crashes>>

\* Bug: the result is stored whatever the row's status.
FinishPersonaAlways(w) ==
  /\ AtStage(w, {"finish"}) /\ Kind(w) # "audit"
  /\ jobs' = [jobs EXCEPT ![worker[w].job].status = "succeeded",
                          ![worker[w].job].writer = w]
  /\ worker' = [worker EXCEPT ![w] = Polling]
  /\ UNCHANGED <<runs, billing, up, crashes>>

\* The persona handler stores its result, unless the row is terminal.
FinishPersona(w) ==
  /\ AtStage(w, {"finish"}) /\ Kind(w) # "audit"
  /\ jobs' = IF Terminal(worker[w].job) THEN jobs
             ELSE [jobs EXCEPT ![worker[w].job].status = "succeeded",
                               ![worker[w].job].writer = w]
  /\ worker' = [worker EXCEPT ![w] = Polling]
  /\ UNCHANGED <<runs, billing, up, crashes>>

\* Bug: the section is written although it is there.
WriteSectionAgain(w) ==
  /\ AtStage(w, {"report", "read", "verdicts"})
  /\ runs' = [runs EXCEPT ![jobs[worker[w].job].run][Head(worker[w].todo)] = w]
  /\ NextStage(w, TRUE)
  /\ UNCHANGED <<jobs, billing, up, crashes>>

\* The audit handler fills a section that is still null and sleeps, or goes
\* on to the next one.
WriteSection(w) ==
  /\ AtStage(w, {"report", "read", "verdicts"})
  /\ LET a == jobs[worker[w].job].run
         missing == runs[a][Head(worker[w].todo)] = Null IN
     /\ runs' = IF missing
                THEN [runs EXCEPT ![a][Head(worker[w].todo)] = w] ELSE runs
     /\ NextStage(w, missing)
  /\ UNCHANGED <<jobs, billing, up, crashes>>

\* Its last transaction: the replies, the run's status and the job's, the
\* latter whatever it was.
FinishAudit(w) ==
  /\ AtStage(w, {"finish"}) /\ Kind(w) = "audit"
  /\ LET i == worker[w].job
         a == jobs[i].run IN
     /\ runs' = [runs EXCEPT ![a].status = "completed",
                             ![a].replies = IF @ = Null THEN w ELSE @]
     /\ jobs' = [jobs EXCEPT ![i].status = "succeeded", ![i].lease = "none",
                             ![i].writer = w]
  /\ worker' = [worker EXCEPT ![w] = Polling]
  /\ UNCHANGED <<billing, up, crashes>>

Failed(i) == IF Terminal(i) THEN jobs ELSE [jobs EXCEPT ![i].status = "failed"]

\* The handler raises and the worker records it with fail_job.
Raise(w) ==
  /\ "raise" \in Faults
  /\ Scheduled(w) /\ Busy(w)
  /\ jobs' = Failed(worker[w].job)
  /\ worker' = [worker EXCEPT ![w] = Polling]
  /\ UNCHANGED <<runs, billing, up, crashes>>

\* The handler raises and fail_job does too: nothing catches it any more,
\* and the worker task is over.
WorkerDies(w) ==
  /\ "database" \in Faults
  /\ Scheduled(w) /\ Busy(w)
  /\ worker' = [worker EXCEPT ![w] = [Polling EXCEPT !.dead = TRUE]]
  /\ UNCHANGED <<jobs, runs, billing, up, crashes>>

-----------------------------------------------------------------------------
\* lease_until passes.
Expire(i) ==
  /\ jobs[i].lease = "held" /\ ~ Terminal(i)
  /\ jobs' = [jobs EXCEPT ![i].lease = "expired"]
  /\ UNCHANGED <<runs, worker, billing, up, crashes>>

\* The runbook's fail_job('<job-id>') from the operator's shell: it reads the
\* row, stops at a terminal one, and else writes the status by primary key,
\* whatever the row says by then.  This is the write.  The read may have come
\* at any time before it, and each row was unfinished once, so the write
\* meets rows in any state.  (A transaction of the service open around it
\* replaces it if it sets the status too, as if the write had not been; else
\* the two set different columns and may be taken in either order.)
OperatorFails(i) ==
  /\ "operator" \in Faults
  /\ jobs' = [jobs EXCEPT ![i].status = "failed"]
  /\ UNCHANGED <<runs, worker, billing, up, crashes>>

Crash ==
  /\ "crash" \in Faults
  /\ up /\ WithinBound
  /\ up' = FALSE
  /\ crashes' = crashes + 1
  /\ worker' = [w \in Workers |-> Polling]
  /\ request' = NoRequest
  /\ wasted' = wasted + Spent
  /\ UNCHANGED <<jobs, runs, paid, free>>

\* lifespan's start_workers().
Restart ==
  /\ ~ up
  /\ up' = TRUE
  /\ UNCHANGED <<jobs, runs, worker, billing, crashes>>

-----------------------------------------------------------------------------
Init ==
  /\ jobs = << >>
  /\ runs = [a \in Runs |-> [status |-> "absent", report |-> Null, read |-> Null,
                             verdicts |-> Null, replies |-> Null]]
  /\ worker = [w \in Workers |-> Polling]
  /\ request = NoRequest
  /\ paid = 0 /\ wasted = 0 /\ free = 0
  /\ up = TRUE
  /\ crashes = 0

WorkerStep(w) ==
  Claim(w) \/ Progress(w) \/ FinishPersona(w) \/ WriteSection(w) \/ FinishAudit(w)

RequestStep ==
  \/ Capture
  \/ \E kind \in Kinds : Enqueue(kind)
  \/ \E a \in Runs : Prepare(a) \/ Launch(a)
  \/ RequestFails

Next ==
  \/ \E kind \in Kinds : Reserve(kind, Null)
  \/ \E a \in Runs : Reserve("audit_prepare", a) \/ Reserve("audit_launch", a)
  \/ RequestStep
  \/ \E w \in Workers : WorkerStep(w) \/ Raise(w) \/ WorkerDies(w)
  \/ \E i \in DOMAIN jobs : Expire(i) \/ OperatorFails(i)
  \/ OperatorReleases
  \/ Crash \/ Restart

Spec == Init /\ [][Next]_vars

\* A handler that has begun runs on; the loop's ready queue is first in, first
\* out, so a worker whose sleep is over has its turn however many commands
\* arrive; leases run out, and a supervisor restarts a dead process.
Fairness ==
  /\ WF_vars(RequestStep)
  /\ \A w \in Workers : SF_vars(WorkerStep(w))
  /\ \A i \in 1 .. MaxJobs : WF_vars(i \in DOMAIN jobs /\ Expire(i))
  /\ WF_vars(Restart)

FairSpec == Spec /\ Fairness

-----------------------------------------------------------------------------
(* Properties.                                                              *)

\* A section, once a client may have read it, never changes again, although
\* a second worker may execute the same stages after the lease ran out or
\* after a restart.
SectionsWrittenOnce ==
  [][\A a \in Runs, s \in Sections :
       runs[a][s] # Null => runs'[a][s] = runs[a][s]]_vars

\* spec/04: sections become non-null in the order report, read, verdicts,
\* replies, whichever worker writes each of them.
SectionsInOrder ==
  \A a \in Runs :
    /\ runs[a].replies  # Null => runs[a].verdicts # Null
    /\ runs[a].verdicts # Null => runs[a].read # Null
    /\ runs[a].read     # Null => runs[a].report # Null

\* Work is paid for, once, and before it is done: every job and every prepared
\* run has its charge, and every charge its job, its run or its handler still
\* at work, except those of requests that failed or were killed in between.
\* A repeated audit_launch in particular is free.  The one way to work nobody
\* paid for is an operator's reconciliation between the two transactions of
\* bill(), and it gives away exactly what it took back.
WorkIsPaid ==
  paid + free = Len(jobs) + Cardinality({a \in Runs : runs[a].status # "absent"})
                  + wasted + Spent

JobsOf(a) == {i \in DOMAIN jobs : jobs[i].run = a}

\* The operator's fail_job read the row before its result was stored, and
\* wrote it after.
Overruled(i) == jobs[i].status = "failed" /\ jobs[i].writer # Null

\* A run is launched once: exactly the launched runs have a job, and one.
\* It reads completed with all its sections exactly when its job has stored a
\* result, so that its job reads succeeded, unless the operator's fail_job
\* overruled it; never pending or running, to be executed again.
RunsMatchJobs ==
  \A a \in Runs :
    /\ Cardinality(JobsOf(a)) =
         IF runs[a].status \in {"queued", "completed"} THEN 1 ELSE 0
    /\ runs[a].status = "completed" <=>
         \E i \in JobsOf(a) : jobs[i].status = "succeeded" \/ Overruled(i)
    /\ runs[a].status = "completed" => \A s \in Sections : runs[a][s] # Null

\* Nothing in the service changes the terminal row of a persona job: neither
\* a second executor nor a late failure overwrites what a client has polled.
\* Only the operator's fail_job does, having read the row before it finished,
\* and then it leaves the result beside the status "failed".
PersonaOutcomeFinal ==
  [][\A i \in DOMAIN jobs :
       jobs[i].kind # "audit" /\ Terminal(i)
         => \/ [jobs'[i] EXCEPT !.lease = jobs[i].lease] = jobs[i]
            \/ OperatorFails(i)]_vars

\* No job is lost: each one is eventually succeeded or failed, across
\* crashes, expired leases and double executions, unless the last worker has
\* died of a fail_job that raised.
JobsFinish ==
  \A i \in 1 .. MaxJobs :
    i \in DOMAIN jobs
      ~> (i \in DOMAIN jobs /\ Terminal(i)) \/ \A w \in Workers : worker[w].dead
=============================================================================
