# A TLA+ development of Humalike

Humalike makes chat agents converse like people. The repository holds

- the **service**, `service/humalike`: one uvicorn process with one asyncio event loop that serves the
  HTTP and WebSocket API (turn-taking, social memory, personas, audits) over one SQL database;
- the **Hermes plugin**, `sources/hermes-humalike-plugin`: patches a chat gateway so that each inbound
  message passes the service's gate and each answer goes out as the service's bubbles; it also links an
  account, enhances SOUL.md, keeps voice cards, configures the host and tells its operator of failures;
- the **shadow tools**, `tools/shadow`: a proxy that serves traffic locally and mirrors it to production,
  and a sink that loads the proxy's records into SQLite.

This directory holds TLA+ modules of the parts whose behaviour depends on order, interleaving and
failure, the TLC configurations that check them on small instances, and TLAPS proofs of what matters
most for every value of the constants. `PROJECT.json` maps each definition to the lines it models and
lists runs, mutants, hazards, findings and theorems.

## 1. Inventory

Service (paths below `service/humalike`):

| Component | State it keeps | Operations | Talks to | What makes it correct |
|---|---|---|---|---|
| Credit ledger `billing.py` | `owners.credits_balance`, `credit_reservations`, `usage_events` | `reserve`, `capture`, `release`, `reconcile_abandoned`, `bill` | every billable command; boot; the operator's shell | never overdrawn, balance and usage agree, one charge per reservation, settled rows final |
| Turn-taking commands `routes/turn_taking.py` | `threads`, `thread_messages`, `router_traces`, `schedules`, `outbox`, a lock per thread | `open_thread`, `submit_messages`, `respond`, `record_event` | ledger, delivery, memory, grants | no reservation left open, no reply lost or charged for nothing, replies only to the newest batch |
| Pacing, naturalizer `engine/pacing.py`, `engine/naturalizer.py` | none | `split_paragraphs`, `merge_down`, `deliver_times` | turn-taking | nothing lost in a merge, increasing times |
| Delivery `scheduler.py` | its tasks; `schedules.status`, `outbox.processed_at` | `schedule_group`, the task of a group, `recover` | fanout, database | order, completeness and at-least-once across restarts |
| Fanout `fanout.py`, gateway `routes/ws.py` | sockets per channel, a handler per socket | register, unregister, broadcast; accept, reject, attach, detach | delivery, grants | attached frame first, every attached socket gets every frame |
| Job runner `jobs.py` | `jobs` rows with leases, two worker tasks | `claim_next`, `fail_job`, `worker_loop` | persona and audit handlers, the operator's shell | no job lost, results written once |
| Persona jobs `routes/personas.py`, `engine/personas.py` | `jobs` | `generate`, `enhance`, `validate`, three handlers | ledger, job runner | work is paid once, terminal rows final |
| Audit runs `routes/observability.py` | `audit_runs` | `audit_prepare`, `audit_launch`, projection, `_run_audit` | ledger, job runner | launched once, paid once, sections in order and final |
| Social memory `routes/social_memory.py`, `engine/memory.py` | `memory_messages`, `memory_facts`, `idempotency_records` | `ingest`, `recall`, `ask` | ledger, turn-taking | dense sequence numbers, a key has one answer |
| Lifecycle `app.py` | none | `create_all`, `seed_keys`, `reconcile_abandoned`, `recover`, `start_workers` | all of the above | every kind of half-done work is picked up |
| Social learning, grants, retention, metrics, middleware, text engines, schemas | byproducts | pure or read-mostly | | |

Plugin (paths below `sources/hermes-humalike-plugin`):

| Component | State it keeps | Operations | Talks to | What makes it correct |
|---|---|---|---|---|
| Gate, turns, replies `turn_taking/` | sessions, routes, decisions, pending answers, recalled context, epochs, in one process's dictionaries | the wrapped adapter methods, the gate, the agent's hooks, the respond task, the receive loop | the gateway, the service | one thread per session, an answer goes out exactly one way, only cleared messages are worked for, no message stuck |
| Linking `connect.py`, `login.py` | the pending flag and link, environment, `.env` | `/connect`, first-boot login | a browser session, the service | one attempt at a time, and which endings wedge it |
| SOUL.md `soul/` | the file, its backup, a marker | `/soul enhance`, the automatic attempt | the service's persona jobs | asked automatically once, marker truthful |
| Voice cards `social_learning/` | cache, counters, a file | refresh threads, restore | the service | no pile-up, no wedge, file agrees with cache unless a save or restore failed |
| Notices `turn_taking/notify.py` | cooldowns, active kinds, pending notes, a marker | alert, recovered, flush of notes | home channels | no cooldown hides an outage, no startup note is lost |
| Autoconfiguration `autoconfig.py` | `config.yaml`, `.env`, a marker | the sweep of each boot | the host | core recorded only when it is right |
| Native memory `native_memory.py` | none | edits the host's tool at load time | the host | idempotent |

Tools: **shadow proxy** (mirror queue, epoch maps, record file) and **sink** (`ingest` table, rows).

Left aside: `clients/` (thin HTTP clients), `service/alembic`, the other tools, `examples/`, `research/`,
vendored trees and assets.

**What is hard.** Code between two `await`s is atomic for its process. The service's turn-taking
handlers never await inside their lock, so one runs at a time. The hazards are elsewhere:

- a handler is *several* database transactions; a kill, a raising transaction or the operator's
  process (`docs/runbooks/rollback.md`) falls between them;
- a broadcast suspends at every send, a delivery task at every frame; workers suspend in their
  handlers, and a lease may run out meanwhile;
- a restart finds work half done: open reservations, scheduled bubbles, running jobs, a pending marker;
- the plugin's gate suspends in HTTP requests while other messages of the session, or of another
  session of the same chat, go through it, and what it remembers is keyed by session, chat or text;
- the plugin's threads, its event loop and the user's editor write the same files;
- the proxy's requests are answered in another order by production than locally, and the sink reads a
  file that is being written.

## 2. Plan

Done, most important first: `CreditLedger` with its abstract `CreditAccount` and proofs; `TurnTaking`
on top of it with proofs; `Delivery` and proofs; `Jobs`, with the charges of its commands, and proofs;
`ReconcileRace`; `Memory` and `Recall`, and proofs; `Plugin` and proofs; `Link`, `Soul`, `Cards`, `Notices`,
`Autoconf`, `Shadow`, `Sink`, `Bubbles`, and proofs. Every safety invariant and action property of a
passing run is a theorem.

Left, in this order:

1. An abstract specification of delivery, a log per thread of which a client sees segments, implemented
   by `Delivery`. What a log needs is in `ViewInv` already: where a client's piece of a run begins and ends.
2. Composition of `Plugin` with `TurnTaking` in place of its external service.
3. Social learning's window of five profiles and `retention.py`.

## 3. Modules

**`CreditAccount`** is what an owner is promised: a grant split into available, held and spent
credits, moved by `Hold`, `Spend` and `Return` only. It mentions no table.

**`CreditLedger`** has one action per function of `billing.py`, each a single transaction. `balance`,
`reservation` and `usage` are the tables; `prices` are those of the running process, any of
`PriceLists` after a `Boot`; `clock` is `utcnow()`. Callers are unconstrained: any order of calls. A
sum of credits is the cardinality of a set of units, one pair `<<row, k>>` for each credit of a row:
this needs no recursion, so the module can be reasoned about with TLAPS.

**`TurnTaking`** extends the ledger with the three commands that change state. `handler` is the handler in
progress: the transaction it does next and what it holds. `Submit`, `CommitBatch` and `CaptureNext` are
`submit_messages`; `Respond`, `ReserveSecond` or `RefuseSecond`, `CommitReply`, `CaptureNext`, `Arm` and
`Publish` are `respond`. `Raise` is the next transaction raising (division by `typing_wpm = 0`, or the
database), `Crash` a kill, `Restart` and `Recover` the two relevant steps of `lifespan`, `Operator` the
runbook's `reconcile_abandoned(0.0)`. Answers that change nothing (stale epoch, unknown thread, 402 of the
first reservation, 403) are disabled actions. `Deliver` is the whole task of a group and `DeliveryDies` the
task ended by a row's transaction that raises; the steps are in `Delivery`. `crashed` and `raised` (history)
are what kills and exceptions left behind. The router's verdict, messages and traces carry no state the
properties need, only the epoch they are written under.

**`ReconcileRace`** splits `capture`, `release` and `reconcile_abandoned` into a read and a write,
the first two in the service and the third in the operator's process.

**`Bubbles`** is the computation between a draft and its timetable, one turn of a loop at a time: the
split into paragraphs, the merge of neighbours until five are left, the times. A paragraph is its
number in the draft, a bubble the sequence of its paragraphs; one number per paragraph stands for its
words and its length. Times are whole milliseconds, where the code has floats. The schema bounds
neither speed nor cap, so both may be negative: below zero words a minute the quotient is below the
floor of `typing_ms`, and the floor is what is left.

**`Delivery`** has, per group, its rows and its task (the frames still to be sent, and while a frame is
being sent the sockets it still goes to), and per connection how far its handler has come, whether
the client is alive, and the frames it has received. An action is what the loop runs between two
suspensions: `Broadcast` takes the snapshot of the sockets, `SendTo` is one `send_text`, `FrameDone`
the row's transaction and the sleep, `CommitRaises` that transaction raising. `Sorted` is the task's own
sort by position, so the order in which a recovery's query yields the rows does not matter. `Attach` registers and
sends the attached frame in one step: the registry's lock is never held across an `await`, so
`register` does not suspend, and the frame is handed to the transport before the task yields. A client
that reconnects is another socket. `sent` and `tail` are history variables.

**`Jobs`** has the `jobs` and `audit_runs` rows, the workers and the request at work. `Stages` gives each
job handler as its transactions; `onLoop` says that a worker has not suspended since its last one, so
that no other task may run. `Expire` lets a lease run out at any moment, including while its worker
sleeps: the model does not rely on the ratio of 120 seconds to a handler's half second. `request` is a
`generate`, `enhance`, `validate`, `audit_prepare` or `audit_launch` from its `Reserve` over its `Capture`
to its enqueue, where it may be killed or raise. Between any two transactions of the service come those
of the operator's shell: `OperatorReleases` is `reconcile_abandoned(0.0)` in the middle of `bill`, and
`OperatorFails` the write of a `fail_job` whose read came earlier, so it meets rows in any state. `paid`
counts captures; `free` and `wasted` (history) count reservations the operator took back before their
capture, and requests that failed after either.

**`Memory`** has the three tables of social memory and the ingest that is between its two commits: the
batch with its facts (`AppendBatch`), and the idempotency record (`Record`). `BreakOff` is a kill, or
the second transaction raising, between them. `Replay` is the early return under a key that has a
record. The handler never awaits, so there is one at a time. `WithFacts` inserts the facts of a batch
one by one, as the loop with its `flush` does, because a fact may contradict one of its own batch.
`appends` and `answers` are history variables. The facts a handler finds are read without `ORDER BY`;
the model takes them in the order of their ids, which is what SQLite returns for the filter used.
The words of a message are abstracted to the sequence `SubjectsOf` of those it mentions.
**`Recall`** extends it with `_retrieve`, an operator of the state: a sort is `InOrder`, where the n-th
element is the one that n - 1 others come before. Of the words there is `Overlap`, the number of tokens
a query shares with a message.

**`Plugin`** follows an inbound message through the plugin. `patched` and `original` say how often
`register()` wrapped an adapter and what it captured. `stage` is where a message's gate is (waiting for
the lock, opening the thread, submitting, deciding), `verdict` what came of it; `SESSIONS`, `ROUTES`,
`PENDING_ANSWERS`, `MEMORY_BY_SESSION` and `LATEST_EPOCH_BY_CHAT` are the dictionaries of
`turn_taking/state.py` under their names. `turn` and `slot` are the gateway's running turn of a
session and the one slot that waits behind it: the gateway is external, as is the service with an
epoch counter per thread. A message's kind (direct text, media, unmentioned group message, command,
blank) decides its way through the gate. `Unavailable` and `GateRaises` are the two ways it fails; only
the first forgets the session's recall. The agent's hooks run in worker threads: `Transform` is
`on_transform_llm_output` up to the `setdefault` that gets the chat's set of answers, `Mark` the `add` to
that set, and the loop's `Discard` may fall between them; `orphaned` are the answers whose set it took
away. Two messages of one session that wait in the slot are merged (`Merged`, `Anchors`).
Typing indicators and the metadata of delivery are left out.

**`Link`** has the attempts to link an account, the popup of the first boot and `/connect`, with what they
share and what each writes in which order; the user's browser is external. `WatcherFails` is a thread that
does not start, `ConnectCancelled` the cancellation of a request that is awaited: after either, `/connect`
waits for nobody. **`Soul`** has the file, its backup and marker, and two enhancers whose steps interleave
with the user's edits and with boots. **`Cards`** has refresh threads in their two phases, under the cache's
lock and after it, saves that fail, and restores (`Load`) that fail or find malformed counters; the operator
may switch between one card and a card per session at any time. **`Notices`** has alerts with cooldowns,
which a home channel takes or nobody (`PostAlert`), recovery messages, and the startup notes that wait for
the first message, a home channel and a send that succeeds. **`Autoconf`** has the sweep with its files, any
of which may be unreadable or unwritable; a `config.yaml` that cannot be read is an empty one to `plan()`.
**`Shadow`** has the two services' epochs, the mirror queue and its one worker. **`Sink`** has the file in
halves of records, so that a pass may meet a torn line, and the pass with its open transaction.

No module that a proof is about declares a `RECURSIVE` operator or takes its sequences' operators from
the community modules: loops over sequences (`Paragraphs`, `Total`, `Joined`, `OfGroup`, `WithFacts`)
are recursive functions.

The `MC*` modules give TLC its constants. `MCPeriphery` runs the eight modules that share no state
(`Link` to `Sink`, and `Bubbles`) one at a time: `focus` says which, so that their state spaces add up.
Operators introduced by "Bug:" are plausible bugs of the definition that follows them; `PROJECT.json`
pairs each with the property that must catch it.

## 4. Runs

| Run | Shows | Bounds |
|---|---|---|
| `ledger` | `Solvent`, `Conserved`, `ChargesBacked`, `SettledForever`, `ImplementsAccount` | 2 owners, 2 components, 2 price lists, 3 reservations, 4 credits, clock to 2 |
| `turn_taking` | `AnsweredMeansSettled`, `NoForgottenReply`, `ChargesEarned`, `RepliesAreFresh`, `ImplementsLedger`, all faults on | 2 owners, 1 thread, 2 replies, 4 reservations, 2 batches, 3 credits, clock to 1 |
| `delivery` | `ViewsAreSegments`, `NothingMissed`, `RowsTellDelivery`, `DeliveredOnce` | 2 groups and 3 sockets on 2 channels, at most 3 of these active, 2 bubbles, 1 crash |
| `delivery_live` | `EventuallyDelivered`, `TypingClears` | 1 group, 2 sockets, 3 bubbles, 1 crash |
| `jobs` | `SectionsInOrder`, `RunsMatchJobs`, `WorkIsPaid`, `SectionsWrittenOnce`, `PersonaOutcomeFinal`, `JobsFinish`, all faults on | 2 workers (as deployed), 2 jobs, enhancements, evaluations and 1 audit run; one crash, wasted charge or reservation taken back |
| `memory` | `DenseSequence`, `OneAnswerPerKey`, `KeyStoredOnce`, `NewestContradicted`, `RecallIsBest` | 2 tenants, 2 scopes of the same names, 1 key and none, 3 messages in 3 batches, 3 appends, 2 messages recalled |
| `plugin` | `OneThreadPerSession`, `ExactlyOneWay`, `FreshRecall`, `OnlyCleared`, `MessagesSettle` | 3 messages, 2 sessions (forum topics) of one Telegram chat; answers differ in text, which `ExactlyOneWay` needs: an ungated turn whose answer repeats one the chat is waiting for is taken for it |
| `periphery` | `OneLink`, `AutoOnce`, `CardsSound`, `OperatorTold`, `CoreRecorded`, `MirroredInStep`, `SinkFaithful`, `ReplyWhole` | 3 linking attempts, 1 restart; 2 edits, 3 boots; 2 card sessions, 2 texts of a card, 2 turns, 1 reload; 2 kinds of alert, 2 digests, 3 starts; 3 sweeps; 2 submits on 2 threads, 2 proxy starts; 4 records, 2 kills; drafts of up to 7 paragraphs, 5 pacings with zero and negative ones |
| `tail_replayed` | violation, finding 1 | 1 group, 2 sockets, 1 bubble, 1 crash |
| `reconcile_race` | violation, finding 2 | 1 owner, 2 reservations |
| `plugin_stamp` | violation, finding 3 | as `plugin` |
| `sink_skips` | violation, finding 4 | as `periphery`, the sink only |

Why the bounds are enough to be interesting. The ledger's rows interact only through their owner's
sum: with three rows one can be captured, one released and one outstanding, of one or two owners, and
four credits make refusals and acceptances occur under both price lists. A `respond` needs two
reservations and a `submit_messages` one, so four allow a reply, a batch and one left over by a
fault; three credits at price one make the second of two reservations fail. Two bubbles give order and
a partly delivered group, three sockets two clients of one channel and a stranger; one crash allows a
recovery in every state. `MaxActors` keeps the product of groups and sockets finite, not their
interleavings. Two jobs let two workers work on different jobs or, through an expired lease, on the
same one; populations are left out of `jobs`, being evaluations with one more report of progress. Three
appends are a batch, its retry after a crash and somebody else's, or a contradiction
of a contradiction; up to six messages against a limit of two make recall choose, with ties. In
`plugin`, two messages of one session race for its thread, share the running turn and the slot, and
are of the kinds that fail open and fail closed; the third, of the other topic, shares chat, adapter
and epochs with them. A session of two messages never has two waiting in the slot: merging in the slot is
covered by the proofs, which bound nothing. Seven paragraphs are two more than the bubbles left, so merges meet merged
neighbours. Three linking attempts are two commands and a popup. Three boots are an attempt, a crash in it and
what follows. Four records in halves let a pass meet a torn line before, at and after a line that
counts. Symmetry is used for owners, reservations, groups, sockets and scopes, in safety runs only.

Deadlock is checked in `ledger`, `turn_taking` and `jobs` (a reboot, the operator or `fail_job` is
always possible there). Elsewhere the system may stop: all groups delivered and all sockets gone, all
batches sent and no key to replay, all messages answered, or the bounds used up.

**Fairness.** `Delivery!Fairness`: the loop runs a ready task, each sleep ends, each send returns or
raises, the socket handler notices a dead peer, a supervisor restarts a dead process. `Jobs!Fairness`:
the same for the request at work, and leases run out because time passes; workers are strongly fair,
because a loop's ready queue is first in, first out, so a worker whose sleep is over has its turn
although commands keep arriving.
`Plugin!Fairness`: for each message the loop runs its woken coroutine and its `respond` task, and a request
to the service ends (`httpx` has a timeout of 30 seconds), with an answer or an error; for each session
the agent finishes its turn; nothing of sockets or registrations. `MessagesSettle` is stated as `[]<>` of
an implication whose premise, once true, stays true, which is `~>`. Nothing is assumed of clients, users, the operator, faults, or of messages ever
arriving. Crashes are bounded, since a service that is killed over and over delivers nothing.
`delivery_live` assumes that the transaction marking a row does not raise: when it does, the task is
gone and delivery waits for the next restart, which no one promises. `JobsFinish` excepts the case that
every worker has died of a `fail_job` that raised; nothing in the code starts another one.

## 5. Findings

With a run each:

1. After a restart the undelivered tail is broadcast before any client can have reattached, and marked
   delivered; the runbook says it is replayed rather than lost.
2. The operator's `reconcile_abandoned(0.0)` next to a running service can release a row that is then
   captured and charged.
3. The newest epoch is kept per chat, while epochs count per thread: with two forum topics of one chat
   a reply is stamped with the other topic's epoch and refused as superseded.
4. The sink, meeting a line the proxy completes during the pass, counts it as two; one of the following
   records is left out for ever and the last one is loaded twice.

Met while modelling, and built into the modules as the code has it:

- A row's transaction that raises ends its delivery task, which nobody awaits: the rest of the reply stays
  scheduled, with a typing indicator on, until the next restart (`scheduler.py:77-81`). That is what
  `NoForgottenReply` excepts.
- The operator's `fail_job` reads and writes without a lock (`jobs.py:55-57`): a job that stored its result
  in between reads `failed` beside that result, and an audit's beside a completed run. `PersonaOutcomeFinal`
  and `RunsMatchJobs` say that this is the only way.
- `bill` reserves and captures in two transactions (`billing.py:97-99`): the operator's
  `reconcile_abandoned(0.0)` in between makes the capture a silent no-op, and the work is done unpaid.
- `respond` that raises after its reservations (`pacing.typing_wpm = 0`, which the schema lets through)
  leaves them reserved until they are reconciled; spec/06 says that failures release reservations.
  A negative `max_typing_ms` makes delivery times go backwards.
- Replies of one thread are delivered by independent tasks, so their frames may mix; spec/03 says the
  sequence of a reply is exact with nothing else in between.
- An audit whose job failed reads `queued` for ever and cannot be launched again.
- A kill between the two commits of `ingest` makes the client's retry store the batch again.
- A gate that raises, on an answer that is not JSON, does not forget the session's recall, and the older
  one enters a fail-open reply, though `core.py:131` says "no stale recall into fail-open replies".
- `_suppress_answer` (`hooks.py:23`) is a `setdefault` and an `add` in a worker thread, beside the loop's
  `discard` and `pop` of an empty set (`patching.py:188-193`): an answer marked in a popped set goes out
  through the service and as the raw copy.
- `/connect` waits for nobody until a restart when its request is cancelled (`_PENDING` stays set: a
  `CancelledError` is no `Exception`), though `connect.py:93` says "Cleared by _watch, or below on failure",
  and until a restart or the end of the popup's login when its watcher thread cannot be started
  (`PENDING_URI` stays).
- A voice-card cache that could not be restored starts empty, and the first save overwrites the file.
- Autoconfiguration: a failed write of `config.yaml` takes only "core" off the list, so Slack's part is
  recorded done though not written; a failed write of `.env` is recorded done too. A marker that cannot be
  read sweeps everything again, over the operator's later changes.
- `notify.recovered()` reports the whole plugin active again though a dead WebSocket may stay lost;
  alerts fired before the first message, or that no home channel takes, are dropped, but arm their
  cooldown: `_fire` ignores what `_send` returns.
- `PENDING_URI` is cleared by whichever linking flow ends first; the popup's login loses an approved key
  when `.env` cannot be written; environment and `.env` may hold different keys when both flows end.
- A SOUL.md edited while an enhancement polls is overwritten, and is not in the backup.
- Two answers of one chat with equal text are one entry of `PENDING_ANSWERS`. A suppressed answer is
  lost when its `respond` fails, is superseded, or its WebSocket has died.
- Answers of concurrent decides that arrive out of order make the remembered epoch go backwards.
- The shadow proxy mirrors in the order in which local requests complete, its docstring says of
  arrival; an exception after a record was written writes it again; a restart forgets its maps.

## 6. Proofs

For every value of the constants that satisfies the named assumptions of the modules. One theorem has a
hypothesis besides: `AnswersLeaveOnce` (`TextsDiffer`, below). TLC checks every
property that a theorem states on the run of its module too.

**`Induction`** holds what several proofs share. The library's induction theorems take an operator as a
parameter, which the provers cannot instantiate; `Induction` states induction for a *set* that holds 0
and every successor instead, and gets it from the well-foundedness of strict inclusion among finite sets
(`LeastNatural`). `Recursion` and `SameRecursion` say that a function defined by recursion over `0 .. N`
exists and that its two equations determine it (`Solves`, `Agree`). `LeastInteger` and `GreatestInteger` justify
the `CHOOSE` of a least or last element.

**`CreditLedgerProofs`** (`LedgerAssumption`: natural numbers where the code has them). `LedgerInv` is
inductive: the types, the finiteness of the sets of units, `Solvent`, `Conserved` and `ChargesBacked`.
The finiteness is what gives cardinalities their arithmetic. `Solvent` is there because `Capture`
could otherwise not be an account's `Spend`. For each transaction an `...Effect` lemma says what
happens to the sums (`RowJoins`, `RowLeaves`, `EventAppended` below them); `StepInv` combines them.
`LedgerSolvency`, `LedgerConservation` and `LedgerBacking` follow; `LedgerSettled` is the
action property. `LedgerImplementsAccount` is the refinement: the effects are exactly a `Hold`, a
`Spend`, a `Return`, or a step the account does not see.

**`TurnTakingProofs`** (`TurnAssumption` too). `HandlerInvariance`: the handler is at a transaction of the
code with what that transaction relies on; in particular it holds exactly one reservation where it may
be refused the second one, which is why releasing `held[1]` is all of
`for r in reservations: billing.release(r)`. `ServiceImplementsLedger`: every step is a ledger step or
leaves it alone, hence `ServiceSolvency`. `AnsweringSettles`: `AnsweredMeansSettled`, by induction with
`HandlerInv` and the ledger's types. `ReplyInv` strengthens `NoForgottenReply`: a process that is not up
has no handler, the groups armed or held by a handler are scheduled, and `respond`'s epoch is its
thread's newest until its commit; `NoReplyForgotten` and `RepliesStayFresh` follow. The exception that
ends a handler or a task puts its group in `raised`, and only a boot takes it out. For `ChargesEarned`,
counting captured rows is not inductive, because the work is committed before it is charged: `EarnInv`
counts a row as `Earned` from the commit of the handler that holds it, and says which reservations each
command holds before that (`HoldsOK`). A commit adds one batch or reply and what it pays for
(`BudgetBatch`, `BudgetReply`), a capture moves rows from `Due` to `Bought`, and nothing else adds to
either (`EarnedLess`): `WorkBehindEveryCharge`.

**`JobsProofs`** (`JobsAssumption`). `JobsInv` ties the stage of every executor of a job to the sections
that are there: an executor is past a stage only if its section has been written, by whichever of them.
That is what makes a late executor find its section there, and `SectionsInOrder` inductive. It also
accounts for what was captured or taken back by the operator: a job, a run or the request at work for
each, or a request that failed. The operator's write changes nothing but a status, so a run and its job
are tied by the stored result (`writer`), not by the status. `SectionsAppearInOrder`,
`RunsHaveOneJob`, `AllWorkIsPaid`, `SectionsStay` and `PersonaOutcomesStay` follow: every safety
property of the run is proved, for any number of workers, jobs and runs.

**`MemoryProofs`** (`MemoryAssumption`). `KeysInv` says what the window between the two commits means: the
key of the handler in it has no record and its batch is the newest. `Dense` with `LastOK` is the
invariant of the sequence numbers: `MaxIsCount` shows that `coalesce(max(seq), -1) + 1` is the number
of rows of the scope; `LastOK`, that a scope with rows has a last one, stands in for an induction over
the table. `SequenceIsDense`, `KeyHasOneAnswer` and `KeyStoredOnlyOnce` follow.
`ContradictsTheNewest` is an induction over the subjects of a batch: `Tables` are the fact tables whose
links are right, and inserting one fact whose `Prior` is the last row about its subject leads from one
to another, so the recursion of `WithFacts` stays in `Tables` from whatever table the batch found. The
`Recall` part proves that `InOrder` sorts: under a strict order of a finite set the ranks of its elements
differ, so by counting each of `0 .. n - 1` is taken once (`RanksTaken`), and ranks grow along the order
(`SortsOrder`). Scores with ties broken by `seq` are such an order because of `SequenceIsDense`; cutting
it at the limit leaves the best (`PickedIsBest`), which gives `RecallsTheBest`.

**`PluginProofs`** (`PluginAssumption`). `PluginInv` says which stages of the gate go with which thread,
lock and verdict: a session's thread is opened under the lock by someone who saw none.
`SessionHasOneThread` and `AgentWorksForCleared` follow. `RecallInv` adds that a session's recall is its
latest decide's but for gates that raised or never asked (`gated` is the order in which messages left the
gate), which is why forgetting it after a failed decide matters, and that what left the gate
never enters it again (`WiringOK`: no wrapper was captured as an original): `RecallsAreFresh`.
`AnswersLeaveOnce` is about the way back. `PENDING_ANSWERS` is keyed by chat and text, so `WayInv` ties
each entry to a turn of that chat that is about to send its raw copy (`WaysOK`), each orphaned answer to a
suppression by another session of the chat, and says that a message
is covered by one turn or the slot of its session until a turn answers it (`CoversOK`), and that what
was gated came through an adapter whose send is wrapped too (`GatedOK`). Its hypothesis `TextsDiffer`,
no two answers of a chat have one text, is the property's own: without it the code does mix them up
(section 5), and the instances of the run satisfy it.

**`PeripheryProofs`**, a part each for `Soul`, `Cards`, `Notices`, `Autoconf`, `Link`, `Shadow`, `Sink` and
`Bubbles`: `AtMostOneAttempt`
(the marker is pending while an attempt is at work, and has its outcome after), `CardsAreSound` (whoever
saves last saves the cache under its lock), `TheOperatorIsTold` (a kind that cools down is active, and an
active one has an alert that is on its way, was taken or was swallowed since the last recovery),
`CoreIsRetried` (of a single step: an unreadable file makes the core settings wanted, and their write
fails), `OneLinkAtATime` (a raised flag stands for exactly one `/connect` at work or cancelled; a link on
show is the popup's while it polls, or `/connect`'s until its watcher ends or for want of one).

- `ShadowInv`: submits of a thread have different local epochs, the queue holds a submit before its
  respond, the worker has one copy under way, and what the proxy knows is what it learned since it
  started. So a respond leaves when its submit is recorded or lost, and `RepliesMirroredInStep` follows
  for any order of answers.
- `SinkInv`: the halves of a record are next to each other in the file (`FileIs`); while no pass has read
  a line in two pieces, its count of lines is that of the newlines behind it, it has loaded none of the
  lines `ingest` had when it began, and nothing whole is missing before a committed row (`LoadedOK`). A kill
  between any two steps leaves that for the next pass: `SinkIsFaithful`.
- `BubblesInv`: merging glues two neighbours, and concatenation is associative, so the bubbles joined
  stay the paragraphs (`MergedGlues`, by induction over the bubbles); a merge only happens above the
  limit. The times are bounded by induction over the bubbles (`TimesOK`), with negative speeds and caps:
  `RepliesAreWhole`.

**`DeliveryProofs`** (`DeliveryAssumption`). `GroupInv` says where a task is: the bubbles before some `k`
are delivered and none after, and the task has left either all frames from `k` or bubbles `k` to `n`
with typing off (`Rest`). A scheduled bubble was broadcast at most once per crash so far, and once more
while its broadcast is out. `RecoverFacts` shows that what `recover()` reads is exactly `k` to `n`, for
any delivered prefix. `RowsTellTheTruth` and `NeverTwiceAfterDelivered` follow, for any number of groups,
sockets, bubbles and crashes. `ViewInv` adds the sockets. A view is never said to be what a filter of the
inbox returns; it only grows by one frame of its group at a time (`ViewGrows`, from `OfGroup`'s two
equations). It is a `Piece` of a run, `m` frames from frame `a` of the run that began at bubble `k`
(`Shows`), and for a client that is still there the piece ends where the task stands, or one frame
further if the broadcast under way has reached it (`LiveOK`). That is what remains true when the row of
a bubble changes, when others come and go in the middle of a broadcast, and when a recovery starts a new
run from a later bubble, at a time when no client of the old one is there. `EveryViewIsASegment` and
`NothingIsMissed` follow.

Only model-checked: liveness under fairness (`JobsFinish`, `EventuallyDelivered`, `TypingClears`,
`MessagesSettle`), which needs `ENABLED`, out of the provers' reach. Not proved either, because they are
violated: the properties of the findings.

## 7. Not modelled

- Grants, social learning, retention, middleware, metrics, usage and identity routes, request schemas,
  the text engines (router, refinement, blueprint, foresee, the texts of audits): pure, or without state
  that behaviour depends on. `retention.purge_owner` is called by nothing in the service. What schemas
  let through is an input of `TurnTaking` and `Bubbles`.
- The plugin's native memory (idempotent edits of the host when it is loaded), typing indicators, media
  fields, and the lookup of URL, key and settings in `_config.py`.
- The Python client, the migrations, the other tools, the proxy's WebSocket relays and its comparison of
  answers, the sink's reports.
- `run_coroutine_threadsafe` failing after an answer was marked, on a loop that is shutting down; a kill in
  the middle of `config.yaml`'s `write_text`, which truncates first.
- How late a bubble is: the order of `deliver_at` times is the order of a task's frames.
- A commit that succeeds and is reported as failed: database faults are a transaction that raises and is
  rolled back. Several replicas on one database, which would need row locks the code does not take:
  the service is the single process it is deployed as.
