# AgentOps control plane: models, checks and proofs

TLA+ models of the parts of the control plane where threads, processes, crashes
and clients meet in one database, the TLC runs that check them on small
instances, and theorems proved for every size. Source paths below are relative
to the repository (`src/agentops/service.py` and so on); `service.py:295` is a
line of it.

    tlc  -workers 2 -config RunEngine_race.cfg MC_RunEngine.tla
    tlapm RunEngine_proofs.tla

## The system

One FastAPI application (`main.py`) over one service object (`service.py`) over
one database, SQLite or PostgreSQL (`database.py`). By default everything is one
process; `AGENTOPS_PROCESS_MODE` splits it into web, worker and scheduler
processes that share the database and a Redis list (`queue.py`).

| Component | State | Operations | Talks to | What is hard | What makes it correct |
|---|---|---|---|---|---|
| Run engine | `runs`, `spans`; locals of the executing thread | `start_run`, `_execute_queued`, `_execute`, `cancel_run` | queue, approvals, outbox | two executors of one run; a cancel between read and write; five transactions per step | a completed run is fully traced; values are handed on; refusals hold on resume |
| Run queue | in-process pool or Redis list, consumer threads | `submit`, `_consume`, `close` | run engine | what a dead process takes with it; an exception that ends a consumer | no queued run is lost |
| Approvals | `approvals` | pause, decide (approve, edit, reject), escalate, expire | run engine, outbox | decision, sweep and cancel from stale reads | only an approval opens a gate; a waiting run can be decided |
| Recovery, process modes | – | lifespan hook, `recover_incomplete_runs` | queue, run engine | consumers run before recovery; other processes live on | recovery resumes behind the trace; queued runs are taken on |
| Outbox | `outbox_events`, `webhook_deliveries` | enqueue, poll, claim, send, record, settle | webhooks, Slack, SMTP | lease against slow sends, several workers, crash between claim and result, deleted webhooks | one sender; delivered means accepted; dead means exhausted or gone; every event settles |
| Evaluations | `evaluations`, `datasets` | `evaluate`, the job, `cancel_evaluation`, gate, comparison, `delete_dataset` | run engine | cancel against the final write; a dataset deleted under its job; a restart under a queued job | a completed row is a whole evaluation; a job that sees the cancellation stops; a gate verdict matches the results |
| Schedules | `schedules` | create, enable, `run_due_schedules` | run engine | run and `next_run_at` in two transactions; scheduler and request at once; errors that end the thread | firings are spaced, none is lost |
| Admission | `workflows.version`, `runs.idempotency_key` | `create_workflow`, `start_run` with a key, `import_project` | run engine | two requests with one key; MAX+1 | one run per key; the loser gets the winner's run |
| Handoffs and memory | `parent_run_id`, `memories`, `agent_events` | `_apply_agent_tool`, `_workflow_ancestry`, `replay`, `put_memory`, `get_memory` | run engine, tools | a child that pauses or outlives a crash; loops through replays and client-chosen parents | a handoff hands on its own child's output; no endless recursion |
| Tools and providers | `tool_executor` (8 threads) and its queue; locals of a call | `_invoke_tool`, `_invoke_llm`, `_stream_request` | run engine, provider APIs | calls that outlive their timeout; retries inside retries; a stream that breaks | what was published is the answer; an abandoned call never starts; every run comes to rest unless its process dies |
| Migrations | `schema_migrations`, the schema | `lifespan`, `migrate` | database | processes and releases that start, race and die; two dialects | the ledger is true; a schema changes whole; every process comes to serve |
| Request boundary | `rate_buckets`, `audit_events` | `security_boundary` (`main.py`), `security.py` | everything | the window at its boundary; the audit row behind the change | the window is exact; an answered change is audited |
| Secrets, demo, templates, schemas, statistics, dashboard, scripts | – | – | – | input and output, pure functions | – |

`PROJECT.json` lists each component with its status, every hazard with its line,
and for every definition the lines it models.

## Modules

| Module | Models |
|---|---|
| `FlightRecorder` | what the trace of a run promises, abstractly: spans in step order, written once, gates opened by release only |
| `RunEngine` | run engine, queue, approvals, recovery and process death, on one database |
| `MC_RunEngine` | model values, symmetry and small constants for TLC |
| `RunEngine_proofs` | the theorems about `RunEngine` in every deployment |
| `DefaultDeployment_proofs` | those about `RunEngine` in the default deployment |
| `Outbox` | the outbox and its worker threads |
| `MC_Outbox` | model values and constants for TLC |
| `Outbox_proofs` | the theorems about `Outbox` |
| `Evaluation` | evaluation jobs, their pool, cancellation, the gate, the comparison |
| `Schedules` | schedule rows and the sweeps that fire them |
| `Admission` | requests that race for runs under an idempotency key, for child runs and for workflow versions |
| `AgentTools` | the attempts of a step: tool threads, streamed requests, handoffs, replay, memory |
| `Migrations` | the start of a process and the migration of the database it begins with |
| `Deployment` | `Migrations`, and the request boundary of the processes that serve |
| `MC_Evaluation`, `MC_Schedules`, `MC_Admission`, `MC_AgentTools`, `MC_Deployment` | model values, symmetry and constants for TLC |
| `Evaluation_proofs`, `Schedules_proofs`, `Admission_proofs`, `AgentTools_proofs`, `Deployment_proofs` | the theorems about them; the last one also has those about `Migrations` |

`RunEngine` contains `INSTANCE FlightRecorder WITH trace <- span, Gates <-
Approvals`; `ImplementsFlightRecorder` is the abstract specification as a
property. The outbox meets the engine at one operation, `_enqueue_outbox`: the
engine's variable `events` is the set of keys it has put in, and `Outbox!Enqueue`
is that operation from the other side. Since the key is `event:run:destination`
and the insert ignores duplicates, a set is exact. `AgentTools` is the inside of what
`RunEngine!Invoke` takes for an output or an error. `Deployment` EXTENDS `Migrations`: its
`Next` is a step of a process's start beside an unchanged boundary, a step of a
call at a process that serves, or the death of a process, which is a step of both.

### Grain of atomicity

Every thread of the program talks to the database in short transactions
(`Database.connect`, database.py:294), each on a connection of its own. A step of
a model is one such transaction, or one SELECT that stands alone. A block that
first reads and later writes on one connection (`decide_approval`,
`expire_approvals`, `recover_incomplete_runs`) is two steps: Python's `sqlite3`
opens a transaction at the first UPDATE, not at the SELECT, and PostgreSQL runs
at READ COMMITTED and the SELECTs lock nothing. Several writes of one block are
one step. Reading a row and deciding on it is one step, so a guard in a model is
as fresh as the read in the code and never fresher.

### RunEngine and the code

| State | Code |
|---|---|
| `status`, `step`, `output` | `runs.status`, `current_step`, `output` |
| `span`, `spanIn`, `spanOut` | `spans.status`, `input`, `output` of a run's step |
| `approval`, `overdue` | `approvals.status`; whether `expires_at` has passed |
| `events` | idempotency keys the run has put into the outbox |
| `queue` | the pool's work queue or the Redis list `agentops:runs` |
| `phase`, `backlog` | where the worker process is in its start-up, and the rows recovery still has to submit |
| `sweep`, `lapsing` | where `expire_approvals` is and the rows it has read |
| `pc`, `job`, `idx`, `val`, `tries` | program counter and locals (`run_id`, `index`, `value`, `attempt`) of each thread |

| Actions | Code |
|---|---|
| `StartSync`, `StartQueued`, `Submit` | `start_run` and `RunQueue.submit` |
| `Pop`, `Claim` | `_consume`, `_execute_queued` |
| `Execute`, `Mark`, `Check`, `Refuse`, `Invoke`, `Recheck`, `RecordSpan`, `MarkFailed`, `Advance`, `Finish`, `Notify` | `_execute`, one action per transaction, read or tool attempt |
| `Pause`, `PauseRow` | `_pause_for_approval` |
| `CancelRead`, `CancelWrite` | `cancel_run` |
| `DecideRead`, `Lapse`, `Reject`, `Approve`, `Escalate` | `decide_approval`, `escalate_approval` |
| `Overdue`, `SweepSelect`, `SweepUpdate`, `SweepNotify` | the clock, and `expire_approvals` from the scheduler |
| `Crash`, `Boot`, `RecoverSelect`, `RecoverUpdate`, `Resubmit`, `Serve` | death and restart of a process, the lifespan hook, `recover_incomplete_runs` |

Abstractions. A payload is a token that names who produced it, so that "the value
handed on" can be stated. A tool attempt is an output or an error; how it comes
about (`_invoke_tool`, the providers, the thread a timed-out tool leaves behind,
handoffs) is `AgentTools`, and the waiting between retries is left out. A handoff is
a tool; the child run it starts is `StartSync` of another run on the same kind of
thread. Agent events and
the OTLP export write nothing the engine reads. Rows of a deleted project
disappear in the code; deletion is modelled in `Outbox` only. `close` lets the
pool finish and is not modelled: a process only dies, the harder case.
One sweep runs at a time; `POST /api/approvals/expire` would be a second one.
On PostgreSQL, `cancel_run` locks run then approvals and the decisions lock
approval then run; a deadlock there aborts one of the two transactions, which
the models contain as the request that never came.

### Outbox and the code

A row is named by its idempotency key. `status`, `attempts` are columns; `due`
and `lapsed` are the two comparisons with the clock (`next_attempt_at <= now`,
`claimed_at <= now - 300 s`); `recorded` is `webhook_deliveries`; `accepted` is what
the destination has seen. A worker thread has the batch its poll
returned, the row it holds, the `attempts` it read (`seen`) and the outcome of its
send. `Poll`, `ReadRow`, `Claim`, `Send`, `RecordDelivery`, `Settle` are
`_due_outbox`, the two halves of `_deliver_outbox` around `_claim_outbox`, the
network call, the history row and the final UPDATE. `Settle` does not touch
`claimed_at` when it ends a row, and neither does the code. Deleting a project
deletes its webhooks and their history, not the outbox rows. The branch for a
disabled webhook is not modelled: nothing in the program disables one.

### Evaluation and the code

`cases`, `deleted` are the one dataset; `status`, `limits`, `progress`, `stored`, `gate`
are the columns of `evaluations` (`passed` is counted from `stored`). `line` is the
work queue of `eval_executor`, `pc`, `done`, `quit` the job's place and its locals
`results` and `cancelled`. `Evaluate` and `Submit` are `evaluate`; `Take` is the pool;
`Begin`, `NextCase`, `RunCase`, `Report`, `LastLook`, `Write` are `_run_evaluation_job`, one
action per transaction, with the exception a deleted row or dataset, a judge or
a missing workflow causes: it is stored in a future nobody reads, and the row
keeps its status. A case is a run and its matcher's verdict, that is, any
result of a small set; the run itself is `RunEngine`'s. `Gate`, `P95`, `Transition`
are the pure functions; percentages are whole numbers, and `int(n * 0.95)` is
`(95 * n) \div 100`, which it equals for every size a dataset can have.

### Schedules and the code

`next`, `enabled` are columns, `rows` and `deleted` say which rows are there; `fired`
is the list of runs a schedule has started, each with its sweep and that sweep's
`due_at`. A sweeper (the scheduler thread, or a request to `run-due`) has the rows
its SELECT returned (`todo`), the one it is at (`cur`) and `due_at`. `SelectDue`, `StartRun`,
`Dispatch`, `MoveOn` are `run_due_schedules` with the calls of `start_run` in it.
Every exception is there: a database error ends the sweep and `_scheduler_loop`
goes on (`Finish`); a `NotFoundError` or `RedisError` is not caught and ends the
scheduler thread until the process restarts (`Escape`, service.py:101). What
`expire_approvals`, the other half of that loop, may raise has the same effect on
the thread and is not a part of this module.

### Admission and the code

A run is named by the request that inserted it. `Arrive`, `Peek` are the handler
(main.py:343), `Open`, `Insert`, `Fallback`, `Return` are `start_run`; `Number`,
`InsertVersion` are `create_workflow`. The unique index of migration 0008 is `Unique`, the
lookup of a key `Found`, the check of the parent `Kin`. Projects may be deleted at any
moment, with their workflows, runs and keys. A replay is a child without a key.

### AgentTools and the code

A run is at one step of its workflow, and a workflow is that step: what leads from
step to step is `RunEngine`'s. Runs are numbered as their rows are. An attempt is a
run and a number, and stands for what the attempt produced.

| State | Code |
|---|---|
| `step`, `workflow`, `parent`, `origin` | `workflows.definition`, `runs.workflow_id`, `parent_run_id`; the attempt whose handoff started the run |
| `pc`, `tries` | where the thread of a run is, or the status it left; `attempt` |
| `traced`, `value` | the runs whose step has a row in `spans`; the output handed on |
| `call`, `line` | futures of `tool_executor`, its work queue |
| `out`, `at`, `http` | `llm.chunk` events an attempt has published; the place in the present response; requests repeated |
| `memory` | `memories`, for one project and one key |

| Actions | Code |
|---|---|
| `StartRun` | `start_run` of a client, who may name any run of the project as the parent (main.py:356), of the scheduler, and `replay` |
| `Invoke`, `Return`, `TimeOut` | `_invoke_tool`, `_invoke_llm` and the loop over attempts in `_execute`: submit, `future.result`, `FutureTimeoutError` with `future.cancel` |
| `Take`, `Work` | a thread of the pool takes a call; `_stream_request` decodes and publishes (`Publish`), repeats the request (`Repeat`), returns or raises (`EndCall`) |
| `Record`, `Retry`, `Advance` | `_record_span` with its UNIQUE constraint; the next attempt or the failed step; the UPDATEs of the run's row behind the span, one action each |
| `Handoff`, `ChildReturns` | `_apply_agent_tool` with `_workflow_ancestry` (`Ancestry`), and the way back from the child's `_execute` |
| `Pause`, `Decide` | `_pause_for_approval`, `decide_approval` |
| `WriteMemory`, `ReadMemory` | `put_memory`, `get_memory` |
| `Crash` | death and restart: every run that was not at rest is taken up again, a parent beside its child |

A call without a timeout is a part of its run's thread (`Go`); one with a timeout has
a thread of the pool and may hang for ever. The recursion of `_workflow_ancestry` is
written as the least set of runs closed under `parent`. A response may end at any piece:
`_stream_request` accepts a body without a terminator. Cancellation is left to
`RunEngine`, that of a queued call is in `Cancel`, which takes it out at its place in the
queue. Span, `current_step` and status are written one after the other, as in the code, and
`Crash` may fall between any two: the step of a run that has a span and no `current_step`
begins anew, its span is refused, and the run is "stuck", as in the run `interrupted`. What
an attempt reads (a future, the memory, the status of a child) is one step with the span
behind it: in between only locals change, and a death there is one before the read. `_request`, which only the
judge of an evaluation uses, and the payloads of the providers are left out.

### Migrations, Deployment and the code

A migration is its change and the table that change is in (`Table`): migration 1
runs `SCHEMA`, which creates in its latest form every table the database lacks, and the
others create a table or add the columns that are missing; both look before they
alter. A release is the number of migrations it knows (`Heads`), so an old process
meets a new database and the reverse. `draft` is what the open transaction sees;
`Commit` is the end of `Database.connect`, `Fail`, `Busy` and `Die` are the ways a start
ends without it. SQLite's lock is the write lock of `BEGIN IMMEDIATE` and lasts to the
COMMIT. On PostgreSQL the advisory lock is given back before the COMMIT
(migrations.py:191, database.py:300); that order cannot matter at present, since every
INSERT into the ledger raises (run `postgres`).

A call is one request that the boundary guards. Where it is addressed (`via`), whose it
is (`actor`), whether its token is known, its role allowed and its method mutating do not
change; what they are computed from (hashes, path prefixes) is abstracted.
`security_boundary` does not yield before it calls the handler, so the token, the role and
the window are one step (`Enter`); the handler and the audit row are two more, and the
process may die in between. `bucket` is `rate_buckets`, per process and in memory; `InWindow` is
the loop that pops its left end until it finds an entry inside the window. `admitted` is a
history variable, the times of all the calls that the present life of a process has admitted
of an actor: the code's bucket forgets, the property must not. Project roles
are look-ups without state and are left out.

## Runs

| Run | Instance | Shows |
|---|---|---|
| `race` | 1 run, 2 steps, gate at step 0 with expiry, 1 Redis consumer, 2 clients, 1 retry, 1 crash, one process | trace and gate properties and the refinement, under every interleaving of start, cancel, two decisions, sweep, recovery |
| `local` | 2 runs, 2 pool workers, 1 client, no expiry, budget below the length of one run, 1 retry, 1 crash | the stronger properties of the default deployment |
| `live` | 2 runs, 1 worker, 1 client, a denied step, 1 crash, fairness | the three liveness properties |
| `terminal`, `interrupted` | 1 run, the smallest instance that shows it | one disagreement with the documentation each |
| `outbox` | 2 events (webhook, Slack), 2 workers, 2 attempts, 1 fault, fairness | delivery, dead-letter and claim properties, and that every event settles |
| `evaluation` | 2 evaluations, 2 cases, pool of 1 thread, 1 crash, fairness | whole results, cancellation, the gate, and that jobs end |
| `schedules` | 2 schedules, scheduler and one request, interval 1, clock to 1, 1 fault, fairness | spacing, no firing passed over, due schedules are fired |
| `admission` | 2 projects, 3 workflows, 1 key, 3 requests, 1 fault | one run per key, one owner per version, races without failures |
| `agent_tools` | five programs of 2 workflows, 4 runs, 1 tool thread, 1 retry of a step, 1 of a request, 2 pieces, 1 crash, fairness | what is published is the answer, handoffs do not loop and hand on their own child's output, an abandoned call never starts; every run comes to rest, or its process died between its span and its row |
| `deployment` | SQLite, 2 processes of 2 releases, 4 migrations, 5 calls, 2 requests in a window of 1 tick, clock to 2, 1 fault, fairness | a true ledger, whole schema changes, every process serves, an exact window, answered changes are audited |
| `postgres` | PostgreSQL, 1 process, no call, no fault, fairness | no process ever serves |

Two steps are enough for a gate followed by a tool, a resume in the middle and a
budget that bites after the first step. Two clients are needed for a decision
against a cancel or another decision while an executor runs; one run is enough
there because two runs share nothing but the queue and the threads, which `local`
and `live` exercise with two runs and two workers. One crash reaches every crash
point including those of recovery's own work; the proofs cover any number, and
the deployment with separate processes, which TLC explores in `terminal`. In the code a
row has 6 attempts; the models have 2, the smallest number with a first, a last and a
retry in between. `Limit` of `Outbox` is the size of a poll (20 in the code). Two
evaluations compete for one pool thread, so the second one waits (the code has 2
threads; the proofs cover any number). In `schedules` the scheduler and one request are
the two actors that can meet; at clock 1 a schedule with interval 1 has been due twice.
In `admission` three requests are the smallest number in which a winner, a loser and a
later repetition differ.

In `agent_tools` one thread of the pool is enough for calls that wait behind a call
that hangs (the code has 8). Two pieces are a beginning that could be repeated and an end;
one retry in each layer is one retry inside another. The five programs are the steps that
share something: the pool, the parent link, the memory, and each has the rows and the
starts it needs (`ManyRows`, `Starts`). Four rows and two starts are the smallest circle of handoffs
with a replay on it: a run hands off, its child is replayed, and the replay must not hand
off to the first workflow again. Where the parent is named by a client, three would do. Three
rows are a handoff, its child, and the child of its retry or of its restart; the
children compete for the pool, or wait for decisions. Two are a writer and a reader of the memory. The
model steps run alone, because their calls have the largest state space: a run that is retried
already has two calls that compete.

In `deployment` the four migrations are the first tables with a column of theirs, and
a later table with a column of its own: the cases in which `SCHEMA` does more, or less,
than the migration that comes for it. Heads 2 and 4 are a release before the new table
and one behind it. A window of one tick and two requests is filled, entered at
its boundary and left within clock 2, and a call that is refused for its role
or token must not count. In the code these are 240 requests and 60 seconds.

`MaxCrashes`, `MaxFaults`, `MaxCases`, `MaxClock`, `MaxRuns`, `MaxRows`, `MaxStarts` and one escalation per
run are the bounds that are not in the code. At `MaxRows` the INSERT of a child run
fails, as a full database makes it.

`CHECK_DEADLOCK FALSE` in every configuration: the system stops when every run is
terminal, nothing is pending and no client calls.

### What holds where

`CompletedIsFullyTraced`, `ResumesBehindTrace`, `GovernedSteps`, `GateOpensOnlyByApproval`
and `ImplementsFlightRecorder` hold in
every deployment, whatever races: the engine's rows `runs` and `approvals` are
written blindly and lose updates, but `UNIQUE(run_id, step_index)` on spans and on
approvals makes the loser of a race fail before it can complete a run it has not
traced. So do the theorems `TypeCorrect` and `ApprovalsRest`.

`SingleExecutor`, `TraceIsContinuous`, `WaitingIsDecidable`,
`QueuedIsHeld` and `RewrittenOnlyAroundCancel` hold in the default deployment if no
workflow has a gate, or with one client at a time and approvals that do not expire
(`DefaultDeployment`, of which `local` is an instance with a gate and under which they are
proved). Each of these assumptions is needed: with two clients a decision and a cancel that both read "pending"
bring about two executors; an expiry leaves a run waiting for nobody; with Redis
the consumers are at work before recovery is, and with processes of their own
recovery requeues what a living process executes.

The properties of `AgentTools`, `Migrations` and `Deployment` hold with any number of the
faults they name; the safety properties are proved. `WindowIsExact` is about one process: with
several, each counts for itself and an actor has that many times the limit.
`EveryRunRests` excepts what the run `interrupted` shows, a run whose process died behind its span and
before its row was written; the theorem `StuckByCrash` says that nothing but a death leads there.
`OutputIsPublished` is about the attempt that succeeds; what earlier attempts of the
step published is below.

### Disagreements with the documentation

Three are runs that TLC ends with a counterexample, and findings in
`PROJECT.json` with the quoted line: terminal history is rewritten around a
cancel (`terminal`); a run interrupted between a span and `current_step` is not
recovered (`interrupted`); on PostgreSQL the first recorded migration raises and no
process comes to serve (`postgres`).

Others follow from the code the models translate and have no run of their own:

- An expiry that `decide_approval` notices closes the approval and leaves the run
  waiting (service.py:915); docs/ARCHITECTURE.md:13 says that expiry also rejects the
  run. It is why `local` has no expiry (`WaitingIsDecidable`).
- Two decisions that both read "pending" are both carried out (service.py:926;
  docs/THREAT_MODEL.md:17). `race` has two clients, and the trace survives it.
- An event can be sent more often than its 6 attempts when a send outlives its lease
  (service.py:1730; README.md:163-164).
- A change behind an error response, or behind the death of the process, may lack its
  audit row (main.py:151; docs/ARCHITECTURE.md:19). `AnsweredIsAudited` is what remains.
- A retry of the step publishes its answer from the start again, behind what the
  failed attempt had published, and a call that timed out goes on publishing beside
  the retry; docs/Handoff.md:30 says that nothing is retried behind published chunks, which
  holds within one request (`MayRepeat`).
- `_stream_request` repeats a request after any `URLError` (providers.py:374), of
  which an HTTP 401 or 400 is one; the docstring of `generate_detailed` (providers.py:155)
  says these never retry, which holds of `_request`.
- A streamed answer that ends early, without its terminator, is a success;
  providers.py:362 says truncated text is never returned as one, which holds for
  malformed events.

## Fairness

`RunEngine!Fairness`: a thread that can go on does (weak fairness of `Continue`
per thread) – a tool returns or raises, and database statements end; an idle
consumer takes from a queue that is not empty; the scheduler's loop polls every
second and survives database errors (service.py:96); a dead process is
restarted (`restart: unless-stopped` in compose.yaml) and its lifespan hook runs
through. (`Schedules` shows how an error outside that list ends the scheduler
thread; a run engine whose schedules' projects are not deleted and whose Redis
answers, which is what `live` is about, does not meet it.) No fairness for clients, the clock passing an `expires_at`, or crashes.

`Outbox!Fairness`: a worker thread goes on – its loop polls every
`AGENTOPS_OUTBOX_POLL_MS` and suppresses every exception (service.py:1619), network
calls have time-outs – and the clock passes `next_attempt_at` and the lease of
every row. The fault budget makes stalls and crashes finite; without it a
destination that always outlives the lease would keep a row busy for ever.

`Evaluation!FairSpec`: a thread of the pool or a request goes on with the job it
has, and the pool takes the next one. `Schedules!FairSpec`: the scheduler thread goes
on, and sweeps again every second as long as it lives; `DueIsFired` therefore
excepts its death. The other sweeper, clients and the clock have no fairness.

`AgentTools!FairSpec`: weak fairness of each run's own thread, which includes the calls
without a timeout – `urlopen` has one of 60 seconds, and the other tools return. The
threads of the pool have none: `EveryRunRests` holds even where each of them hangs for
ever – but for a run that a crash has left behind its own span –, because the time of a call runs from its submission. Decisions have none either;
a waiting run is at rest.

`Deployment!FairSpec`: a process that ended is started (the restart policy of
compose.yaml), and a start goes on. The fault budget makes deaths finite; without it
a process that always dies never serves. Calls, the clock and faults have no fairness.

## Proofs

The `_proofs` modules prove, for every value of the constants that
the named assumptions allow (any number of runs, steps, threads, retries, crashes;
every deployment, but for `DefaultDeployment_proofs`, whose theorems have the
condition `DefaultDeployment` as their hypothesis):

| Theorem | Statement |
|---|---|
| `RunEngine_proofs!Invariance` | `Spec => []IInv` |
| `TypeCorrect`, `CompletedTraced`, `NeverAhead`, `Governed`, `ApprovalsRest` | `[]` of the five safety invariants of every deployment |
| `OnlyApprovalOpens` | `Spec => GateOpensOnlyByApproval` |
| `Refinement` | `Spec => ImplementsFlightRecorder` |
| `DefaultDeployment_proofs!Ownership` | `Spec => []Owned`: a run has one owner at most |
| `ExecutesAlone`, `HandsOn`, `WaitsForDecision`, `NoneLost` | `[]` of the four invariants of the default deployment |
| `RewritesAroundCancel` | `Spec => RewrittenOnlyAroundCancel` |
| `Outbox_proofs!Invariance`, `TypeCorrect`, `Delivered`, `Dead`, `Alone` | `[]` of the inductive invariant and of four invariants of the outbox |
| `SettledForGood` | `Spec => SettledIsFinal` |
| `Evaluation_proofs!Invariance`, `TypeCorrect`, `CompletedWhole`, `CancelStops`, `NoOrphans` | `[]` of the inductive invariant and of four invariants of the evaluations |
| `PassedHolds` | `Spec => []PassedGateHolds` |
| `ComparisonAddsUp`, `P95RankFits` | the transitions partition the compared cases; the p95 index is within every list |
| `Schedules_proofs!Invariance`, `TypeCorrect`, `Spaced`, `NothingPassedOver` | `[]` of the inductive invariant, `FiringsAreSpaced`, and `Spec => PassedOnlyByRun` |
| `Admission_proofs!Invariance`, `TypeCorrect`, `KeyStartsOneRun`, `RacesSucceed`, `ChildrenStay`, `OneOwnerPerVersion` | `[]` of the inductive invariant and of all five invariants of admission |
| `AgentTools_proofs!Invariance`, `TypeCorrect`, `Published`, `OwnChild`, `NoHandoffLoop`, `StuckByCrash` | `[]` of the inductive invariant and of four invariants of the attempts; a run is stuck behind its span by a crash only |
| `NeverStarted` | `Spec => AbandonedNeverStarts` |
| `Deployment_proofs!Invariance`, `TypeCorrect`, `LedgerTrue`, `Audited` | `[]` of the inductive invariant and of three invariants of migrations and boundary |
| `WholeChanges`, `ExactWindow` | `Spec => AllOrNothing`, `Spec => WindowIsExact` |

Why the engine's properties are not inductive by themselves: that a run written
"completed" is fully traced depends on what the thread at label "finish" knows.
`IInv` adds that knowledge: an executor works behind completed spans from its
snapshot on (`WorksBehindTrace`), only a permitted step within the budget is
attempted (`AttemptIsGoverned`), a gate never reaches the code that records a
completed span (`GatePauses`), between the two transactions of a pause the span
waits and the approval row is free (`PauseOwnsGate`, `OnePause`), and what a
decision or the sweep has read still is an approval (`DecidesApproval`,
`SweepHasApprovals`). The argument is monotonicity: a completed span stays
completed and no run row is trusted without the trace behind it. One lemma per
action shows that it keeps `IInv`; the lemmas before them factor out what steps
have in common – a bystander thread (`Bystander`), a step that changes locals
only (`LocalStep`), a thread that lets go of its run (`Leaving`), the insert of
a span (`Inserting`) – so that each action's lemma has only its own disturbance
to treat. `Refinement` maps each action that writes spans to `Attempted`, `Halted`
or `Released` and every other one to a stutter.

`DefaultDeployment` says: the in-process pool, one process, and, if any step has a gate,
one client and no approval that expires. Runs, steps, workers, budgets, retries and
crashes are any, and so are the clients of workflows without gates. What makes
its properties inductive is who owns a run. `Owned` says that a run has at most one of: a
place in the queue, a place in recovery's backlog, a thread that submits, claims or
executes it (`OneOwner`); that a pending approval is that of the step its run waits at, so
a run somebody decides about has no executor (`GateFits`); what a thread's snapshot and the
row of its run are to each other while it has the run (`ThreadFits`); that the row, the
trace and the next span's input are one chain of values (`TraceFits`); that a queued run is
somewhere (`QueueFits`); and that nothing runs beside recovery before it submits
(`PhaseFits`). TLC finds no counterexample to `Owned` on the instance of `local`, nor with
two clients and without the gate. Each
condition is used once it matters: `~Durable` where a crash empties the queue and nothing
runs before recovery, `~Separate` where recovery requeues what is "running", no
expiry where the sweep would write both rows, one client where a decision and a cancel
would both have read "pending". `RewritesAroundCancel` then asks of each action that writes
`runs.status` whose run it may be: an executor's is "running" or was cancelled under
it, a decision's waits, and recovery and the claim look at the status first.

The outbox's `IInv` adds that an outcome in a thread's hands is justified
(`WorkerOK`) and that a row that can still be tried has attempts left
(`LiveHasAttemptsLeft`). `OneSender` is conditional on no send outliving its lease,
and inductive under that condition because a claim is a compare-and-set and a
running lease keeps the row from being claimed again.

`Evaluation!IInv` ties a job's results to its row (`JobOK`: as many results as cases
before the last look, unless it saw the cancellation) and keeps the queue of the
pool free of repetitions (`LineOK`). `Schedules!IInv` is about two pieces of state no
transaction writes together: what a sweeper knows (`SweepOK`: it did start the run
it is about to move `next_run_at` for) and where `next_run_at` is (`ScheduleOK`: an
interval behind every run but the one in flight). `Admission!IInv` says what a
request knows at each place (`RunOK`, `VersionOK`): it reaches the fallback only
because its project is gone or its key taken, and a version read as the next one
is the next one or taken.

`PassedHolds` needs besides `IInv` only that a completed row has the verdict of the gate on
its own results and limits (`Verdicts`, TLC-checked on the instance of `evaluation`); the rest
is what the arithmetic of the gate means for a list of any length. That the total cost is a
number is an induction over the fold that computes it (`SumsExist`, `SumsAreNatural`), and
that `durations[min(n - 1, int(n * 0.95))]` exists one over durations: the least one
within which the list has as many results as the rank (`P95Exists`, with
`SlowestExists`). With `P95RankFits`, no more than one result in twenty is above it.

`Migrations!MigIInv` says who may touch the database and what an open transaction knows:
the process that applies migrations is the one that holds the lock (`HolderApplies`), and
its draft has all that is committed, records an initial segment of the migrations and has
come past `at - 1` of them (`DraftIsTrue`). `AllOrNothing` follows because only `Commit` writes the
database, behind the last migration of a release. `Deployment!IInv` adds that nothing of a
call is in the audit log before its audit (`AuditIsLast`), and that a bucket is the end of the
history with everything in front of it outside the window (`BucketIsRecent`). The
history is sorted because the clock does not go back; so what `InWindow` pops is exactly what
left the window, and the calls counted are exactly the recent ones.

`AgentTools!IInv` numbers attempts without a gap, at most one more than the retries for every
life of the run (`AttemptsAreCounted`), gives rows the first numbers and smaller ones to their
parents (`RowsAreFirst`), and relates a thread's place to its step (`PlaceFitsStep`), the queue
of the pool to the calls that somebody awaits (`QueueIsAwaited`) and what a call has published
to the place in its response (`PiecesInOrder`). Between the span and the run's row it keeps what
will be handed on (`OutputIsRecorded`), and a step that is at work again behind its own span
tells of a crash (`SpanIsWrittenOnce`). A latest attempt has no earlier call running
under its own name, so a retry cannot write into the answer of the one before it; that is what
`OutputIsPublished` needs. `HandoffsDoNotLoop` speaks of ways of any length, made of any parents, whoever wrote them: the runs of a way
are ancestors of its last one, since otherwise there were a last place at which the way
leaves the ancestry, and the ancestry is closed. Such arguments from a least or last place
take the place of an induction, here, in `InWindow` and in `Evaluation_proofs` (`SmallestIn`,
from the library's well-foundedness of `<` on the naturals). The library's induction
theorems have an operator as a parameter, which the provers cannot instantiate; an
induction over a set, of numbers or of subsets, they can (`SetInduction`,
`SubsetInduction`).

Some invariants are proved and not in a run, since the run would only repeat
them on a small instance: `TypeOK` of the first five modules, the inductive invariants,
`ApprovalsRest`, `NoOrphans`, `ComparisonAddsUp` and `ChildrenStay`. Every invariant and every
action property of a passing run is proved. Model-checked only: the liveness properties
(`QueuedIsTakenOn`, `RunningComesToRest`, `CompletionIsAnnounced`,
`EveryEventSettles`, `JobsSettle`, `DueIsFired`, `EveryRunRests`, `EveryProcessServes`), since fairness
and ENABLED are out of the prover's reach. The models contain no recursive
definition; `Ancestry` is a least closed set for that reason.

## Plan

Done: the modules, runs and theorems above. What is left is breadth.

Not modelled yet, and worth it: `create_project` and `import_project` with their partial
failures; the deletion of a project in `RunEngine`, with what it does to a running
executor; the judge's `_request`.

Not modelled, because there is no protocol in it: secrets (an upsert and a library's
cipher), statistics, alerts and the OTLP export (queries), templates and schemas (data and
input validation), the demo (a sequence of the operations above), the dashboard (browser
code) and the backup scripts (shell).
