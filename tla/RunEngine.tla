------------------------------ MODULE RunEngine ------------------------------
(***************************************************************************)
(* The run engine of the AgentOps control plane: the threads that start,   *)
(* queue, execute, pause, decide, cancel, expire and recover workflow runs *)
(* against one database (service.py, queue.py).                            *)
(*                                                                         *)
(* Grain of atomicity.  A step of a thread is one database transaction or  *)
(* one stand-alone SELECT.  A block that reads and later writes on one     *)
(* connection is TWO steps: SQLite opens the write transaction at the      *)
(* first UPDATE, and PostgreSQL runs at READ COMMITTED, so another thread  *)
(* may commit between the SELECT and the UPDATE.                           *)
(*                                                                         *)
(* Data.  A payload is a token: Input is the run's input, Out(i) what step *)
(* i produces and Edited(i) what an approver puts in place of the value    *)
(* waiting at step i.                                                      *)
(*                                                                         *)
(* Mutants.  A definition whose comment starts with "Mutant" is not part   *)
(* of the specification: it is the definition below it with a plausible    *)
(* bug, kept to show that the properties can fail.                         *)
(***************************************************************************)
EXTENDS Integers, Sequences

CONSTANTS
    Runs,        \* the runs
    NoRun,       \* what a thread without work works on
    Workers,     \* threads that take runs from the queue
    Requests,    \* threads that serve HTTP requests
    N,           \* number of steps of their workflows
    Approvals,   \* the <<run, step>> whose tool is "approval"
    Expiring,    \* the approvals with expires_in_seconds > 0
    Denied,      \* the <<run, step>> whose allowed_roles exclude the run's actor_role
    Budget,      \* Budget[r]: max_steps of run r
    Retries,     \* retries of every step (0..5 in the code)
    Durable,     \* TRUE: the Redis queue; FALSE: the in-process pool
    Separate,    \* TRUE: web, worker and scheduler are processes of their own
    MaxCrashes   \* bound: how often a process may die in a behaviour

Steps   == 0 .. N - 1
Threads == Workers \cup Requests

ASSUME SizeAssumption == N \in Nat \ {0} /\ Budget \in [Runs -> Nat \ {0}] /\ Retries \in Nat
ASSUME StepAssumption == Approvals \subseteq Runs \X Steps /\ Expiring \subseteq Approvals
                         /\ Denied \subseteq Runs \X Steps
ASSUME ThreadAssumption == NoRun \notin Runs /\ Workers \cap Requests = {}
\* A worker process of its own is fed through Redis only.
ASSUME DeploymentAssumption == /\ Durable \in BOOLEAN /\ Separate \in BOOLEAN
                               /\ Separate => Durable
                               /\ MaxCrashes \in Nat

VARIABLES
    \* --- the tables runs, spans, approvals and outbox_events ---
    status,      \* runs.status; "none" before the INSERT
    step,        \* runs.current_step
    output,      \* runs.output
    span,        \* spans.status of <<run, step>>; "none" when there is no row
    spanIn,      \* spans.input
    spanOut,     \* spans.output
    approval,    \* approvals.status; "none" when there is no row
    overdue,     \* the <<run, step>> whose expires_at has passed
    events,      \* the events of a run that were put into the outbox
    \* --- the queue and the life of the process that owns it ---
    queue,       \* run ids waiting, oldest first
    phase,       \* where the worker process is in its start-up
    backlog,     \* run ids recovery still has to submit
    crashes,     \* number of process deaths so far
    \* --- the scheduler's expiry sweep ---
    sweep,       \* "idle", "update" or "notify"
    lapsing,     \* the approvals the sweep has read
    \* --- local state of the threads ---
    pc,          \* where a thread is
    job,         \* the run it works on
    idx,         \* the step it works on
    val,         \* the value that flows into that step
    tries        \* failed attempts at that step

runRow      == <<status, step, output>>
spanRow     == <<span, spanIn, spanOut>>
approvalRow == <<approval, overdue>>
procVars    == <<phase, backlog, crashes>>
sweepVars   == <<sweep, lapsing>>
locals      == <<job, idx, val, tries>>
vars == <<runRow, spanRow, approvalRow, events, queue, procVars, sweepVars, pc, locals>>

(***************************************************************************)
(* Values and labels                                                       *)
(***************************************************************************)
Input     == 0
Out(i)    == i + 1
Edited(i) == N + 1 + i
Values    == 0 .. 2 * N

Terminal  == {"completed", "failed", "rejected", "cancelled"}
RunStatus == Terminal \cup {"none", "queued", "running", "waiting_approval"}
SpanStatus     == {"none", "waiting", "completed", "failed"}
ApprovalStatus == {"none", "pending", "approved", "rejected", "expired"}

\* Events a thread dispatches; a thread that is about to dispatch one has the
\* event as its pc.  The sweep dispatches "approval.expired".
ThreadEvents == {"run.completed", "run.failed", "run.cancelled", "run.rejected",
                 "approval.pending", "approval.escalated"}
Events       == ThreadEvents \cup {"approval.expired"}

\* Labels at which a thread is inside _execute and at a step of the run.
AtStep    == {"check", "over_budget", "denied", "pause", "pause_row", "invoke",
              "recheck_ok", "recheck_error", "record_ok", "record_error",
              "mark_failed", "advance"}
Executing == AtStep \cup {"read", "mark", "finish"}
\* Labels of a request that has read a pending approval and will write it.
Deciding  == {"approve", "edit", "reject", "lapse"}
Labels    == Executing \cup Deciding \cup ThreadEvents
             \cup {"idle", "dead", "submit", "claim", "cancel"}

Phases == {"down", "select", "update", "resubmit", "up"}

TypeOK ==
    /\ status \in [Runs -> RunStatus]
    /\ step \in [Runs -> 0 .. N]
    /\ output \in [Runs -> Values]
    /\ span \in [Runs -> [Steps -> SpanStatus]]
    /\ spanIn \in [Runs -> [Steps -> Values]]
    /\ spanOut \in [Runs -> [Steps -> Values]]
    /\ approval \in [Runs -> [Steps -> ApprovalStatus]]
    /\ overdue \subseteq Runs \X Steps
    /\ events \in [Runs -> SUBSET Events]
    /\ queue \in Seq(Runs)
    /\ phase \in Phases
    /\ backlog \subseteq Runs
    /\ crashes \in 0 .. MaxCrashes
    /\ sweep \in {"idle", "update", "notify"}
    /\ lapsing \subseteq Runs \X Steps
    /\ pc \in [Threads -> Labels]
    /\ job \in [Threads -> Runs \cup {NoRun}]
    /\ idx \in [Threads -> 0 .. N]
    /\ val \in [Threads -> Values]
    /\ tries \in [Threads -> 0 .. Retries]

Init ==
    /\ status = [r \in Runs |-> "none"]
    /\ step = [r \in Runs |-> 0]
    /\ output = [r \in Runs |-> Input]
    /\ span = [r \in Runs |-> [i \in Steps |-> "none"]]
    /\ spanIn = [r \in Runs |-> [i \in Steps |-> Input]]
    /\ spanOut = [r \in Runs |-> [i \in Steps |-> Input]]
    /\ approval = [r \in Runs |-> [i \in Steps |-> "none"]]
    /\ overdue = {}
    /\ events = [r \in Runs |-> {}]
    /\ queue = <<>>
    /\ phase = "down"
    /\ backlog = {}
    /\ crashes = 0
    /\ sweep = "idle"
    /\ lapsing = {}
    /\ pc = [t \in Threads |-> "idle"]
    /\ job = [t \in Threads |-> NoRun]
    /\ idx = [t \in Threads |-> 0]
    /\ val = [t \in Threads |-> Input]
    /\ tries = [t \in Threads |-> 0]

(***************************************************************************)
(* Control of a thread                                                     *)
(***************************************************************************)
Goto(t, label) == pc' = [pc EXCEPT ![t] = label]

\* The handler returns; its locals are gone.
Leave(t, label) ==
    /\ Goto(t, label)
    /\ job' = [job EXCEPT ![t] = NoRun]
    /\ idx' = [idx EXCEPT ![t] = 0]
    /\ val' = [val EXCEPT ![t] = Input]
    /\ tries' = [tries EXCEPT ![t] = 0]

Return(t) == Leave(t, "idle")

\* An exception leaves _execute.  A request answers 500 and the local pool drops
\* it, but _consume catches RedisError and ValueError only: the thread ends.
Escape(t) == Leave(t, IF Durable /\ t \in Workers THEN "dead" ELSE "idle")
\* Mutant: the loop ends one step early.
LoopHeadOneShort(i) == IF i < N - 1 THEN "check" ELSE "finish"

\* The next iteration of the loop over the steps, or its end.
LoopHead(i) == IF i < N THEN "check" ELSE "finish"

\* Requests and the sweep are served once the lifespan hook is through, or by
\* processes that do not depend on the worker's start-up.
Serving == Separate \/ phase = "up"

Quiet == UNCHANGED <<queue, procVars, sweepVars>>

(***************************************************************************)
(* start_run, RunQueue.submit and RunQueue._consume                        *)
(***************************************************************************)
\* POST /api/workflows/{id}/runs: the row is inserted as "running" and the
\* request thread executes it.  (A replay, a handoff and an evaluation case
\* start their run the same way.)
StartSync(t, r) ==
    /\ Serving /\ pc[t] = "idle" /\ t \in Requests
    /\ status[r] = "none"
    /\ status' = [status EXCEPT ![r] = "running"]
    /\ job' = [job EXCEPT ![t] = r]
    /\ Goto(t, "read")
    /\ UNCHANGED <<step, output, spanRow, approvalRow, events, idx, val, tries>>
    /\ Quiet

\* The same with queued=True: the row is committed before it is submitted.
StartQueued(t, r) ==
    /\ Serving /\ pc[t] = "idle" /\ t \in Requests
    /\ status[r] = "none"
    /\ status' = [status EXCEPT ![r] = "queued"]
    /\ job' = [job EXCEPT ![t] = r]
    /\ Goto(t, "submit")
    /\ UNCHANGED <<step, output, spanRow, approvalRow, events, idx, val, tries>>
    /\ Quiet

Submit(t) ==
    /\ pc[t] = "submit"
    /\ queue' = Append(queue, job[t])
    /\ Return(t)
    /\ UNCHANGED <<runRow, spanRow, approvalRow, events, procVars, sweepVars>>

\* A consumer takes the oldest run id; the Redis consumers run from
\* RunQueue.__init__ on, before recovery.
Pop(t) ==
    /\ pc[t] = "idle" /\ t \in Workers
    /\ phase # "down" /\ queue # <<>>
    /\ queue' = Tail(queue)
    /\ job' = [job EXCEPT ![t] = Head(queue)]
    /\ Goto(t, "claim")
    /\ UNCHANGED <<runRow, spanRow, approvalRow, events, procVars, sweepVars,
                   idx, val, tries>>

\* _execute_queued: compare and set "queued" -> "running".
Claim(t) ==
    /\ pc[t] = "claim"
    /\ \/ /\ status[job[t]] = "queued"
          /\ status' = [status EXCEPT ![job[t]] = "running"]
          /\ Goto(t, "read")
          /\ UNCHANGED locals
       \/ /\ status[job[t]] # "queued"
          /\ Return(t)
          /\ UNCHANGED status
    /\ UNCHANGED <<step, output, spanRow, approvalRow, events>>
    /\ Quiet

(***************************************************************************)
(* _execute                                                                *)
(***************************************************************************)
\* Mutant: a resumed run starts from its input again.
ResumedAfresh(r) == Input

\* get_run: what _execute looks for whenever it reads the run.
Cancelled(r) == status[r] = "cancelled"

\* The value a run is resumed with.
Resumed(r) == IF step[r] = 0 THEN Input ELSE output[r]

\* The snapshot of the run row every later decision of _execute rests on.
Execute(t) ==
    LET r == job[t] IN
    /\ pc[t] = "read"
    /\ \/ Cancelled(r) /\ Return(t)
       \/ /\ ~Cancelled(r)
          /\ idx' = [idx EXCEPT ![t] = step[r]]
          /\ val' = [val EXCEPT ![t] = Resumed(r)]
          /\ Goto(t, "mark")
          /\ UNCHANGED <<job, tries>>
    /\ UNCHANGED <<runRow, spanRow, approvalRow, events>>
    /\ Quiet

\* UPDATE runs SET status='running': whatever the status is by now.
Mark(t) ==
    /\ pc[t] = "mark"
    /\ status' = [status EXCEPT ![job[t]] = "running"]
    /\ Goto(t, LoopHead(idx[t]))
    /\ UNCHANGED <<step, output, spanRow, approvalRow, events, locals>>
    /\ Quiet

\* Mutant: max_steps is not enforced.
FateWithoutBudget(r, i) == IF <<r, i>> \in Denied THEN "denied"
                           ELSE IF <<r, i>> \in Approvals THEN "pause"
                           ELSE "invoke"

\* Out of budget, not permitted, an approval gate, or a tool to invoke.
Fate(r, i) == IF i >= Budget[r] THEN "over_budget"
              ELSE IF <<r, i>> \in Denied THEN "denied"
              ELSE IF <<r, i>> \in Approvals THEN "pause"
              ELSE "invoke"

\* The head of the loop: a cancelled run is dropped, any other meets its fate.
Check(t) ==
    /\ pc[t] = "check"
    /\ \/ Cancelled(job[t]) /\ Return(t)
       \/ /\ ~Cancelled(job[t])
          /\ Goto(t, Fate(job[t], idx[t]))
          /\ UNCHANGED locals
    /\ UNCHANGED <<runRow, spanRow, approvalRow, events>>
    /\ Quiet

\* Mutant: the refusal returns without failing the run.
RefuseSilently(t) ==
    /\ pc[t] \in {"over_budget", "denied"}
    /\ Return(t)
    /\ UNCHANGED <<runRow, spanRow, approvalRow, events>>
    /\ Quiet

\* Both refusals fail the run and return: no span and no "run.failed".
Refuse(t) ==
    /\ pc[t] \in {"over_budget", "denied"}
    /\ status' = [status EXCEPT ![job[t]] = "failed"]
    /\ Return(t)
    /\ UNCHANGED <<step, output, spanRow, approvalRow, events>>
    /\ Quiet

\* The tool or the model comes to a result within its timeout.
ToolReturns(t) == Goto(t, "recheck_ok") /\ UNCHANGED tries

\* It raises or does not answer in time: a retry, or the last error.
ToolRaises(t) ==
    \/ tries[t] < Retries /\ tries' = [tries EXCEPT ![t] = @ + 1] /\ UNCHANGED pc
    \/ tries[t] = Retries /\ Goto(t, "recheck_error") /\ UNCHANGED tries

\* One attempt at the step.
Invoke(t) ==
    /\ pc[t] = "invoke"
    /\ ToolReturns(t) \/ ToolRaises(t)
    /\ UNCHANGED <<runRow, spanRow, approvalRow, events, job, idx, val>>
    /\ Quiet

\* After the attempts the run is read again: a cancelled run records nothing.
Recheck(t) ==
    /\ pc[t] \in {"recheck_ok", "recheck_error"}
    /\ \/ Cancelled(job[t]) /\ Return(t)
       \/ /\ ~Cancelled(job[t])
          /\ Goto(t, IF pc[t] = "recheck_ok" THEN "record_ok" ELSE "record_error")
          /\ UNCHANGED locals
    /\ UNCHANGED <<runRow, spanRow, approvalRow, events>>
    /\ Quiet

\* Mutant: INSERT OR REPLACE.
InsertSpanOrReplace(r, i, state, in, out) ==
    /\ span' = [span EXCEPT ![r][i] = state]
    /\ spanIn' = [spanIn EXCEPT ![r][i] = in]
    /\ spanOut' = [spanOut EXCEPT ![r][i] = out]

\* _record_span: INSERT under UNIQUE(run_id, step_index).
InsertSpan(r, i, state, in, out) ==
    /\ span[r][i] = "none"
    /\ span' = [span EXCEPT ![r][i] = state]
    /\ spanIn' = [spanIn EXCEPT ![r][i] = in]
    /\ spanOut' = [spanOut EXCEPT ![r][i] = out]

\* The span of the finished attempt; a duplicate raises out of _execute.
RecordSpan(t) ==
    LET r == job[t]
        i == idx[t] IN
    /\ \/ /\ pc[t] = "record_ok"
          /\ InsertSpan(r, i, "completed", val[t], Out(i))
          /\ Goto(t, "advance")
          /\ UNCHANGED locals
       \/ /\ pc[t] = "record_error"
          /\ InsertSpan(r, i, "failed", val[t], Input)
          /\ Goto(t, "mark_failed")
          /\ UNCHANGED locals
       \/ /\ pc[t] \in {"record_ok", "record_error"}
          /\ span[r][i] # "none"
          /\ Escape(t)
          /\ UNCHANGED spanRow
    /\ UNCHANGED <<runRow, approvalRow, events>>
    /\ Quiet

\* Mutant: current_step is moved past the failed step.
MarkFailedPast(t) ==
    /\ pc[t] = "mark_failed"
    /\ status' = [status EXCEPT ![job[t]] = "failed"]
    /\ step' = [step EXCEPT ![job[t]] = idx[t] + 1]
    /\ Goto(t, "run.failed")
    /\ UNCHANGED <<output, spanRow, approvalRow, events, locals>>
    /\ Quiet

MarkFailed(t) ==
    /\ pc[t] = "mark_failed"
    /\ status' = [status EXCEPT ![job[t]] = "failed"]
    /\ step' = [step EXCEPT ![job[t]] = idx[t]]
    /\ Goto(t, "run.failed")
    /\ UNCHANGED <<output, spanRow, approvalRow, events, locals>>
    /\ Quiet

Advance(t) ==
    LET next == idx[t] + 1 IN
    /\ pc[t] = "advance"
    /\ output' = [output EXCEPT ![job[t]] = Out(idx[t])]
    /\ step' = [step EXCEPT ![job[t]] = next]
    /\ idx' = [idx EXCEPT ![t] = next]
    /\ val' = [val EXCEPT ![t] = Out(idx[t])]
    /\ tries' = [tries EXCEPT ![t] = 0]
    /\ Goto(t, LoopHead(next))
    /\ UNCHANGED <<status, spanRow, approvalRow, events, job>>
    /\ Quiet

\* Mutant: a completed run is not announced.
FinishSilently(t) ==
    /\ pc[t] = "finish"
    /\ status' = [status EXCEPT ![job[t]] = "completed"]
    /\ output' = [output EXCEPT ![job[t]] = val[t]]
    /\ Return(t)
    /\ UNCHANGED <<step, spanRow, approvalRow, events>>
    /\ Quiet

Finish(t) ==
    /\ pc[t] = "finish"
    /\ status' = [status EXCEPT ![job[t]] = "completed"]
    /\ output' = [output EXCEPT ![job[t]] = val[t]]
    /\ Goto(t, "run.completed")
    /\ UNCHANGED <<step, spanRow, approvalRow, events, locals>>
    /\ Quiet

\* _dispatch_webhooks: INSERT OR IGNORE under the key event:run:destination, in
\* a transaction after the one that made the event true.
Notify(t) ==
    /\ pc[t] \in ThreadEvents
    /\ events' = [events EXCEPT ![job[t]] = @ \cup {pc[t]}]
    /\ Return(t)
    /\ UNCHANGED <<runRow, spanRow, approvalRow>>
    /\ Quiet

(***************************************************************************)
(* _pause_for_approval                                                     *)
(***************************************************************************)
\* Mutant: the gate is paused at with a completed span.
PauseCompleted(t) ==
    /\ pc[t] = "pause"
    /\ InsertSpan(job[t], idx[t], "completed", val[t], val[t])
    /\ Goto(t, "pause_row")
    /\ UNCHANGED <<runRow, approvalRow, events, locals>>
    /\ Quiet

\* The waiting span.  It is recorded inside the try of the attempts: when the
\* row exists the IntegrityError is the step's error and is retried.
Pause(t) ==
    LET r == job[t]
        i == idx[t] IN
    /\ pc[t] = "pause"
    /\ \/ /\ InsertSpan(r, i, "waiting", val[t], val[t])
          /\ Goto(t, "pause_row")
          /\ UNCHANGED tries
       \/ /\ span[r][i] # "none" /\ tries[t] < Retries
          /\ tries' = [tries EXCEPT ![t] = @ + 1]
          /\ UNCHANGED <<pc, spanRow>>
       \/ /\ span[r][i] # "none" /\ tries[t] = Retries
          /\ Goto(t, "recheck_error")
          /\ UNCHANGED <<tries, spanRow>>
    /\ UNCHANGED <<runRow, approvalRow, events, job, idx, val>>
    /\ Quiet

\* The approval and the run row, in a second transaction.  The UNIQUE of this
\* INSERT is never hit: the thread inserted the waiting span itself (the
\* invariant PauseOwnsGate).
PauseRow(t) ==
    LET r == job[t]
        i == idx[t] IN
    /\ pc[t] = "pause_row"
    /\ approval' = [approval EXCEPT ![r][i] = "pending"]
    /\ status' = [status EXCEPT ![r] = "waiting_approval"]
    /\ output' = [output EXCEPT ![r] = val[t]]
    /\ step' = [step EXCEPT ![r] = i]
    /\ Goto(t, "approval.pending")
    /\ UNCHANGED <<overdue, spanRow, events, locals>>
    /\ Quiet

(***************************************************************************)
(* cancel_run                                                              *)
(***************************************************************************)
\* A terminal run is refused (409) on what this read returns.
CancelRead(t, r) ==
    /\ Serving /\ pc[t] = "idle" /\ t \in Requests
    /\ status[r] \notin Terminal \cup {"none"}
    /\ job' = [job EXCEPT ![t] = r]
    /\ Goto(t, "cancel")
    /\ UNCHANGED <<runRow, spanRow, approvalRow, events, idx, val, tries>>
    /\ Quiet

\* Mutant: the approvals are rejected, the run is not cancelled.
CancelWriteApprovals(t) ==
    /\ pc[t] = "cancel"
    /\ approval' = [approval EXCEPT ![job[t]] =
                      [i \in Steps |-> IF @[i] = "pending" THEN "rejected" ELSE @[i]]]
    /\ Goto(t, "run.cancelled")
    /\ UNCHANGED <<runRow, spanRow, overdue, events, locals>>
    /\ Quiet

CancelWrite(t) ==
    LET r == job[t] IN
    /\ pc[t] = "cancel"
    /\ status' = [status EXCEPT ![r] = "cancelled"]
    /\ approval' = [approval EXCEPT ![r] =
                      [i \in Steps |-> IF @[i] = "pending" THEN "rejected" ELSE @[i]]]
    /\ Goto(t, "run.cancelled")
    /\ UNCHANGED <<step, output, spanRow, overdue, events, locals>>
    /\ Quiet

(***************************************************************************)
(* decide_approval and escalate_approval                                   *)
(***************************************************************************)
\* Mutant: an approval can be decided more than once.
DecideReadAgain(t, r, i, verdict) ==
    /\ Serving /\ pc[t] = "idle" /\ t \in Requests
    /\ approval[r][i] # "none"
    /\ job' = [job EXCEPT ![t] = r]
    /\ idx' = [idx EXCEPT ![t] = i]
    /\ Goto(t, verdict)
    /\ UNCHANGED <<runRow, spanRow, approvalRow, events, val, tries>>
    /\ Quiet

\* The read: a pending approval, and whether its expires_at has passed.  (The
\* role policy only refuses.)
DecideRead(t, r, i, verdict) ==
    /\ Serving /\ pc[t] = "idle" /\ t \in Requests
    /\ approval[r][i] = "pending"
    /\ job' = [job EXCEPT ![t] = r]
    /\ idx' = [idx EXCEPT ![t] = i]
    /\ Goto(t, IF <<r, i>> \in overdue THEN "lapse" ELSE verdict)
    /\ UNCHANGED <<runRow, spanRow, approvalRow, events, val, tries>>
    /\ Quiet

\* An overdue approval is written "expired" if it is still pending, and the
\* request is refused (409).  The run row is left as it is.
Lapse(t) ==
    LET r == job[t]
        i == idx[t] IN
    /\ pc[t] = "lapse"
    /\ \/ /\ approval[r][i] = "pending"
          /\ approval' = [approval EXCEPT ![r][i] = "expired"]
       \/ /\ approval[r][i] # "pending"
          /\ UNCHANGED approval
    /\ Return(t)
    /\ UNCHANGED <<runRow, spanRow, overdue, events>>
    /\ Quiet

\* "rejected": both rows are written by id, whatever they hold by now.
Reject(t) ==
    LET r == job[t] IN
    /\ pc[t] = "reject"
    /\ approval' = [approval EXCEPT ![r][idx[t]] = "rejected"]
    /\ status' = [status EXCEPT ![r] = "rejected"]
    /\ Goto(t, "run.rejected")
    /\ UNCHANGED <<step, output, spanRow, overdue, events, locals>>
    /\ Quiet

\* "approved", with or without an edited value: the gate's span is completed,
\* the run is put behind the gate, and the request thread executes the rest.
Approve(t) ==
    LET r == job[t]
        i == idx[t] IN
    /\ pc[t] \in {"approve", "edit"}
    /\ approval' = [approval EXCEPT ![r][i] = "approved"]
    /\ \/ /\ pc[t] = "edit"
          /\ output' = [output EXCEPT ![r] = Edited(i)]
          /\ spanOut' = [spanOut EXCEPT ![r][i] = Edited(i)]
       \/ /\ pc[t] = "approve"
          /\ UNCHANGED <<output, spanOut>>
    /\ span' = [span EXCEPT ![r][i] = "completed"]
    /\ status' = [status EXCEPT ![r] = "running"]
    /\ step' = [step EXCEPT ![r] = i + 1]
    /\ Goto(t, "read")
    /\ UNCHANGED <<spanIn, overdue, events, locals>>
    /\ Quiet

\* The level and the note of a pending approval change, nothing else does.
Escalate(t, r, i) ==
    /\ Serving /\ pc[t] = "idle" /\ t \in Requests
    /\ approval[r][i] = "pending"
    /\ "approval.escalated" \notin events[r]    \* bound: one escalation per run
    /\ job' = [job EXCEPT ![t] = r]
    /\ Goto(t, "approval.escalated")
    /\ UNCHANGED <<runRow, spanRow, approvalRow, events, idx, val, tries>>
    /\ Quiet

(***************************************************************************)
(* expire_approvals, from the scheduler's loop                             *)
(***************************************************************************)
\* The clock passes expires_at.
Overdue(r, i) ==
    /\ <<r, i>> \in Expiring /\ approval[r][i] = "pending" /\ <<r, i>> \notin overdue
    /\ overdue' = overdue \cup {<<r, i>>}
    /\ UNCHANGED <<runRow, spanRow, approval, events, queue, procVars, sweepVars,
                   pc, locals>>

SweepSelect ==
    /\ Serving /\ sweep = "idle"
    /\ lapsing' = {a \in overdue : approval[a[1]][a[2]] = "pending"}
    /\ lapsing' # {}
    /\ sweep' = "update"
    /\ UNCHANGED <<runRow, spanRow, approvalRow, events, queue, procVars, pc, locals>>

\* One transaction; both rows are written by id.
SweepUpdate ==
    /\ sweep = "update"
    /\ approval' = [r \in Runs |-> [i \in Steps |->
                      IF <<r, i>> \in lapsing THEN "expired" ELSE approval[r][i]]]
    /\ status' = [r \in Runs |->
                    IF \E i \in Steps : <<r, i>> \in lapsing THEN "rejected" ELSE status[r]]
    /\ sweep' = "notify"
    /\ UNCHANGED <<step, output, spanRow, overdue, events, queue, procVars, lapsing,
                   pc, locals>>

SweepNotify ==
    /\ sweep = "notify"
    /\ \E a \in lapsing :
         /\ events' = [events EXCEPT ![a[1]] = @ \cup {"approval.expired"}]
         /\ lapsing' = lapsing \ {a}
    /\ sweep' = IF lapsing' = {} THEN "idle" ELSE "notify"
    /\ UNCHANGED <<runRow, spanRow, approvalRow, queue, procVars, pc, locals>>

(***************************************************************************)
(* Crash, restart and recover_incomplete_runs                              *)
(***************************************************************************)
\* The processes of a deployment (AGENTOPS_PROCESS_MODE) and what each runs.
Processes == IF Separate THEN {"web", "worker", "scheduler"} ELSE {"all"}

Hosted(p) == CASE p = "web"       -> Requests
               [] p = "worker"    -> Workers
               [] p = "scheduler" -> {}
               [] p = "all"       -> Threads

HostsQueue(p) == p \in {"worker", "all"}
HostsSweep(p) == p \in {"scheduler", "all"}

\* A process dies between two steps: the locals of its threads and its
\* in-process queue are lost, committed rows and the Redis list are not.  The
\* web and scheduler processes have nothing to recover and are up at once.
Crash(p) ==
    /\ crashes < MaxCrashes
    /\ HostsQueue(p) => phase # "down"
    /\ crashes' = crashes + 1
    /\ pc' = [t \in Threads |-> IF t \in Hosted(p) THEN "idle" ELSE pc[t]]
    /\ job' = [t \in Threads |-> IF t \in Hosted(p) THEN NoRun ELSE job[t]]
    /\ idx' = [t \in Threads |-> IF t \in Hosted(p) THEN 0 ELSE idx[t]]
    /\ val' = [t \in Threads |-> IF t \in Hosted(p) THEN Input ELSE val[t]]
    /\ tries' = [t \in Threads |-> IF t \in Hosted(p) THEN 0 ELSE tries[t]]
    /\ queue' = IF Durable THEN queue ELSE <<>>
    /\ phase' = IF HostsQueue(p) THEN "down" ELSE phase
    /\ backlog' = IF HostsQueue(p) THEN {} ELSE backlog
    /\ sweep' = IF HostsSweep(p) THEN "idle" ELSE sweep
    /\ lapsing' = IF HostsSweep(p) THEN {} ELSE lapsing
    /\ UNCHANGED <<runRow, spanRow, approvalRow, events>>

\* The lifespan hook builds the service; with Redis the consumers are running.
Boot ==
    /\ phase = "down"
    /\ phase' = "select"
    /\ UNCHANGED <<runRow, spanRow, approvalRow, events, queue, backlog, crashes,
                   sweepVars, pc, locals>>
\* Mutant: only interrupted runs are recovered, queued ones are not.
IncompleteRunning == {r \in Runs : status[r] = "running"}

\* What the SELECT of recovery returns.
Incomplete == {r \in Runs : status[r] \in {"queued", "running"}}

RecoverSelect ==
    /\ phase = "select"
    /\ backlog' = Incomplete
    /\ phase' = "update"
    /\ UNCHANGED <<runRow, spanRow, approvalRow, events, queue, crashes, sweepVars,
                   pc, locals>>
\* Mutant: failed runs are requeued as well.
RecoverUpdateFailed ==
    /\ phase = "update"
    /\ status' = [r \in Runs |->
                    IF status[r] \in {"running", "failed"} THEN "queued" ELSE status[r]]
    /\ phase' = "resubmit"
    /\ UNCHANGED <<step, output, spanRow, approvalRow, events, queue, backlog, crashes,
                   sweepVars, pc, locals>>

RecoverUpdate ==
    /\ phase = "update"
    /\ status' = [r \in Runs |-> IF status[r] = "running" THEN "queued" ELSE status[r]]
    /\ phase' = "resubmit"
    /\ UNCHANGED <<step, output, spanRow, approvalRow, events, queue, backlog, crashes,
                   sweepVars, pc, locals>>

Resubmit ==
    /\ phase = "resubmit"
    /\ \E r \in backlog :
         /\ queue' = Append(queue, r)
         /\ backlog' = backlog \ {r}
    /\ UNCHANGED <<runRow, spanRow, approvalRow, events, phase, crashes, sweepVars,
                   pc, locals>>
\* Mutant: recovery submits some of the runs only.
ServeEarly ==
    /\ phase = "resubmit"
    /\ phase' = "up"
    /\ UNCHANGED <<runRow, spanRow, approvalRow, events, queue, backlog, crashes,
                   sweepVars, pc, locals>>

Serve ==
    /\ phase = "resubmit" /\ backlog = {}
    /\ phase' = "up"
    /\ UNCHANGED <<runRow, spanRow, approvalRow, events, queue, backlog, crashes,
                   sweepVars, pc, locals>>

(***************************************************************************)
(* Specification                                                           *)
(***************************************************************************)
\* A thread that has work goes on with it.
Continue(t) ==
    \/ Submit(t) \/ Claim(t) \/ Execute(t) \/ Mark(t) \/ Check(t) \/ Refuse(t)
    \/ Invoke(t) \/ Recheck(t) \/ RecordSpan(t) \/ MarkFailed(t) \/ Advance(t)
    \/ Finish(t) \/ Notify(t) \/ Pause(t) \/ PauseRow(t) \/ CancelWrite(t)
    \/ Lapse(t) \/ Reject(t) \/ Approve(t)

\* A client's request arrives.
Arrive(t) ==
    \E r \in Runs :
      \/ StartSync(t, r) \/ StartQueued(t, r) \/ CancelRead(t, r)
      \/ \E i \in Steps :
           \/ Escalate(t, r, i)
           \/ \E verdict \in {"approve", "edit", "reject"} : DecideRead(t, r, i, verdict)

Expire  == SweepSelect \/ SweepUpdate \/ SweepNotify
Recover == Boot \/ RecoverSelect \/ RecoverUpdate \/ Resubmit \/ Serve

Next ==
    \/ \E t \in Threads : Continue(t) \/ Pop(t) \/ Arrive(t)
    \/ \E r \in Runs, i \in Steps : Overdue(r, i)
    \/ Expire
    \/ Recover
    \/ \E p \in Processes : Crash(p)

Spec == Init /\ [][Next]_vars

\* A thread that can go on does (a tool returns or times out), an idle consumer
\* polls the queue, the scheduler polls every second and a dead process is
\* restarted (compose.yaml, restart: unless-stopped).  Nothing obliges a client
\* to call, the clock to pass an expires_at or a process to die.
Fairness ==
    /\ \A t \in Threads : WF_vars(Continue(t))
    /\ \A t \in Workers : WF_vars(Pop(t))
    /\ WF_vars(Expire)
    /\ WF_vars(Recover)

FairSpec == Spec /\ Fairness

(***************************************************************************)
(* Properties that hold in every deployment                                *)
(***************************************************************************)
\* _execute: a run that is completed has a completed span for every step, even
\* when a second executor, a cancellation, a stale decision or a restart wrote
\* the run row in between.
CompletedIsFullyTraced ==
    \A r \in Runs : status[r] = "completed" => \A i \in Steps : span[r][i] = "completed"

\* current_step never runs ahead of the trace: whatever resumes the run, by
\* approval or by recovery, resumes it behind recorded spans only.
ResumesBehindTrace ==
    \A r \in Runs : \A i \in 0 .. step[r] - 1 : span[r][i] = "completed"

\* max_steps and allowed_roles govern a resumed run as they govern a fresh one:
\* no step beyond the budget and no denied step ever leaves a span.
GovernedSteps ==
    \A r \in Runs, i \in Steps : span[r][i] # "none" => i < Budget[r] /\ <<r, i>> \notin Denied

\* _pause_for_approval: an approval row belongs to a span that waits or that an
\* approval completed, and every step before the gate is completed.
ApprovalHasSpan ==
    \A r \in Runs, i \in Steps :
      approval[r][i] # "none" => /\ <<r, i>> \in Approvals
                                 /\ span[r][i] \in {"waiting", "completed"}
                                 /\ \A j \in 0 .. i - 1 : span[r][j] = "completed"

\* decide_approval is the only way past a gate: its span becomes completed only
\* in the transaction that marks its approval "approved".
GateOpensOnlyByApproval ==
    [][\A r \in Runs, i \in Steps :
         <<r, i>> \in Approvals /\ span[r][i] # "completed" /\ span'[r][i] = "completed"
           => approval'[r][i] = "approved"]_vars

\* The trace of every run is a flight record.
Recorder == INSTANCE FlightRecorder WITH trace <- span, Gates <- Approvals
ImplementsFlightRecorder == Recorder!Spec

(***************************************************************************)
(* Properties of the default deployment: one process, the in-process pool, *)
(* one client at a time, approvals that do not expire                      *)
(***************************************************************************)
\* _execute_queued, decide_approval and recovery never put two threads to work
\* on the same run at once.
SingleExecutor ==
    \A t, u \in Threads :
      pc[t] \in Executing /\ pc[u] \in Executing /\ job[t] = job[u] => t = u

\* _execute hands the value on: what a step's span records as its input is what the
\* span before it records as its output, across pauses, edits and restarts, and a
\* completed run reports the output of its last span.
TraceIsContinuous ==
    \A r \in Runs :
      /\ \A i \in Steps : span[r][i] # "none" =>
           spanIn[r][i] = IF i = 0 THEN Input ELSE spanOut[r][i - 1]
      /\ status[r] = "completed" => output[r] = spanOut[r][N - 1]

\* A run that waits can be decided: its gate's approval is pending.
WaitingIsDecidable ==
    \A r \in Runs :
      status[r] = "waiting_approval" => step[r] < N /\ approval[r][step[r]] = "pending"

\* A queued run is known to somebody who will take it on: the queue, the thread
\* about to submit or claim it, or a recovery that has yet to read or submit it.
QueuedIsHeld ==
    \A r \in Runs :
      status[r] = "queued" =>
        \/ \E n \in 1 .. Len(queue) : queue[n] = r
        \/ \E t \in Threads : job[t] = r /\ pc[t] \in {"submit", "claim"}
        \/ phase \in {"down", "select"} \/ r \in backlog

\* "Terminal history is never rewritten" (docs/ARCHITECTURE.md) up to the race
\* it loses: only to or from "cancelled" does a terminal status ever change.
RewrittenOnlyAroundCancel ==
    [][\A r \in Runs : status[r] \in Terminal /\ status'[r] # status[r]
         => "cancelled" \in {status[r], status'[r]}]_vars

\* Queued work is taken on, across a restart too: submit, the pool and
\* recover_incomplete_runs lose no queued run.
QueuedIsTakenOn == \A r \in Runs : (status[r] = "queued") ~> (status[r] # "queued")

\* _execute never leaves a run "running" for good while its process lives.
RunningComesToRest ==
    \A r \in Runs :
      (status[r] = "running") ~> (status[r] # "running" \/ crashes > 0)

\* A completed run is announced in the outbox, unless the process dies between
\* the two transactions.
CompletionIsAnnounced ==
    \A r \in Runs :
      (status[r] = "completed") ~> ("run.completed" \in events[r] \/ crashes > 0)

(***************************************************************************)
(* What the documentation says and the code does not keep                  *)
(***************************************************************************)
\* "Terminal history is never rewritten." (docs/ARCHITECTURE.md).  The executor's
\* blind UPDATEs overwrite a "cancelled" written since its last read, and
\* cancel_run overwrites what the executor finished since its own.
TerminalIsFinal == [][\A r \in Runs : status[r] \in Terminal => status'[r] = status[r]]_vars

\* "Queued and interrupted running work is recovered on startup."
\* (docs/ARCHITECTURE.md).  After a crash between a span and current_step the
\* recovered run repeats the step, hits UNIQUE(run_id, step_index) and stays.
InterruptedRunsRecover == \A r \in Runs : (status[r] = "running") ~> (status[r] # "running")

(***************************************************************************)
(* The inductive invariant behind the properties of every deployment       *)
(***************************************************************************)
Behind(r, i) == \A j \in 0 .. i - 1 : span[r][j] = "completed"

\* A thread at work has a run, and a step of it wherever the code indexes one.
HasWork(t) ==
    /\ pc[t] \notin {"idle", "dead"} => job[t] \in Runs
    /\ pc[t] \in AtStep \cup Deciding => idx[t] \in Steps
    /\ pc[t] = "finish" => idx[t] = N

\* An executor works behind completed spans, from its snapshot on.
WorksBehindTrace(t) ==
    /\ pc[t] \in AtStep \cup {"mark", "finish"} => Behind(job[t], idx[t])
    /\ pc[t] = "advance" => span[job[t]][idx[t]] = "completed"

\* Only a permitted step within the budget is attempted.
AttemptIsGoverned(t) ==
    pc[t] \in {"pause", "invoke", "recheck_ok", "recheck_error", "record_ok", "record_error"}
      => idx[t] < Budget[job[t]] /\ <<job[t], idx[t]>> \notin Denied

\* A gate is paused at and a tool is invoked; a gate fails only when its span
\* is there already.
GatePauses(t) ==
    /\ pc[t] \in {"pause", "pause_row"} => <<job[t], idx[t]>> \in Approvals
    /\ pc[t] \in {"invoke", "recheck_ok", "record_ok"} => <<job[t], idx[t]>> \notin Approvals
    /\ pc[t] \in {"recheck_error", "record_error"} /\ <<job[t], idx[t]>> \in Approvals
         => span[job[t]][idx[t]] # "none"

\* Between the two transactions of a pause the span waits and the approval row
\* the thread will insert does not exist yet.
PauseOwnsGate(t) ==
    pc[t] = "pause_row" => /\ span[job[t]][idx[t]] = "waiting"
                           /\ approval[job[t]][idx[t]] = "none"

\* What a decision has read still is an approval.
DecidesApproval(t) == pc[t] \in Deciding => approval[job[t]][idx[t]] # "none"

ThreadOK(t) ==
    /\ HasWork(t) /\ WorksBehindTrace(t) /\ AttemptIsGoverned(t)
    /\ GatePauses(t) /\ PauseOwnsGate(t) /\ DecidesApproval(t)

\* At most one thread is between the two transactions of a pause of one gate.
OnePause ==
    \A t, u \in Threads :
      /\ pc[t] = "pause_row" /\ pc[u] = "pause_row"
      /\ job[t] = job[u] /\ idx[t] = idx[u]
      => t = u

\* So does what the sweep has read.
SweepHasApprovals == \A r \in Runs, i \in Steps : <<r, i>> \in lapsing => approval[r][i] # "none"

IInv ==
    /\ TypeOK
    /\ \A t \in Threads : ThreadOK(t)
    /\ OnePause
    /\ SweepHasApprovals
    /\ ResumesBehindTrace
    /\ GovernedSteps
    /\ ApprovalHasSpan
    /\ CompletedIsFullyTraced
=============================================================================
