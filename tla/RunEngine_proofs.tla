--------------------------- MODULE RunEngine_proofs ---------------------------
(***************************************************************************)
(* Proofs about RunEngine, for every number of runs, steps, threads,       *)
(* retries and crashes and for both queues and both deployments.  IInv is  *)
(* inductive: one lemma per action shows that it keeps IInv, on top of     *)
(* four lemmas on the shapes a step can have (LocalStep: nothing the other *)
(* threads look at changes; TableStep: spans or approvals change;          *)
(* SettlingStep: approvals are settled; ProcessStep: threads stay or die). *)
(***************************************************************************)
EXTENDS RunEngine, TLAPS

\* The labels, spelt out.
LEMMA LabelSet ==
    Labels = {"idle", "dead", "submit", "claim", "cancel", "read", "mark", "finish",
              "check", "over_budget", "denied", "pause", "pause_row", "invoke",
              "recheck_ok", "recheck_error", "record_ok", "record_error",
              "mark_failed", "advance", "approve", "edit", "reject", "lapse",
              "run.completed", "run.failed", "run.cancelled", "run.rejected",
              "approval.pending", "approval.escalated"}
BY DEF Labels, ThreadEvents, Deciding, Executing, AtStep

\* The threads other than t stay where they are.
OthersKeep(t) ==
    \A u \in Threads \ {t} : pc'[u] = pc[u] /\ job'[u] = job[u] /\ idx'[u] = idx[u]

\* Spans and approvals are never taken back.
SpansGrow ==
    \A r \in Runs, i \in Steps :
      /\ span[r][i] = "completed" => span'[r][i] = "completed"
      /\ span[r][i] # "none" => span'[r][i] # "none"
ApprovalsGrow ==
    \A r \in Runs, i \in Steps : approval[r][i] # "none" => approval'[r][i] # "none"

\* A thread that does not move stays sound while spans and approvals grow.
LEMMA Bystander ==
    ASSUME IInv, NEW u \in Threads,
           pc'[u] = pc[u], job'[u] = job[u], idx'[u] = idx[u],
           SpansGrow, ApprovalsGrow, PauseOwnsGate(u)'
    PROVE  ThreadOK(u)'
<1>1. ThreadOK(u) /\ idx[u] \in 0 .. N /\ N \in Nat
  BY SizeAssumption DEF IInv, TypeOK
<1>2. HasWork(u)'
  BY <1>1 DEF ThreadOK, HasWork
<1>3. WorksBehindTrace(u)'
  <2>1. ASSUME pc[u] \in AtStep \cup {"mark", "finish"}
        PROVE  Behind(job[u], idx[u])'
    BY <1>1, <2>1 DEF ThreadOK, WorksBehindTrace, Behind, HasWork, SpansGrow, AtStep, Steps
  <2>2. ASSUME pc[u] = "advance"
        PROVE  span'[job[u]][idx[u]] = "completed"
    BY <1>1, <2>2 DEF ThreadOK, WorksBehindTrace, HasWork, SpansGrow, AtStep
  <2> QED BY <2>1, <2>2 DEF WorksBehindTrace, Behind
<1>4. AttemptIsGoverned(u)'
  BY <1>1 DEF ThreadOK, AttemptIsGoverned
<1>5. GatePauses(u)'
  BY <1>1 DEF ThreadOK, GatePauses, HasWork, SpansGrow, AtStep
<1>6. DecidesApproval(u)'
  BY <1>1 DEF ThreadOK, DecidesApproval, HasWork, ApprovalsGrow, Deciding
<1> QED BY <1>2, <1>3, <1>4, <1>5, <1>6 DEF ThreadOK

\* A step of one thread that leaves spans, approvals, current_step and the sweep
\* alone preserves the invariant if it does so for that thread.
LEMMA LocalStep ==
    ASSUME IInv, NEW t \in Threads, OthersKeep(t),
           UNCHANGED <<span, approval, step, lapsing>>,
           TypeOK', ThreadOK(t)', pc'[t] # "pause_row", CompletedIsFullyTraced'
    PROVE  IInv'
<1>1. SpansGrow /\ ApprovalsGrow
  BY DEF SpansGrow, ApprovalsGrow
<1>2. ASSUME NEW u \in Threads PROVE ThreadOK(u)'
  <2>1. CASE u = t
    BY <2>1
  <2>2. CASE u # t
    <3>1. pc'[u] = pc[u] /\ job'[u] = job[u] /\ idx'[u] = idx[u]
      BY <2>2 DEF OthersKeep
    <3>2. PauseOwnsGate(u)'
      BY <3>1 DEF IInv, ThreadOK, PauseOwnsGate
    <3> QED BY <1>1, <3>1, <3>2, Bystander
  <2> QED BY <2>1, <2>2
<1>3. OnePause'
  BY DEF IInv, OnePause, OthersKeep
<1>4. SweepHasApprovals' /\ ResumesBehindTrace' /\ GovernedSteps' /\ ApprovalHasSpan'
  BY DEF IInv, SweepHasApprovals, ResumesBehindTrace, GovernedSteps, ApprovalHasSpan
<1> QED BY <1>2, <1>3, <1>4 DEF IInv

\* Inputs, step outputs and edited values are values, step numbers are in range.
LEMMA ValueSet ==
    /\ Input \in Values /\ 0 \in 0 .. N /\ 0 \in 0 .. Retries
    /\ \A i \in Steps : Out(i) \in Values /\ Edited(i) \in Values /\ i \in 0 .. N /\ i + 1 \in 0 .. N
BY SizeAssumption DEF Input, Values, Out, Edited, Steps

\* A handler that returns, or dies, leaves a well-typed idle thread behind.
LEMMA Leaving ==
    ASSUME TypeOK, NEW t \in Threads, NEW label \in {"idle", "dead"}, Leave(t, label)
    PROVE  /\ pc' \in [Threads -> Labels] /\ job' \in [Threads -> Runs \cup {NoRun}]
           /\ idx' \in [Threads -> 0 .. N] /\ val' \in [Threads -> Values]
           /\ tries' \in [Threads -> 0 .. Retries]
           /\ ThreadOK(t)' /\ OthersKeep(t) /\ pc'[t] # "pause_row"
<1>1. /\ pc' \in [Threads -> Labels] /\ job' \in [Threads -> Runs \cup {NoRun}]
      /\ idx' \in [Threads -> 0 .. N] /\ val' \in [Threads -> Values]
      /\ tries' \in [Threads -> 0 .. Retries]
  BY ValueSet, LabelSet DEF TypeOK, Leave, Goto
<1>2. OthersKeep(t) /\ pc'[t] = label
  BY DEF TypeOK, Leave, Goto, OthersKeep
<1>3. ThreadOK(t)'
  BY <1>2
     DEF ThreadOK, HasWork, WorksBehindTrace, AttemptIsGoverned, GatePauses,
         PauseOwnsGate, DecidesApproval, AtStep, Deciding
<1> QED BY <1>1, <1>2, <1>3

\* A status other than "completed" completes no run.
LEMMA NotCompleting ==
    ASSUME IInv, NEW r, NEW s \in RunStatus \ {"completed"}, span' = span,
           status' \in {status, [status EXCEPT ![r] = s]}
    PROVE  status' \in [Runs -> RunStatus] /\ CompletedIsFullyTraced'
<1>1. status' \in [Runs -> RunStatus]
  BY DEF IInv, TypeOK
<1>2. CompletedIsFullyTraced'
  BY DEF IInv, TypeOK, CompletedIsFullyTraced
<1> QED BY <1>1, <1>2

\* start_run: a fresh run is handed to a request thread that has read nothing yet.
LEMMA StartSyncStep ==
    ASSUME IInv, NEW t \in Threads, NEW r \in Runs, StartSync(t, r)
    PROVE  IInv'
<1>0. TypeOK /\ ThreadOK(t)
  BY DEF IInv
<1>1. UNCHANGED <<step, output, span, spanIn, spanOut, approval, overdue,
                  events, queue, phase, backlog, crashes, sweep,
                  lapsing, idx, val, tries>>
  BY DEF StartSync, Quiet, runRow, spanRow, approvalRow, procVars, sweepVars, locals
<1>2. status' \in [Runs -> RunStatus] /\ CompletedIsFullyTraced'
  BY <1>1, NotCompleting DEF StartSync, RunStatus, Terminal
<1>3. /\ pc' \in [Threads -> Labels] /\ job' \in [Threads -> Runs \cup {NoRun}]
      /\ pc'[t] = "read" /\ job'[t] = r /\ OthersKeep(t)
  BY <1>0, <1>1, LabelSet DEF StartSync, Goto, TypeOK, OthersKeep
<1>4. TypeOK'
  BY <1>0, <1>1, <1>2, <1>3 DEF TypeOK
<1>5. ThreadOK(t)'
  BY <1>3 DEF ThreadOK, HasWork, WorksBehindTrace, AttemptIsGoverned, GatePauses,
         PauseOwnsGate, DecidesApproval, AtStep, Deciding
<1> QED BY <1>1, <1>2, <1>3, <1>4, <1>5, LocalStep

\* start_run(queued=True): the thread only knows a run to submit.
LEMMA StartQueuedStep ==
    ASSUME IInv, NEW t \in Threads, NEW r \in Runs, StartQueued(t, r)
    PROVE  IInv'
<1>0. TypeOK /\ ThreadOK(t)
  BY DEF IInv
<1>1. UNCHANGED <<step, output, span, spanIn, spanOut, approval, overdue,
                  events, queue, phase, backlog, crashes, sweep,
                  lapsing, idx, val, tries>>
  BY DEF StartQueued, Quiet, runRow, spanRow, approvalRow, procVars, sweepVars, locals
<1>2. status' \in [Runs -> RunStatus] /\ CompletedIsFullyTraced'
  BY <1>1, NotCompleting DEF StartQueued, RunStatus, Terminal
<1>3. /\ pc' \in [Threads -> Labels] /\ job' \in [Threads -> Runs \cup {NoRun}]
      /\ pc'[t] = "submit" /\ job'[t] = r /\ OthersKeep(t)
  BY <1>0, <1>1, LabelSet DEF StartQueued, Goto, TypeOK, OthersKeep
<1>4. TypeOK'
  BY <1>0, <1>1, <1>2, <1>3 DEF TypeOK
<1>5. ThreadOK(t)'
  BY <1>3 DEF ThreadOK, HasWork, WorksBehindTrace, AttemptIsGoverned, GatePauses,
         PauseOwnsGate, DecidesApproval, AtStep, Deciding
<1> QED BY <1>1, <1>2, <1>3, <1>4, <1>5, LocalStep

\* The read of cancel_run changes no row.
LEMMA CancelReadStep ==
    ASSUME IInv, NEW t \in Threads, NEW r \in Runs, CancelRead(t, r)
    PROVE  IInv'
<1>0. TypeOK /\ ThreadOK(t)
  BY DEF IInv
<1>1. UNCHANGED <<status, step, output, span, spanIn, spanOut, approval,
                  overdue, events, queue, phase, backlog, crashes,
                  sweep, lapsing, idx, val, tries>>
  BY DEF CancelRead, Quiet, runRow, spanRow, approvalRow, procVars, sweepVars, locals
<1>2. status' \in [Runs -> RunStatus] /\ CompletedIsFullyTraced'
  BY <1>0, <1>1 DEF IInv, TypeOK, CompletedIsFullyTraced
<1>3. /\ pc' \in [Threads -> Labels] /\ job' \in [Threads -> Runs \cup {NoRun}]
      /\ pc'[t] = "cancel" /\ job'[t] = r /\ OthersKeep(t)
  BY <1>0, <1>1, LabelSet DEF CancelRead, Goto, TypeOK, OthersKeep
<1>4. TypeOK'
  BY <1>0, <1>1, <1>2, <1>3 DEF TypeOK
<1>5. ThreadOK(t)'
  BY <1>3 DEF ThreadOK, HasWork, WorksBehindTrace, AttemptIsGoverned, GatePauses,
         PauseOwnsGate, DecidesApproval, AtStep, Deciding
<1> QED BY <1>1, <1>2, <1>3, <1>4, <1>5, LocalStep

\* escalate_approval writes neither the run nor the status of the approval.
LEMMA EscalateStep ==
    ASSUME IInv, NEW t \in Threads, NEW r \in Runs, NEW i \in Steps, Escalate(t, r, i)
    PROVE  IInv'
<1>0. TypeOK /\ ThreadOK(t)
  BY DEF IInv
<1>1. UNCHANGED <<status, step, output, span, spanIn, spanOut, approval,
                  overdue, events, queue, phase, backlog, crashes,
                  sweep, lapsing, idx, val, tries>>
  BY DEF Escalate, Quiet, runRow, spanRow, approvalRow, procVars, sweepVars, locals
<1>2. status' \in [Runs -> RunStatus] /\ CompletedIsFullyTraced'
  BY <1>0, <1>1 DEF IInv, TypeOK, CompletedIsFullyTraced
<1>3. /\ pc' \in [Threads -> Labels] /\ job' \in [Threads -> Runs \cup {NoRun}]
      /\ pc'[t] = "approval.escalated" /\ job'[t] = r /\ OthersKeep(t)
  BY <1>0, <1>1, LabelSet DEF Escalate, Goto, TypeOK, OthersKeep
<1>4. TypeOK'
  BY <1>0, <1>1, <1>2, <1>3 DEF TypeOK
<1>5. ThreadOK(t)'
  BY <1>3 DEF ThreadOK, HasWork, WorksBehindTrace, AttemptIsGoverned, GatePauses,
         PauseOwnsGate, DecidesApproval, AtStep, Deciding
<1> QED BY <1>1, <1>2, <1>3, <1>4, <1>5, LocalStep

\* The read of decide_approval has seen an approval row: DecidesApproval holds.
LEMMA DecideReadStep ==
    ASSUME IInv, NEW t \in Threads, NEW r \in Runs, NEW i \in Steps,
           NEW verdict \in {"approve", "edit", "reject"}, DecideRead(t, r, i, verdict)
    PROVE  IInv'
<1>0. TypeOK /\ ThreadOK(t)
  BY DEF IInv
<1>1. UNCHANGED <<status, step, output, span, spanIn, spanOut, approval,
                  overdue, events, queue, phase, backlog, crashes,
                  sweep, lapsing, val, tries>>
  BY DEF DecideRead, Quiet, runRow, spanRow, approvalRow, procVars, sweepVars, locals
<1>2. CompletedIsFullyTraced'
  BY <1>1 DEF IInv, CompletedIsFullyTraced
<1>3. /\ pc' \in [Threads -> Labels] /\ job' \in [Threads -> Runs \cup {NoRun}]
      /\ idx' \in [Threads -> 0 .. N] /\ pc'[t] \in Deciding
      /\ job'[t] = r /\ idx'[t] = i /\ OthersKeep(t)
  BY <1>0, LabelSet, ValueSet DEF DecideRead, Goto, TypeOK, OthersKeep, Deciding
<1>4. TypeOK'
  BY <1>0, <1>1, <1>3 DEF TypeOK
<1>5. approval'[r][i] # "none"
  BY <1>1 DEF DecideRead
<1>6. ThreadOK(t)'
  BY <1>3, <1>5 DEF ThreadOK, HasWork, WorksBehindTrace, AttemptIsGoverned, GatePauses,
         PauseOwnsGate, DecidesApproval, AtStep, Deciding
<1> QED BY <1>1, <1>2, <1>3, <1>4, <1>6, LocalStep DEF Deciding

\* RunQueue.submit puts a run, and nothing else, into the queue.
LEMMA SubmitStep ==
    ASSUME IInv, NEW t \in Threads, Submit(t)
    PROVE  IInv'
<1>0. TypeOK /\ ThreadOK(t)
  BY DEF IInv
<1>1. UNCHANGED <<status, step, output, span, spanIn, spanOut, approval,
                  overdue, events, phase, backlog, crashes, sweep,
                  lapsing>>
  BY DEF Submit, Quiet, runRow, spanRow, approvalRow, procVars, sweepVars, locals
<1>2. queue' \in Seq(Runs)
  <2>1. job[t] \in Runs /\ queue \in Seq(Runs) /\ queue' = Append(queue, job[t])
    BY <1>0 DEF Submit, TypeOK, ThreadOK, HasWork
  <2> QED BY <2>1
<1>3. TypeOK'
  BY <1>0, <1>1, <1>2, Leaving DEF Submit, Return, TypeOK
<1>4. CompletedIsFullyTraced'
  BY <1>1 DEF IInv, CompletedIsFullyTraced
<1> QED BY <1>0, <1>1, <1>3, <1>4, Leaving, LocalStep DEF Submit, Return

\* RunQueue._consume takes a run out of the queue and knows nothing else of it.
LEMMA PopStep ==
    ASSUME IInv, NEW t \in Threads, Pop(t)
    PROVE  IInv'
<1>0. TypeOK /\ ThreadOK(t)
  BY DEF IInv
<1>1. UNCHANGED <<status, step, output, span, spanIn, spanOut, approval,
                  overdue, events, phase, backlog, crashes, sweep,
                  lapsing, idx, val, tries>>
  BY DEF Pop, Quiet, runRow, spanRow, approvalRow, procVars, sweepVars, locals
<1>2. queue' \in Seq(Runs) /\ Head(queue) \in Runs
  <2>1. queue \in Seq(Runs) /\ queue # <<>> /\ queue' = Tail(queue)
    BY <1>0 DEF Pop, TypeOK
  <2> QED BY <2>1
<1>3. /\ pc' \in [Threads -> Labels] /\ job' \in [Threads -> Runs \cup {NoRun}]
      /\ pc'[t] = "claim" /\ job'[t] = Head(queue) /\ OthersKeep(t)
  BY <1>0, <1>1, <1>2, LabelSet DEF Pop, Goto, TypeOK, OthersKeep
<1>4. TypeOK'
  BY <1>0, <1>1, <1>2, <1>3 DEF TypeOK
<1>5. CompletedIsFullyTraced'
  BY <1>1 DEF IInv, CompletedIsFullyTraced
<1>6. ThreadOK(t)'
  BY <1>2, <1>3 DEF ThreadOK, HasWork, WorksBehindTrace, AttemptIsGoverned, GatePauses,
         PauseOwnsGate, DecidesApproval, AtStep, Deciding
<1> QED BY <1>1, <1>3, <1>4, <1>5, <1>6, LocalStep

\* _execute_queued writes "running" or nothing.
LEMMA ClaimStep ==
    ASSUME IInv, NEW t \in Threads, Claim(t)
    PROVE  IInv'
<1>0. TypeOK /\ ThreadOK(t)
  BY DEF IInv
<1>1. UNCHANGED <<step, output, span, spanIn, spanOut, approval, overdue,
                  events, queue, phase, backlog, crashes, sweep,
                  lapsing>>
  BY DEF Claim, Quiet, runRow, spanRow, approvalRow, procVars, sweepVars, locals
<1>2. status' \in [Runs -> RunStatus] /\ CompletedIsFullyTraced'
  <2>1. status' \in {status, [status EXCEPT ![job[t]] = "running"]}
    BY DEF Claim
  <2> QED BY <1>1, <2>1, NotCompleting DEF RunStatus, Terminal
<1>3. CASE Return(t)
  <2>1. TypeOK'
    BY <1>0, <1>1, <1>2, <1>3, Leaving DEF Return, TypeOK
  <2> QED BY <1>0, <1>1, <1>2, <1>3, <2>1, Leaving, LocalStep DEF Return
<1>4. CASE pc[t] = "claim" /\ Goto(t, "read") /\ UNCHANGED locals
  <2>1. /\ pc' \in [Threads -> Labels] /\ pc'[t] = "read" /\ OthersKeep(t)
        /\ job[t] \in Runs
    BY <1>0, <1>4, LabelSet DEF Goto, TypeOK, OthersKeep, locals, ThreadOK, HasWork
  <2>2. TypeOK'
    BY <1>0, <1>1, <1>2, <1>4, <2>1 DEF TypeOK, locals
  <2>3. ThreadOK(t)'
    BY <1>4, <2>1
       DEF locals, ThreadOK, HasWork, WorksBehindTrace, AttemptIsGoverned, GatePauses,
           PauseOwnsGate, DecidesApproval, AtStep, Deciding
  <2> QED BY <1>1, <1>2, <2>1, <2>2, <2>3, LocalStep
<1> QED BY <1>0, <1>3, <1>4 DEF Claim, ThreadOK, HasWork, AtStep, Labels, Executing

\* The snapshot of _execute starts behind recorded spans: ResumesBehindTrace.
LEMMA ExecuteStep ==
    ASSUME IInv, NEW t \in Threads, Execute(t)
    PROVE  IInv'
<1>0. TypeOK /\ ThreadOK(t)
  BY DEF IInv
<1>1. UNCHANGED <<status, step, output, span, spanIn, spanOut, approval,
                  overdue, events, queue, phase, backlog, crashes,
                  sweep, lapsing>>
  BY DEF Execute, Quiet, runRow, spanRow, approvalRow, procVars, sweepVars, locals
<1>2. status' \in [Runs -> RunStatus] /\ CompletedIsFullyTraced'
  BY <1>0, <1>1 DEF IInv, TypeOK, CompletedIsFullyTraced
<1>3. CASE Return(t)
  <2>1. TypeOK'
    BY <1>0, <1>1, <1>2, <1>3, Leaving DEF Return, TypeOK
  <2> QED BY <1>0, <1>1, <1>2, <1>3, <2>1, Leaving, LocalStep DEF Return
<1>4. CASE /\ pc[t] = "read" /\ Goto(t, "mark")
            /\ idx' = [idx EXCEPT ![t] = step[job[t]]]
            /\ val' = [val EXCEPT ![t] = IF step[job[t]] = 0 THEN Input ELSE output[job[t]]]
            /\ UNCHANGED <<job, tries>>
  <2>1. job[t] \in Runs
    BY <1>0, <1>4 DEF ThreadOK, HasWork
  <2>2. /\ pc' \in [Threads -> Labels] /\ idx' \in [Threads -> 0 .. N]
        /\ val' \in [Threads -> Values] /\ pc'[t] = "mark" /\ idx'[t] = step[job[t]]
        /\ OthersKeep(t)
    BY <1>0, <1>4, <2>1, LabelSet, ValueSet DEF Goto, TypeOK, OthersKeep
  <2>3. TypeOK'
    BY <1>0, <1>1, <1>4, <2>2 DEF TypeOK
  <2>4. Behind(job[t], step[job[t]])
    BY <2>1 DEF IInv, ResumesBehindTrace, Behind
  <2>5. ThreadOK(t)'
    BY <1>1, <1>4, <2>1, <2>2, <2>4
       DEF Behind, ThreadOK, HasWork, WorksBehindTrace, AttemptIsGoverned, GatePauses,
           PauseOwnsGate, DecidesApproval, AtStep, Deciding
  <2> QED BY <1>1, <1>2, <2>2, <2>3, <2>5, LocalStep
<1> QED BY <1>0, <1>3, <1>4 DEF Cancelled, Execute, Resumed, ThreadOK, HasWork, AtStep, Labels, Executing

\* The loop head sends a governed step to the gate or to its tool.
LEMMA CheckStep ==
    ASSUME IInv, NEW t \in Threads, Check(t)
    PROVE  IInv'
<1>0. TypeOK /\ ThreadOK(t)
  BY DEF IInv
<1>1. UNCHANGED <<status, step, output, span, spanIn, spanOut, approval,
                  overdue, events, queue, phase, backlog, crashes,
                  sweep, lapsing>>
  BY DEF Check, Quiet, runRow, spanRow, approvalRow, procVars, sweepVars, locals
<1>2. status' \in [Runs -> RunStatus] /\ CompletedIsFullyTraced'
  BY <1>0, <1>1 DEF IInv, TypeOK, CompletedIsFullyTraced
<1>3. CASE Return(t)
  <2>1. TypeOK'
    BY <1>0, <1>1, <1>2, <1>3, Leaving DEF Return, TypeOK
  <2> QED BY <1>0, <1>1, <1>2, <1>3, <2>1, Leaving, LocalStep DEF Return
<1>4. CASE /\ pc[t] = "check" /\ UNCHANGED locals
            /\ Goto(t, IF idx[t] >= Budget[job[t]] THEN "over_budget"
                       ELSE IF <<job[t], idx[t]>> \in Denied THEN "denied"
                       ELSE IF <<job[t], idx[t]>> \in Approvals THEN "pause"
                       ELSE "invoke")
  <2>1. job[t] \in Runs /\ idx[t] \in Steps /\ Behind(job[t], idx[t])
    BY <1>0, <1>4 DEF ThreadOK, HasWork, WorksBehindTrace, AtStep
  <2>2. /\ pc' \in [Threads -> Labels] /\ OthersKeep(t)
        /\ pc'[t] \in {"over_budget", "denied", "pause", "invoke"}
        /\ pc'[t] \in {"pause", "invoke"} => /\ idx[t] < Budget[job[t]]
                                            /\ <<job[t], idx[t]>> \notin Denied
        /\ pc'[t] = "pause" => <<job[t], idx[t]>> \in Approvals
        /\ pc'[t] = "invoke" => <<job[t], idx[t]>> \notin Approvals
    BY <1>0, <1>4, <2>1, LabelSet, SizeAssumption
       DEF Goto, TypeOK, OthersKeep, locals, Steps
  <2>3. TypeOK'
    BY <1>0, <1>1, <1>4, <2>2 DEF TypeOK, locals
  <2>4. ThreadOK(t)'
    BY <1>1, <1>4, <2>1, <2>2
       DEF locals, Behind, ThreadOK, HasWork, WorksBehindTrace, AttemptIsGoverned,
           GatePauses, PauseOwnsGate, DecidesApproval, AtStep, Deciding
  <2> QED BY <1>1, <1>2, <2>2, <2>3, <2>4, LocalStep
<1> QED BY <1>0, <1>3, <1>4 DEF Cancelled, Check, Fate, ThreadOK, HasWork, AtStep, Labels, Executing

\* The second read of the run drops a cancelled attempt and keeps the others.
LEMMA RecheckStep ==
    ASSUME IInv, NEW t \in Threads, Recheck(t)
    PROVE  IInv'
<1>0. TypeOK /\ ThreadOK(t)
  BY DEF IInv
<1>1. UNCHANGED <<status, step, output, span, spanIn, spanOut, approval,
                  overdue, events, queue, phase, backlog, crashes,
                  sweep, lapsing>>
  BY DEF Recheck, Quiet, runRow, spanRow, approvalRow, procVars, sweepVars, locals
<1>2. status' \in [Runs -> RunStatus] /\ CompletedIsFullyTraced'
  BY <1>0, <1>1 DEF IInv, TypeOK, CompletedIsFullyTraced
<1>3. CASE Return(t)
  <2>1. TypeOK'
    BY <1>0, <1>1, <1>2, <1>3, Leaving DEF Return, TypeOK
  <2> QED BY <1>0, <1>1, <1>2, <1>3, <2>1, Leaving, LocalStep DEF Return
<1>4. CASE /\ pc[t] \in {"recheck_ok", "recheck_error"} /\ UNCHANGED locals
            /\ Goto(t, IF pc[t] = "recheck_ok" THEN "record_ok" ELSE "record_error")
  <2>1. /\ pc' \in [Threads -> Labels] /\ OthersKeep(t)
        /\ pc'[t] = IF pc[t] = "recheck_ok" THEN "record_ok" ELSE "record_error"
    BY <1>0, <1>4, LabelSet DEF Goto, TypeOK, OthersKeep, locals
  <2>2. TypeOK'
    BY <1>0, <1>1, <1>4, <2>1 DEF TypeOK, locals
  <2>3. ThreadOK(t)'
    BY <1>0, <1>1, <1>4, <2>1
       DEF locals, Behind, ThreadOK, HasWork, WorksBehindTrace, AttemptIsGoverned,
           GatePauses, PauseOwnsGate, DecidesApproval, AtStep, Deciding
  <2> QED BY <1>1, <1>2, <2>1, <2>2, <2>3, LocalStep
<1> QED BY <1>0, <1>3, <1>4 DEF Cancelled, Recheck, ThreadOK, HasWork, AtStep, Labels, Executing

\* The blind UPDATE to "running" completes nothing.
LEMMA MarkStep ==
    ASSUME IInv, NEW t \in Threads, Mark(t)
    PROVE  IInv'
<1>0. TypeOK /\ ThreadOK(t)
  BY DEF IInv
<1>1. UNCHANGED <<step, output, span, spanIn, spanOut, approval, overdue,
                  events, queue, phase, backlog, crashes, sweep,
                  lapsing, job, idx, val, tries>>
  BY DEF Mark, Quiet, runRow, spanRow, approvalRow, procVars, sweepVars, locals
<1>2. status' \in [Runs -> RunStatus] /\ CompletedIsFullyTraced'
  BY <1>1, NotCompleting DEF Mark, RunStatus, Terminal
<1>3. /\ pc' \in [Threads -> Labels] /\ OthersKeep(t)
      /\ pc'[t] = IF idx[t] < N THEN "check" ELSE "finish"
  BY <1>0, <1>1, LabelSet DEF Mark, Goto, LoopHead, TypeOK, OthersKeep
<1>4. TypeOK'
  BY <1>0, <1>1, <1>2, <1>3 DEF TypeOK
<1>5. job[t] \in Runs /\ idx[t] \in 0 .. N /\ Behind(job[t], idx[t])
  BY <1>0 DEF Mark, TypeOK, ThreadOK, HasWork, WorksBehindTrace
<1>6. ThreadOK(t)'
  BY <1>1, <1>3, <1>5, SizeAssumption
     DEF Steps, Behind, ThreadOK, HasWork, WorksBehindTrace, AttemptIsGoverned,
         GatePauses, PauseOwnsGate, DecidesApproval, AtStep, Deciding
<1> QED BY <1>1, <1>2, <1>3, <1>4, <1>6, LocalStep

\* A refused step fails the run without a span.
LEMMA RefuseStep ==
    ASSUME IInv, NEW t \in Threads, Refuse(t)
    PROVE  IInv'
<1>0. TypeOK /\ ThreadOK(t)
  BY DEF IInv
<1>1. UNCHANGED <<step, output, span, spanIn, spanOut, approval, overdue,
                  events, queue, phase, backlog, crashes, sweep,
                  lapsing>>
  BY DEF Refuse, Quiet, runRow, spanRow, approvalRow, procVars, sweepVars, locals
<1>2. status' \in [Runs -> RunStatus] /\ CompletedIsFullyTraced'
  BY <1>1, NotCompleting DEF Refuse, RunStatus, Terminal
<1>3. TypeOK'
  BY <1>0, <1>1, <1>2, Leaving DEF Refuse, Return, TypeOK
<1> QED BY <1>0, <1>1, <1>2, <1>3, Leaving, LocalStep DEF Refuse, Return

\* An attempt at a tool stays within the retries.
LEMMA InvokeStep ==
    ASSUME IInv, NEW t \in Threads, Invoke(t)
    PROVE  IInv'
<1>0. TypeOK /\ ThreadOK(t)
  BY DEF IInv
<1>1. UNCHANGED <<status, step, output, span, spanIn, spanOut, approval,
                  overdue, events, queue, phase, backlog, crashes,
                  sweep, lapsing, job, idx, val>>
  BY DEF Invoke, Quiet, runRow, spanRow, approvalRow, procVars, sweepVars, locals
<1>2. tries' \in [Threads -> 0 .. Retries]
  BY <1>0, SizeAssumption DEF ToolReturns, ToolRaises, Invoke, TypeOK
<1>3. /\ pc' \in [Threads -> Labels] /\ OthersKeep(t)
      /\ pc'[t] \in {"invoke", "recheck_ok", "recheck_error"}
  BY <1>0, <1>1, LabelSet DEF ToolReturns, ToolRaises, Invoke, Goto, TypeOK, OthersKeep
<1>4. TypeOK'
  BY <1>0, <1>1, <1>2, <1>3 DEF TypeOK
<1>5. ThreadOK(t)'
  BY <1>0, <1>1, <1>3
     DEF Invoke, Behind, ThreadOK, HasWork, WorksBehindTrace, AttemptIsGoverned,
         GatePauses, PauseOwnsGate, DecidesApproval, AtStep, Deciding
<1>6. CompletedIsFullyTraced'
  BY <1>1 DEF IInv, CompletedIsFullyTraced
<1> QED BY <1>1, <1>3, <1>4, <1>5, <1>6, LocalStep

\* A thread that finishes has walked all N steps: WorksBehindTrace.
LEMMA FinishStep ==
    ASSUME IInv, NEW t \in Threads, Finish(t)
    PROVE  IInv'
<1>0. TypeOK /\ ThreadOK(t)
  BY DEF IInv
<1>1. UNCHANGED <<step, span, spanIn, spanOut, approval, overdue, events,
                  queue, phase, backlog, crashes, sweep, lapsing, job,
                  idx, val, tries>>
  BY DEF Finish, Quiet, runRow, spanRow, approvalRow, procVars, sweepVars, locals
<1>2. job[t] \in Runs /\ idx[t] = N /\ Behind(job[t], N)
  BY <1>0 DEF Finish, ThreadOK, HasWork, WorksBehindTrace
<1>3. status' \in [Runs -> RunStatus] /\ output' \in [Runs -> Values]
  BY <1>0 DEF Finish, TypeOK, RunStatus, Terminal
<1>4. CompletedIsFullyTraced'
  BY <1>0, <1>1, <1>2 DEF IInv, Finish, TypeOK, CompletedIsFullyTraced, Behind, Steps
<1>5. pc' \in [Threads -> Labels] /\ pc'[t] = "run.completed" /\ OthersKeep(t)
  BY <1>0, <1>1, LabelSet DEF Finish, Goto, TypeOK, OthersKeep
<1>6. TypeOK'
  BY <1>0, <1>1, <1>3, <1>5 DEF TypeOK
<1>7. ThreadOK(t)'
  BY <1>1, <1>2, <1>5
     DEF ThreadOK, HasWork, WorksBehindTrace, AttemptIsGoverned, GatePauses,
         PauseOwnsGate, DecidesApproval, AtStep, Deciding
<1> QED BY <1>1, <1>4, <1>5, <1>6, <1>7, LocalStep

\* An event goes to the outbox and the thread returns.
LEMMA NotifyStep ==
    ASSUME IInv, NEW t \in Threads, Notify(t)
    PROVE  IInv'
<1>0. TypeOK /\ ThreadOK(t)
  BY DEF IInv
<1>1. UNCHANGED <<status, step, output, span, spanIn, spanOut, approval,
                  overdue, queue, phase, backlog, crashes, sweep,
                  lapsing>>
  BY DEF Notify, Quiet, runRow, spanRow, approvalRow, procVars, sweepVars, locals
<1>2. events' \in [Runs -> SUBSET Events]
  BY <1>0 DEF Notify, TypeOK, Events
<1>3. TypeOK'
  BY <1>0, <1>1, <1>2, Leaving DEF Notify, Return, TypeOK
<1>4. CompletedIsFullyTraced'
  BY <1>1 DEF IInv, CompletedIsFullyTraced
<1> QED BY <1>0, <1>1, <1>3, <1>4, Leaving, LocalStep DEF Notify, Return

\* A step of one thread that writes spans, approvals or current_step: the other
\* threads stay sound as long as nobody else's pause is disturbed.
LEMMA TableStep ==
    ASSUME IInv, NEW t \in Threads, OthersKeep(t), SpansGrow, ApprovalsGrow,
           \A u \in Threads \ {t} : PauseOwnsGate(u)',
           UNCHANGED lapsing, TypeOK', ThreadOK(t)', OnePause', ResumesBehindTrace',
           GovernedSteps', ApprovalHasSpan', CompletedIsFullyTraced'
    PROVE  IInv'
<1>1. ASSUME NEW u \in Threads PROVE ThreadOK(u)'
  <2>1. CASE u = t
    BY <2>1
  <2>2. CASE u # t
    BY <2>2, Bystander DEF OthersKeep
  <2> QED BY <2>1, <2>2
<1>2. SweepHasApprovals'
  BY DEF IInv, SweepHasApprovals, ApprovalsGrow
<1> QED BY <1>1, <1>2 DEF IInv

\* The same for a step that writes current_step and leaves spans and approvals.
LEMMA UnrecordedStep ==
    ASSUME IInv, NEW t \in Threads, OthersKeep(t), UNCHANGED <<span, approval, lapsing>>,
           TypeOK', ThreadOK(t)', pc'[t] # "pause_row", ResumesBehindTrace',
           CompletedIsFullyTraced'
    PROVE  IInv'
<1>1. SpansGrow /\ ApprovalsGrow
  BY DEF SpansGrow, ApprovalsGrow
<1>2. \A u \in Threads \ {t} : PauseOwnsGate(u)'
  BY DEF IInv, ThreadOK, PauseOwnsGate, OthersKeep
<1>3. OnePause'
  BY DEF IInv, OnePause, OthersKeep
<1>4. GovernedSteps' /\ ApprovalHasSpan'
  BY DEF IInv, GovernedSteps, ApprovalHasSpan
<1> QED BY <1>1, <1>2, <1>3, <1>4, TableStep

\* A failed run may resume at the failed step, which is behind its trace.
LEMMA MarkFailedStep ==
    ASSUME IInv, NEW t \in Threads, MarkFailed(t)
    PROVE  IInv'
<1>0. TypeOK /\ ThreadOK(t)
  BY DEF IInv
<1>1. UNCHANGED <<output, span, spanIn, spanOut, approval, overdue, events,
                  queue, phase, backlog, crashes, sweep, lapsing, job,
                  idx, val, tries>>
  BY DEF MarkFailed, Quiet, runRow, spanRow, approvalRow, procVars, sweepVars, locals
<1>2. job[t] \in Runs /\ idx[t] \in 0 .. N /\ Behind(job[t], idx[t])
  BY <1>0 DEF MarkFailed, TypeOK, ThreadOK, HasWork, WorksBehindTrace, AtStep
<1>3. status' \in [Runs -> RunStatus] /\ CompletedIsFullyTraced'
  BY <1>1, NotCompleting DEF MarkFailed, RunStatus, Terminal
<1>4. step' \in [Runs -> 0 .. N] /\ ResumesBehindTrace'
  BY <1>0, <1>1, <1>2 DEF IInv, MarkFailed, TypeOK, ResumesBehindTrace, Behind
<1>5. pc' \in [Threads -> Labels] /\ pc'[t] = "run.failed" /\ OthersKeep(t)
  BY <1>0, <1>1, LabelSet DEF MarkFailed, Goto, TypeOK, OthersKeep
<1>6. TypeOK'
  BY <1>0, <1>1, <1>3, <1>4, <1>5 DEF TypeOK
<1>7. ThreadOK(t)'
  BY <1>1, <1>2, <1>5
     DEF ThreadOK, HasWork, WorksBehindTrace, AttemptIsGoverned, GatePauses,
         PauseOwnsGate, DecidesApproval, AtStep, Deciding
<1> QED BY <1>1, <1>3, <1>4, <1>5, <1>6, <1>7, UnrecordedStep

\* The next step is behind the trace: the span of this one is completed.
LEMMA AdvanceStep ==
    ASSUME IInv, NEW t \in Threads, Advance(t)
    PROVE  IInv'
<1>0. TypeOK /\ ThreadOK(t)
  BY DEF IInv
<1>1. UNCHANGED <<status, span, spanIn, spanOut, approval, overdue, events,
                  queue, phase, backlog, crashes, sweep, lapsing, job>>
  BY DEF Advance, Quiet, runRow, spanRow, approvalRow, procVars, sweepVars, locals
<1>2. /\ job[t] \in Runs /\ idx[t] \in Steps /\ Behind(job[t], idx[t])
      /\ span[job[t]][idx[t]] = "completed" /\ Out(idx[t]) \in Values
  BY <1>0, ValueSet DEF Advance, TypeOK, ThreadOK, HasWork, WorksBehindTrace, AtStep
<1>3. idx[t] + 1 \in 0 .. N /\ Behind(job[t], idx[t] + 1)
  BY <1>2, SizeAssumption DEF Behind, Steps
<1>4. step' \in [Runs -> 0 .. N] /\ ResumesBehindTrace'
  BY <1>0, <1>1, <1>2, <1>3 DEF IInv, Advance, TypeOK, ResumesBehindTrace, Behind
<1>5. /\ pc' \in [Threads -> Labels] /\ idx' \in [Threads -> 0 .. N]
      /\ val' \in [Threads -> Values] /\ tries' \in [Threads -> 0 .. Retries]
      /\ output' \in [Runs -> Values] /\ OthersKeep(t)
      /\ idx'[t] = idx[t] + 1 /\ pc'[t] = IF idx[t] + 1 < N THEN "check" ELSE "finish"
  BY <1>0, <1>1, <1>2, <1>3, LabelSet, ValueSet
     DEF Advance, Goto, LoopHead, TypeOK, OthersKeep
<1>6. TypeOK'
  BY <1>0, <1>1, <1>4, <1>5 DEF TypeOK
<1>7. ThreadOK(t)'
  BY <1>1, <1>2, <1>3, <1>5, SizeAssumption
     DEF Behind, Steps, ThreadOK, HasWork, WorksBehindTrace, AttemptIsGoverned,
         GatePauses, PauseOwnsGate, DecidesApproval, AtStep, Deciding
<1>8. CompletedIsFullyTraced'
  BY <1>1 DEF IInv, CompletedIsFullyTraced
<1> QED BY <1>1, <1>4, <1>5, <1>6, <1>7, <1>8, UnrecordedStep

\* The INSERT of a governed span that nothing rests on yet.
LEMMA Inserting ==
    ASSUME IInv, NEW r \in Runs, NEW i \in Steps, NEW state \in SpanStatus \ {"none"},
           NEW in \in Values, NEW out \in Values,
           InsertSpan(r, i, state, in, out), i < Budget[r], <<r, i>> \notin Denied,
           UNCHANGED <<step, approval, status>>
    PROVE  /\ span' \in [Runs -> [Steps -> SpanStatus]]
           /\ spanIn' \in [Runs -> [Steps -> Values]]
           /\ spanOut' \in [Runs -> [Steps -> Values]]
           /\ span[r][i] = "none" /\ span'[r][i] = state
           /\ SpansGrow /\ ApprovalsGrow
           /\ ResumesBehindTrace' /\ GovernedSteps' /\ ApprovalHasSpan'
           /\ CompletedIsFullyTraced'
<1>0. TypeOK
  BY DEF IInv
<1>1. /\ span' \in [Runs -> [Steps -> SpanStatus]]
      /\ spanIn' \in [Runs -> [Steps -> Values]]
      /\ spanOut' \in [Runs -> [Steps -> Values]]
  BY <1>0 DEF InsertSpan, TypeOK
<1>2. /\ span[r][i] = "none" /\ span'[r][i] = state
      /\ \A q \in Runs, j \in Steps : span[q][j] # "none" => span'[q][j] = span[q][j]
      /\ \A q \in Runs, j \in Steps :
           span'[q][j] # "none" => span[q][j] # "none" \/ (q = r /\ j = i)
  BY <1>0 DEF InsertSpan, TypeOK
<1>3. SpansGrow /\ ApprovalsGrow
  BY <1>2 DEF SpansGrow, ApprovalsGrow
<1>4. ResumesBehindTrace'
  <2>1. ASSUME NEW q \in Runs, NEW j \in 0 .. step[q] - 1
        PROVE  span'[q][j] = "completed"
    <3>1. step[q] \in 0 .. N /\ span[q][j] = "completed"
      BY <1>0 DEF IInv, ResumesBehindTrace, TypeOK
    <3>2. j \in Steps
      BY <3>1, SizeAssumption DEF Steps
    <3> QED BY <1>2, <3>1, <3>2
  <2> QED BY <2>1 DEF ResumesBehindTrace
<1>5. GovernedSteps'
  BY <1>2 DEF IInv, GovernedSteps
<1>6. ApprovalHasSpan'
  BY <1>2, SizeAssumption DEF IInv, ApprovalHasSpan, Steps
<1>7. CompletedIsFullyTraced'
  BY <1>2 DEF IInv, CompletedIsFullyTraced
<1> QED BY <1>1, <1>2, <1>3, <1>4, <1>5, <1>6, <1>7

\* _record_span inserts a governed span behind the trace, or the thread escapes.
LEMMA RecordSpanStep ==
    ASSUME IInv, NEW t \in Threads, RecordSpan(t)
    PROVE  IInv'
<1>0. TypeOK /\ ThreadOK(t)
  BY DEF IInv
<1>1. UNCHANGED <<status, step, output, approval, overdue, events, queue,
                  phase, backlog, crashes, sweep, lapsing>>
  BY DEF RecordSpan, Quiet, runRow, spanRow, approvalRow, procVars, sweepVars, locals
<1>2. /\ job[t] \in Runs /\ idx[t] \in Steps /\ Behind(job[t], idx[t])
      /\ idx[t] < Budget[job[t]] /\ <<job[t], idx[t]>> \notin Denied
  BY <1>0 DEF RecordSpan, ThreadOK, HasWork, WorksBehindTrace, AttemptIsGoverned, AtStep
<1>3. CASE Escape(t) /\ UNCHANGED spanRow
  <2>1. \E label \in {"idle", "dead"} : Leave(t, label)
    BY <1>3 DEF Escape
  <2>2. TypeOK'
    BY <1>0, <1>1, <1>3, <2>1, Leaving DEF spanRow, TypeOK
  <2>3. CompletedIsFullyTraced'
    BY <1>1, <1>3 DEF spanRow, IInv, CompletedIsFullyTraced
  <2> QED BY <1>0, <1>1, <1>3, <2>1, <2>2, <2>3, Leaving, LocalStep DEF spanRow
<1>4. ASSUME NEW state \in {"completed", "failed"}, NEW out \in Values,
             NEW label \in {"advance", "mark_failed"},
             InsertSpan(job[t], idx[t], state, val[t], out), Goto(t, label), UNCHANGED locals,
             label = "advance" => state = "completed"
      PROVE  IInv'
  <2>1. val[t] \in Values /\ state \in SpanStatus \ {"none"}
    BY <1>0 DEF TypeOK, SpanStatus
  <2>2. /\ span' \in [Runs -> [Steps -> SpanStatus]]
        /\ spanIn' \in [Runs -> [Steps -> Values]]
        /\ spanOut' \in [Runs -> [Steps -> Values]]
        /\ span[job[t]][idx[t]] = "none" /\ span'[job[t]][idx[t]] = state
        /\ SpansGrow /\ ApprovalsGrow
        /\ ResumesBehindTrace' /\ GovernedSteps' /\ ApprovalHasSpan'
        /\ CompletedIsFullyTraced'
    BY <1>1, <1>2, <1>4, <2>1, Inserting
  <2>3. pc' \in [Threads -> Labels] /\ pc'[t] = label /\ OthersKeep(t)
    BY <1>0, <1>4, LabelSet DEF Goto, TypeOK, OthersKeep, locals
  <2>4. TypeOK'
    BY <1>0, <1>1, <1>4, <2>2, <2>3 DEF TypeOK, locals
  <2>5. Behind(job[t], idx[t])'
    <3>1. ASSUME NEW j \in 0 .. idx[t] - 1 PROVE span'[job[t]][j] = "completed"
      <4>1. j \in Steps /\ span[job[t]][j] = "completed"
        BY <1>2, SizeAssumption DEF Behind, Steps
      <4> QED BY <1>2, <2>2, <4>1 DEF SpansGrow
    <3> QED BY <1>4, <3>1 DEF Behind, locals
  <2>6. ThreadOK(t)'
    BY <1>2, <1>4, <2>2, <2>3, <2>5
       DEF locals, ThreadOK, HasWork, WorksBehindTrace, AttemptIsGoverned, GatePauses,
           PauseOwnsGate, DecidesApproval, AtStep, Deciding
  <2>7. ASSUME NEW u \in Threads \ {t} PROVE PauseOwnsGate(u)'
    BY <1>1, <1>4, <2>2, <2>3
       DEF IInv, TypeOK, ThreadOK, HasWork, PauseOwnsGate, OthersKeep, InsertSpan, AtStep
  <2>8. OnePause'
    BY <2>3 DEF IInv, OnePause, OthersKeep
  <2> QED BY <1>1, <2>2, <2>3, <2>4, <2>6, <2>7, <2>8, TableStep
<1>5. Out(idx[t]) \in Values /\ Input \in Values
  BY <1>2, ValueSet
<1> QED BY <1>3, <1>4, <1>5 DEF RecordSpan

\* The waiting span is inserted by one thread only: OnePause.
LEMMA PauseStep ==
    ASSUME IInv, NEW t \in Threads, Pause(t)
    PROVE  IInv'
<1>0. TypeOK /\ ThreadOK(t)
  BY DEF IInv
<1>1. UNCHANGED <<status, step, output, approval, overdue, events, queue, phase, backlog,
                  crashes, sweep, lapsing, job, idx, val>>
  BY DEF Pause, Quiet, runRow, approvalRow, procVars, sweepVars
<1>2. /\ pc[t] = "pause" /\ job[t] \in Runs /\ idx[t] \in Steps /\ Behind(job[t], idx[t])
      /\ idx[t] < Budget[job[t]] /\ <<job[t], idx[t]>> \notin Denied
      /\ <<job[t], idx[t]>> \in Approvals
  BY <1>0
     DEF Pause, ThreadOK, HasWork, WorksBehindTrace, AttemptIsGoverned, GatePauses,
         AtStep
<1>3. CASE /\ InsertSpan(job[t], idx[t], "waiting", val[t], val[t])
           /\ Goto(t, "pause_row") /\ UNCHANGED tries
  <2>1. val[t] \in Values /\ "waiting" \in SpanStatus \ {"none"}
    BY <1>0 DEF TypeOK, SpanStatus
  <2>2. /\ span' \in [Runs -> [Steps -> SpanStatus]]
        /\ spanIn' \in [Runs -> [Steps -> Values]]
        /\ spanOut' \in [Runs -> [Steps -> Values]]
        /\ span[job[t]][idx[t]] = "none" /\ span'[job[t]][idx[t]] = "waiting"
        /\ SpansGrow /\ ApprovalsGrow
        /\ ResumesBehindTrace' /\ GovernedSteps' /\ ApprovalHasSpan'
        /\ CompletedIsFullyTraced'
    BY <1>1, <1>2, <1>3, <2>1, Inserting
  <2>3. pc' \in [Threads -> Labels] /\ pc'[t] = "pause_row" /\ OthersKeep(t)
    BY <1>0, <1>1, <1>3, LabelSet DEF Goto, TypeOK, OthersKeep
  <2>4. TypeOK'
    BY <1>0, <1>1, <1>3, <2>2, <2>3 DEF TypeOK
  <2>5. Behind(job[t], idx[t])'
    <3>1. ASSUME NEW j \in 0 .. idx[t] - 1 PROVE span'[job[t]][j] = "completed"
      <4>1. j \in Steps /\ span[job[t]][j] = "completed"
        BY <1>2, SizeAssumption DEF Behind, Steps
      <4> QED BY <1>2, <2>2, <4>1 DEF SpansGrow
    <3> QED BY <1>1, <3>1 DEF Behind
  <2>6. approval'[job[t]][idx[t]] = "none"
    BY <1>1, <1>2, <2>2 DEF IInv, ApprovalHasSpan
  <2>7. ThreadOK(t)'
    BY <1>1, <1>2, <2>2, <2>3, <2>5, <2>6
       DEF ThreadOK, HasWork, WorksBehindTrace, AttemptIsGoverned, GatePauses,
           PauseOwnsGate, DecidesApproval, AtStep, Deciding
  <2>8. ASSUME NEW u \in Threads \ {t} PROVE PauseOwnsGate(u)'
    BY <1>1, <1>3, <2>2, <2>3
       DEF IInv, TypeOK, ThreadOK, HasWork, PauseOwnsGate, OthersKeep, InsertSpan, AtStep
  <2>9. OnePause'
    BY <1>1, <2>2, <2>3 DEF IInv, OnePause, OthersKeep, ThreadOK, PauseOwnsGate
  <2> QED BY <1>1, <2>2, <2>3, <2>4, <2>7, <2>8, <2>9, TableStep
<1>4. CASE /\ span[job[t]][idx[t]] # "none" /\ UNCHANGED spanRow
           /\ \/ /\ tries[t] < Retries /\ UNCHANGED pc
                 /\ tries' = [tries EXCEPT ![t] = @ + 1]
              \/ Goto(t, "recheck_error") /\ UNCHANGED tries
  <2>1. tries' \in [Threads -> 0 .. Retries]
    <3>1. tries[t] < Retries => tries[t] + 1 \in 0 .. Retries
      BY <1>0, SizeAssumption DEF TypeOK
    <3> QED BY <1>0, <1>4, <3>1 DEF TypeOK
  <2>2. /\ pc' \in [Threads -> Labels] /\ pc'[t] \in {"pause", "recheck_error"}
        /\ OthersKeep(t)
    BY <1>0, <1>1, <1>2, <1>4, LabelSet DEF Goto, TypeOK, OthersKeep
  <2>3. TypeOK'
    BY <1>0, <1>1, <1>4, <2>1, <2>2 DEF TypeOK, spanRow
  <2>4. ThreadOK(t)'
    BY <1>1, <1>2, <1>4, <2>2
       DEF spanRow, Behind, ThreadOK, HasWork, WorksBehindTrace, AttemptIsGoverned,
           GatePauses, PauseOwnsGate, DecidesApproval, AtStep, Deciding
  <2>5. CompletedIsFullyTraced'
    BY <1>1, <1>4 DEF IInv, CompletedIsFullyTraced, spanRow
  <2> QED BY <1>1, <1>4, <2>2, <2>3, <2>4, <2>5, LocalStep DEF spanRow
<1> QED BY <1>3, <1>4 DEF Pause

\* The approval row arrives at a gate whose span waits: PauseOwnsGate.
LEMMA PauseRowStep ==
    ASSUME IInv, NEW t \in Threads, PauseRow(t)
    PROVE  IInv'
<1>0. TypeOK /\ ThreadOK(t)
  BY DEF IInv
<1>1. UNCHANGED <<span, spanIn, spanOut, overdue, events, queue, phase, backlog, crashes,
                  sweep, lapsing, job, idx, val, tries>>
  BY DEF PauseRow, Quiet, spanRow, procVars, sweepVars, locals
<1>2. /\ pc[t] = "pause_row" /\ job[t] \in Runs /\ idx[t] \in Steps /\ idx[t] \in 0 .. N
      /\ Behind(job[t], idx[t]) /\ <<job[t], idx[t]>> \in Approvals
      /\ span[job[t]][idx[t]] = "waiting"
  BY <1>0, SizeAssumption
     DEF PauseRow, ThreadOK, HasWork, WorksBehindTrace, GatePauses, PauseOwnsGate,
         AtStep, Steps
<1>3. approval' = [approval EXCEPT ![job[t]][idx[t]] = "pending"]
  BY DEF PauseRow
<1>4. /\ approval' \in [Runs -> [Steps -> ApprovalStatus]]
      /\ status' \in [Runs -> RunStatus] /\ output' \in [Runs -> Values]
      /\ step' \in [Runs -> 0 .. N]
  BY <1>0, <1>2 DEF PauseRow, TypeOK, ApprovalStatus, RunStatus
<1>5. pc' \in [Threads -> Labels] /\ pc'[t] = "approval.pending" /\ OthersKeep(t)
  BY <1>0, <1>1, LabelSet DEF PauseRow, Goto, TypeOK, OthersKeep
<1>6. TypeOK'
  BY <1>0, <1>1, <1>4, <1>5 DEF TypeOK
<1>7. CompletedIsFullyTraced'
  BY <1>1, NotCompleting DEF PauseRow, RunStatus
<1>8. SpansGrow /\ ApprovalsGrow
  BY <1>0, <1>1, <1>3 DEF SpansGrow, ApprovalsGrow, TypeOK
<1>9. ResumesBehindTrace' /\ GovernedSteps'
  BY <1>0, <1>1, <1>2 DEF PauseRow, IInv, TypeOK, ResumesBehindTrace, GovernedSteps, Behind
<1>10. ApprovalHasSpan'
  <2>1. ASSUME NEW r \in Runs, NEW i \in Steps, approval'[r][i] # "none"
        PROVE  /\ <<r, i>> \in Approvals
               /\ span[r][i] \in {"waiting", "completed"}
               /\ Behind(r, i)
    <3>1. CASE r = job[t] /\ i = idx[t]
      BY <1>2, <3>1
    <3>2. CASE ~ (r = job[t] /\ i = idx[t])
      <4>1. approval[r][i] # "none"
        BY <1>0, <1>3, <2>1, <3>2 DEF TypeOK
      <4> QED BY <4>1 DEF IInv, ApprovalHasSpan, Behind
    <3> QED BY <3>1, <3>2
  <2> QED BY <1>1, <2>1 DEF ApprovalHasSpan, Behind
<1>11. ThreadOK(t)'
  BY <1>1, <1>2, <1>5
     DEF ThreadOK, HasWork, WorksBehindTrace, AttemptIsGoverned, GatePauses,
         PauseOwnsGate, DecidesApproval, AtStep, Deciding
<1>12. ASSUME NEW u \in Threads \ {t} PROVE PauseOwnsGate(u)'
  BY <1>0, <1>1, <1>2, <1>3, <1>5
     DEF IInv, TypeOK, ThreadOK, HasWork, PauseOwnsGate, OthersKeep, OnePause, AtStep
<1>13. OnePause'
  BY <1>5 DEF IInv, OnePause, OthersKeep
<1> QED BY <1>1, <1>5, <1>6, <1>7, <1>8, <1>9, <1>10, <1>11, <1>12, <1>13, TableStep

\* Approvals are settled one way or the other, none appears.
ApprovalsSettle ==
    \A r \in Runs, i \in Steps : approval'[r][i] = "none" <=> approval[r][i] = "none"

\* A step that settles approvals and leaves the trace alone.
LEMMA SettlingStep ==
    ASSUME IInv, NEW t \in Threads, OthersKeep(t), ApprovalsSettle,
           UNCHANGED <<span, step, lapsing>>, TypeOK', ThreadOK(t)',
           pc'[t] # "pause_row", CompletedIsFullyTraced'
    PROVE  IInv'
<1>1. SpansGrow /\ ApprovalsGrow
  BY DEF SpansGrow, ApprovalsGrow, ApprovalsSettle
<1>2. ASSUME NEW u \in Threads \ {t} PROVE PauseOwnsGate(u)'
  BY DEF IInv, ThreadOK, HasWork, PauseOwnsGate, OthersKeep, ApprovalsSettle, AtStep
<1>3. OnePause'
  BY DEF IInv, OnePause, OthersKeep
<1>4. ResumesBehindTrace' /\ GovernedSteps' /\ ApprovalHasSpan'
  BY DEF IInv, ResumesBehindTrace, GovernedSteps, ApprovalHasSpan, ApprovalsSettle
<1> QED BY <1>1, <1>2, <1>3, <1>4, TableStep

\* cancel_run rejects pending approvals and adds none.
LEMMA CancelWriteStep ==
    ASSUME IInv, NEW t \in Threads, CancelWrite(t)
    PROVE  IInv'
<1>0. TypeOK /\ ThreadOK(t)
  BY DEF IInv
<1>1. UNCHANGED <<step, output, span, spanIn, spanOut, overdue, events, queue, phase,
                  backlog, crashes, sweep, lapsing, job, idx, val, tries>>
  BY DEF CancelWrite, Quiet, spanRow, procVars, sweepVars, locals
<1>2. status' \in [Runs -> RunStatus] /\ CompletedIsFullyTraced'
  BY <1>1, NotCompleting DEF CancelWrite, RunStatus, Terminal
<1>3. approval' \in [Runs -> [Steps -> ApprovalStatus]] /\ ApprovalsSettle
  BY <1>0 DEF CancelWrite, TypeOK, ApprovalStatus, ApprovalsSettle
<1>4. /\ pc' \in [Threads -> Labels] /\ pc'[t] = "run.cancelled" /\ OthersKeep(t)
      /\ job[t] \in Runs
  BY <1>0, <1>1, LabelSet DEF CancelWrite, Goto, TypeOK, OthersKeep, ThreadOK, HasWork
<1>5. TypeOK'
  BY <1>0, <1>1, <1>2, <1>3, <1>4 DEF TypeOK
<1>6. ThreadOK(t)'
  BY <1>1, <1>4 DEF ThreadOK, HasWork, WorksBehindTrace, AttemptIsGoverned, GatePauses,
         PauseOwnsGate, DecidesApproval, AtStep, Deciding
<1> QED BY <1>1, <1>2, <1>3, <1>4, <1>5, <1>6, SettlingStep

\* decide_approval lapses an approval row that exists.
LEMMA LapseStep ==
    ASSUME IInv, NEW t \in Threads, Lapse(t)
    PROVE  IInv'
<1>0. TypeOK /\ ThreadOK(t)
  BY DEF IInv
<1>1. UNCHANGED <<status, step, output, span, spanIn, spanOut, overdue, events, queue, phase,
                  backlog, crashes, sweep, lapsing>>
  BY DEF Lapse, Quiet, runRow, spanRow, procVars, sweepVars
<1>2. approval' \in [Runs -> [Steps -> ApprovalStatus]] /\ ApprovalsSettle
  <2>1. \/ approval' = approval
        \/ /\ approval[job[t]][idx[t]] = "pending"
           /\ approval' = [approval EXCEPT ![job[t]][idx[t]] = "expired"]
    BY DEF Lapse
  <2>2. "expired" \in ApprovalStatus /\ approval \in [Runs -> [Steps -> ApprovalStatus]]
    BY <1>0 DEF TypeOK, ApprovalStatus
  <2>3. approval' \in [Runs -> [Steps -> ApprovalStatus]]
    BY <2>1, <2>2
  <2>4. ApprovalsSettle
    BY <2>1, <2>2 DEF ApprovalsSettle
  <2> QED BY <2>3, <2>4
<1>3. TypeOK'
  BY <1>0, <1>1, <1>2, Leaving DEF Lapse, Return, TypeOK
<1>4. CompletedIsFullyTraced'
  BY <1>1 DEF IInv, CompletedIsFullyTraced
<1> QED BY <1>0, <1>1, <1>2, <1>3, <1>4, Leaving, SettlingStep DEF Lapse, Return

\* decide_approval rejects an approval row that exists.
LEMMA RejectStep ==
    ASSUME IInv, NEW t \in Threads, Reject(t)
    PROVE  IInv'
<1>0. TypeOK /\ ThreadOK(t)
  BY DEF IInv
<1>1. UNCHANGED <<step, output, span, spanIn, spanOut, overdue, events, queue, phase,
                  backlog, crashes, sweep, lapsing, job, idx, val, tries>>
  BY DEF Reject, Quiet, spanRow, procVars, sweepVars, locals
<1>2. job[t] \in Runs /\ idx[t] \in Steps /\ approval[job[t]][idx[t]] # "none"
  BY <1>0 DEF Reject, ThreadOK, HasWork, DecidesApproval, Deciding
<1>3. status' \in [Runs -> RunStatus] /\ CompletedIsFullyTraced'
  BY <1>1, NotCompleting DEF Reject, RunStatus, Terminal
<1>4. approval' \in [Runs -> [Steps -> ApprovalStatus]] /\ ApprovalsSettle
  BY <1>0, <1>2 DEF Reject, TypeOK, ApprovalStatus, ApprovalsSettle
<1>5. pc' \in [Threads -> Labels] /\ pc'[t] = "run.rejected" /\ OthersKeep(t)
  BY <1>0, <1>1, LabelSet DEF Reject, Goto, TypeOK, OthersKeep
<1>6. TypeOK'
  BY <1>0, <1>1, <1>3, <1>4, <1>5 DEF TypeOK
<1>7. ThreadOK(t)'
  BY <1>1, <1>2, <1>5
     DEF ThreadOK, HasWork, WorksBehindTrace, AttemptIsGoverned, GatePauses,
         PauseOwnsGate, DecidesApproval, AtStep, Deciding
<1> QED BY <1>1, <1>3, <1>4, <1>5, <1>6, <1>7, SettlingStep

\* The release of a gate puts the run behind a completed prefix.
LEMMA ApproveStep ==
    ASSUME IInv, NEW t \in Threads, Approve(t)
    PROVE  IInv'
<1>0. TypeOK /\ ThreadOK(t)
  BY DEF IInv
<1>1. UNCHANGED <<spanIn, overdue, events, queue, phase, backlog, crashes, sweep, lapsing,
                  job, idx, val, tries>>
  BY DEF Approve, Quiet, procVars, sweepVars, locals
<1>2. /\ job[t] \in Runs /\ idx[t] \in Steps /\ approval[job[t]][idx[t]] # "none"
  BY <1>0 DEF Approve, ThreadOK, HasWork, DecidesApproval, Deciding
<1>3. span[job[t]][idx[t]] \in {"waiting", "completed"} /\ Behind(job[t], idx[t])
  BY <1>2 DEF IInv, ApprovalHasSpan, Behind
<1>4. /\ approval' = [approval EXCEPT ![job[t]][idx[t]] = "approved"]
      /\ span' = [span EXCEPT ![job[t]][idx[t]] = "completed"]
      /\ status' = [status EXCEPT ![job[t]] = "running"]
      /\ step' = [step EXCEPT ![job[t]] = idx[t] + 1]
  BY DEF Approve
<1>5. /\ approval' \in [Runs -> [Steps -> ApprovalStatus]] /\ status' \in [Runs -> RunStatus]
      /\ step' \in [Runs -> 0 .. N] /\ span' \in [Runs -> [Steps -> SpanStatus]]
  BY <1>0, <1>2, <1>4, ValueSet DEF TypeOK, ApprovalStatus, RunStatus, SpanStatus
<1>6. output' \in [Runs -> Values] /\ spanOut' \in [Runs -> [Steps -> Values]]
  <2>1. Edited(idx[t]) \in Values
    BY <1>2, ValueSet
  <2>2. output' \in {output, [output EXCEPT ![job[t]] = Edited(idx[t])]}
    BY DEF Approve
  <2>3. spanOut' \in {spanOut, [spanOut EXCEPT ![job[t]][idx[t]] = Edited(idx[t])]}
    BY DEF Approve
  <2>4. output' \in [Runs -> Values]
    BY <1>0, <2>1, <2>2 DEF TypeOK
  <2>5. CASE spanOut' = spanOut
    BY <1>0, <2>4, <2>5 DEF TypeOK
  <2>6. CASE spanOut' = [spanOut EXCEPT ![job[t]][idx[t]] = Edited(idx[t])]
    <3>1. spanOut' \in [Runs -> [Steps -> Values]]
      BY <1>0, <1>2, <2>1, <2>6 DEF TypeOK
    <3> QED BY <2>4, <3>1
  <2> QED BY <2>3, <2>5, <2>6
<1>7. pc' \in [Threads -> Labels] /\ pc'[t] = "read" /\ OthersKeep(t)
  BY <1>0, <1>1, LabelSet DEF Approve, Goto, TypeOK, OthersKeep
<1>8. TypeOK'
  BY <1>0, <1>1, <1>5, <1>6, <1>7 DEF TypeOK
<1>9. /\ SpansGrow /\ ApprovalsSettle /\ ApprovalsGrow
      /\ span'[job[t]][idx[t]] = "completed"
      /\ \A r \in Runs, i \in Steps : span'[r][i] = "none" <=> span[r][i] = "none"
  BY <1>0, <1>2, <1>3, <1>4 DEF TypeOK, SpansGrow, ApprovalsSettle, ApprovalsGrow
<1>10. ResumesBehindTrace'
  <2>1. ASSUME NEW r \in Runs, NEW j \in 0 .. step'[r] - 1 PROVE span'[r][j] = "completed"
    <3>1. j \in Steps
      BY <1>5, SizeAssumption DEF Steps
    <3>2. CASE r = job[t] /\ j = idx[t]
      BY <1>9, <3>2
    <3>3. CASE ~ (r = job[t] /\ j = idx[t])
      <4>1. span[r][j] = "completed"
        BY <1>0, <1>2, <1>3, <1>4, <3>3 DEF IInv, TypeOK, ResumesBehindTrace, Behind, Steps
      <4> QED BY <1>9, <3>1, <4>1 DEF SpansGrow
    <3> QED BY <3>2, <3>3
  <2> QED BY <2>1 DEF ResumesBehindTrace
<1>11. GovernedSteps'
  BY <1>9 DEF IInv, GovernedSteps
<1>12. ApprovalHasSpan'
  <2>1. ASSUME NEW r \in Runs, NEW i \in Steps, approval'[r][i] # "none"
        PROVE  /\ <<r, i>> \in Approvals
               /\ span'[r][i] \in {"waiting", "completed"}
               /\ \A j \in 0 .. i - 1 : span'[r][j] = "completed"
    <3>1. /\ <<r, i>> \in Approvals /\ span[r][i] \in {"waiting", "completed"}
          /\ Behind(r, i)
      BY <1>9, <2>1 DEF IInv, ApprovalHasSpan, ApprovalsSettle, Behind
    <3>2. span'[r][i] \in {"waiting", "completed"}
      BY <1>0, <1>2, <1>4, <3>1 DEF TypeOK
    <3>3. \A j \in 0 .. i - 1 : j \in Steps
      BY SizeAssumption DEF Steps
    <3> QED BY <1>9, <3>1, <3>2, <3>3 DEF SpansGrow, Behind
  <2> QED BY <2>1 DEF ApprovalHasSpan
<1>13. CompletedIsFullyTraced'
  BY <1>0, <1>2, <1>4, <1>9 DEF IInv, TypeOK, CompletedIsFullyTraced, SpansGrow
<1>14. ThreadOK(t)'
  BY <1>1, <1>2, <1>7
     DEF ThreadOK, HasWork, WorksBehindTrace, AttemptIsGoverned, GatePauses,
         PauseOwnsGate, DecidesApproval, AtStep, Deciding
<1>15. ASSUME NEW u \in Threads \ {t} PROVE PauseOwnsGate(u)'
  BY <1>0, <1>2, <1>4, <1>7
     DEF IInv, TypeOK, ThreadOK, HasWork, PauseOwnsGate, OthersKeep, AtStep
<1>16. OnePause'
  BY <1>7 DEF IInv, OnePause, OthersKeep
<1> QED BY <1>1, <1>7, <1>8, <1>9, <1>10, <1>11, <1>12, <1>13, <1>14, <1>15, <1>16,
           TableStep

(***************************************************************************)
(* The scheduler, crashes and recovery                                     *)
(***************************************************************************)

\* A step that moves no thread, or takes threads down.
LEMMA ProcessStep ==
    ASSUME IInv, ApprovalsSettle, UNCHANGED <<span, step>>,
           \A u \in Threads : \/ pc'[u] = pc[u] /\ job'[u] = job[u] /\ idx'[u] = idx[u]
                              \/ pc'[u] = "idle",
           TypeOK', SweepHasApprovals', CompletedIsFullyTraced'
    PROVE  IInv'
<1>1. SpansGrow /\ ApprovalsGrow
  BY DEF SpansGrow, ApprovalsGrow, ApprovalsSettle
<1>2. ASSUME NEW u \in Threads PROVE ThreadOK(u)'
  <2>1. CASE pc'[u] = "idle"
    BY <2>1 DEF ThreadOK, HasWork, WorksBehindTrace, AttemptIsGoverned, GatePauses,
         PauseOwnsGate, DecidesApproval, AtStep, Deciding
  <2>2. CASE pc'[u] = pc[u] /\ job'[u] = job[u] /\ idx'[u] = idx[u]
    <3>1. PauseOwnsGate(u)'
      BY <2>2 DEF IInv, ThreadOK, HasWork, PauseOwnsGate, ApprovalsSettle, AtStep
    <3> QED BY <1>1, <2>2, <3>1, Bystander
  <2> QED BY <2>1, <2>2
<1>3. OnePause'
  BY DEF IInv, OnePause
<1>4. ResumesBehindTrace' /\ GovernedSteps' /\ ApprovalHasSpan'
  BY DEF IInv, ResumesBehindTrace, GovernedSteps, ApprovalHasSpan, ApprovalsSettle
<1> QED BY <1>2, <1>3, <1>4 DEF IInv

\* The clock changes no row.
LEMMA OverdueStep ==
    ASSUME IInv, NEW r \in Runs, NEW i \in Steps, Overdue(r, i)
    PROVE  IInv'
<1>1. UNCHANGED <<status, step, output, span, spanIn, spanOut, approval, events, queue, phase,
                  backlog, crashes, sweep, lapsing, pc, job, idx, val, tries>>
  BY DEF Overdue, runRow, spanRow, procVars, sweepVars, locals
<1>2. TypeOK'
  BY <1>1 DEF Overdue, IInv, TypeOK
<1>3. ApprovalsSettle /\ SweepHasApprovals' /\ CompletedIsFullyTraced'
  BY <1>1 DEF IInv, ApprovalsSettle, SweepHasApprovals, CompletedIsFullyTraced
<1> QED BY <1>1, <1>2, <1>3, ProcessStep

\* expire_approvals reads approvals that exist.
LEMMA SweepSelectStep ==
    ASSUME IInv, SweepSelect
    PROVE  IInv'
<1>1. UNCHANGED <<status, step, output, span, spanIn, spanOut, approval, overdue, events,
                  queue, phase, backlog, crashes, pc, job, idx, val, tries>>
  BY DEF SweepSelect, runRow, spanRow, approvalRow, procVars, locals
<1>2. /\ sweep' = "update" /\ lapsing' \subseteq overdue
      /\ \A r \in Runs, i \in Steps : <<r, i>> \in lapsing' => approval[r][i] = "pending"
  BY DEF SweepSelect
<1>3. TypeOK'
  BY <1>1, <1>2 DEF IInv, TypeOK
<1>4. ApprovalsSettle /\ SweepHasApprovals' /\ CompletedIsFullyTraced'
  BY <1>1, <1>2 DEF IInv, ApprovalsSettle, SweepHasApprovals, CompletedIsFullyTraced
<1> QED BY <1>1, <1>3, <1>4, ProcessStep

\* expire_approvals writes approvals that exist and completes no run.
LEMMA SweepUpdateStep ==
    ASSUME IInv, SweepUpdate
    PROVE  IInv'
<1>0. TypeOK
  BY DEF IInv
<1>1. UNCHANGED <<step, output, span, spanIn, spanOut, overdue, events, queue, phase, backlog,
                  crashes, lapsing, pc, job, idx, val, tries>>
  BY DEF SweepUpdate, spanRow, procVars, locals
<1>2. /\ \A r \in Runs : status'[r] \in {status[r], "rejected"}
      /\ status' \in [Runs -> RunStatus]
  BY <1>0 DEF SweepUpdate, TypeOK, RunStatus, Terminal
<1>3. /\ \A r \in Runs, i \in Steps :
           approval'[r][i] = IF <<r, i>> \in lapsing THEN "expired" ELSE approval[r][i]
      /\ approval' \in [Runs -> [Steps -> ApprovalStatus]]
  BY <1>0 DEF SweepUpdate, TypeOK, ApprovalStatus
<1>4. TypeOK'
  BY <1>0, <1>1, <1>2, <1>3 DEF SweepUpdate, TypeOK
<1>5. ApprovalsSettle /\ SweepHasApprovals'
  BY <1>1, <1>3 DEF IInv, ApprovalsSettle, SweepHasApprovals
<1>6. CompletedIsFullyTraced'
  BY <1>1, <1>2 DEF IInv, CompletedIsFullyTraced
<1> QED BY <1>1, <1>4, <1>5, <1>6, ProcessStep

\* The events of the sweep change nothing the invariant is about.
LEMMA SweepNotifyStep ==
    ASSUME IInv, SweepNotify
    PROVE  IInv'
<1>0. TypeOK
  BY DEF IInv
<1>1. UNCHANGED <<status, step, output, span, spanIn, spanOut, approval, overdue, queue, phase,
                  backlog, crashes, pc, job, idx, val, tries>>
  BY DEF SweepNotify, runRow, spanRow, approvalRow, procVars, locals
<1>2. lapsing' \subseteq lapsing /\ sweep' \in {"idle", "notify"}
  BY DEF SweepNotify
<1>3. events' \in [Runs -> SUBSET Events]
  BY <1>0 DEF SweepNotify, TypeOK, Events
<1>4. TypeOK'
  BY <1>0, <1>1, <1>2, <1>3 DEF TypeOK
<1>5. ApprovalsSettle /\ SweepHasApprovals' /\ CompletedIsFullyTraced'
  BY <1>1, <1>2 DEF IInv, ApprovalsSettle, SweepHasApprovals, CompletedIsFullyTraced
<1> QED BY <1>1, <1>4, <1>5, ProcessStep

\* A process death takes locals away and leaves every row.
LEMMA CrashStep ==
    ASSUME IInv, NEW p \in Processes, Crash(p)
    PROVE  IInv'
<1>0. TypeOK
  BY DEF IInv
<1>1. UNCHANGED <<status, step, output, span, spanIn, spanOut, approval, overdue, events>>
  BY DEF Crash, runRow, spanRow, approvalRow
<1>2. /\ pc' \in [Threads -> Labels] /\ job' \in [Threads -> Runs \cup {NoRun}]
      /\ idx' \in [Threads -> 0 .. N] /\ val' \in [Threads -> Values]
      /\ tries' \in [Threads -> 0 .. Retries]
      /\ \A u \in Threads : \/ pc'[u] = pc[u] /\ job'[u] = job[u] /\ idx'[u] = idx[u]
                            \/ pc'[u] = "idle"
  BY <1>0, LabelSet, ValueSet DEF Crash, TypeOK
<1>3. /\ queue' \in Seq(Runs) /\ phase' \in Phases /\ backlog' \subseteq Runs
      /\ crashes' \in 0 .. MaxCrashes /\ sweep' \in {"idle", "update", "notify"}
      /\ lapsing' \subseteq lapsing
  <2>1. <<>> \in Seq(Runs) /\ "down" \in Phases
    BY DEF Phases
  <2>2. crashes' \in 0 .. MaxCrashes
    BY <1>0, DeploymentAssumption DEF Crash, TypeOK
  <2> QED BY <1>0, <2>1, <2>2 DEF Crash, TypeOK
<1>4. TypeOK'
  BY <1>0, <1>1, <1>2, <1>3 DEF TypeOK
<1>5. ApprovalsSettle /\ SweepHasApprovals' /\ CompletedIsFullyTraced'
  BY <1>1, <1>3 DEF IInv, ApprovalsSettle, SweepHasApprovals, CompletedIsFullyTraced
<1> QED BY <1>1, <1>2, <1>4, <1>5, ProcessStep

\* recover_incomplete_runs requeues runs and completes none.
LEMMA RecoverStep ==
    ASSUME IInv, Recover
    PROVE  IInv'
<1>0. TypeOK
  BY DEF IInv
<1>1. UNCHANGED <<step, output, span, spanIn, spanOut, approval, overdue, events, crashes,
                  sweep, lapsing, pc, job, idx, val, tries>>
  BY DEF Recover, Boot, RecoverSelect, RecoverUpdate, Resubmit, Serve, runRow, spanRow,
         approvalRow, sweepVars, locals
<1>2. phase' \in Phases /\ backlog' \subseteq Runs
  BY <1>0 DEF Recover, Boot, RecoverSelect, Incomplete, RecoverUpdate, Resubmit, Serve, TypeOK,
              Phases
<1>3. queue' \in Seq(Runs)
  <2>1. queue \in Seq(Runs) /\ (queue' = queue \/ \E r \in Runs : queue' = Append(queue, r))
    BY <1>0 DEF Recover, Boot, RecoverSelect, RecoverUpdate, Resubmit, Serve, TypeOK
  <2> QED BY <2>1
<1>4. /\ \A r \in Runs : status'[r] \in {status[r], "queued"}
      /\ status' \in [Runs -> RunStatus]
  BY <1>0
     DEF Recover, Boot, RecoverSelect, RecoverUpdate, Resubmit, Serve, TypeOK, RunStatus,
         runRow
<1>5. TypeOK'
  BY <1>0, <1>1, <1>2, <1>3, <1>4 DEF TypeOK
<1>6. ApprovalsSettle /\ SweepHasApprovals' /\ CompletedIsFullyTraced'
  BY <1>1, <1>4 DEF IInv, ApprovalsSettle, SweepHasApprovals, CompletedIsFullyTraced
<1> QED BY <1>1, <1>5, <1>6, ProcessStep

(***************************************************************************)
(* The invariant, and the properties it contains                           *)
(***************************************************************************)

\* The empty database with idle threads satisfies the invariant.
LEMMA Initially == Init => IInv
<1> SUFFICES ASSUME Init PROVE IInv
  OBVIOUS
<1>1. TypeOK
  <2>1. /\ "none" \in RunStatus /\ "none" \in SpanStatus /\ "none" \in ApprovalStatus
        /\ <<>> \in Seq(Runs) /\ "down" \in Phases /\ 0 \in 0 .. MaxCrashes
    BY DeploymentAssumption DEF RunStatus, SpanStatus, ApprovalStatus, Phases
  <2> QED BY <2>1, ValueSet, LabelSet DEF Init, TypeOK
<1>2. \A t \in Threads : ThreadOK(t)
  BY DEF Init, ThreadOK, HasWork, WorksBehindTrace, AttemptIsGoverned, GatePauses,
         PauseOwnsGate, DecidesApproval, AtStep, Deciding
<1>3. OnePause /\ SweepHasApprovals
  BY DEF Init, OnePause, SweepHasApprovals
<1>4. ResumesBehindTrace /\ GovernedSteps /\ ApprovalHasSpan /\ CompletedIsFullyTraced
  BY DEF Init, ResumesBehindTrace, GovernedSteps, ApprovalHasSpan, CompletedIsFullyTraced
<1> QED BY <1>1, <1>2, <1>3, <1>4 DEF IInv

\* Every step of every thread, of the sweep and of the processes preserves it.
LEMMA Inductive == IInv /\ [Next]_vars => IInv'
<1> SUFFICES ASSUME IInv, [Next]_vars PROVE IInv'
  OBVIOUS
<1>1. ASSUME NEW t \in Threads, Continue(t) PROVE IInv'
  BY <1>1, SubmitStep, ClaimStep, ExecuteStep, MarkStep, CheckStep, RefuseStep, InvokeStep,
     RecheckStep, RecordSpanStep, MarkFailedStep, AdvanceStep, FinishStep, NotifyStep,
     PauseStep, PauseRowStep, CancelWriteStep, LapseStep, RejectStep, ApproveStep
     DEF Continue
<1>2. ASSUME NEW t \in Threads, Pop(t) PROVE IInv'
  BY <1>2, PopStep
<1>3. ASSUME NEW t \in Threads, Arrive(t) PROVE IInv'
  BY <1>3, StartSyncStep, StartQueuedStep, CancelReadStep, EscalateStep, DecideReadStep
     DEF Arrive
<1>4. ASSUME NEW r \in Runs, NEW i \in Steps, Overdue(r, i) PROVE IInv'
  BY <1>4, OverdueStep
<1>5. CASE Expire
  BY <1>5, SweepSelectStep, SweepUpdateStep, SweepNotifyStep DEF Expire
<1>6. CASE Recover
  BY <1>6, RecoverStep
<1>7. ASSUME NEW p \in Processes, Crash(p) PROVE IInv'
  BY <1>7, CrashStep
<1>8. CASE UNCHANGED vars
  <2>1. /\ UNCHANGED <<span, step, approval, status, lapsing, pc, job, idx>> /\ TypeOK'
    BY <1>8
       DEF IInv, TypeOK, vars, runRow, spanRow, approvalRow, procVars, sweepVars, locals
  <2>2. ApprovalsSettle /\ SweepHasApprovals' /\ CompletedIsFullyTraced'
    BY <2>1 DEF IInv, ApprovalsSettle, SweepHasApprovals, CompletedIsFullyTraced
  <2> QED BY <2>1, <2>2, ProcessStep
<1> QED BY <1>1, <1>2, <1>3, <1>4, <1>5, <1>6, <1>7, <1>8 DEF Next

\* The invariant holds in every reachable state of every deployment.
THEOREM Invariance == Spec => []IInv
<1> QED BY Initially, Inductive, PTL DEF Spec

\* Every variable keeps its type: no step indexes past the workflow, counts more
\* attempts than the retries allow or writes a status the schema does not know.
THEOREM TypeCorrect == Spec => []TypeOK
<1>1. IInv => TypeOK
  BY DEF IInv
<1> QED BY <1>1, Invariance, PTL

\* A completed run has a completed span for every step, whatever second executor,
\* cancellation, stale decision or restart wrote its row in between.
THEOREM CompletedTraced == Spec => []CompletedIsFullyTraced
<1>1. IInv => CompletedIsFullyTraced
  BY DEF IInv
<1> QED BY <1>1, Invariance, PTL

\* current_step never points past an unrecorded span, so approval and recovery
\* resume no run ahead of its trace.
THEOREM NeverAhead == Spec => []ResumesBehindTrace
<1>1. IInv => ResumesBehindTrace
  BY DEF IInv
<1> QED BY <1>1, Invariance, PTL

\* No step beyond max_steps and no step the actor's role excludes ever leaves a
\* span, however often the run is paused, recovered or re-executed.
THEOREM Governed == Spec => []GovernedSteps
<1>1. IInv => GovernedSteps
  BY DEF IInv
<1> QED BY <1>1, Invariance, PTL

\* An approval row never exists without its gate's span behind a completed prefix.
THEOREM ApprovalsRest == Spec => []ApprovalHasSpan
<1>1. IInv => ApprovalHasSpan
  BY DEF IInv
<1> QED BY <1>1, Invariance, PTL

(***************************************************************************)
(* The gate and the refinement                                             *)
(***************************************************************************)

\* Only three actions write the spans.
LEMMA SpanWriters ==
    ASSUME [Next]_vars
    PROVE  span' = span \/ \E t \in Threads : RecordSpan(t) \/ Pause(t) \/ Approve(t)
<1>1. ASSUME NEW t \in Threads, Continue(t)
      PROVE  span' = span \/ RecordSpan(t) \/ Pause(t) \/ Approve(t)
  BY <1>1 DEF Continue, Submit, Claim, Execute, Mark, Check, Refuse, Invoke, Recheck,
         MarkFailed, Advance, Finish, Notify, PauseRow, CancelWrite, Lapse, Reject, spanRow
<1>2. ASSUME NEW t \in Threads, Pop(t) \/ Arrive(t) PROVE span' = span
  BY <1>2 DEF Pop, Arrive, StartSync, StartQueued, CancelRead, Escalate, DecideRead, spanRow
<1>3. ASSUME NEW r \in Runs, NEW i \in Steps, Overdue(r, i) PROVE span' = span
  BY <1>3 DEF Overdue, spanRow
<1>4. ASSUME Expire \/ Recover PROVE span' = span
  BY <1>4 DEF Expire, Recover, SweepSelect, SweepUpdate, SweepNotify, Boot, RecoverSelect,
         RecoverUpdate, Resubmit, Serve, spanRow
<1>5. ASSUME NEW p \in Processes, Crash(p) PROVE span' = span
  BY <1>5 DEF Crash, spanRow
<1>6. ASSUME UNCHANGED vars PROVE span' = span
  BY <1>6 DEF vars, spanRow
<1> QED BY <1>1, <1>2, <1>3, <1>4, <1>5, <1>6 DEF Next

\* What the writers find and leave: a fresh span behind a completed prefix, or
\* an approval's.
LEMMA SpanWritten ==
    ASSUME IInv, NEW t \in Threads, RecordSpan(t) \/ Pause(t) \/ Approve(t), span' # span
    PROVE  /\ job[t] \in Runs /\ idx[t] \in Steps /\ Behind(job[t], idx[t])
           /\ \/ /\ <<job[t], idx[t]>> \notin Approvals /\ span[job[t]][idx[t]] = "none"
                 /\ \E s \in {"completed", "failed"} :
                      span' = [span EXCEPT ![job[t]][idx[t]] = s]
              \/ /\ <<job[t], idx[t]>> \in Approvals /\ span[job[t]][idx[t]] = "none"
                 /\ span' = [span EXCEPT ![job[t]][idx[t]] = "waiting"]
              \/ /\ <<job[t], idx[t]>> \in Approvals /\ span[job[t]][idx[t]] = "waiting"
                 /\ span' = [span EXCEPT ![job[t]][idx[t]] = "completed"]
                 /\ approval'[job[t]][idx[t]] = "approved"
<1>0. TypeOK /\ ThreadOK(t)
  BY DEF IInv
<1>1. CASE RecordSpan(t)
  <2>1. /\ pc[t] \in {"record_ok", "record_error"} /\ span[job[t]][idx[t]] = "none"
        /\ \E s \in {"completed", "failed"} : span' = [span EXCEPT ![job[t]][idx[t]] = s]
    BY <1>1 DEF RecordSpan, InsertSpan, spanRow
  <2>2. /\ job[t] \in Runs /\ idx[t] \in Steps /\ Behind(job[t], idx[t])
        /\ <<job[t], idx[t]>> \notin Approvals
    BY <1>0, <2>1 DEF ThreadOK, HasWork, WorksBehindTrace, GatePauses, AtStep
  <2> QED BY <2>1, <2>2
<1>2. CASE Pause(t)
  <2>1. /\ pc[t] = "pause" /\ span[job[t]][idx[t]] = "none"
        /\ span' = [span EXCEPT ![job[t]][idx[t]] = "waiting"]
    BY <1>2 DEF Pause, InsertSpan, spanRow
  <2>2. /\ job[t] \in Runs /\ idx[t] \in Steps /\ Behind(job[t], idx[t])
        /\ <<job[t], idx[t]>> \in Approvals
    BY <1>0, <2>1 DEF ThreadOK, HasWork, WorksBehindTrace, GatePauses, AtStep
  <2> QED BY <2>1, <2>2
<1>3. CASE Approve(t)
  <2>1. /\ pc[t] \in Deciding
        /\ approval' = [approval EXCEPT ![job[t]][idx[t]] = "approved"]
        /\ span' = [span EXCEPT ![job[t]][idx[t]] = "completed"]
    BY <1>3 DEF Approve, Deciding
  <2>2. job[t] \in Runs /\ idx[t] \in Steps /\ approval[job[t]][idx[t]] # "none"
    BY <1>0, <2>1 DEF ThreadOK, HasWork, DecidesApproval, Deciding
  <2>3. /\ <<job[t], idx[t]>> \in Approvals /\ Behind(job[t], idx[t])
        /\ span[job[t]][idx[t]] \in {"waiting", "completed"}
    BY <2>2 DEF IInv, ApprovalHasSpan, Behind
  <2>4. approval'[job[t]][idx[t]] = "approved"
    BY <1>0, <2>1, <2>2 DEF TypeOK
  <2>5. span[job[t]][idx[t]] # "completed"
    BY <1>0, <2>1, <2>2 DEF TypeOK
  <2> QED BY <2>1, <2>2, <2>3, <2>4, <2>5
<1> QED BY <1>1, <1>2, <1>3

\* No step completes a gate's span without approving it.
LEMMA GateStep ==
    ASSUME IInv, [Next]_vars
    PROVE  \A r \in Runs, i \in Steps :
             <<r, i>> \in Approvals /\ span[r][i] # "completed" /\ span'[r][i] = "completed"
               => approval'[r][i] = "approved"
<1> SUFFICES ASSUME NEW r \in Runs, NEW i \in Steps, <<r, i>> \in Approvals,
                    span[r][i] # "completed", span'[r][i] = "completed"
             PROVE  approval'[r][i] = "approved"
  OBVIOUS
<1>1. PICK t \in Threads : RecordSpan(t) \/ Pause(t) \/ Approve(t)
  BY SpanWriters
<1>2. span \in [Runs -> [Steps -> SpanStatus]] /\ span' # span
  BY DEF IInv, TypeOK
<1>3. /\ job[t] \in Runs /\ idx[t] \in Steps
      /\ \/ <<job[t], idx[t]>> \notin Approvals
            /\ \E s \in {"completed", "failed"} : span' = [span EXCEPT ![job[t]][idx[t]] = s]
         \/ span' = [span EXCEPT ![job[t]][idx[t]] = "waiting"]
         \/ /\ span' = [span EXCEPT ![job[t]][idx[t]] = "completed"]
            /\ approval'[job[t]][idx[t]] = "approved"
  BY <1>1, <1>2, SpanWritten
<1>4. r = job[t] /\ i = idx[t]
  BY <1>2, <1>3
<1> QED BY <1>2, <1>3, <1>4

\* decide_approval is the only way past a gate: no cancellation, recovery, sweep
\* or second executor ever completes a gate's span.
THEOREM OnlyApprovalOpens == Spec => GateOpensOnlyByApproval
<1>1. IInv /\ [Next]_vars =>
        [\A r \in Runs, i \in Steps :
           <<r, i>> \in Approvals /\ span[r][i] # "completed" /\ span'[r][i] = "completed"
             => approval'[r][i] = "approved"]_vars
  BY GateStep
<1> QED BY <1>1, Invariance, PTL DEF Spec, GateOpensOnlyByApproval

\* Every step of the engine is a step of the flight recorder, or none.
LEMMA RecorderStep ==
    ASSUME IInv, [Next]_vars
    PROVE  [Recorder!Next]_span
<1>1. CASE span' = span
  BY <1>1
<1>2. CASE span' # span
  <2>1. PICK t \in Threads : RecordSpan(t) \/ Pause(t) \/ Approve(t)
    BY <1>2, SpanWriters
  <2> DEFINE r == job[t]
             i == idx[t]
  <2>2. r \in Runs /\ i \in Recorder!Steps /\ Recorder!Reached(r, i)
    BY <1>2, <2>1, SpanWritten DEF Recorder!Steps, Recorder!Reached, Steps, Behind
  <2>3. \/ Recorder!Attempted(r, i) \/ Recorder!Halted(r, i) \/ Recorder!Released(r, i)
    BY <1>2, <2>1, <2>2, SpanWritten
       DEF Recorder!Attempted, Recorder!Halted, Recorder!Released, Recorder!Record
  <2> QED BY <2>2, <2>3 DEF Recorder!Next
<1> QED BY <1>1, <1>2

\* The trace of every run is a flight record: one span per step, in order, gates
\* opened by release only, and nothing recorded is ever changed.
THEOREM Refinement == Spec => ImplementsFlightRecorder
<1>1. Init => Recorder!Init
  BY DEF Init, Recorder!Init, Recorder!Steps, Steps
<1>2. IInv /\ [Next]_vars => [Recorder!Next]_span
  BY RecorderStep
<1> QED BY <1>1, <1>2, Invariance, PTL DEF Spec, ImplementsFlightRecorder, Recorder!Spec
=============================================================================
