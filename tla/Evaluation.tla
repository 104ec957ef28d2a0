------------------------------ MODULE Evaluation ------------------------------
(***************************************************************************)
(* Evaluations of a workflow against a dataset (service.py): the job that  *)
(* runs the cases one after the other, inline in the request or on one of  *)
(* the threads of the evaluation pool, its cancellation, the deletion of   *)
(* the dataset under it, the verdict of the release gate and the           *)
(* case-level comparison of two evaluations.                               *)
(*                                                                         *)
(* There is one dataset.  A step is one transaction, one stand-alone       *)
(* SELECT, or a case: its run and its matcher.  A case is abstracted to    *)
(* what the gate looks at, its verdict, duration and cost.                 *)
(*                                                                         *)
(* A definition whose comment starts with "Mutant" is the definition below *)
(* it with a plausible bug; it is not part of the specification.           *)
(***************************************************************************)
EXTENDS Integers, Sequences, FiniteSets, FiniteSetsExt

CONSTANTS
    Evals,      \* the evaluations
    Pool,       \* threads of eval_executor (2 in the code)
    Results,    \* what a case can come to: [passed, ms, cost]
    Limits,     \* thresholds a client may set: [rate, ms, cost], rate in percent
    NoLimit,    \* a threshold that is not set
    MaxCases,   \* bound: cases of the dataset (500 in the schema)
    MaxCrashes  \* bound: how often the process dies

ASSUME ResultAssumption == Results \subseteq [passed : BOOLEAN, ms : Nat, cost : Nat]
ASSUME LimitAssumption  ==
    /\ NoLimit \notin Nat
    /\ Limits \subseteq [rate : 0 .. 100 \cup {NoLimit}, ms : Nat \cup {NoLimit}, cost : Nat \cup {NoLimit}]
ASSUME BoundAssumption  == Pool \in Nat \ {0} /\ MaxCases \in Nat \ {0} /\ MaxCrashes \in Nat

VARIABLES
    \* --- datasets ---
    cases,     \* how many cases the dataset has; 0 before it is created
    deleted,   \* the dataset was deleted, alone or with its project
    \* --- evaluations ---
    status,    \* evaluations.status; "none" before the INSERT, "gone" after the cascade
    limits,    \* pass_rate_min, max_p95_latency_ms, max_cost_usd
    progress,  \* completed_cases
    stored,    \* results, from which "passed" is counted
    gate,      \* the verdict of the release gate
    \* --- the jobs ---
    line,      \* the queue of eval_executor
    pooled,    \* evaluations whose job belongs to eval_executor
    pc,        \* where a job is
    done,      \* the job's list of results
    quit,      \* whether its last look at the status said cancelled
    shown,     \* history: results the job had when its evaluation was cancelled
    crashes

dataset == <<cases, deleted>>
columns == <<limits, progress, stored, gate>>
locals  == <<done, quit>>
vars    == <<dataset, status, columns, line, pooled, pc, locals, shown, crashes>>

Active  == {"queued", "running"}
\* A job between its start and its end.
Working == {"start", "head", "case", "progress", "last", "write"}
Labels  == Working \cup {"none", "submit", "line", "done", "lost"}

TypeOK ==
    /\ cases \in 0 .. MaxCases /\ deleted \in BOOLEAN
    /\ status \in [Evals -> Active \cup {"none", "completed", "cancelled", "gone"}]
    /\ limits \in [Evals -> Limits \cup {NoLimit}]
    /\ progress \in [Evals -> 0 .. MaxCases]
    /\ stored \in [Evals -> Seq(Results)]
    /\ gate \in [Evals -> {"none", "passed", "failed"}]
    /\ line \in Seq(Evals) /\ pooled \subseteq Evals
    /\ pc \in [Evals -> Labels]
    /\ done \in [Evals -> Seq(Results)]
    /\ quit \in [Evals -> BOOLEAN]
    /\ shown \in [Evals -> Nat]
    /\ crashes \in 0 .. MaxCrashes

Init ==
    /\ cases = 0 /\ deleted = FALSE
    /\ status = [e \in Evals |-> "none"]
    /\ limits = [e \in Evals |-> NoLimit]
    /\ progress = [e \in Evals |-> 0]
    /\ stored = [e \in Evals |-> <<>>]
    /\ gate = [e \in Evals |-> "none"]
    /\ line = <<>> /\ pooled = {}
    /\ pc = [e \in Evals |-> "none"]
    /\ done = [e \in Evals |-> <<>>]
    /\ quit = [e \in Evals |-> FALSE]
    /\ shown = [e \in Evals |-> 0]
    /\ crashes = 0

(***************************************************************************)
(* The arithmetic of a list of results                                     *)
(***************************************************************************)
Passing(s)   == {i \in DOMAIN s : s[i].passed}
Passed(s)    == Cardinality(Passing(s))
Cost(s)      == MapThenSumSet(LAMBDA i : s[i].cost, DOMAIN s)
Within(s, d) == Cardinality({i \in DOMAIN s : s[i].ms <= d})

\* Mutant: the index is taken from the front of a list one too short.
P95RankShort(n) == IF n = 1 THEN 1 ELSE (95 * (n - 1)) \div 100 + 1

\* durations[min(n - 1, int(n * 0.95))], counted from 1
P95Rank(n) == IF (95 * n) \div 100 + 1 < n THEN (95 * n) \div 100 + 1 ELSE n

\* The element at that rank of the sorted durations.
P95(s) ==
    CHOOSE d \in {s[i].ms : i \in DOMAIN s} :
        Within(s, d - 1) < P95Rank(Len(s)) /\ P95Rank(Len(s)) <= Within(s, d)

TooFewPassed(s, l) == l.rate # NoLimit /\ Passed(s) * 100 < l.rate * Len(s)
TooExpensive(s, l) == l.cost # NoLimit /\ Cost(s) > l.cost
TooSlow(s, l)      == l.ms # NoLimit /\ P95(s) > l.ms

\* _evaluation_gate: no verdict without results or without thresholds.
Gate(s, l) ==
    IF s = <<>> \/ l = [rate |-> NoLimit, ms |-> NoLimit, cost |-> NoLimit] THEN "none"
    ELSE IF TooFewPassed(s, l) \/ TooExpensive(s, l) \/ TooSlow(s, l) THEN "failed"
    ELSE "passed"

(***************************************************************************)
(* Requests                                                                *)
(***************************************************************************)
\* create_dataset
CreateDataset ==
    /\ cases = 0
    /\ cases' \in 1 .. MaxCases
    /\ UNCHANGED <<deleted, status, columns, line, pooled, pc, locals, shown, crashes>>

\* evaluate: the INSERT.  An inline job keeps "running", a pooled one "queued"
\* until it ends; the foreign key refuses the row when the dataset is gone.
Evaluate(e, inline) ==
    /\ cases > 0 /\ ~deleted
    /\ pc[e] = "none"
    /\ \E l \in Limits : limits' = [limits EXCEPT ![e] = l]
    /\ status' = [status EXCEPT ![e] = IF inline THEN "running" ELSE "queued"]
    /\ pooled' = IF inline THEN pooled ELSE pooled \cup {e}
    /\ pc' = [pc EXCEPT ![e] = IF inline THEN "start" ELSE "submit"]
    /\ UNCHANGED <<dataset, progress, stored, gate, line, locals, shown, crashes>>

\* eval_executor.submit
Submit(e) ==
    /\ pc[e] = "submit"
    /\ line' = Append(line, e)
    /\ pc' = [pc EXCEPT ![e] = "line"]
    /\ UNCHANGED <<dataset, status, columns, pooled, locals, shown, crashes>>

\* cancel_evaluation: compare and set.
Cancel(e) ==
    /\ status[e] \in Active
    /\ status' = [status EXCEPT ![e] = "cancelled"]
    /\ shown' = [shown EXCEPT ![e] = Len(done[e])]
    /\ UNCHANGED <<dataset, columns, line, pooled, pc, locals, crashes>>

\* delete_dataset: the rows of its evaluations go with it, their jobs go on.
DeleteDataset ==
    /\ cases > 0 /\ ~deleted
    /\ deleted' = TRUE
    /\ status' = [e \in Evals |-> IF status[e] = "none" THEN "none" ELSE "gone"]
    /\ limits' = [e \in Evals |-> NoLimit]
    /\ progress' = [e \in Evals |-> 0]
    /\ stored' = [e \in Evals |-> <<>>]
    /\ gate' = [e \in Evals |-> "none"]
    /\ UNCHANGED <<cases, line, pooled, pc, locals, shown, crashes>>

(***************************************************************************)
(* The job                                                                 *)
(***************************************************************************)
Exists(e) == status[e] # "gone"

Goto(e, label) == pc' = [pc EXCEPT ![e] = label]

\* The job ends, in its return or with an exception, and its locals with it.
End(e, label) ==
    /\ Goto(e, label)
    /\ done' = [done EXCEPT ![e] = <<>>]
    /\ quit' = [quit EXCEPT ![e] = FALSE]

\* Mutant: the threads of the pool are not given back.
TakeOnce(e) ==
    /\ line # <<>> /\ Head(line) = e
    /\ Cardinality({f \in pooled : pc[f] \notin {"none", "submit", "line"}}) < Pool
    /\ line' = Tail(line)
    /\ Goto(e, "start")
    /\ UNCHANGED <<dataset, status, columns, pooled, locals, shown, crashes>>

\* A thread of the pool takes the job that has waited longest.
Take(e) ==
    /\ line # <<>> /\ Head(line) = e
    /\ Cardinality({f \in pooled : pc[f] \in Working}) < Pool
    /\ line' = Tail(line)
    /\ Goto(e, "start")
    /\ UNCHANGED <<dataset, status, columns, pooled, locals, shown, crashes>>

\* get_dataset; a deleted one ends the job with an exception nobody sees.
Begin(e) ==
    /\ pc[e] = "start"
    /\ \/ deleted /\ End(e, "lost")
       \/ ~deleted /\ Goto(e, "head") /\ UNCHANGED locals
    /\ UNCHANGED <<dataset, status, columns, line, pooled, shown, crashes>>

\* Mutant: only the last look notices a cancellation.
NextCaseBlind(e) ==
    /\ pc[e] = "head"
    /\ \/ ~Exists(e) /\ End(e, "lost")
       \/ Exists(e) /\ Goto(e, "case") /\ UNCHANGED locals
    /\ UNCHANGED <<dataset, status, columns, line, pooled, shown, crashes>>

\* The status before every case: a deleted row ends the job with an exception,
\* a cancelled one ends the loop.
NextCase(e) ==
    /\ pc[e] = "head"
    /\ \/ ~Exists(e) /\ End(e, "lost")
       \/ status[e] = "cancelled" /\ Goto(e, "last") /\ UNCHANGED locals
       \/ status[e] \in Active /\ Goto(e, "case") /\ UNCHANGED locals
    /\ UNCHANGED <<dataset, status, columns, line, pooled, shown, crashes>>

\* _match_evaluation: the verdict on the output of the case's run, whatever the
\* matcher is.
Matched(e) == \E r \in Results : done' = [done EXCEPT ![e] = Append(@, r)]

\* The case's run and its matcher: a result, or an exception (a judge that does
\* not answer, a workflow that is gone) that ends the job and leaves its row.
RunCase(e) ==
    /\ pc[e] = "case"
    /\ \/ /\ Matched(e)
          /\ Goto(e, "progress")
          /\ UNCHANGED quit
       \/ End(e, "lost")
    /\ UNCHANGED <<dataset, status, columns, line, pooled, shown, crashes>>

\* Mutant: the loop ends one case early.
ReportEarly(e) ==
    /\ pc[e] = "progress"
    /\ progress' = [progress EXCEPT ![e] = IF Exists(e) THEN Len(done[e]) ELSE @]
    /\ Goto(e, IF Len(done[e]) + 1 < cases THEN "head" ELSE "last")
    /\ UNCHANGED <<dataset, status, limits, stored, gate, line, pooled, locals, shown, crashes>>

\* UPDATE completed_cases: of a deleted row it changes nothing.
Report(e) ==
    /\ pc[e] = "progress"
    /\ progress' = [progress EXCEPT ![e] = IF Exists(e) THEN Len(done[e]) ELSE @]
    /\ Goto(e, IF Len(done[e]) < cases THEN "head" ELSE "last")
    /\ UNCHANGED <<dataset, status, limits, stored, gate, line, pooled, locals, shown, crashes>>

\* The status after the loop.
LastLook(e) ==
    /\ pc[e] = "last"
    /\ \/ ~Exists(e) /\ End(e, "lost")
       \/ /\ Exists(e)
          /\ quit' = [quit EXCEPT ![e] = status[e] = "cancelled"]
          /\ Goto(e, "write")
          /\ UNCHANGED done
    /\ UNCHANGED <<dataset, status, columns, line, pooled, shown, crashes>>

\* The final UPDATE, by id and whatever the status is by now.
Write(e) ==
    /\ pc[e] = "write"
    /\ End(e, "done")
    /\ \/ /\ Exists(e)
          /\ status' = [status EXCEPT ![e] = IF quit[e] THEN "cancelled" ELSE "completed"]
          /\ progress' = [progress EXCEPT ![e] = Len(done[e])]
          /\ stored' = [stored EXCEPT ![e] = done[e]]
          /\ gate' = [gate EXCEPT ![e] = Gate(done[e], limits[e])]
       \/ ~Exists(e) /\ UNCHANGED <<status, progress, stored, gate>>
    /\ UNCHANGED <<dataset, limits, line, pooled, shown, crashes>>

\* The process dies: the pool, its queue and the inline jobs go with it, and
\* nothing takes the rows up again.
Crash ==
    /\ crashes < MaxCrashes
    /\ crashes' = crashes + 1
    /\ line' = <<>>
    /\ pc' = [e \in Evals |-> IF pc[e] \in {"none", "done"} THEN pc[e] ELSE "lost"]
    /\ done' = [e \in Evals |-> <<>>]
    /\ quit' = [e \in Evals |-> FALSE]
    /\ UNCHANGED <<dataset, status, columns, pooled, shown>>

(***************************************************************************)
(* The comparison of two evaluations                                       *)
(***************************************************************************)
\* compare_evaluations: what became of case c between the left evaluation e and
\* the right evaluation f.  Case ids are unique in a dataset, so a case is its
\* place in it.
Transition(e, f, c) ==
    CASE c \notin DOMAIN stored[e] -> "added"
      [] c \notin DOMAIN stored[f] -> "removed"
      [] OTHER -> IF stored[e][c].passed
                  THEN IF stored[f][c].passed THEN "stable_pass" ELSE "regressed"
                  ELSE IF stored[f][c].passed THEN "fixed" ELSE "stable_fail"

Compared(e, f) == DOMAIN stored[e] \cup DOMAIN stored[f]

Transitions(e, f, name) == {c \in Compared(e, f) : Transition(e, f, c) = name}

(***************************************************************************)
(* Specification                                                           *)
(***************************************************************************)
Work(e) ==
    \/ Submit(e) \/ Take(e) \/ Begin(e) \/ NextCase(e) \/ RunCase(e)
    \/ Report(e) \/ LastLook(e) \/ Write(e)

Next ==
    \/ CreateDataset \/ DeleteDataset \/ Crash
    \/ \E e \in Evals : Work(e) \/ Cancel(e)
    \/ \E e \in Evals, inline \in BOOLEAN : Evaluate(e, inline)

Spec == Init /\ [][Next]_vars

\* Threads are scheduled and a case comes to an end (tools, providers and
\* matchers have timeouts or end by themselves).
FairSpec == Spec /\ \A e \in Evals : WF_vars(Work(e))

(***************************************************************************)
(* Properties                                                              *)
(***************************************************************************)
\* _run_evaluation_job: an evaluation that says completed has a result for every
\* case, however cancellations and its status reads interleave, and its
\* progress says so.
CompletedIsWhole ==
    \A e \in Evals : status[e] = "completed" =>
      Len(stored[e]) = cases /\ progress[e] = cases

\* cancel_evaluation: "the worker stops between cases": after a cancellation the
\* job finishes the case it is at and begins no other.
CancelStopsWork ==
    \A e \in Evals : status[e] = "cancelled" => Len(done[e]) <= shown[e] + 1

\* A completed evaluation that passed the release gate keeps every threshold in
\* the figures its readers compute from the row: the pass rate of all cases of
\* the dataset, the total cost, and no more than one case in twenty too slow.
PassedGateHolds ==
    \A e \in Evals : status[e] = "completed" /\ gate[e] = "passed" =>
      LET l == limits[e]  s == stored[e] IN
      /\ l.rate # NoLimit => Passed(s) * 100 >= l.rate * cases
      /\ l.cost # NoLimit => Cost(s) <= l.cost
      /\ l.ms # NoLimit   => (Len(s) - Within(s, l.ms)) * 20 <= Len(s)

\* compare_evaluations: the transitions account for the difference of the two
\* pass counts, also when an evaluation was cancelled half-way.
CompareAddsUp ==
    \A e, f \in Evals :
      LET right(name) == {c \in Transitions(e, f, name) : stored[f][c].passed}
          left(name)  == {c \in Transitions(e, f, name) : stored[e][c].passed}
      IN  Passed(stored[f]) - Passed(stored[e])
            =   Cardinality(Transitions(e, f, "fixed")) + Cardinality(right("added"))
              - Cardinality(Transitions(e, f, "regressed")) - Cardinality(left("removed"))

\* No evaluation row outlives its dataset, also not the row of a job that is
\* still running and writes by id.
NoOrphanRows == deleted => \A e \in Evals : status[e] \in {"none", "gone"}

\* An evaluation somebody waits for comes to an end unless its job was lost to
\* an exception or a crash: no job starves behind the others of its pool.
JobsSettle ==
    \A e \in Evals : (status[e] \in Active) ~> (status[e] \notin Active \/ pc[e] = "lost")

(***************************************************************************)
(* The inductive invariant                                                 *)
(***************************************************************************)
\* What the job of e may know of its row: it has no more results than the dataset
\* has cases, and all of them when its loop ended without a cancellation; after a
\* cancellation it is at most one case further.
JobOK(e) ==
    /\ status[e] = "none" <=> pc[e] = "none"
    /\ pc[e] # "none" => cases > 0
    /\ Len(done[e]) <= cases
    /\ pc[e] \in {"none", "submit", "line", "start"} => done[e] = <<>>
    /\ pc[e] \in {"head", "case"} => Len(done[e]) < cases
    /\ pc[e] = "last" => Len(done[e]) = cases \/ status[e] \in {"cancelled", "gone"}
    /\ pc[e] = "write" => quit[e] \/ Len(done[e]) = cases
    /\ status[e] = "cancelled" => Len(done[e]) <= IF pc[e] = "case" THEN shown[e] ELSE shown[e] + 1
    /\ status[e] = "completed" => /\ pc[e] = "done"
                                  /\ Len(stored[e]) = cases /\ progress[e] = cases
    /\ deleted => status[e] \in {"none", "gone"}

\* The queue of the pool holds jobs that wait, each once.
LineOK ==
    /\ \A i \in DOMAIN line : pc[line[i]] = "line"
    /\ \A i, j \in DOMAIN line : line[i] = line[j] => i = j

IInv == TypeOK /\ LineOK /\ \A e \in Evals : JobOK(e)

\* A row that is there keeps the limits its client set, and a completed one the
\* verdict of the gate on these limits and on its own results.
VerdictOK(e) ==
    /\ status[e] \notin {"none", "gone"} => limits[e] \in Limits
    /\ status[e] = "completed" => gate[e] = Gate(stored[e], limits[e])

Verdicts == \A e \in Evals : VerdictOK(e)
=============================================================================
