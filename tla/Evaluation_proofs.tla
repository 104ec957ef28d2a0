-------------------------- MODULE Evaluation_proofs --------------------------
(***************************************************************************)
(* Proofs about Evaluation, for any number of evaluations, cases, pool     *)
(* threads and crashes.  IInv is inductive: what a job may know of its row *)
(* (JobOK) is disturbed by the steps of that job, by a cancellation, by    *)
(* the deletion of the dataset and by a crash, and by nothing else.        *)
(***************************************************************************)
EXTENDS Evaluation, FiniteSetTheorems, SequenceTheorems, TLAPS

\* Without a dataset and without evaluations the invariant holds.
LEMMA Initially == Init => IInv
<1> SUFFICES ASSUME Init PROVE IInv
  OBVIOUS
<1>1. TypeOK
  <2>0. 0 \in 0 .. MaxCases /\ 0 \in 0 .. MaxCrashes /\ 0 \in Nat
    BY BoundAssumption
  <2>1. /\ cases \in 0 .. MaxCases /\ crashes \in 0 .. MaxCrashes
        /\ progress \in [Evals -> 0 .. MaxCases] /\ shown \in [Evals -> Nat]
    BY <2>0 DEF Init
  <2>2. <<>> \in Seq(Results) /\ line \in Seq(Evals)
    BY EmptySeq DEF Init
  <2>3. stored \in [Evals -> Seq(Results)] /\ done \in [Evals -> Seq(Results)]
    BY <2>2 DEF Init
  <2>4. /\ deleted \in BOOLEAN
        /\ status \in [Evals -> Active \cup {"none", "completed", "cancelled", "gone"}]
        /\ limits \in [Evals -> Limits \cup {NoLimit}] /\ pooled \subseteq Evals
        /\ gate \in [Evals -> {"none", "passed", "failed"}]
        /\ pc \in [Evals -> Labels] /\ quit \in [Evals -> BOOLEAN]
    BY DEF Init, Labels
  <2> QED BY <2>1, <2>2, <2>3, <2>4 DEF TypeOK
<1>2. LineOK /\ \A e \in Evals : JobOK(e)
  BY DEF Init, LineOK, JobOK
<1> QED BY <1>1, <1>2 DEF IInv

\* What a step leaves alone of every evaluation but e.
OthersKeep(e) ==
    \A f \in Evals \ {e} :
        /\ status'[f] = status[f] /\ pc'[f] = pc[f] /\ done'[f] = done[f] /\ quit'[f] = quit[f]
        /\ shown'[f] = shown[f] /\ stored'[f] = stored[f] /\ progress'[f] = progress[f]

\* A step about one evaluation keeps the invariant when it keeps what its own
\* job knows and the queue.
LEMMA OwnStep ==
    ASSUME IInv, NEW e \in Evals, UNCHANGED dataset, OthersKeep(e), TypeOK', LineOK', JobOK(e)'
    PROVE  IInv'
<1>1. \A f \in Evals \ {e} : JobOK(f)'
  BY DEF IInv, JobOK, OthersKeep, dataset
<1> QED BY <1>1 DEF IInv

\* The queue is not disturbed by a job outside it.
LEMMA OffLine ==
    ASSUME IInv, NEW e \in Evals, line' = line, pc[e] # "line" \/ pc'[e] = "line", OthersKeep(e)
    PROVE  LineOK'
<1>1. \A i \in DOMAIN line : line[i] \in Evals /\ pc[line[i]] = "line"
  BY DEF IInv, TypeOK, LineOK
<1> QED BY <1>1 DEF IInv, LineOK, OthersKeep

\* create_dataset
LEMMA CreateDatasetStep == ASSUME IInv, CreateDataset PROVE IInv'
<1>1. UNCHANGED <<deleted, status, limits, progress, stored, gate, line, pooled, pc, done, quit,
                  shown, crashes>> /\ cases = 0 /\ cases' \in 1 .. MaxCases
  BY DEF CreateDataset, columns, locals
<1>2. TypeOK'
  BY <1>1, BoundAssumption DEF IInv, TypeOK
<1>3. \A e \in Evals : pc[e] = "none" /\ JobOK(e)'
  BY <1>1 DEF IInv, TypeOK, JobOK
<1> QED BY <1>1, <1>2, <1>3 DEF IInv, LineOK

\* evaluate: a new row knows nothing.
LEMMA EvaluateStep ==
    ASSUME IInv, NEW e \in Evals, NEW inline \in BOOLEAN, Evaluate(e, inline)
    PROVE  IInv'
<1>0. TypeOK /\ JobOK(e) /\ pc[e] = "none" /\ cases > 0 /\ ~deleted
  BY DEF IInv, Evaluate
<1>1. UNCHANGED <<cases, deleted, progress, stored, gate, line, done, quit, shown, crashes>>
  BY DEF Evaluate, dataset, locals
<1>2. PICK st \in Active, label \in {"start", "submit"}, l \in Limits :
        /\ status' = [status EXCEPT ![e] = st] /\ pc' = [pc EXCEPT ![e] = label]
        /\ limits' = [limits EXCEPT ![e] = l] /\ pooled' \in {pooled, pooled \cup {e}}
  BY DEF Evaluate, Active
<1>3. TypeOK'
  BY <1>0, <1>1, <1>2 DEF TypeOK, Labels, Working, Active
<1>4. OthersKeep(e) /\ status'[e] = st /\ pc'[e] = label
  BY <1>0, <1>1, <1>2 DEF TypeOK, OthersKeep
<1>5. JobOK(e)'
  BY <1>0, <1>1, <1>2, <1>4 DEF TypeOK, JobOK, Active
<1> QED BY <1>0, <1>1, <1>3, <1>4, <1>5, OwnStep, OffLine DEF dataset

\* eval_executor.submit: the job enters the queue once.
LEMMA SubmitStep == ASSUME IInv, NEW e \in Evals, Submit(e) PROVE IInv'
<1>0. TypeOK /\ LineOK /\ JobOK(e) /\ pc[e] = "submit"
  BY DEF IInv, Submit
<1>1. /\ UNCHANGED <<cases, deleted, status, limits, progress, stored, gate, pooled, done, quit,
                     shown, crashes>>
      /\ line' = Append(line, e) /\ pc' = [pc EXCEPT ![e] = "line"]
  BY DEF Submit, dataset, columns, locals
<1>2. TypeOK'
  BY <1>0, <1>1 DEF TypeOK, Labels, Working
<1>3. OthersKeep(e) /\ pc'[e] = "line"
  BY <1>0, <1>1 DEF TypeOK, OthersKeep
<1>4. JobOK(e)'
  BY <1>0, <1>1, <1>3 DEF TypeOK, JobOK
<1>5. \A i \in DOMAIN line : line[i] \in Evals /\ line[i] # e /\ pc[line[i]] = "line"
  BY <1>0 DEF TypeOK, LineOK
<1>6. /\ DOMAIN line' = DOMAIN line \cup {Len(line) + 1}
      /\ \A i \in DOMAIN line : line'[i] = line[i]
      /\ line'[Len(line) + 1] = e
  <2>1. line \in Seq(Evals)
    BY <1>0 DEF TypeOK
  <2>2. /\ Len(line) \in Nat /\ DOMAIN line = 1 .. Len(line)
        /\ Len(line') = Len(line) + 1 /\ line' \in Seq(Evals)
        /\ \A i \in 1 .. Len(line) + 1 : line'[i] = IF i <= Len(line) THEN line[i] ELSE e
    BY <1>1, <2>1, AppendProperties
  <2>3. DOMAIN line' = 1 .. Len(line) + 1
    BY <2>2
  <2> QED BY <2>2, <2>3
<1>7. LineOK'
  BY <1>0, <1>3, <1>5, <1>6 DEF LineOK, OthersKeep
<1> QED BY <1>1, <1>2, <1>3, <1>4, <1>7, OwnStep DEF dataset

\* A thread of the pool takes the first job of the queue.
LEMMA TakeStep == ASSUME IInv, NEW e \in Evals, Take(e) PROVE IInv'
<1>0. TypeOK /\ LineOK /\ JobOK(e)
  BY DEF IInv
<1>1. /\ UNCHANGED <<cases, deleted, status, limits, progress, stored, gate, pooled, done, quit,
                     shown, crashes>>
      /\ line # <<>> /\ line[1] = e /\ line' = Tail(line) /\ pc' = [pc EXCEPT ![e] = "start"]
  BY <1>0 DEF Take, Goto, dataset, columns, locals, TypeOK
<1>2. pc[e] = "line"
  <2>1. 1 \in DOMAIN line /\ line[1] = e
    BY <1>0, <1>1 DEF TypeOK
  <2> QED BY <1>0, <2>1 DEF LineOK
<1>3. /\ line' \in Seq(Evals)
      /\ \A i \in DOMAIN line' : /\ line'[i] = line[i + 1] /\ i + 1 \in DOMAIN line
                                 /\ line[i + 1] \in Evals /\ i \in Nat \ {0}
      /\ 1 \in DOMAIN line
  <2>1. line \in Seq(Evals) /\ Len(line) \in Nat /\ DOMAIN line = 1 .. Len(line)
    BY <1>0 DEF TypeOK
  <2>2. /\ line' \in Seq(Evals) /\ Len(line') = Len(line) - 1 /\ Len(line) > 0
        /\ \A i \in 1 .. Len(line') : line'[i] = line[i + 1]
    BY <1>1, <2>1, HeadTailProperties, EmptySeq
  <2>3. DOMAIN line' = 1 .. Len(line) - 1
    BY <2>2
  <2> QED BY <2>1, <2>2, <2>3, ElementOfSeq
<1>4. TypeOK'
  BY <1>0, <1>1, <1>3 DEF TypeOK, Labels, Working
<1>5. OthersKeep(e) /\ pc'[e] = "start"
  BY <1>0, <1>1 DEF TypeOK, OthersKeep
<1>6. JobOK(e)'
  BY <1>0, <1>1, <1>2, <1>5 DEF TypeOK, JobOK
<1>7. \A i \in DOMAIN line' : line'[i] # e
  <2> SUFFICES ASSUME NEW i \in DOMAIN line', line'[i] = e PROVE FALSE
    OBVIOUS
  <2>1. line[i + 1] = line[1] /\ i + 1 \in DOMAIN line /\ 1 \in DOMAIN line /\ i \in Nat \ {0}
    BY <1>1, <1>3
  <2>2. i + 1 = 1
    BY <1>0, <2>1 DEF LineOK
  <2> QED BY <2>1, <2>2
<1>8. LineOK'
  BY <1>0, <1>5, <1>3, <1>7 DEF LineOK, OthersKeep
<1> QED BY <1>1, <1>4, <1>5, <1>6, <1>8, OwnStep DEF dataset

\* A job that ends leaves nothing to know.
LEMMA EndStep ==
    ASSUME IInv, NEW e \in Evals, NEW label \in {"done", "lost"}, End(e, label), pc[e] \in Working,
           UNCHANGED <<dataset, status, columns, line, pooled, shown, crashes>>
    PROVE  IInv'
<1>0. TypeOK /\ JobOK(e)
  BY DEF IInv
<1>1. /\ UNCHANGED <<cases, deleted, status, limits, progress, stored, gate>>
      /\ pc' = [pc EXCEPT ![e] = label] /\ done' = [done EXCEPT ![e] = <<>>]
      /\ quit' = [quit EXCEPT ![e] = FALSE]
  BY DEF End, Goto, dataset, columns
<1>2. TypeOK'
  BY <1>0, <1>1 DEF TypeOK, Labels, Working
<1>3. OthersKeep(e) /\ pc'[e] = label /\ done'[e] = <<>>
  BY <1>0, <1>1 DEF TypeOK, OthersKeep
<1>4. JobOK(e)'
  BY <1>0, <1>1, <1>3 DEF TypeOK, JobOK, Working
<1> QED BY <1>1, <1>2, <1>3, <1>4, OwnStep, OffLine DEF dataset, Working

\* A step of a job that goes on and writes no row.
LEMMA GoOnStep ==
    ASSUME IInv, NEW e \in Evals, NEW label \in Working, Goto(e, label), pc[e] \in Working,
           UNCHANGED <<dataset, status, columns, line, pooled, locals, shown, crashes>>,
           JobOK(e)'
    PROVE  IInv'
<1>0. TypeOK
  BY DEF IInv
<1>1. /\ UNCHANGED <<cases, deleted, status, limits, progress, stored, gate, done, quit>>
      /\ pc' = [pc EXCEPT ![e] = label]
  BY DEF Goto, dataset, columns, locals
<1>2. TypeOK'
  BY <1>0, <1>1 DEF TypeOK, Labels
<1>3. OthersKeep(e)
  BY <1>0, <1>1 DEF TypeOK, OthersKeep
<1> QED BY <1>1, <1>2, <1>3, OwnStep, OffLine DEF dataset, Working

\* get_dataset at the head of the job.
LEMMA BeginStep == ASSUME IInv, NEW e \in Evals, Begin(e) PROVE IInv'
<1>0. TypeOK /\ JobOK(e) /\ pc[e] = "start"
  BY DEF IInv, Begin
<1>1. CASE End(e, "lost")
  BY <1>0, <1>1, EndStep DEF Begin, Working
<1>2. CASE Goto(e, "head") /\ UNCHANGED locals
  <2>1. JobOK(e)'
    BY <1>0, <1>2 DEF Begin, Goto, TypeOK, JobOK, dataset, columns, locals
  <2> QED BY <1>0, <1>2, <2>1, GoOnStep DEF Begin, Working
<1> QED BY <1>1, <1>2 DEF Begin

\* The look at the status before a case: after a cancellation no case follows.
LEMMA NextCaseStep == ASSUME IInv, NEW e \in Evals, NextCase(e) PROVE IInv'
<1>0. TypeOK /\ JobOK(e) /\ pc[e] = "head"
  BY DEF IInv, NextCase
<1>1. CASE End(e, "lost")
  BY <1>0, <1>1, EndStep DEF NextCase, Working
<1>2. CASE status[e] = "cancelled" /\ Goto(e, "last") /\ UNCHANGED locals
  <2>1. JobOK(e)'
    BY <1>0, <1>2 DEF NextCase, Goto, TypeOK, JobOK, dataset, columns, locals
  <2> QED BY <1>0, <1>2, <2>1, GoOnStep DEF NextCase, Working
<1>3. CASE status[e] \in Active /\ Goto(e, "case") /\ UNCHANGED locals
  <2>1. JobOK(e)'
    BY <1>0, <1>3 DEF NextCase, Goto, TypeOK, JobOK, dataset, columns, locals, Active
  <2> QED BY <1>0, <1>3, <2>1, GoOnStep DEF NextCase, Working
<1> QED BY <1>1, <1>2, <1>3 DEF NextCase

\* A case adds one result, or its exception ends the job.
LEMMA RunCaseStep == ASSUME IInv, NEW e \in Evals, RunCase(e) PROVE IInv'
<1>0. TypeOK /\ JobOK(e) /\ pc[e] = "case"
  BY DEF IInv, RunCase
<1>1. CASE End(e, "lost")
  BY <1>0, <1>1, EndStep DEF RunCase, Working
<1>2. ASSUME NEW r \in Results, done' = [done EXCEPT ![e] = Append(@, r)], Goto(e, "progress"),
             UNCHANGED quit
      PROVE  IInv'
  <2>1. /\ UNCHANGED <<cases, deleted, status, limits, progress, stored, gate, line, pooled, shown,
                       crashes>>
        /\ pc' = [pc EXCEPT ![e] = "progress"] /\ done'[e] = Append(done[e], r)
    BY <1>0, <1>2 DEF RunCase, Goto, TypeOK, dataset, columns
  <2>2. TypeOK'
    BY <1>0, <1>2, <2>1 DEF TypeOK, Labels, Working
  <2>3. OthersKeep(e) /\ pc'[e] = "progress"
    BY <1>0, <1>2, <2>1 DEF TypeOK, OthersKeep
  <2>4. Len(done'[e]) = Len(done[e]) + 1 /\ Len(done[e]) \in Nat /\ cases \in Nat /\ shown[e] \in Nat
    BY <1>0, <2>1 DEF TypeOK
  <2>5. JobOK(e)'
    BY <1>0, <1>2, <2>1, <2>3, <2>4 DEF JobOK
  <2> QED BY <1>0, <2>1, <2>2, <2>3, <2>5, OwnStep, OffLine DEF dataset
<1> QED BY <1>1, <1>2 DEF RunCase, Matched

\* The progress of a row is the number of its job's results.
LEMMA ReportStep == ASSUME IInv, NEW e \in Evals, Report(e) PROVE IInv'
<1>0. TypeOK /\ JobOK(e) /\ pc[e] = "progress"
  BY DEF IInv, Report
<1>1. UNCHANGED <<cases, deleted, status, limits, stored, gate, line, pooled, done, quit, shown,
                  crashes>>
  BY DEF Report, dataset, locals
<1>2. PICK label \in {"head", "last"} :
        /\ pc' = [pc EXCEPT ![e] = label]
        /\ label = IF Len(done[e]) < cases THEN "head" ELSE "last"
  BY DEF Report, Goto
<1>3. Len(done[e]) \in 0 .. MaxCases /\ Len(done[e]) \in Nat /\ cases \in Nat
  BY <1>0, BoundAssumption DEF TypeOK, JobOK
<1>4. PICK n \in 0 .. MaxCases : progress' = [progress EXCEPT ![e] = n]
  BY <1>0, <1>3 DEF Report, TypeOK
<1>5. TypeOK'
  BY <1>0, <1>1, <1>2, <1>4 DEF TypeOK, Labels, Working
<1>6. OthersKeep(e) /\ pc'[e] = label
  BY <1>0, <1>1, <1>2, <1>4 DEF TypeOK, OthersKeep
<1>7. JobOK(e)'
  BY <1>0, <1>1, <1>2, <1>3, <1>6 DEF JobOK
<1> QED BY <1>0, <1>1, <1>5, <1>6, <1>7, OwnStep, OffLine DEF dataset

\* The last look at the status decides what the final UPDATE will say.
LEMMA LastLookStep == ASSUME IInv, NEW e \in Evals, LastLook(e) PROVE IInv'
<1>0. TypeOK /\ JobOK(e) /\ pc[e] = "last"
  BY DEF IInv, LastLook
<1>1. CASE End(e, "lost")
  BY <1>0, <1>1, EndStep DEF LastLook, Working
<1>2. CASE /\ Exists(e) /\ quit' = [quit EXCEPT ![e] = status[e] = "cancelled"]
           /\ Goto(e, "write") /\ UNCHANGED done
  <2>1. /\ UNCHANGED <<cases, deleted, status, limits, progress, stored, gate, line, pooled, done,
                       shown, crashes>>
        /\ pc' = [pc EXCEPT ![e] = "write"]
    BY <1>2 DEF LastLook, Goto, dataset, columns
  <2>2. TypeOK'
    BY <1>0, <1>2, <2>1 DEF TypeOK, Labels, Working
  <2>3. OthersKeep(e) /\ pc'[e] = "write" /\ quit'[e] = (status[e] = "cancelled")
    BY <1>0, <1>2, <2>1 DEF TypeOK, OthersKeep
  <2>4. JobOK(e)'
    BY <1>0, <1>2, <2>1, <2>3 DEF JobOK, Exists
  <2> QED BY <1>0, <2>1, <2>2, <2>3, <2>4, OwnStep, OffLine DEF dataset
<1> QED BY <1>1, <1>2 DEF LastLook

\* The final UPDATE says completed only with a result for every case.
LEMMA WriteStep == ASSUME IInv, NEW e \in Evals, Write(e) PROVE IInv'
<1>0. TypeOK /\ JobOK(e) /\ pc[e] = "write"
  BY DEF IInv, Write
<1>1. CASE ~Exists(e) /\ UNCHANGED <<status, progress, stored, gate>>
  BY <1>0, <1>1, EndStep DEF Write, Working, columns
<1>2. CASE Exists(e)
  <2>1. /\ UNCHANGED <<cases, deleted, limits, line, pooled, shown, crashes>>
        /\ pc' = [pc EXCEPT ![e] = "done"] /\ done' = [done EXCEPT ![e] = <<>>]
        /\ quit' = [quit EXCEPT ![e] = FALSE]
        /\ status' = [status EXCEPT ![e] = IF quit[e] THEN "cancelled" ELSE "completed"]
        /\ progress' = [progress EXCEPT ![e] = Len(done[e])]
        /\ stored' = [stored EXCEPT ![e] = done[e]]
        /\ gate' = [gate EXCEPT ![e] = Gate(done[e], limits[e])]
    BY <1>2 DEF Write, End, Goto, dataset
  <2>2. Gate(done[e], limits[e]) \in {"none", "passed", "failed"}
    BY DEF Gate
  <2>3. Len(done[e]) \in 0 .. MaxCases
    BY <1>0, BoundAssumption DEF TypeOK, JobOK
  <2>4. TypeOK'
    BY <1>0, <2>1, <2>2, <2>3 DEF TypeOK, Labels
  <2>5. /\ OthersKeep(e) /\ pc'[e] = "done" /\ done'[e] = <<>> /\ stored'[e] = done[e]
        /\ status'[e] = (IF quit[e] THEN "cancelled" ELSE "completed")
        /\ progress'[e] = Len(done[e])
    BY <1>0, <2>1 DEF TypeOK, OthersKeep
  <2>6. ~deleted
    BY <1>0, <1>2 DEF JobOK, Exists
  <2>7. JobOK(e)'
    BY <1>0, <2>1, <2>5, <2>6 DEF JobOK, TypeOK
  <2> QED BY <1>0, <2>1, <2>4, <2>5, <2>7, OwnStep, OffLine DEF dataset
<1> QED BY <1>1, <1>2 DEF Write

\* cancel_evaluation notes how far the job is.
LEMMA CancelStep == ASSUME IInv, NEW e \in Evals, Cancel(e) PROVE IInv'
<1>0. TypeOK /\ JobOK(e) /\ status[e] \in Active
  BY DEF IInv, Cancel
<1>1. /\ UNCHANGED <<cases, deleted, limits, progress, stored, gate, line, pooled, pc, done, quit,
                     crashes>>
      /\ status' = [status EXCEPT ![e] = "cancelled"]
      /\ shown' = [shown EXCEPT ![e] = Len(done[e])]
  BY DEF Cancel, dataset, columns, locals
<1>2. TypeOK'
  BY <1>0, <1>1 DEF TypeOK
<1>3. OthersKeep(e) /\ status'[e] = "cancelled" /\ shown'[e] = Len(done[e])
  BY <1>0, <1>1 DEF TypeOK, OthersKeep
<1>4. JobOK(e)'
  BY <1>0, <1>1, <1>3 DEF JobOK, TypeOK, Active
<1> QED BY <1>1, <1>2, <1>3, <1>4, OwnStep, OffLine DEF dataset

\* delete_dataset takes every row, and no job can write one back.
LEMMA DeleteDatasetStep == ASSUME IInv, DeleteDataset PROVE IInv'
<1>0. TypeOK /\ LineOK /\ \A e \in Evals : JobOK(e)
  BY DEF IInv
<1>1. /\ UNCHANGED <<cases, line, pooled, pc, done, quit, shown, crashes>> /\ deleted' = TRUE
      /\ status' = [e \in Evals |-> IF status[e] = "none" THEN "none" ELSE "gone"]
      /\ limits' = [e \in Evals |-> NoLimit] /\ progress' = [e \in Evals |-> 0]
      /\ stored' = [e \in Evals |-> <<>>] /\ gate' = [e \in Evals |-> "none"]
  BY DEF DeleteDataset, locals
<1>2. TypeOK'
  BY <1>0, <1>1, BoundAssumption DEF TypeOK
<1>3. \A e \in Evals : JobOK(e)'
  BY <1>0, <1>1 DEF JobOK
<1> QED BY <1>0, <1>1, <1>2, <1>3 DEF IInv, LineOK

\* The process dies with its jobs; the rows stay as they are.
LEMMA CrashStep == ASSUME IInv, Crash PROVE IInv'
<1>0. TypeOK /\ \A e \in Evals : JobOK(e)
  BY DEF IInv
<1>1. /\ UNCHANGED <<cases, deleted, status, limits, progress, stored, gate, pooled, shown>>
      /\ line' = <<>> /\ crashes' \in 0 .. MaxCrashes
      /\ pc' = [e \in Evals |-> IF pc[e] \in {"none", "done"} THEN pc[e] ELSE "lost"]
      /\ done' = [e \in Evals |-> <<>>] /\ quit' = [e \in Evals |-> FALSE]
  BY <1>0, BoundAssumption DEF Crash, TypeOK, dataset, columns
<1>2. TypeOK'
  BY <1>0, <1>1 DEF TypeOK, Labels
<1>3. LineOK'
  BY <1>1 DEF LineOK
<1>4. \A e \in Evals : JobOK(e)'
  BY <1>0, <1>1 DEF JobOK, TypeOK
<1> QED BY <1>2, <1>3, <1>4 DEF IInv

\* Every step of the clients, the jobs and the process preserves the invariant.
LEMMA Inductive == IInv /\ [Next]_vars => IInv'
<1> SUFFICES ASSUME IInv, [Next]_vars PROVE IInv'
  OBVIOUS
<1>1. CASE CreateDataset \/ DeleteDataset \/ Crash
  BY <1>1, CreateDatasetStep, DeleteDatasetStep, CrashStep
<1>2. ASSUME NEW e \in Evals, Work(e) \/ Cancel(e) PROVE IInv'
  BY <1>2, SubmitStep, TakeStep, BeginStep, NextCaseStep, RunCaseStep, ReportStep, LastLookStep,
     WriteStep, CancelStep DEF Work
<1>3. ASSUME NEW e \in Evals, NEW inline \in BOOLEAN, Evaluate(e, inline) PROVE IInv'
  BY <1>3, EvaluateStep
<1>4. CASE UNCHANGED vars
  BY <1>4 DEF IInv, TypeOK, LineOK, JobOK, vars, dataset, columns, locals
<1> QED BY <1>1, <1>2, <1>3, <1>4 DEF Next

\* The invariant holds in every reachable state.
THEOREM Invariance == Spec => []IInv
<1> QED BY Initially, Inductive, PTL DEF Spec

\* Every row and every local of a job stays well-typed.
THEOREM TypeCorrect == Spec => []TypeOK
<1>1. IInv => TypeOK
  BY DEF IInv
<1> QED BY <1>1, Invariance, PTL

\* A completed evaluation has a result for every case, whatever was cancelled,
\* deleted or lost while its job ran.
THEOREM CompletedWhole == Spec => []CompletedIsWhole
<1>1. IInv => CompletedIsWhole
  BY DEF IInv, JobOK, CompletedIsWhole
<1> QED BY <1>1, Invariance, PTL

\* After a cancellation the job finishes at most the case it is at.
THEOREM CancelStops == Spec => []CancelStopsWork
<1>1. IInv => CancelStopsWork
  <2> SUFFICES ASSUME IInv, NEW e \in Evals, status[e] = "cancelled"
               PROVE  Len(done[e]) <= shown[e] + 1
    BY DEF CancelStopsWork
  <2>1. Len(done[e]) \in Nat /\ shown[e] \in Nat
    BY DEF IInv, TypeOK
  <2> QED BY <2>1 DEF IInv, JobOK
<1> QED BY <1>1, Invariance, PTL

\* No row outlives its dataset.
THEOREM NoOrphans == Spec => []NoOrphanRows
<1>1. IInv => NoOrphanRows
  BY DEF IInv, JobOK, NoOrphanRows
<1> QED BY <1>1, Invariance, PTL

\* The rank _evaluation_gate takes for the 95th percentile lies in the list and
\* leaves no more than one result in twenty above it, for every number of results.
THEOREM P95RankFits ==
    ASSUME NEW n \in Nat \ {0}
    PROVE  P95Rank(n) \in 1 .. n /\ (n - P95Rank(n)) * 20 <= n
BY DEF P95Rank

\* Two finite sets differ in size by what each has alone.
LEMMA SizeDifference ==
    ASSUME NEW A, NEW B, IsFiniteSet(A), IsFiniteSet(B)
    PROVE  Cardinality(B) - Cardinality(A) = Cardinality(B \ A) - Cardinality(A \ B)
<1>1. /\ Cardinality(A \ B) = Cardinality(A) - Cardinality(A \cap B)
      /\ Cardinality(B \ A) = Cardinality(B) - Cardinality(B \cap A)
  BY FS_Difference
<1>2. /\ Cardinality(A) \in Nat /\ Cardinality(B) \in Nat /\ A \cap B = B \cap A
      /\ IsFiniteSet(A \cap B)
  BY FS_CardinalityType, FS_Intersection
<1>3. Cardinality(A \cap B) \in Nat
  BY <1>2, FS_CardinalityType
<1> QED BY <1>1, <1>2, <1>3

\* The sizes of disjoint finite sets add up.
LEMMA DisjointSizes ==
    ASSUME NEW A, NEW B, IsFiniteSet(A), IsFiniteSet(B), A \cap B = {}
    PROVE  Cardinality(A \cup B) = Cardinality(A) + Cardinality(B)
<1>1. /\ Cardinality(A \cup B) = Cardinality(A) + Cardinality(B) - Cardinality(A \cap B)
      /\ Cardinality(A \cap B) = 0
  BY FS_Union, FS_EmptySet
<1>2. Cardinality(A) \in Nat /\ Cardinality(B) \in Nat
  BY FS_CardinalityType
<1> QED BY <1>1, <1>2

\* compare_evaluations accounts for the difference of the two pass counts, for
\* any two lists of results, of the same length or not.
THEOREM ComparisonAddsUp == Spec => []CompareAddsUp
<1>1. TypeOK => CompareAddsUp
  <2> SUFFICES ASSUME TypeOK, NEW e \in Evals, NEW f \in Evals
               PROVE  Passed(stored[f]) - Passed(stored[e])
                        =   Cardinality(Transitions(e, f, "fixed"))
                          + Cardinality({c \in Transitions(e, f, "added") : stored[f][c].passed})
                          - Cardinality(Transitions(e, f, "regressed"))
                          - Cardinality({c \in Transitions(e, f, "removed") : stored[e][c].passed})
    BY DEF CompareAddsUp
  <2> DEFINE A == Passing(stored[e])  B == Passing(stored[f])
             Fix == Transitions(e, f, "fixed")
             Add == {c \in Transitions(e, f, "added") : stored[f][c].passed}
             Reg == Transitions(e, f, "regressed")
             Rem == {c \in Transitions(e, f, "removed") : stored[e][c].passed}
  <2>1. /\ DOMAIN stored[e] = 1 .. Len(stored[e]) /\ DOMAIN stored[f] = 1 .. Len(stored[f])
        /\ Len(stored[e]) \in Nat /\ Len(stored[f]) \in Nat
        /\ \A c \in DOMAIN stored[e] : stored[e][c] \in Results
        /\ \A c \in DOMAIN stored[f] : stored[f][c] \in Results
        /\ \A r \in Results : r.passed \in BOOLEAN
    BY ResultAssumption DEF TypeOK
  <2>2. IsFiniteSet(A) /\ IsFiniteSet(B)
    <3>1. IsFiniteSet(DOMAIN stored[e]) /\ IsFiniteSet(DOMAIN stored[f])
      <4>1. \A n \in Nat : IsFiniteSet(1 .. n)
        BY FS_Interval
      <4> QED BY <2>1, <4>1
    <3>2. A \subseteq DOMAIN stored[e] /\ B \subseteq DOMAIN stored[f]
      BY DEF Passing
    <3> QED BY <3>1, <3>2, FS_Subset
  <2>3. B \ A = Fix \cup Add /\ Fix \cap Add = {}
    BY <2>1 DEF Passing, Transitions, Transition, Compared
  <2>4. A \ B = Reg \cup Rem /\ Reg \cap Rem = {}
    BY <2>1 DEF Passing, Transitions, Transition, Compared
  <2>5. /\ IsFiniteSet(Fix) /\ IsFiniteSet(Add) /\ IsFiniteSet(Reg) /\ IsFiniteSet(Rem)
    BY <2>2, <2>3, <2>4, FS_Subset
  <2>6. /\ Cardinality(B \ A) = Cardinality(Fix) + Cardinality(Add)
        /\ Cardinality(A \ B) = Cardinality(Reg) + Cardinality(Rem)
    BY <2>3, <2>4, <2>5, DisjointSizes
  <2>7. /\ Cardinality(B) - Cardinality(A) = Cardinality(B \ A) - Cardinality(A \ B)
        /\ Cardinality(Fix) \in Nat /\ Cardinality(Add) \in Nat
        /\ Cardinality(Reg) \in Nat /\ Cardinality(Rem) \in Nat
    BY <2>2, <2>5, SizeDifference, FS_CardinalityType
  <2> HIDE DEF A, B, Fix, Add, Reg, Rem
  <2>8. Cardinality(B) - Cardinality(A)
          = Cardinality(Fix) + Cardinality(Add) - Cardinality(Reg) - Cardinality(Rem)
    BY <2>6, <2>7
  <2> QED BY <2>8 DEF Passed, A, B, Fix, Add, Reg, Rem
<1> QED BY <1>1, TypeCorrect, PTL

(***************************************************************************)
(* Sums and ranks over results of any length.  The induction is over sets: *)
(* a set of numbers, or of subsets, that is closed under a step.           *)
(***************************************************************************)
\* Every set of natural numbers has a smallest one.
LEMMA SmallestIn ==
    ASSUME NEW S \in SUBSET Nat, S # {}
    PROVE  \E m \in S : \A k \in S : m <= k
<1>1. PICK m \in S : \A k \in S : ~(<<k, m>> \in OpToRel(<, Nat))
  BY NatLessThanWellFounded, WFMin
<1>2. ASSUME NEW k \in S PROVE m <= k
  <2>1. SUFFICES ASSUME k < m PROVE FALSE
    OBVIOUS
  <2>2. <<k, m>> \in Nat \X Nat
    OBVIOUS
  <2>3. <<k, m>> \in OpToRel(<, Nat)
    BY <2>1, <2>2 DEF OpToRel
  <2> QED BY <1>1, <2>3
<1> QED BY <1>2

\* A set with 0 and with the successor of each of its numbers has them all.
LEMMA SetInduction ==
    ASSUME NEW G, 0 \in G, \A n \in Nat : n \in G => n + 1 \in G
    PROVE  \A n \in Nat : n \in G
<1> DEFINE Bad == Nat \ G
<1>1. SUFFICES ASSUME Bad # {} PROVE FALSE
  OBVIOUS
<1>2. PICK m \in Bad : \A n \in Bad : m <= n
  BY <1>1, SmallestIn
<1>3. m \in Nat /\ m # 0
  OBVIOUS
<1>4. m - 1 \in Nat /\ m - 1 \notin Bad /\ (m - 1) + 1 = m
  BY <1>2, <1>3
<1>5. m \in G
  BY <1>4
<1> QED BY <1>5

\* A family with {} and with every subset of S of which it has all the subsets that are one
\* element smaller has S.
LEMMA SubsetInduction ==
    ASSUME NEW S, IsFiniteSet(S), NEW G,
           \A u \in SUBSET S : u # {} /\ (\A x \in u : u \ {x} \in G) => u \in G,
           {} \in G
    PROVE  S \in G
<1> DEFINE Sizes == {n \in Nat : \A u \in SUBSET S : Cardinality(u) = n => u \in G}
<1>1. \A u \in SUBSET S :
        IsFiniteSet(u) /\ Cardinality(u) \in Nat /\ (Cardinality(u) = 0 <=> u = {})
  BY FS_Subset, FS_CardinalityType, FS_EmptySet
<1>2. 0 \in Sizes
  BY <1>1
<1>3. ASSUME NEW n \in Nat, n \in Sizes PROVE n + 1 \in Sizes
  <2>1. ASSUME NEW u \in SUBSET S, Cardinality(u) = n + 1 PROVE u \in G
    <3>1. ASSUME NEW x \in u PROVE u \ {x} \in G
      <4>1. Cardinality(u \ {x}) = Cardinality(u) - 1
        BY <1>1, FS_RemoveElement
      <4> QED BY <1>3, <2>1, <4>1
    <3>2. u # {}
      BY <1>1, <2>1
    <3> QED BY <3>1, <3>2
  <2> QED BY <2>1
<1>4. \A n \in Nat : n \in Sizes
  <2> HIDE DEF Sizes
  <2> QED BY <1>2, <1>3, SetInduction
<1>5. Cardinality(S) \in Sizes
  BY <1>1, <1>4
<1> QED BY <1>5

\* c chooses an element of each subset of S, as the fold of the community modules does.
Chooses(S, c) == \A u \in SUBSET S : u # {} => c[u] \in u

\* g sums cost over every subset of S, element by element.
Sums(S, cost, c, g) ==
    \A u \in SUBSET S : g[u] = IF u = {} THEN 0 ELSE cost[c[u]] + g[u \ {c[u]}]

\* There is such a sum: by the size of the subsets.
LEMMA SumsExist ==
    ASSUME NEW S, IsFiniteSet(S), NEW cost \in [S -> Nat], NEW c, Chooses(S, c)
    PROVE  \E g \in [SUBSET S -> Nat] : Sums(S, cost, c, g)
<1> DEFINE Small(n) == {u \in SUBSET S : Cardinality(u) <= n}
           Sum(g, u) == IF u = {} THEN 0 ELSE cost[c[u]] + g[u \ {c[u]}]
           G == {n \in Nat : \E g \in [Small(n) -> Nat] : \A u \in Small(n) : g[u] = Sum(g, u)}
<1>1. \A u \in SUBSET S :
        /\ IsFiniteSet(u) /\ Cardinality(u) \in Nat /\ Cardinality(u) <= Cardinality(S)
        /\ Cardinality(u) = 0 <=> u = {}
  BY FS_Subset, FS_CardinalityType, FS_EmptySet
<1>2. 0 \in G
  <2>1. Small(0) = {{}}
    BY <1>1, FS_EmptySet
  <2> DEFINE g == [u \in Small(0) |-> 0]
  <2>2. g \in [Small(0) -> Nat] /\ \A u \in Small(0) : g[u] = Sum(g, u)
    BY <2>1
  <2> HIDE DEF g
  <2> QED BY <2>2
<1>3. ASSUME NEW n \in Nat, n \in G PROVE n + 1 \in G
  <2>1. PICK g \in [Small(n) -> Nat] : \A u \in Small(n) : g[u] = Sum(g, u)
    BY <1>3
  <2> DEFINE h == [u \in Small(n + 1) |-> IF u \in Small(n) THEN g[u] ELSE Sum(g, u)]
  <2>2. ASSUME NEW u \in Small(n + 1), u # {} PROVE c[u] \in S /\ u \ {c[u]} \in Small(n)
    <3>0. c[u] \in u
      BY <2>2 DEF Chooses
    <3>1. Cardinality(u \ {c[u]}) = Cardinality(u) - 1
      BY <1>1, <3>0, FS_RemoveElement
    <3>2. Cardinality(u) \in Nat /\ Cardinality(u) <= n + 1
      BY <1>1
    <3>3. Cardinality(u) - 1 <= n
      BY <3>2
    <3> QED BY <3>0, <3>1, <3>3
  <2>3. Small(n) \subseteq Small(n + 1)
    BY <1>1
  <2>4. ASSUME NEW u \in Small(n + 1) PROVE Sum(g, u) \in Nat
    BY <2>2
  <2>5. h \in [Small(n + 1) -> Nat]
    BY <2>4
  <2>6. ASSUME NEW u \in Small(n + 1) PROVE h[u] = Sum(h, u)
    <3>1. h[u] = Sum(g, u)
      BY <2>1
    <3>2. u # {} => h[u \ {c[u]}] = g[u \ {c[u]}]
      BY <2>2, <2>3
    <3> HIDE DEF h
    <3> QED BY <3>1, <3>2
  <2> HIDE DEF h, Small, Sum
  <2> QED BY <2>5, <2>6
<1>4. Cardinality(S) \in G
  <2> HIDE DEF G
  <2>1. \A n \in Nat : n \in G
    BY <1>2, <1>3, SetInduction
  <2> QED BY <2>1, FS_CardinalityType
<1>5. Small(Cardinality(S)) = SUBSET S
  BY <1>1
<1>6. PICK g \in [SUBSET S -> Nat] : \A u \in SUBSET S : g[u] = Sum(g, u)
  BY <1>4, <1>5
<1> QED BY <1>6 DEF Sums

\* It is a natural number.
LEMMA SumsAreNatural ==
    ASSUME NEW S, IsFiniteSet(S), NEW cost \in [S -> Nat], NEW g, NEW c,
           Chooses(S, c), Sums(S, cost, c, g)
    PROVE  g[S] \in Nat
<1> DEFINE G == {u \in SUBSET S : g[u] \in Nat}
<1>1. {} \in G
  <2>1. {} \in SUBSET S
    OBVIOUS
  <2>2. g[{}] = 0
    BY <2>1 DEF Sums
  <2> QED BY <2>1, <2>2
<1>2. ASSUME NEW u \in SUBSET S, u # {}, \A x \in u : u \ {x} \in G PROVE u \in G
  <2>1. c[u] \in u /\ g[u] = cost[c[u]] + g[u \ {c[u]}]
    BY <1>2 DEF Sums, Chooses
  <2>2. cost[c[u]] \in Nat
    BY <2>1
  <2>3. u \ {c[u]} \in G
    BY <1>2, <2>1
  <2>4. g[u] \in Nat
    BY <2>1, <2>2, <2>3
  <2> QED BY <2>4
<1>3. S \in G
  <2> HIDE DEF G
  <2> QED BY <1>1, <1>2, SubsetInduction
<1> QED BY <1>3

\* The total cost of any list of results is a number: MapThenSumSet finds its sum.
LEMMA CostIsNatural ==
    ASSUME NEW s \in Seq(Results)
    PROVE  Cost(s) \in Nat
<1> DEFINE D == DOMAIN s
           c == [u \in SUBSET D |-> CHOOSE x \in u : TRUE]
           cost == [i \in D |-> s[i].cost]
           g == CHOOSE f : f = [u \in SUBSET D |->
                  IF u = {} THEN 0 ELSE cost[c[u]] + f[u \ {c[u]}]]
           h == CHOOSE f : f = [u \in SUBSET D |->
                  IF u = {} THEN 0
                  ELSE s[CHOOSE x \in u : TRUE].cost + f[u \ {CHOOSE x \in u : TRUE}]]
<1>1. IsFiniteSet(D) /\ cost \in [D -> Nat] /\ Chooses(D, c)
  <2>1. D = 1 .. Len(s) /\ Len(s) \in Nat
    OBVIOUS
  <2>2. IsFiniteSet(D)
    BY <2>1, FS_Interval
  <2>3. \A i \in D : s[i] \in Results /\ s[i].cost \in Nat
    BY ResultAssumption
  <2>4. Chooses(D, c)
    BY DEF Chooses
  <2> QED BY <2>2, <2>3, <2>4
<1>2. g = [u \in SUBSET D |-> IF u = {} THEN 0 ELSE cost[c[u]] + g[u \ {c[u]}]]
  <2>1. PICK f \in [SUBSET D -> Nat] : Sums(D, cost, c, f)
    <3> HIDE DEF D, c, cost
    <3> QED BY <1>1, SumsExist
  <2>2. f = [u \in SUBSET D |-> IF u = {} THEN 0 ELSE cost[c[u]] + f[u \ {c[u]}]]
    <3> HIDE DEF D, c, cost
    <3> QED BY <2>1 DEF Sums
  <2> HIDE DEF D, c, cost
  <2> QED BY <2>2
<1>3. g[D] \in Nat
  <2> HIDE DEF D, c, cost, g
  <2>1. Sums(D, cost, c, g)
    BY <1>2 DEF Sums
  <2> QED BY <1>1, <2>1, SumsAreNatural
<1>4. Cost(s) = h[D]
  BY DEF Cost, MapThenSumSet, MapThenFoldSet
<1>5. h = g
  OBVIOUS
<1> QED BY <1>3, <1>4, <1>5

\* How the number of results that take no longer than d depends on d.
LEMMA WithinFacts ==
    ASSUME NEW s \in Seq(Results), NEW d \in Int
    PROVE  /\ Within(s, d) \in 0 .. Len(s)
           /\ \A e \in Int : d <= e => Within(s, d) <= Within(s, e)
           /\ (\A i \in DOMAIN s : s[i].ms <= d) => Within(s, d) = Len(s)
           /\ (\A i \in DOMAIN s : s[i].ms # d) => Within(s, d) = Within(s, d - 1)
           /\ (\A i \in DOMAIN s : s[i].ms > d) => Within(s, d) = 0
<1> DEFINE At(e) == {i \in DOMAIN s : s[i].ms <= e}
<1>1. /\ DOMAIN s = 1 .. Len(s) /\ Len(s) \in Nat
      /\ \A i \in DOMAIN s : s[i].ms \in Nat
  BY ResultAssumption
<1>2. IsFiniteSet(DOMAIN s) /\ Cardinality(DOMAIN s) = Len(s)
  <2>1. \A n \in Nat : IsFiniteSet(1 .. n) /\ Cardinality(1 .. n) = n
    BY FS_Interval
  <2> QED BY <1>1, <2>1
<1>3. ASSUME NEW e \in Int PROVE IsFiniteSet(At(e)) /\ Cardinality(At(e)) \in 0 .. Len(s)
  <2>1. At(e) \subseteq DOMAIN s
    OBVIOUS
  <2> QED BY <1>2, <2>1, FS_Subset, FS_CardinalityType
<1>4. ASSUME NEW e \in Int, d <= e PROVE Cardinality(At(d)) <= Cardinality(At(e))
  <2>1. At(d) \subseteq At(e)
    BY <1>1, <1>4
  <2> QED BY <1>3, <2>1, FS_Subset
<1>5. ASSUME \A i \in DOMAIN s : s[i].ms <= d PROVE Cardinality(At(d)) = Len(s)
  BY <1>2, <1>5
<1>6. ASSUME \A i \in DOMAIN s : s[i].ms # d PROVE At(d) = At(d - 1)
  BY <1>1, <1>6
<1>7. ASSUME \A i \in DOMAIN s : s[i].ms > d PROVE Cardinality(At(d)) = 0
  <2>1. At(d) = {}
    BY <1>1, <1>7
  <2> QED BY <2>1, FS_EmptySet
<1> QED BY <1>3, <1>4, <1>5, <1>6, <1>7 DEF Within

\* There is a slowest result.
LEMMA SlowestExists ==
    ASSUME NEW s \in Seq(Results), s # <<>>
    PROVE  \E d \in {s[i].ms : i \in DOMAIN s} : \A i \in DOMAIN s : s[i].ms <= d
<1> DEFINE Above(d) == {i \in DOMAIN s : s[i].ms > d}
           Sizes == {Cardinality(Above(s[i].ms)) : i \in DOMAIN s}
<1>1. /\ DOMAIN s = 1 .. Len(s) /\ Len(s) \in Nat \ {0}
      /\ \A i \in DOMAIN s : s[i].ms \in Nat
  BY ResultAssumption
<1>2. ASSUME NEW d PROVE IsFiniteSet(Above(d)) /\ Cardinality(Above(d)) \in Nat
  <2>1. IsFiniteSet(DOMAIN s) /\ Above(d) \in SUBSET DOMAIN s
    BY <1>1, FS_Interval
  <2>2. IsFiniteSet(Above(d))
    BY <2>1, FS_Subset
  <2> QED BY <2>2, FS_CardinalityType
<1>3. Sizes \in SUBSET Nat /\ Sizes # {}
  <2> HIDE DEF Above
  <2> QED BY <1>1, <1>2
<1>4. PICK i \in DOMAIN s :
        \A j \in DOMAIN s : Cardinality(Above(s[i].ms)) <= Cardinality(Above(s[j].ms))
  <2>1. PICK m \in Sizes : \A n \in Sizes : m <= n
    <3> HIDE DEF Sizes
    <3> QED BY <1>3, SmallestIn
  <2> HIDE DEF Above
  <2> QED BY <2>1
<1>5. ASSUME NEW j \in DOMAIN s, ~(s[j].ms <= s[i].ms) PROVE FALSE
  <2>1. s[i].ms < s[j].ms /\ s[i].ms \in Nat /\ s[j].ms \in Nat
    BY <1>1, <1>5
  <2>2. Above(s[j].ms) \subseteq Above(s[i].ms) /\ j \in Above(s[i].ms) /\ j \notin Above(s[j].ms)
    BY <1>1, <2>1
  <2> HIDE DEF Above
  <2>3. /\ Cardinality(Above(s[j].ms)) <= Cardinality(Above(s[i].ms))
        /\ Cardinality(Above(s[j].ms)) # Cardinality(Above(s[i].ms))
    BY <1>2, <2>2, FS_Subset
  <2>4. /\ Cardinality(Above(s[i].ms)) <= Cardinality(Above(s[j].ms))
        /\ Cardinality(Above(s[i].ms)) \in Nat /\ Cardinality(Above(s[j].ms)) \in Nat
    BY <1>2, <1>4
  <2> QED BY <2>3, <2>4
<1> QED BY <1>5

\* durations[min(n - 1, int(n * 0.95))] exists: the least duration within which the list
\* has as many results as the rank.
LEMMA P95Exists ==
    ASSUME NEW s \in Seq(Results), s # <<>>
    PROVE  /\ P95(s) \in {s[i].ms : i \in DOMAIN s}
           /\ P95(s) \in Nat /\ P95Rank(Len(s)) <= Within(s, P95(s))
<1> DEFINE Durations == {s[i].ms : i \in DOMAIN s}
           rank == P95Rank(Len(s))
           Enough == {d \in Durations : rank <= Within(s, d)}
<1>1. /\ Len(s) \in Nat \ {0} /\ rank \in 1 .. Len(s)
      /\ \A i \in DOMAIN s : s[i].ms \in Nat
  <2>1. Len(s) \in Nat \ {0}
    OBVIOUS
  <2>2. \A i \in DOMAIN s : s[i].ms \in Nat
    BY ResultAssumption
  <2> QED BY <2>1, <2>2, P95RankFits
<1> HIDE DEF rank
<1>2. Durations \subseteq Nat
  BY <1>1
<1>3. Enough # {}
  <2>1. PICK d \in Durations : \A i \in DOMAIN s : s[i].ms <= d
    BY SlowestExists
  <2>2. d \in Int
    BY <1>2, <2>1
  <2>3. Within(s, d) = Len(s)
    BY <2>1, <2>2, WithinFacts
  <2> QED BY <1>1, <2>1, <2>3
<1>4. PICK d \in Enough : \A e \in Enough : d <= e
  <2>1. Enough \in SUBSET Nat
    BY <1>2
  <2> HIDE DEF Enough
  <2> QED BY <1>3, <2>1, SmallestIn
<1>5. d \in Nat /\ rank <= Within(s, d) /\ d \in Durations
  BY <1>2, <1>4
<1>6. ASSUME NEW e \in Int, e < 0 PROVE Within(s, e) = 0
  <2>1. \A i \in DOMAIN s : s[i].ms > e
    BY <1>1, <1>6
  <2> QED BY <2>1, WithinFacts
<1>7. ASSUME rank <= Within(s, d - 1) PROVE FALSE
  <2> DEFINE Lower == {e \in Nat : e < d /\ rank <= Within(s, e)}
  <2>1. d # 0
    BY <1>1, <1>6, <1>7
  <2>2. d - 1 \in Lower
    BY <1>5, <1>7, <2>1
  <2>3. PICK e \in Lower : \A f \in Lower : e <= f
    <3>1. Lower \in SUBSET Nat /\ Lower # {}
      BY <2>2
    <3> HIDE DEF Lower
    <3> QED BY <3>1, SmallestIn
  <2>4. e \in Int /\ \A i \in DOMAIN s : s[i].ms # e
    BY <1>4, <1>5, <2>3
  <2>5. Within(s, e) = Within(s, e - 1)
    BY <2>4, WithinFacts
  <2>6. e # 0
    BY <1>1, <1>6, <2>3, <2>5
  <2>7. e - 1 \in Lower
    BY <1>5, <2>3, <2>5, <2>6
  <2> QED BY <2>3, <2>7
<1>8. Within(s, d - 1) < rank
  <2>1. Within(s, d - 1) \in 0 .. Len(s)
    <3>1. d - 1 \in Int
      BY <1>5
    <3> QED BY <3>1, WithinFacts
  <2> QED BY <1>1, <1>7, <2>1
<1>9. P95(s) \in Durations /\ rank <= Within(s, P95(s))
  BY <1>5, <1>8 DEF P95, rank
<1> QED BY <1>2, <1>9 DEF rank

(***************************************************************************)
(* The release gate                                                        *)
(***************************************************************************)
LEMMA VerdictsInitially == Init => Verdicts
BY DEF Init, Verdicts, VerdictOK

\* Only the final UPDATE writes a verdict, and a completed job writes no more.
LEMMA VerdictsInductive == IInv /\ Verdicts /\ [Next]_vars => Verdicts'
<1> SUFFICES ASSUME IInv, Verdicts, [Next]_vars, NEW e \in Evals PROVE VerdictOK(e)'
  BY DEF Verdicts
<1>0. TypeOK /\ JobOK(e) /\ VerdictOK(e)
  BY DEF IInv, Verdicts
<1>1. CASE CreateDataset \/ Crash \/ UNCHANGED vars
  BY <1>0, <1>1 DEF CreateDataset, Crash, vars, columns, VerdictOK
<1>2. CASE DeleteDataset
  BY <1>0, <1>2 DEF DeleteDataset, VerdictOK
<1>3. ASSUME NEW f \in Evals, NEW inline \in BOOLEAN, Evaluate(f, inline) PROVE VerdictOK(e)'
  BY <1>0, <1>3 DEF Evaluate, VerdictOK, TypeOK, JobOK
<1>4. ASSUME NEW f \in Evals, Cancel(f) PROVE VerdictOK(e)'
  BY <1>0, <1>4 DEF Cancel, VerdictOK, TypeOK, Active, columns
<1>5. ASSUME NEW f \in Evals, Write(f) PROVE VerdictOK(e)'
  <2>1. CASE e = f /\ Exists(e)
    <3>1. /\ limits' = limits /\ stored'[e] = done[e] /\ gate'[e] = Gate(done[e], limits[e])
          /\ status[e] \notin {"none", "gone"}
      BY <1>0, <1>5, <2>1 DEF Write, TypeOK, JobOK, Exists
    <3>2. Gate(done[e], limits[e])' = Gate(done[e]', limits[e]')
      BY DEF Gate
    <3> QED BY <1>0, <3>1 DEF VerdictOK
  <2>2. CASE ~(e = f /\ Exists(e))
    <3>1. /\ limits' = limits /\ stored'[e] = stored[e] /\ gate'[e] = gate[e]
          /\ status'[e] = status[e]
      BY <1>0, <1>5, <2>2 DEF Write, TypeOK
    <3> QED BY <1>0, <3>1 DEF VerdictOK
  <2> QED BY <2>1, <2>2
<1>6. ASSUME NEW f \in Evals,
             \/ Submit(f) \/ Take(f) \/ Begin(f) \/ NextCase(f) \/ RunCase(f) \/ Report(f)
             \/ LastLook(f)
      PROVE  VerdictOK(e)'
  <2>1. UNCHANGED <<status, limits, stored, gate>>
    BY <1>6 DEF Submit, Take, Begin, NextCase, RunCase, Report, LastLook, columns
  <2> QED BY <1>0, <2>1 DEF VerdictOK
<1> QED BY <1>1, <1>2, <1>3, <1>4, <1>5, <1>6 DEF Next, Work

\* What "passed" says of a list of results, of any length, and of any limits.
LEMMA PassedIsWithinLimits ==
    ASSUME NEW s \in Seq(Results), NEW l \in Limits, Gate(s, l) = "passed"
    PROVE  /\ l.rate # NoLimit => Passed(s) * 100 >= l.rate * Len(s)
           /\ l.cost # NoLimit => Cost(s) <= l.cost
           /\ l.ms # NoLimit   => (Len(s) - Within(s, l.ms)) * 20 <= Len(s)
<1>1. s # <<>> /\ ~TooFewPassed(s, l) /\ ~TooExpensive(s, l) /\ ~TooSlow(s, l)
  BY DEF Gate
<1>2. Len(s) \in Nat \ {0} /\ DOMAIN s = 1 .. Len(s)
  BY <1>1
<1>3. /\ l.rate # NoLimit => l.rate \in Nat
      /\ l.cost # NoLimit => l.cost \in Nat
      /\ l.ms # NoLimit => l.ms \in Nat
  <2>1. l \in [rate : 0 .. 100 \cup {NoLimit}, ms : Nat \cup {NoLimit}, cost : Nat \cup {NoLimit}]
    BY LimitAssumption
  <2>2. /\ l.rate \in 0 .. 100 \cup {NoLimit} /\ l.cost \in Nat \cup {NoLimit}
        /\ l.ms \in Nat \cup {NoLimit}
    BY <2>1
  <2>3. \A n \in 0 .. 100 : n \in Nat
    OBVIOUS
  <2> QED BY <2>2, <2>3
<1>4. ASSUME l.rate # NoLimit PROVE Passed(s) * 100 >= l.rate * Len(s)
  <2>1. Passed(s) \in Nat
    <3>1. IsFiniteSet(DOMAIN s) /\ Passing(s) \in SUBSET DOMAIN s
      BY <1>2, FS_Interval DEF Passing
    <3> QED BY <3>1, FS_Subset, FS_CardinalityType DEF Passed
  <2>2. l.rate * Len(s) \in Nat
    BY <1>2, <1>3, <1>4
  <2> QED BY <1>1, <1>4, <2>1, <2>2 DEF TooFewPassed
<1>5. ASSUME l.cost # NoLimit PROVE Cost(s) <= l.cost
  BY <1>1, <1>3, <1>5, CostIsNatural DEF TooExpensive
<1>6. ASSUME l.ms # NoLimit PROVE (Len(s) - Within(s, l.ms)) * 20 <= Len(s)
  <2>1. P95(s) \in Nat /\ l.ms \in Nat /\ P95(s) <= l.ms
    BY <1>1, <1>3, <1>6, P95Exists DEF TooSlow
  <2>2. P95Rank(Len(s)) <= Within(s, P95(s))
    BY <1>1, P95Exists
  <2>3. Within(s, P95(s)) \in 0 .. Len(s) /\ Within(s, P95(s)) <= Within(s, l.ms)
    <3>1. P95(s) \in Int /\ l.ms \in Int
      BY <2>1
    <3> QED BY <2>1, <3>1, WithinFacts
  <2>4. Within(s, l.ms) \in 0 .. Len(s)
    <3>1. l.ms \in Int
      BY <2>1
    <3> QED BY <3>1, WithinFacts
  <2>5. P95Rank(Len(s)) \in 1 .. Len(s) /\ (Len(s) - P95Rank(Len(s))) * 20 <= Len(s)
    BY <1>2, P95RankFits
  <2> DEFINE slow == Len(s) - Within(s, l.ms)  above == Len(s) - P95Rank(Len(s))
  <2>6. slow \in Nat /\ above \in Nat /\ slow <= above /\ above * 20 <= Len(s)
    BY <1>2, <2>2, <2>3, <2>4, <2>5
  <2> HIDE DEF slow, above
  <2>7. slow * 20 <= Len(s)
    BY <1>2, <2>6
  <2> QED BY <2>7 DEF slow
<1> QED BY <1>4, <1>5, <1>6

\* A completed evaluation that says "passed" keeps every threshold: the pass rate of all
\* cases of the dataset, the total cost and the share of slow cases.
THEOREM PassedHolds == Spec => []PassedGateHolds
<1>1. IInv /\ Verdicts => PassedGateHolds
  <2> SUFFICES ASSUME IInv, Verdicts,
                      NEW e \in Evals, status[e] = "completed", gate[e] = "passed"
               PROVE  /\ limits[e].rate # NoLimit =>
                           Passed(stored[e]) * 100 >= limits[e].rate * cases
                      /\ limits[e].cost # NoLimit => Cost(stored[e]) <= limits[e].cost
                      /\ limits[e].ms # NoLimit =>
                           (Len(stored[e]) - Within(stored[e], limits[e].ms)) * 20 <= Len(stored[e])
    BY DEF PassedGateHolds
  <2>1. TypeOK /\ JobOK(e) /\ VerdictOK(e)
    BY DEF IInv, Verdicts
  <2>2. /\ stored[e] \in Seq(Results) /\ limits[e] \in Limits
        /\ Gate(stored[e], limits[e]) = "passed" /\ Len(stored[e]) = cases
    BY <2>1 DEF TypeOK, JobOK, VerdictOK
  <2> QED BY <2>2, PassedIsWithinLimits
<1> QED BY <1>1, VerdictsInitially, VerdictsInductive, Invariance, PTL DEF Spec
=============================================================================
