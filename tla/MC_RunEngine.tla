---------------------------- MODULE MC_RunEngine ----------------------------
(***************************************************************************)
(* Model values and symmetry for TLC's runs of RunEngine.                  *)
(***************************************************************************)
EXTENDS RunEngine, TLC

CONSTANTS r1, r2, w1, w2, q1, q2

OneRun      == {r1}
TwoRuns     == {r1, r2}
OneWorker   == {w1}
TwoWorkers  == {w1, w2}
OneRequest  == {q1}
TwoRequests == {q1, q2}

Nowhere     == {}
First       == {<<r1, 0>>}

\* max_steps: enough for the workflow, or one step for the second run.
Ample       == [r \in Runs |-> N]
Tight       == [r \in Runs |-> IF r = r2 THEN 1 ELSE N]

\* The second run's actor may not run the first step.
Barred      == {<<r2, 0>>}

\* The threads of a pool are interchangeable.
Interchangeable == Permutations(Workers) \cup Permutations(Requests)
=============================================================================
