---------------------------- MODULE MC_Evaluation ----------------------------
(***************************************************************************)
(* Model values and constants for TLC's run of Evaluation.                 *)
(***************************************************************************)
EXTENDS Evaluation, TLC

CONSTANTS e1, e2

TwoEvals == {e1, e2}

\* A fast, cheap pass and a slow, dear failure.
SomeResults == {[passed |-> TRUE,  ms |-> 1, cost |-> 1],
                [passed |-> FALSE, ms |-> 2, cost |-> 3]}

\* Nothing is asked; or at least half of the cases pass, cheaply and fast.
SomeLimits == {[rate |-> NoLimit, ms |-> NoLimit, cost |-> NoLimit],
               [rate |-> 50, ms |-> 1, cost |-> 4]}
=============================================================================
