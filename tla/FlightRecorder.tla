---------------------------- MODULE FlightRecorder ----------------------------
(***************************************************************************)
(* What the trace of a run promises (README.md "flight recorder",          *)
(* docs/ARCHITECTURE.md "one ordered span"), whatever threads produce it:  *)
(* one span per step, written in the order of the steps, each only after   *)
(* every step before it is completed; a gate's span starts as "waiting"    *)
(* and only a release completes it; nothing else about a recorded span's   *)
(* status ever changes.                                                    *)
(***************************************************************************)
EXTENDS Integers

CONSTANTS
    Runs, N,    \* the runs and their number of steps
    Gates       \* the <<run, step>> an operator has to release
VARIABLE trace      \* trace[r][i]: the status of the span of step i, "none" before

Steps == 0 .. N - 1

Init == trace = [r \in Runs |-> [i \in Steps |-> "none"]]

Reached(r, i) == \A j \in 0 .. i - 1 : trace[r][j] = "completed"

\* The outcome of a step is recorded, once.
Record(r, i, state) ==
    /\ trace[r][i] = "none"
    /\ Reached(r, i)
    /\ trace' = [trace EXCEPT ![r][i] = state]

Attempted(r, i) == <<r, i>> \notin Gates /\ \E state \in {"completed", "failed"} : Record(r, i, state)

Halted(r, i)    == <<r, i>> \in Gates /\ Record(r, i, "waiting")

\* The gate opens.
Released(r, i) ==
    /\ <<r, i>> \in Gates
    /\ trace[r][i] = "waiting"
    /\ trace' = [trace EXCEPT ![r][i] = "completed"]

Next == \E r \in Runs, i \in Steps : Attempted(r, i) \/ Halted(r, i) \/ Released(r, i)

Spec == Init /\ [][Next]_trace
=============================================================================
