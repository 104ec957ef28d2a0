------------------------------ MODULE Schedules ------------------------------
(***************************************************************************)
(* Schedules (service.py): rows that start a run every interval_seconds.   *)
(* The scheduler thread sweeps for due ones every second, and so does an   *)
(* administrator's POST /api/schedules/run-due.                            *)
(*                                                                         *)
(* A step is one transaction or one call of the run queue.  A sweep takes  *)
(* its rows in any order (the code's is that of their due times).  Of two  *)
(* SELECTs in a row that only a deletion can separate, one is modelled.    *)
(* What becomes of a run is module RunEngine's.                            *)
(*                                                                         *)
(* A definition whose comment starts with "Mutant" is the definition below *)
(* it with a plausible bug; it is not part of the specification.           *)
(***************************************************************************)
EXTENDS Integers, Sequences

CONSTANTS
    Schedules,  \* the schedules, each of a workflow of its own
    NoSchedule, \* what is not a schedule
    Sweepers,   \* the scheduler thread and the requests to sweep
    Scheduler,  \* the scheduler thread
    Interval,   \* interval_seconds
    MaxClock,   \* bound: the clock stops there
    MaxFaults   \* bound: failing submits and deaths of the process

ASSUME NameAssumption  == NoSchedule \notin Schedules /\ Scheduler \in Sweepers
ASSUME BoundAssumption == Interval \in Nat \ {0} /\ MaxClock \in Nat /\ MaxFaults \in Nat

VARIABLES
    rows,     \* the schedules in the table
    deleted,  \* schedules whose project was deleted, with the workflow and its runs
    next,     \* next_run_at
    enabled,  \* schedules with enabled = 1
    fired,    \* the runs started for a schedule, in the order of their ids
    at,       \* where a sweeper is
    todo,     \* the rows its SELECT returned and it has not come to yet
    cur,      \* the schedule it is at
    dueAt,    \* due_at, the time of its sweep
    clock, faults

table  == <<rows, deleted, next, enabled>>
sweeps == <<at, todo, cur, dueAt>>
vars   == <<table, fired, sweeps, clock, faults>>

Firing == [by : Sweepers, due : 0 .. MaxClock]

TypeOK ==
    /\ rows \subseteq Schedules /\ deleted \subseteq Schedules /\ rows \cap deleted = {}
    /\ next \in [Schedules -> 0 .. MaxClock + Interval]
    /\ enabled \subseteq rows
    /\ fired \in [Schedules -> Seq(Firing)]
    /\ at \in [Sweepers -> {"idle", "begin", "submit", "move", "over"}]
    /\ todo \in [Sweepers -> SUBSET Schedules]
    /\ cur \in [Sweepers -> Schedules \cup {NoSchedule}]
    /\ \A t \in Sweepers : at[t] \in {"submit", "move"} => cur[t] \in Schedules
    /\ dueAt \in [Sweepers -> 0 .. MaxClock]
    /\ clock \in 0 .. MaxClock /\ faults \in 0 .. MaxFaults

Init ==
    /\ rows = {} /\ deleted = {} /\ enabled = {}
    /\ next = [s \in Schedules |-> 0]
    /\ fired = [s \in Schedules |-> <<>>]
    /\ at = [t \in Sweepers |-> "idle"]
    /\ todo = [t \in Sweepers |-> {}]
    /\ cur = [t \in Sweepers |-> NoSchedule]
    /\ dueAt = [t \in Sweepers |-> 0]
    /\ clock = 0 /\ faults = 0

(***************************************************************************)
(* The table                                                               *)
(***************************************************************************)
\* create_schedule: enabled, and due at once.
CreateSchedule(s) ==
    /\ s \notin rows \cup deleted
    /\ rows' = rows \cup {s} /\ enabled' = enabled \cup {s}
    /\ next' = [next EXCEPT ![s] = clock]
    /\ UNCHANGED <<deleted, fired, sweeps, clock, faults>>

\* set_schedule_enabled; enabling again leaves next_run_at in the past.
SetEnabled(s) ==
    /\ s \in rows
    /\ enabled' = IF s \in enabled THEN enabled \ {s} ELSE enabled \cup {s}
    /\ UNCHANGED <<rows, deleted, next, fired, sweeps, clock, faults>>

\* delete_project: the workflow, its schedule and its runs go.
DeleteProject(s) ==
    /\ s \in rows
    /\ deleted' = deleted \cup {s}
    /\ rows' = rows \ {s} /\ enabled' = enabled \ {s}
    /\ UNCHANGED <<next, fired, sweeps, clock, faults>>

IsDue(s) == s \in enabled /\ next[s] <= clock

(***************************************************************************)
(* run_due_schedules                                                       *)
(***************************************************************************)
\* Mutant: the sweep claims its rows first, by moving them on.
SelectDueAndMove(t) ==
    /\ at[t] = "idle"
    /\ \E s \in Schedules : IsDue(s)
    /\ todo' = [todo EXCEPT ![t] = {s \in Schedules : IsDue(s)}]
    /\ next' = [s \in Schedules |-> IF IsDue(s) THEN clock + Interval ELSE next[s]]
    /\ dueAt' = [dueAt EXCEPT ![t] = clock]
    /\ at' = [at EXCEPT ![t] = "begin"]
    /\ UNCHANGED <<rows, deleted, enabled, fired, cur, clock, faults>>

\* SELECT the enabled schedules that are due.
SelectDue(t) ==
    /\ at[t] = "idle"
    /\ \E s \in Schedules : IsDue(s)
    /\ todo' = [todo EXCEPT ![t] = {s \in Schedules : IsDue(s)}]
    /\ dueAt' = [dueAt EXCEPT ![t] = clock]
    /\ at' = [at EXCEPT ![t] = "begin"]
    /\ UNCHANGED <<table, fired, cur, clock, faults>>

\* A sweep ends, and with "over" its thread or request.
EndSweep(t, label) ==
    /\ at' = [at EXCEPT ![t] = label]
    /\ todo' = [todo EXCEPT ![t] = {}]
    /\ cur' = [cur EXCEPT ![t] = NoSchedule]
    /\ dueAt' = [dueAt EXCEPT ![t] = 0]

\* The end of run_due_schedules, or a database error, which _scheduler_loop
\* survives.
Finish(t) == EndSweep(t, IF t = Scheduler THEN "idle" ELSE "over")

\* NotFoundError and RedisError end the scheduler thread.
Escape(t) == EndSweep(t, "over")

Goto(t, label) == at' = [at EXCEPT ![t] = label] /\ UNCHANGED <<todo, cur, dueAt>>

\* The run of the row: its INSERT.
Fire(t, s) ==
    /\ s \notin deleted
    /\ fired' = [fired EXCEPT ![s] = Append(@, [by |-> t, due |-> dueAt[t]])]
    /\ cur' = [cur EXCEPT ![t] = s]
    /\ todo' = [todo EXCEPT ![t] = @ \ {s}]
    /\ at' = [at EXCEPT ![t] = "submit"]
    /\ UNCHANGED dueAt

\* Mutant: the row of a deleted workflow is tried again.
StartRunAgain(t) ==
    /\ at[t] = "begin"
    /\ \E s \in todo[t] :
         \/ Fire(t, s) /\ todo[t] \cap deleted = {}
         \/ s \in deleted /\ UNCHANGED <<sweeps, fired>>
    /\ UNCHANGED <<table, clock, faults>>

\* start_run for the next row: get_workflow and the INSERT.  A workflow deleted
\* before get_workflow is a NotFoundError, one deleted behind it an
\* IntegrityError.
StartRun(t) ==
    /\ at[t] = "begin"
    /\ \E s \in todo[t] :
         \/ Fire(t, s)
         \/ s \in deleted /\ (Escape(t) \/ Finish(t)) /\ UNCHANGED fired
    /\ UNCHANGED <<table, clock, faults>>

\* start_run: run_queue.submit, which Redis may refuse, and get_run.
Dispatch(t) ==
    /\ at[t] = "submit"
    /\ \/ cur[t] \notin deleted /\ Goto(t, "move") /\ UNCHANGED faults
       \/ cur[t] \in deleted /\ Escape(t) /\ UNCHANGED faults
       \/ faults < MaxFaults /\ faults' = faults + 1 /\ Escape(t)
    /\ UNCHANGED <<table, fired, clock>>

Advance(t) ==
    IF todo[t] = {} THEN Finish(t)
    ELSE /\ at' = [at EXCEPT ![t] = "begin"]
         /\ cur' = [cur EXCEPT ![t] = NoSchedule]
         /\ UNCHANGED <<todo, dueAt>>

\* Mutant: next_run_at counts from the old due time.
MoveOnFromDue(t) ==
    LET s == cur[t] IN
    /\ at[t] = "move"
    /\ next' = [next EXCEPT ![s] = IF s \in rows THEN @ + Interval ELSE @]
    /\ Advance(t)
    /\ UNCHANGED <<rows, deleted, enabled, fired, clock, faults>>

\* UPDATE next_run_at to the time of this sweep + interval_seconds, by id.
MoveOn(t) ==
    LET s == cur[t] IN
    /\ at[t] = "move"
    /\ next' = [next EXCEPT ![s] = IF s \in rows THEN dueAt[t] + Interval ELSE @]
    /\ Advance(t)
    /\ UNCHANGED <<rows, deleted, enabled, fired, clock, faults>>

(***************************************************************************)
(* The rest of the world                                                   *)
(***************************************************************************)
Tick ==
    /\ clock < MaxClock
    /\ clock' = clock + 1
    /\ UNCHANGED <<table, fired, sweeps, faults>>

\* The process dies and is started again, with a new scheduler thread.
Crash ==
    /\ faults < MaxFaults
    /\ faults' = faults + 1
    /\ at' = [t \in Sweepers |-> IF t = Scheduler \/ at[t] = "idle" THEN "idle" ELSE "over"]
    /\ todo' = [t \in Sweepers |-> {}]
    /\ cur' = [t \in Sweepers |-> NoSchedule]
    /\ dueAt' = [t \in Sweepers |-> 0]
    /\ UNCHANGED <<table, fired, clock>>

(***************************************************************************)
(* Specification                                                           *)
(***************************************************************************)
Sweep(t) == SelectDue(t) \/ StartRun(t) \/ Dispatch(t) \/ MoveOn(t)

Next ==
    \/ \E s \in Schedules : CreateSchedule(s) \/ SetEnabled(s) \/ DeleteProject(s)
    \/ \E t \in Sweepers : Sweep(t)
    \/ Tick \/ Crash

Spec == Init /\ [][Next]_vars

\* The scheduler thread sweeps every second as long as it lives.
FairSpec == Spec /\ WF_vars(Sweep(Scheduler))

(***************************************************************************)
(* Properties                                                              *)
(***************************************************************************)
\* run_due_schedules fires at most once per interval: two runs of a schedule
\* that the scheduler thread started are an interval apart, also after a downtime
\* over several intervals, unless a manual sweep or a fault came in between.
FiringsAreSpaced ==
    \A s \in Schedules : \A i, j \in DOMAIN fired[s] :
      i < j /\ faults = 0 /\ (\A k \in DOMAIN fired[s] : fired[s][k].by = Scheduler)
        => fired[s][j].due >= fired[s][i].due + Interval

\* run_due_schedules: a due time is passed over only for a run that was started
\* for it: no failure, crash or concurrent sweep loses a firing.
MovedByRun ==
    \A s \in rows : next'[s] # next[s] =>
      \E i \in DOMAIN fired[s] : fired[s][i].due + Interval = next'[s]
PassedOnlyByRun == [][MovedByRun]_vars

\* _scheduler_loop: a due schedule is fired in the end, unless it is disabled or
\* deleted or the scheduler thread is dead.
DueIsFired ==
    \A s \in Schedules : IsDue(s) ~> (~IsDue(s) \/ at[Scheduler] = "over")

(***************************************************************************)
(* The inductive invariant                                                 *)
(***************************************************************************)
\* What a sweeper knows: the run of the schedule it is at was started, by itself
\* and for the time of its sweep.
SweepOK(t) ==
    /\ dueAt[t] <= clock
    /\ at[t] \in {"idle", "over"} => todo[t] = {}
    /\ todo[t] \subseteq rows \cup deleted
    /\ at[t] \in {"submit", "move"} =>
         /\ cur[t] \notin todo[t]
         /\ \E i \in DOMAIN fired[cur[t]] : fired[cur[t]][i] = [by |-> t, due |-> dueAt[t]]

\* Nothing but the scheduler thread has started runs of s, and no fault occurred.
Undisturbed(s) == faults = 0 /\ \A k \in DOMAIN fired[s] : fired[s][k].by = Scheduler

\* The scheduler thread has started a run of s and not moved next_run_at yet.
InFlight(s) == at[Scheduler] \in {"submit", "move"} /\ cur[Scheduler] = s

SpacedRuns(s) ==
    \A i, j \in DOMAIN fired[s] : i < j => fired[s][j].due >= fired[s][i].due + Interval

\* next_run_at, and the sweep that has read it, lie behind every run but the one
\* in flight.
ScheduleOK(s) ==
    /\ s \notin rows \cup deleted => fired[s] = <<>>
    /\ Undisturbed(s) =>
         /\ SpacedRuns(s)
         /\ s \notin deleted =>
              \A i \in DOMAIN fired[s] :
                \/ fired[s][i].due + Interval <= next[s]
                \/ InFlight(s) /\ i = Len(fired[s])
         /\ InFlight(s) => fired[s] # <<>> /\ fired[s][Len(fired[s])].due = dueAt[Scheduler]
         /\ s \in todo[Scheduler] \ deleted =>
              \A i \in DOMAIN fired[s] : fired[s][i].due + Interval <= dueAt[Scheduler]

IInv ==
    /\ TypeOK
    /\ \A t \in Sweepers : SweepOK(t)
    /\ \A s \in Schedules : ScheduleOK(s)
=============================================================================
