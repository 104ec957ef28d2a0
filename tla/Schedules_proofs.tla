-------------------------- MODULE Schedules_proofs --------------------------
(***************************************************************************)
(* Proofs about Schedules, for any number of schedules, sweepers and       *)
(* faults, and any interval.  Runs are only ever added, so what a sweeper  *)
(* knows of the run it started (SweepOK) stays true; ScheduleOK says that  *)
(* next_run_at lies an interval behind every run of a schedule but the one *)
(* the scheduler thread has not moved it for yet.                          *)
(***************************************************************************)
EXTENDS Schedules, SequenceTheorems, TLAPS

\* The empty table satisfies the invariant.
LEMMA Initially == Init => IInv
<1> SUFFICES ASSUME Init PROVE IInv
  OBVIOUS
<1>1. <<>> \in Seq(Firing)
  BY EmptySeq
<1>2. TypeOK
  BY <1>1, BoundAssumption DEF Init, TypeOK
<1>3. \A t \in Sweepers : SweepOK(t)
  BY DEF Init, SweepOK
<1>4. \A s \in Schedules : ScheduleOK(s)
  <2>1. \A s \in Schedules : fired[s] = <<>> /\ Len(fired[s]) = 0
    BY EmptySeq DEF Init
  <2>2. \A s \in Schedules : DOMAIN fired[s] = 1 .. Len(fired[s])
    BY <1>2, LenProperties DEF TypeOK
  <2>3. ASSUME NEW s \in Schedules PROVE DOMAIN fired[s] = {}
    <3>1. DOMAIN fired[s] = 1 .. 0
      BY <2>1, <2>2
    <3> QED BY <3>1
  <2> QED BY <2>1, <2>3, NameAssumption DEF Init, ScheduleOK, SpacedRuns, InFlight
<1> QED BY <1>2, <1>3, <1>4 DEF IInv

\* The times in the model are numbers.
LEMMA Times ==
    ASSUME TypeOK
    PROVE  /\ Interval \in Nat /\ Interval > 0 /\ clock \in Nat /\ faults \in Nat
           /\ \A t \in Sweepers : dueAt[t] \in Nat
           /\ \A s \in Schedules : /\ next[s] \in Nat /\ fired[s] \in Seq(Firing) /\ Len(fired[s]) \in Nat
                                   /\ DOMAIN fired[s] = 1 .. Len(fired[s])
                                   /\ \A i \in DOMAIN fired[s] : fired[s][i].due \in Nat
<1>1. \A s \in Schedules : /\ fired[s] \in Seq(Firing) /\ Len(fired[s]) \in Nat
                           /\ DOMAIN fired[s] = 1 .. Len(fired[s])
                           /\ \A i \in DOMAIN fired[s] : fired[s][i] \in Firing
  BY DEF TypeOK
<1>2. \A f \in Firing : f.due \in Nat
  BY BoundAssumption DEF Firing
<1> QED BY <1>1, <1>2, BoundAssumption DEF TypeOK

\* A step that starts no run keeps the runs spaced, and undisturbed only if they
\* have been.
LEMMA SameRuns ==
    ASSUME IInv, fired' = fired, faults' = faults \/ faults' = faults + 1, NEW s \in Schedules
    PROVE  /\ Undisturbed(s)' => Undisturbed(s) /\ faults' = faults
           /\ SpacedRuns(s)' = SpacedRuns(s)
<1>1. faults \in Nat
  BY Times DEF IInv
<1> QED BY <1>1 DEF Undisturbed, SpacedRuns

\* What another sweeper knows survives a step that only adds rows and runs.
SweepKept(t) ==
    at'[t] = at[t] /\ todo'[t] = todo[t] /\ cur'[t] = cur[t] /\ dueAt'[t] = dueAt[t]

LEMMA SweepStays ==
    ASSUME IInv, NEW t \in Sweepers, SweepKept(t), fired' = fired,
           clock' >= clock, clock' \in Nat, rows \cup deleted \subseteq rows' \cup deleted'
    PROVE  SweepOK(t)'
<1>1. SweepOK(t) /\ dueAt[t] \in Nat /\ clock \in Nat
  BY Times DEF IInv
<1> QED BY <1>1 DEF SweepOK, SweepKept

\* create_schedule: a new row has no run yet.
LEMMA CreateScheduleStep == ASSUME IInv, NEW s \in Schedules, CreateSchedule(s) PROVE IInv'
<1>0. TypeOK /\ clock \in Nat
  BY Times DEF IInv
<1>1. /\ UNCHANGED <<deleted, fired, at, todo, cur, dueAt, clock, faults>>
      /\ rows' = rows \cup {s} /\ enabled' = enabled \cup {s} /\ s \notin rows \cup deleted
      /\ next' = [next EXCEPT ![s] = clock]
  BY DEF CreateSchedule, sweeps
<1>2. TypeOK'
  <2>1. clock \in 0 .. MaxClock + Interval
    BY <1>0, BoundAssumption DEF TypeOK
  <2> QED BY <1>0, <1>1, <2>1 DEF TypeOK
<1>3. \A t \in Sweepers : SweepOK(t)'
  BY <1>0, <1>1, SweepStays DEF SweepKept
<1>4. ScheduleOK(s)'
  <2>1. fired[s] = <<>>
    BY <1>1 DEF IInv, ScheduleOK
  <2>2. ~InFlight(s)
    <3>1. ASSUME InFlight(s) PROVE \E i \in DOMAIN fired[s] : TRUE
      BY <3>1, NameAssumption DEF IInv, SweepOK, InFlight
    <3> QED BY <2>1, <3>1
  <2> QED BY <1>1, <2>1, <2>2 DEF ScheduleOK, SpacedRuns, InFlight
<1>5. \A r \in Schedules \ {s} : ScheduleOK(r)'
  <2> SUFFICES ASSUME NEW r \in Schedules \ {s} PROVE ScheduleOK(r)'
    OBVIOUS
  <2>1. ScheduleOK(r) /\ next'[r] = next[r]
    BY <1>0, <1>1 DEF IInv, TypeOK
  <2> QED BY <1>1, <2>1, SameRuns DEF ScheduleOK, InFlight
<1> QED BY <1>2, <1>3, <1>4, <1>5 DEF IInv

\* A step that starts no run, moves no next_run_at and leaves the sweeps alone.
LEMMA QuietStep ==
    ASSUME IInv, TypeOK', UNCHANGED <<next, fired, sweeps, faults>>, clock' >= clock,
           rows \cup deleted = rows' \cup deleted', deleted \subseteq deleted'
    PROVE  IInv'
<1>1. \A t \in Sweepers : SweepOK(t)'
  BY SweepStays, BoundAssumption DEF SweepKept, sweeps, TypeOK
<1>2. \A s \in Schedules : ScheduleOK(s)'
  <2> SUFFICES ASSUME NEW s \in Schedules PROVE ScheduleOK(s)'
    OBVIOUS
  <2>1. ScheduleOK(s)
    BY DEF IInv
  <2> QED BY <2>1, SameRuns DEF ScheduleOK, InFlight, sweeps
<1> QED BY <1>1, <1>2 DEF IInv

\* set_schedule_enabled touches no run and no due time.
LEMMA SetEnabledStep == ASSUME IInv, NEW s \in Schedules, SetEnabled(s) PROVE IInv'
<1>1. TypeOK'
  BY DEF IInv, TypeOK, SetEnabled, sweeps
<1>2. clock \in Nat
  BY Times DEF IInv
<1> QED BY <1>1, <1>2, QuietStep DEF SetEnabled

\* delete_project ends what the invariant asks of the schedule.
LEMMA DeleteProjectStep == ASSUME IInv, NEW s \in Schedules, DeleteProject(s) PROVE IInv'
<1>1. TypeOK'
  BY DEF IInv, TypeOK, DeleteProject, sweeps
<1>2. clock \in Nat
  BY Times DEF IInv
<1> QED BY <1>1, <1>2, QuietStep DEF DeleteProject

\* Time passes.
LEMMA TickStep == ASSUME IInv, Tick PROVE IInv'
<1>1. TypeOK'
  BY BoundAssumption DEF IInv, TypeOK, Tick, table, sweeps
<1>2. clock \in Nat
  BY Times DEF IInv
<1> QED BY <1>1, <1>2, QuietStep DEF Tick, table

\* What a step leaves alone of every sweeper but t.
OthersKeep(t) == \A u \in Sweepers \ {t} : SweepKept(u)

\* The SELECT returns schedules whose next_run_at, and so every run of theirs,
\* lies behind the time of the sweep.
LEMMA SelectDueStep == ASSUME IInv, NEW t \in Sweepers, SelectDue(t) PROVE IInv'
<1>0. TypeOK /\ clock \in Nat /\ at[t] = "idle"
  BY Times DEF IInv, SelectDue
<1>1. /\ UNCHANGED <<rows, deleted, next, enabled, fired, cur, clock, faults>>
      /\ todo' = [todo EXCEPT ![t] = {s \in Schedules : IsDue(s)}]
      /\ dueAt' = [dueAt EXCEPT ![t] = clock] /\ at' = [at EXCEPT ![t] = "begin"]
  BY DEF SelectDue, table
<1>2. TypeOK'
  BY <1>0, <1>1 DEF TypeOK
<1>3. OthersKeep(t)
  BY <1>0, <1>1 DEF TypeOK, OthersKeep, SweepKept
<1>4. \A s \in todo'[t] : s \in rows /\ s \notin deleted /\ next[s] <= clock
  BY <1>0, <1>1 DEF TypeOK, IsDue
<1>5. SweepOK(t)'
  BY <1>0, <1>1, <1>4 DEF TypeOK, SweepOK
<1>6. \A u \in Sweepers \ {t} : SweepOK(u)'
  BY <1>0, <1>1, <1>3, SweepStays DEF OthersKeep
<1>7. \A s \in Schedules : ScheduleOK(s)'
  <2> SUFFICES ASSUME NEW s \in Schedules PROVE ScheduleOK(s)'
    OBVIOUS
  <2>1. ScheduleOK(s) /\ Scheduler \in Sweepers
    BY NameAssumption DEF IInv
  <2>2. CASE t # Scheduler
    BY <1>1, <1>3, <2>1, <2>2, SameRuns DEF ScheduleOK, InFlight, OthersKeep, SweepKept
  <2>3. CASE t = Scheduler
    <3>1. ~InFlight(s) /\ ~InFlight(s)' /\ dueAt'[t] = clock
      BY <1>0, <1>1, <2>3 DEF InFlight, TypeOK
    <3>2. \A i \in DOMAIN fired[s] : fired[s][i].due \in Nat /\ Interval \in Nat /\ next[s] \in Nat
      BY <1>0, Times
    <3> QED BY <1>0, <1>1, <1>4, <2>1, <2>3, <3>1, <3>2, SameRuns DEF ScheduleOK
  <2> QED BY <2>2, <2>3
<1> QED BY <1>2, <1>5, <1>6, <1>7 DEF IInv

\* The end of a sweep loses nothing, unless the scheduler thread leaves a run of a
\* living schedule in flight without a fault.
LEMMA EndStep ==
    ASSUME IInv, NEW t \in Sweepers, NEW label \in {"idle", "over"}, EndSweep(t, label),
           UNCHANGED <<table, fired, clock>>, faults' \in 0 .. MaxFaults,
           faults' = faults \/ faults' = faults + 1,
           \A s \in Schedules : t = Scheduler /\ InFlight(s) => s \in deleted \/ faults' # faults
    PROVE  IInv'
<1>0. TypeOK /\ clock \in Nat
  BY Times DEF IInv
<1>1. /\ UNCHANGED <<rows, deleted, next, enabled, fired, clock>>
      /\ at' = [at EXCEPT ![t] = label] /\ todo' = [todo EXCEPT ![t] = {}]
      /\ cur' = [cur EXCEPT ![t] = NoSchedule] /\ dueAt' = [dueAt EXCEPT ![t] = 0]
  BY DEF EndSweep, table
<1>2. TypeOK'
  BY <1>0, <1>1, BoundAssumption DEF TypeOK
<1>3. OthersKeep(t)
  BY <1>0, <1>1 DEF TypeOK, OthersKeep, SweepKept
<1>4. SweepOK(t)'
  BY <1>0, <1>1 DEF TypeOK, SweepOK
<1>5. \A u \in Sweepers \ {t} : SweepOK(u)'
  BY <1>0, <1>1, <1>3, SweepStays DEF OthersKeep
<1>6. \A s \in Schedules : ScheduleOK(s)'
  <2> SUFFICES ASSUME NEW s \in Schedules PROVE ScheduleOK(s)'
    OBVIOUS
  <2>1. ScheduleOK(s) /\ Scheduler \in Sweepers
    BY NameAssumption DEF IInv
  <2>2. CASE t # Scheduler
    BY <1>1, <1>3, <2>1, <2>2, SameRuns DEF ScheduleOK, InFlight, OthersKeep, SweepKept
  <2>3. CASE t = Scheduler
    <3>1. ~InFlight(s)' /\ todo'[t] = {}
      BY <1>0, <1>1, <2>3 DEF InFlight, TypeOK
    <3> QED BY <1>1, <2>1, <2>3, <3>1, SameRuns DEF ScheduleOK
  <2> QED BY <2>2, <2>3
<1> QED BY <1>2, <1>4, <1>5, <1>6 DEF IInv

\* The INSERT of a run adds it behind the others.
LEMMA Firing1 ==
    ASSUME TypeOK, NEW t \in Sweepers, NEW s \in Schedules, Fire(t, s)
    PROVE  /\ fired' \in [Schedules -> Seq(Firing)]
           /\ \A r \in Schedules \ {s} : fired'[r] = fired[r]
           /\ DOMAIN fired'[s] = 1 .. Len(fired[s]) + 1 /\ Len(fired'[s]) = Len(fired[s]) + 1
           /\ fired'[s] # <<>>
           /\ \A i \in DOMAIN fired[s] : fired'[s][i] = fired[s][i]
           /\ fired'[s][Len(fired[s]) + 1] = [by |-> t, due |-> dueAt[t]]
<1> DEFINE new == [by |-> t, due |-> dueAt[t]]
<1>1. new \in Firing /\ fired[s] \in Seq(Firing)
  BY DEF TypeOK, Firing
<1>2. fired' = [fired EXCEPT ![s] = Append(fired[s], new)]
  BY DEF Fire
<1>3. /\ Append(fired[s], new) \in Seq(Firing) /\ Append(fired[s], new) # <<>>
      /\ Len(Append(fired[s], new)) = Len(fired[s]) + 1
      /\ \A i \in 1 .. Len(fired[s]) : Append(fired[s], new)[i] = fired[s][i]
      /\ Append(fired[s], new)[Len(fired[s]) + 1] = new
  BY <1>1, AppendProperties
<1>4. DOMAIN Append(fired[s], new) = 1 .. Len(fired[s]) + 1 /\ DOMAIN fired[s] = 1 .. Len(fired[s])
  BY <1>1, <1>3, LenProperties
<1>5. fired'[s] = Append(fired[s], new) /\ \A r \in Schedules \ {s} : fired'[r] = fired[r]
  BY <1>2 DEF TypeOK
<1> QED BY <1>2, <1>3, <1>4, <1>5 DEF TypeOK

\* The run is a whole interval behind the earlier ones, and is now in flight.
LEMMA FireStep ==
    ASSUME IInv, NEW t \in Sweepers, NEW s \in todo[t], at[t] = "begin", Fire(t, s),
           UNCHANGED <<table, clock, faults>>
    PROVE  IInv'
<1>0. TypeOK /\ clock \in Nat /\ s \in Schedules /\ s \notin deleted /\ SweepOK(t) /\ s \in rows
  BY Times DEF IInv, TypeOK, Fire, SweepOK
<1>1. /\ UNCHANGED <<rows, deleted, next, enabled, dueAt, clock, faults>>
      /\ at' = [at EXCEPT ![t] = "submit"] /\ todo' = [todo EXCEPT ![t] = todo[t] \ {s}]
      /\ cur' = [cur EXCEPT ![t] = s]
  BY DEF Fire, table
<1>2. TypeOK'
  BY <1>0, <1>1, Firing1 DEF TypeOK
<1>3. OthersKeep(t)
  BY <1>0, <1>1 DEF TypeOK, OthersKeep, SweepKept
<1>4. Len(fired[s]) \in Nat /\ DOMAIN fired[s] = 1 .. Len(fired[s])
  BY <1>0, Times
<1>9. /\ \A r \in Schedules \ {s} : fired'[r] = fired[r]
      /\ DOMAIN fired'[s] = 1 .. Len(fired[s]) + 1 /\ Len(fired'[s]) = Len(fired[s]) + 1
      /\ \A i \in DOMAIN fired[s] : fired'[s][i] = fired[s][i]
      /\ fired'[s][Len(fired[s]) + 1] = [by |-> t, due |-> dueAt[t]] /\ fired'[s] # <<>>
  BY <1>0, Firing1
<1>5. SweepOK(t)'
  <2>1. Len(fired[s]) + 1 \in DOMAIN fired'[s]
    BY <1>0, <1>4, <1>9
  <2> QED BY <1>0, <1>1, <2>1, <1>9 DEF TypeOK, SweepOK
<1>6. \A u \in Sweepers \ {t} : SweepOK(u)'
  <2> SUFFICES ASSUME NEW u \in Sweepers \ {t} PROVE SweepOK(u)'
    OBVIOUS
  <2>1. SweepOK(u) /\ SweepKept(u)
    BY <1>3 DEF IInv, OthersKeep
  <2>2. at[u] \in {"submit", "move"} => cur[u] \in Schedules
    BY <1>0 DEF TypeOK
  <2>3. \A r \in Schedules : \A i \in DOMAIN fired[r] : i \in DOMAIN fired'[r] /\ fired'[r][i] = fired[r][i]
    BY <1>0, <1>4, <1>9
  <2> QED BY <1>1, <2>1, <2>2, <2>3 DEF SweepOK, SweepKept
<1>7. \A r \in Schedules \ {s} : ScheduleOK(r)'
  <2> SUFFICES ASSUME NEW r \in Schedules \ {s} PROVE ScheduleOK(r)'
    OBVIOUS
  <2>1. ScheduleOK(r) /\ fired'[r] = fired[r]
    BY <1>0, <1>9 DEF IInv
  <2>2. InFlight(r)' = InFlight(r) /\ (r \in todo'[Scheduler] => r \in todo[Scheduler])
    BY <1>0, <1>1, NameAssumption DEF InFlight, TypeOK
  <2> QED BY <1>1, <2>1, <2>2 DEF ScheduleOK, Undisturbed, SpacedRuns
<1>8. ScheduleOK(s)'
  <2> SUFFICES ASSUME Undisturbed(s)'
               PROVE  /\ SpacedRuns(s)'
                      /\ \A i \in DOMAIN fired'[s] :
                            fired'[s][i].due + Interval <= next[s] \/ (InFlight(s)' /\ i = Len(fired'[s]))
                      /\ fired'[s][Len(fired'[s])].due = dueAt'[Scheduler] /\ s \notin todo'[Scheduler]
    BY <1>0, <1>1, <1>9 DEF ScheduleOK
  <2>1. t = Scheduler /\ Undisturbed(s)
    BY <1>0, <1>1, <1>4, <1>9 DEF Undisturbed
  <2>2. ~InFlight(s) /\ InFlight(s)' /\ s \notin todo'[Scheduler]
    BY <1>0, <1>1, <2>1 DEF InFlight, TypeOK
  <2>3. /\ SpacedRuns(s)
        /\ \A i \in DOMAIN fired[s] : /\ fired[s][i].due + Interval <= next[s]
                                       /\ fired[s][i].due + Interval <= dueAt[t]
    BY <1>0, <2>1, <2>2 DEF IInv, ScheduleOK
  <2>4. fired'[s][Len(fired[s]) + 1].due = dueAt[t]
    BY <1>0, <1>9
  <2>5. SpacedRuns(s)'
    <3> SUFFICES ASSUME NEW i \in DOMAIN fired'[s], NEW j \in DOMAIN fired'[s], i < j
                 PROVE  fired'[s][j].due >= fired'[s][i].due + Interval
      BY DEF SpacedRuns
    <3>1. i \in DOMAIN fired[s] /\ fired'[s][i] = fired[s][i]
      BY <1>4, <1>9
    <3>2. dueAt[t] \in Nat /\ Interval \in Nat /\ fired[s][i].due \in Nat
      BY <1>0, <3>1, Times
    <3>3. CASE j \in DOMAIN fired[s]
      BY <1>9, <2>3, <3>1, <3>3 DEF SpacedRuns
    <3>4. CASE j = Len(fired[s]) + 1
      BY <2>3, <2>4, <3>1, <3>2, <3>4
    <3> QED BY <1>4, <1>9, <3>3, <3>4
  <2> QED BY <1>0, <1>1, <1>4, <2>1, <2>2, <2>3, <2>4, <2>5, <1>9
<1> QED BY <1>2, <1>5, <1>6, <1>7, <1>8 DEF IInv

\* start_run of the next row, or the error that ends the sweep.
LEMMA StartRunStep == ASSUME IInv, NEW t \in Sweepers, StartRun(t) PROVE IInv'
<1>1. at[t] = "begin" /\ UNCHANGED <<table, clock, faults>> /\ TypeOK
  BY DEF StartRun, IInv
<1>2. CASE \E s \in todo[t] : Fire(t, s)
  BY <1>1, <1>2, FireStep
<1>3. CASE (Escape(t) \/ Finish(t)) /\ UNCHANGED fired
  <2>1. PICK label \in {"idle", "over"} : EndSweep(t, label)
    BY <1>3 DEF Escape, Finish
  <2>2. \A s \in Schedules : ~(t = Scheduler /\ InFlight(s))
    BY <1>1 DEF InFlight
  <2>3. faults' = faults /\ faults' \in 0 .. MaxFaults
    BY <1>1 DEF TypeOK
  <2> QED BY <1>1, <1>3, <2>1, <2>2, <2>3, EndStep
<1> QED BY <1>2, <1>3 DEF StartRun

\* The run is queued, or its submission fails.
LEMMA DispatchStep == ASSUME IInv, NEW t \in Sweepers, Dispatch(t) PROVE IInv'
<1>1. at[t] = "submit" /\ UNCHANGED <<table, fired, clock>> /\ TypeOK /\ faults \in Nat /\ clock \in Nat
  BY Times DEF Dispatch, IInv
<1>2. CASE Goto(t, "move") /\ UNCHANGED faults
  <2>1. /\ UNCHANGED <<rows, deleted, next, enabled, todo, cur, dueAt>>
        /\ at' = [at EXCEPT ![t] = "move"]
    BY <1>1, <1>2 DEF Goto, table
  <2>2. TypeOK'
    BY <1>1, <1>2, <2>1 DEF TypeOK
  <2>3. SweepOK(t)'
    BY <1>1, <2>1 DEF IInv, SweepOK, TypeOK
  <2>4. \A u \in Sweepers \ {t} : SweepKept(u)
    BY <1>1, <2>1 DEF SweepKept, TypeOK
  <2>5. \A u \in Sweepers \ {t} : SweepOK(u)'
    BY <1>1, <2>1, <2>4, SweepStays
  <2>6. \A s \in Schedules : InFlight(s)' = InFlight(s)
    BY <1>1, <2>1, NameAssumption DEF InFlight, TypeOK
  <2>7. ASSUME NEW s \in Schedules PROVE ScheduleOK(s)'
    <3>1. ScheduleOK(s)
      BY DEF IInv
    <3> QED BY <1>1, <1>2, <2>1, <2>6, <3>1, SameRuns DEF ScheduleOK
  <2> QED BY <2>2, <2>3, <2>5, <2>7 DEF IInv
<1>3. CASE cur[t] \in deleted /\ Escape(t) /\ UNCHANGED faults
  <2>1. \A s \in Schedules : t = Scheduler /\ InFlight(s) => s \in deleted
    BY <1>3 DEF InFlight
  <2>2. faults' = faults /\ faults' \in 0 .. MaxFaults
    BY <1>1, <1>3 DEF TypeOK
  <2> QED BY <1>1, <1>3, <2>1, <2>2, EndStep DEF Escape
<1>4. CASE faults < MaxFaults /\ faults' = faults + 1 /\ Escape(t)
  <2>1. faults' \in 0 .. MaxFaults /\ faults' # faults
    BY <1>1, <1>4, BoundAssumption
  <2> QED BY <1>1, <1>4, <2>1, EndStep DEF Escape
<1> QED BY <1>2, <1>3, <1>4 DEF Dispatch

\* Moving next_run_at to the sweep's own time + interval: while nothing else fires
\* the schedule, every run of it is as old as this sweep or older.
LEMMA MoveOnStep == ASSUME IInv, NEW t \in Sweepers, MoveOn(t) PROVE IInv'
<1> PICK s : s = cur[t]
  OBVIOUS
<1>0. /\ TypeOK /\ clock \in Nat /\ Interval \in Nat /\ at[t] = "move" /\ s \in Schedules
      /\ dueAt[t] \in Nat /\ dueAt[t] <= MaxClock /\ SweepOK(t) /\ ScheduleOK(s) /\ faults \in Nat
  <2>1. TypeOK /\ clock \in Nat /\ Interval \in Nat /\ at[t] = "move" /\ dueAt[t] \in Nat /\ SweepOK(t) /\ faults \in Nat
    BY Times DEF IInv, MoveOn
  <2>2. s \in Schedules /\ dueAt[t] <= MaxClock
    BY <2>1, BoundAssumption DEF TypeOK
  <2> QED BY <2>1, <2>2 DEF IInv
<1>1. /\ UNCHANGED <<rows, deleted, enabled, fired, clock, faults>>
      /\ next' = [next EXCEPT ![s] = IF s \in rows THEN dueAt[t] + Interval ELSE next[s]]
      /\ Advance(t)
  BY DEF MoveOn
<1>2. /\ \E label \in {"idle", "begin", "over"} : at' = [at EXCEPT ![t] = label]
      /\ todo' = todo /\ cur' = [cur EXCEPT ![t] = NoSchedule]
      /\ \E d \in {0, dueAt[t]} : dueAt' = [dueAt EXCEPT ![t] = d]
      /\ at'[t] \in {"idle", "over"} => todo[t] = {}
      /\ at'[t] = "begin" => dueAt'[t] = dueAt[t]
  <2>1. CASE todo[t] = {}
    <3>0. todo' = [todo EXCEPT ![t] = todo[t]] /\ todo \in [Sweepers -> SUBSET Schedules]
      BY <1>0, <1>1, <2>1 DEF Advance, Finish, EndSweep, TypeOK
    <3>1. todo' = todo
      BY <3>0
    <3> QED BY <1>0, <1>1, <2>1, <3>1 DEF Advance, Finish, EndSweep, TypeOK
  <2>2. CASE todo[t] # {}
    BY <1>0, <1>1, <2>2 DEF Advance, TypeOK
  <2> QED BY <2>1, <2>2
<1>3. \A r \in Schedules \ {s} : next'[r] = next[r]
  BY <1>0, <1>1 DEF TypeOK
<1>4. next'[s] = IF s \in rows THEN dueAt[t] + Interval ELSE next[s]
  BY <1>0, <1>1 DEF TypeOK
<1>5. TypeOK'
  <2>1. dueAt[t] + Interval \in 0 .. MaxClock + Interval /\ 0 \in 0 .. MaxClock
    BY <1>0, BoundAssumption
  <2> QED BY <1>0, <1>1, <1>2, <2>1 DEF TypeOK
<1>6. \A u \in Sweepers \ {t} : SweepKept(u)
  BY <1>0, <1>2 DEF SweepKept, TypeOK
<1>7. SweepOK(t)'
  <2>1. at'[t] \in {"idle", "begin", "over"} /\ dueAt'[t] <= clock /\ todo'[t] \subseteq rows \cup deleted
    BY <1>0, <1>2 DEF TypeOK, SweepOK
  <2> QED BY <1>1, <1>2, <2>1 DEF SweepOK
<1>8. \A u \in Sweepers \ {t} : SweepOK(u)'
  BY <1>0, <1>1, <1>6, SweepStays
<1>9. ~InFlight(s)' \/ t # Scheduler
  BY <1>0, <1>2 DEF InFlight, TypeOK
<1>10. ASSUME NEW r \in Schedules, r # s \/ t # Scheduler PROVE InFlight(r)' = InFlight(r)
  <2>1. CASE t # Scheduler
    BY <1>6, <2>1, NameAssumption DEF InFlight, SweepKept
  <2>2. CASE t = Scheduler /\ r # s
    BY <1>0, <1>2, <2>2 DEF InFlight, TypeOK
  <2> QED BY <1>10, <2>1, <2>2
<1>11. ASSUME NEW r \in Schedules \ {s} PROVE ScheduleOK(r)'
  <2>1. ScheduleOK(r) /\ InFlight(r)' = InFlight(r)
    BY <1>10 DEF IInv
  <2>2. r \in todo'[Scheduler] => r \in todo[Scheduler] /\ dueAt'[Scheduler] = dueAt[Scheduler]
    BY <1>0, <1>2, <1>6, NameAssumption DEF SweepKept, SweepOK, TypeOK
  <2>3. InFlight(r)' => dueAt'[Scheduler] = dueAt[Scheduler]
    BY <1>0, <1>2, <1>6, <2>1, NameAssumption DEF InFlight, SweepKept, TypeOK
  <2> QED BY <1>1, <1>3, <2>1, <2>2, <2>3, SameRuns DEF ScheduleOK
<1>12. ScheduleOK(s)'
  <2> SUFFICES ASSUME Undisturbed(s)
               PROVE  /\ SpacedRuns(s)
                      /\ s \notin deleted => \A i \in DOMAIN fired[s] : fired[s][i].due + Interval <= next'[s]
                      /\ ~InFlight(s)' /\ s \notin todo'[Scheduler]
    BY <1>0, <1>1, SameRuns DEF ScheduleOK
  <2>1. PICK k \in DOMAIN fired[s] : fired[s][k] = [by |-> t, due |-> dueAt[t]]
    BY <1>0 DEF SweepOK
  <2>2. t = Scheduler
    BY <2>1 DEF Undisturbed
  <2>3. InFlight(s) /\ s \notin todo[t] /\ s \in rows \cup deleted
    <3>1. s \in rows \cup deleted
      <4>1. fired[s] = <<>> => DOMAIN fired[s] = {}
        OBVIOUS
      <4> QED BY <1>0, <2>1, <4>1 DEF ScheduleOK
    <3> QED BY <1>0, <2>2, <3>1 DEF InFlight, SweepOK
  <2>4. SpacedRuns(s) /\ fired[s][Len(fired[s])].due = dueAt[t]
    BY <1>0, <2>2, <2>3 DEF ScheduleOK
  <2>5. ASSUME NEW i \in DOMAIN fired[s] PROVE fired[s][i].due <= dueAt[t]
    <3>1. /\ DOMAIN fired[s] = 1 .. Len(fired[s]) /\ Len(fired[s]) \in Nat /\ fired[s][i].due \in Nat
      BY <1>0, Times
    <3>2. CASE i = Len(fired[s])
      BY <1>0, <2>4, <3>1, <3>2
    <3>3. CASE i < Len(fired[s])
      <4>1. fired[s][Len(fired[s])].due >= fired[s][i].due + Interval
        BY <2>4, <3>1, <3>3 DEF SpacedRuns
      <4> QED BY <1>0, <2>4, <3>1, <4>1
    <3> QED BY <3>1, <3>2, <3>3
  <2>6. \A i \in DOMAIN fired[s] : fired[s][i].due \in Nat
    BY <1>0, Times
  <2>7. s \notin deleted => next'[s] = dueAt[t] + Interval
    BY <1>4, <2>3
  <2> QED BY <1>0, <1>2, <1>9, <2>2, <2>3, <2>4, <2>5, <2>6, <2>7
<1> QED BY <1>5, <1>7, <1>8, <1>11, <1>12 DEF IInv

\* A crash is a fault: it disturbs every schedule.
LEMMA CrashStep == ASSUME IInv, Crash PROVE IInv'
<1>1. /\ TypeOK /\ faults \in Nat /\ clock \in Nat
      /\ UNCHANGED <<rows, deleted, next, enabled, fired, clock>>
  BY Times DEF IInv, Crash, table
<1>2. faults' \in 0 .. MaxFaults /\ faults' # 0
  BY <1>1, BoundAssumption DEF Crash
<1>3. TypeOK'
  BY <1>1, <1>2, BoundAssumption DEF TypeOK, Crash
<1>4. \A t \in Sweepers : SweepOK(t)'
  BY <1>1 DEF Crash, SweepOK
<1>5. \A s \in Schedules : ScheduleOK(s)'
  BY <1>1, <1>2 DEF IInv, ScheduleOK, Undisturbed
<1> QED BY <1>3, <1>4, <1>5 DEF IInv

\* Every step of a sweep, the table, the clock and the process keeps the invariant.
THEOREM Invariance == Spec => []IInv
<1>1. Init => IInv
  BY Initially
<1>2. IInv /\ [Next]_vars => IInv'
  <2> SUFFICES ASSUME IInv, [Next]_vars PROVE IInv'
    OBVIOUS
  <2>1. ASSUME NEW s \in Schedules, CreateSchedule(s) \/ SetEnabled(s) \/ DeleteProject(s) PROVE IInv'
    BY <2>1, CreateScheduleStep, SetEnabledStep, DeleteProjectStep
  <2>2. ASSUME NEW t \in Sweepers, Sweep(t) PROVE IInv'
    BY <2>2, SelectDueStep, StartRunStep, DispatchStep, MoveOnStep DEF Sweep
  <2>3. CASE Tick \/ Crash
    BY <2>3, TickStep, CrashStep
  <2>4. CASE UNCHANGED vars
    BY <2>4 DEF vars, table, sweeps, IInv, TypeOK, SweepOK, ScheduleOK, Undisturbed, InFlight, SpacedRuns
  <2> QED BY <2>1, <2>2, <2>3, <2>4 DEF Next
<1> QED BY <1>1, <1>2, PTL DEF Spec

\* Every variable of the schedules keeps its type.
THEOREM TypeCorrect == Spec => []TypeOK
<1>1. IInv => TypeOK
  BY DEF IInv
<1> QED BY <1>1, Invariance, PTL

\* Two runs the scheduler thread started for a schedule are an interval apart,
\* unless a manual sweep or a fault disturbed it.
THEOREM Spaced == Spec => []FiringsAreSpaced
<1>1. IInv => FiringsAreSpaced
  BY DEF IInv, ScheduleOK, Undisturbed, SpacedRuns, FiringsAreSpaced
<1> QED BY <1>1, Invariance, PTL

\* A due time is passed over only for a run that was started for it.
THEOREM NothingPassedOver == Spec => PassedOnlyByRun
<1>1. IInv /\ [Next]_vars => [MovedByRun]_vars
  <2> SUFFICES ASSUME IInv, Next, NEW s \in rows, next'[s] # next[s]
               PROVE  \E i \in DOMAIN fired[s] : fired[s][i].due + Interval = next'[s]
    BY DEF MovedByRun
  <2>1. s \in Schedules /\ TypeOK
    BY DEF IInv, TypeOK
  <2>2. PICK t \in Sweepers : MoveOn(t)
    <3>1. ASSUME NEW r \in Schedules, CreateSchedule(r) PROVE FALSE
      BY <2>1, <3>1 DEF CreateSchedule, TypeOK
    <3>2. \A r \in Schedules : ~SetEnabled(r) /\ ~DeleteProject(r)
      BY DEF SetEnabled, DeleteProject
    <3>3. ~Tick /\ ~Crash
      BY DEF Tick, Crash, table
    <3>4. \A t \in Sweepers : ~SelectDue(t) /\ ~StartRun(t) /\ ~Dispatch(t)
      BY DEF SelectDue, StartRun, Dispatch, table
    <3> QED BY <3>1, <3>2, <3>3, <3>4 DEF Next, Sweep
  <2>3. cur[t] = s /\ next'[s] = dueAt[t] + Interval /\ at[t] = "move"
    BY <2>1, <2>2 DEF MoveOn, TypeOK
  <2>4. \E i \in DOMAIN fired[s] : fired[s][i] = [by |-> t, due |-> dueAt[t]]
    BY <2>3 DEF IInv, SweepOK
  <2> QED BY <2>3, <2>4
<1> QED BY <1>1, Invariance, PTL DEF Spec, PassedOnlyByRun
=============================================================================
