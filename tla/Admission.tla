------------------------------ MODULE Admission ------------------------------
(***************************************************************************)
(* Requests that create rows other requests compete for (service.py,       *)
(* main.py): runs, under an Idempotency-Key or without one, on their own   *)
(* or as the child of another run (a replay is a child without a key), and *)
(* versions of a workflow.                                                 *)
(*                                                                         *)
(* A step is one transaction or one call of the run queue.  Of two SELECTs *)
(* in a row that only a deletion can separate, one is modelled.  A run has *)
(* the name of the request that inserted it, and a project one workflow    *)
(* name of which versions are created.                                     *)
(*                                                                         *)
(* A definition whose comment starts with "Mutant" is the definition below *)
(* it with a plausible bug; it is not part of the specification.           *)
(***************************************************************************)
EXTENDS Integers, FiniteSets

CONSTANTS
    Projects,
    Workflows,
    Project,    \* the project of a workflow
    Keys,       \* the idempotency keys clients choose
    NoKey,      \* no Idempotency-Key header
    Requests,
    Seed,       \* a run that is there from the start
    SeedOf,     \* and its workflow
    NoRun,      \* no parent_run_id
    MaxFaults   \* bound: failing submits and deaths of the process

ASSUME NameAssumption ==
    /\ Project \in [Workflows -> Projects] /\ SeedOf \in Workflows
    /\ NoKey \notin Keys /\ Seed \notin Requests /\ NoRun \notin Requests \cup {Seed}
ASSUME BoundAssumption == IsFiniteSet(Requests) /\ MaxFaults \in Nat

VARIABLES
    deleted,  \* projects that were deleted, with their workflows and runs
    made,     \* requests that inserted a run
    taken,    \* the versions of a project's workflow that were inserted
    pc,       \* where a request is
    want,     \* what it asks for
    answer,   \* the run it was answered with; NoRun: an error or none
    seen,     \* the version a request is to insert; 0: none
    faults

tables   == <<deleted, made, taken>>
requests == <<pc, want, answer, seen>>
vars     == <<tables, requests, faults>>

RunWants     == [op : {"run"}, workflow : Workflows, key : Keys \cup {NoKey},
                 parent : {NoRun, Seed}]
VersionWants == [op : {"version"}, project : Projects]

TypeOK ==
    /\ deleted \subseteq Projects
    /\ want \in [Requests -> RunWants \cup VersionWants]
    /\ made \subseteq {c \in Requests : want[c].op = "run"}
    /\ taken \in [Projects -> SUBSET Nat]
    /\ pc \in [Requests -> {"idle", "peek", "open", "insert", "fallback", "submit",
                            "number", "done"}]
    /\ answer \in [Requests -> made \cup {NoRun}]
    /\ seen \in [Requests -> Nat]
    /\ faults \in 0 .. MaxFaults

Init ==
    /\ deleted = {} /\ made = {}
    /\ taken = [p \in Projects |-> {}]
    /\ want \in [Requests -> RunWants \cup VersionWants]
    /\ pc = [c \in Requests |-> "idle"]
    /\ answer = [c \in Requests |-> NoRun]
    /\ seen = [c \in Requests |-> 0]
    /\ faults = 0

Goto(c, label) == pc' = [pc EXCEPT ![c] = label]

Home(c) == IF want[c].op = "run" THEN Project[want[c].workflow] ELSE want[c].project

\* The workflow and the project of a request are there.
Live(c) == Home(c) \notin deleted

\* The request ends: with a run, or with an error.
AnswerWith(c, run) == answer' = [answer EXCEPT ![c] = run] /\ Goto(c, "done")

Fail(c) == Goto(c, "done") /\ UNCHANGED answer

(***************************************************************************)
(* POST /api/workflows/{id}/runs                                           *)
(***************************************************************************)
SameKey(c, d) ==
    /\ want[c].op = "run" /\ want[d].op = "run"
    /\ want[c].workflow = want[d].workflow
    /\ want[c].key = want[d].key /\ want[c].key # NoKey

\* find_run_by_idempotency_key, scoped to the workflow of the request.
Found(c) == {d \in made : Live(c) /\ SameKey(c, d)}

\* The request passes require_workflow_access.
Arrive(c) ==
    /\ pc[c] = "idle" /\ want[c].op = "run"
    /\ \/ ~Live(c) /\ Goto(c, "done")
       \/ Live(c) /\ Goto(c, IF want[c].key = NoKey THEN "open" ELSE "peek")
    /\ UNCHANGED <<tables, want, answer, seen, faults>>

\* The look-up of the handler: a run of the key is the answer.
Peek(c) ==
    /\ pc[c] = "peek"
    /\ \/ \E d \in Found(c) : AnswerWith(c, d)
       \/ Found(c) = {} /\ Goto(c, "open") /\ UNCHANGED answer
    /\ UNCHANGED <<tables, want, seen, faults>>

\* The parent of the run, where it has one, belongs to its project.
Kin(c) == Live(c) /\ (want[c].parent = Seed => Project[SeedOf] = Home(c))

\* start_run: get_workflow, the look-up of the key, the check of the parent.
Open(c) ==
    /\ pc[c] = "open"
    /\ \/ \E d \in Found(c) : AnswerWith(c, d)
       \/ Found(c) = {} /\ Kin(c) /\ Goto(c, "insert") /\ UNCHANGED answer
       \/ Found(c) = {} /\ ~Kin(c) /\ Fail(c)
    /\ UNCHANGED <<tables, want, seen, faults>>

\* Mutant: the unique index is missing.
UniqueNever(c) == Live(c)

\* The foreign key and UNIQUE(workflow_id, idempotency_key) of runs.
Unique(c) == Live(c) /\ Found(c) = {}

\* Mutant: the loser of the race does not look for the winner's run.
InsertOrFail(c) ==
    /\ pc[c] = "insert"
    /\ \/ Unique(c) /\ made' = made \cup {c} /\ Goto(c, "submit") /\ UNCHANGED answer
       \/ ~Unique(c) /\ Fail(c) /\ UNCHANGED made
    /\ UNCHANGED <<deleted, taken, want, seen, faults>>

\* start_run: the INSERT, or its IntegrityError.
Insert(c) ==
    /\ pc[c] = "insert"
    /\ \/ Unique(c) /\ made' = made \cup {c} /\ Goto(c, "submit")
       \/ ~Unique(c) /\ Goto(c, "fallback") /\ UNCHANGED made
    /\ UNCHANGED <<deleted, taken, want, answer, seen, faults>>

\* start_run: the run the winner created, or the error.
Fallback(c) ==
    /\ pc[c] = "fallback"
    /\ \/ \E d \in Found(c) : AnswerWith(c, d)
       \/ Found(c) = {} /\ Fail(c)
    /\ UNCHANGED <<tables, want, seen, faults>>

\* start_run: run_queue.submit or _execute, and get_run.  The row is there
\* already when the queue cannot be reached.
Return(c) ==
    /\ pc[c] = "submit"
    /\ \/ Live(c) /\ AnswerWith(c, c) /\ UNCHANGED faults
       \/ ~Live(c) /\ Fail(c) /\ UNCHANGED faults
       \/ faults < MaxFaults /\ faults' = faults + 1 /\ Fail(c)
    /\ UNCHANGED <<tables, want, seen>>

(***************************************************************************)
(* POST /api/workflows                                                     *)
(***************************************************************************)
\* COALESCE(MAX(version), 0)
Latest(p) == CHOOSE n \in taken[p] \cup {0} : \A m \in taken[p] : m <= n

\* create_workflow: get_project, then MAX(version) + 1.
Number(c) ==
    /\ pc[c] = "idle" /\ want[c].op = "version"
    /\ \/ Live(c) /\ seen' = [seen EXCEPT ![c] = Latest(Home(c)) + 1] /\ Goto(c, "number")
       \/ ~Live(c) /\ Goto(c, "done") /\ UNCHANGED seen
    /\ UNCHANGED <<tables, want, answer, faults>>

\* Mutant: an IntegrityError is passed over.
InsertVersionAnyway(c) ==
    LET p == Home(c) IN
    /\ pc[c] = "number"
    /\ taken' = [taken EXCEPT ![p] = @ \cup {seen[c]}]
    /\ seen' = [seen EXCEPT ![c] = IF Live(c) THEN @ ELSE 0]
    /\ Goto(c, "done")
    /\ UNCHANGED <<deleted, made, want, answer, faults>>

\* create_workflow: the INSERT under UNIQUE(project_id, name, version); the loser
\* of a race for a version has an error.
InsertVersion(c) ==
    LET p == Home(c) IN
    /\ pc[c] = "number"
    /\ \/ /\ Live(c) /\ seen[c] \notin taken[p]
          /\ taken' = [taken EXCEPT ![p] = @ \cup {seen[c]}]
          /\ UNCHANGED seen
       \/ /\ ~Live(c) \/ seen[c] \in taken[p]
          /\ seen' = [seen EXCEPT ![c] = 0]
          /\ UNCHANGED taken
    /\ Goto(c, "done")
    /\ UNCHANGED <<deleted, made, want, answer, faults>>

(***************************************************************************)
(* The rest of the world                                                   *)
(***************************************************************************)
\* delete_project: workflows and runs go.
DeleteProject(p) ==
    /\ p \notin deleted
    /\ deleted' = deleted \cup {p}
    /\ UNCHANGED <<made, taken, requests, faults>>

\* The process dies: the requests it served have no answer.
Crash ==
    /\ faults < MaxFaults
    /\ faults' = faults + 1
    /\ pc' = [c \in Requests |-> IF pc[c] = "idle" THEN "idle" ELSE "done"]
    /\ seen' = [c \in Requests |-> IF pc[c] = "number" THEN 0 ELSE seen[c]]
    /\ UNCHANGED <<tables, want, answer>>

(***************************************************************************)
(* Specification                                                           *)
(***************************************************************************)
Serve(c) ==
    \/ Arrive(c) \/ Peek(c) \/ Open(c) \/ Insert(c) \/ Fallback(c) \/ Return(c)
    \/ Number(c) \/ InsertVersion(c)

Next == (\E c \in Requests : Serve(c)) \/ (\E p \in Projects : DeleteProject(p)) \/ Crash

Spec == Init /\ [][Next]_vars

(***************************************************************************)
(* Properties                                                              *)
(***************************************************************************)
\* start_run: a key starts one run of a workflow, and every request of the key that
\* is answered with a run is answered with that one, however requests race, crash
\* between the INSERT and the answer, or are repeated; one without a key is
\* answered with its own.
OneRunPerKey ==
    /\ \A c, d \in made : SameKey(c, d) => c = d
    /\ \A c \in Requests : answer[c] # NoRun => answer[c] = c \/ SameKey(c, answer[c])

\* start_run: "A concurrent request raced the same idempotency key; return the run
\* the winner created": no request for a run fails because of another one.
RacesDoNotFail ==
    \A c \in Requests :
      want[c].op = "run" /\ pc[c] = "done" /\ answer[c] = NoRun /\ faults = 0
        => ~Kin(c)

\* start_run: "parent and child runs must belong to the same project", whatever
\* happens between the check and the INSERT.
ChildStaysInProject ==
    \A c \in made : want[c].parent = Seed => Project[SeedOf] = Home(c)

\* create_workflow: requests that race for a version are given different ones, and
\* the versions of a workflow have no gap.
VersionsAreOwn ==
    /\ \A c, d \in Requests :
         (pc[c] = "done" /\ pc[d] = "done" /\ Home(c) = Home(d) /\ seen[c] = seen[d])
           => c = d \/ seen[c] = 0
    /\ \A p \in Projects : taken[p] = 1 .. Cardinality(taken[p])

(***************************************************************************)
(* The inductive invariant                                                 *)
(***************************************************************************)
ParentFits(c) == want[c].parent = Seed => Project[SeedOf] = Home(c)

\* What is known of a request for a run: it got to the INSERT with a parent that
\* fits, and to the fallback because its project is gone or its key taken.
RunOK(c) ==
    want[c].op = "run" =>
      /\ pc[c] # "number" /\ seen[c] = 0
      /\ pc[c] = "insert" \/ c \in made => ParentFits(c)
      /\ pc[c] = "fallback" => ~Live(c) \/ \E d \in made : SameKey(c, d)
      /\ pc[c] = "submit" => c \in made
      /\ pc[c] = "done" /\ answer[c] = NoRun /\ faults = 0 => ~Kin(c)

\* What is known of a request for a version: its number was the next one when it
\* was read, and is its own once it is inserted.
VersionOK(c) ==
    want[c].op = "version" =>
      /\ pc[c] \in {"idle", "number", "done"} /\ answer[c] = NoRun
      /\ pc[c] = "idle" => seen[c] = 0
      /\ pc[c] = "number" => seen[c] = 1 \/ seen[c] - 1 \in taken[Home(c)]
      /\ pc[c] = "number" => seen[c] # 0
      /\ pc[c] = "done" => seen[c] = 0 \/ seen[c] \in taken[Home(c)]

NoGap == \A p \in Projects : \E n \in Nat : taken[p] = 1 .. n

OwnVersions ==
    \A c, d \in Requests :
      (pc[c] = "done" /\ pc[d] = "done" /\ Home(c) = Home(d) /\ seen[c] = seen[d])
        => c = d \/ seen[c] = 0

IInv ==
    /\ TypeOK /\ OneRunPerKey
    /\ \A c \in Requests : RunOK(c) /\ VersionOK(c)
    /\ NoGap /\ OwnVersions
=============================================================================
