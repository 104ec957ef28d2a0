------------------------------ MODULE AgentTools ------------------------------
(***************************************************************************)
(* How a step's tool is invoked (service.py, providers.py): the attempts   *)
(* of a step, calls on the run's own thread or, under timeout_seconds, on  *)
(* a thread of tool_executor, streamed provider requests with retries of   *)
(* their own, the memory of a project, and handoffs to a child run.        *)
(*                                                                         *)
(* RunEngine takes a run through its steps, and treats a tool as an output *)
(* or an error; here a run is at one step of its workflow, and a workflow  *)
(* is that step.  Runs are numbered as their rows are.  An attempt is a    *)
(* run and a number; it names what the attempt produced.  All runs belong  *)
(* to one project.                                                         *)
(*                                                                         *)
(* A definition whose comment starts with "Mutant" is the definition below *)
(* it with a plausible bug; it is not part of the specification.           *)
(***************************************************************************)
EXTENDS Integers, Sequences, FiniteSets, SequencesExt

CONSTANTS
    Workflows,
    Programs,     \* the workflows a project may have
    Threads,      \* max_workers of tool_executor
    Retries,      \* retries of a step
    HttpRetries,  \* AGENTOPS_PROVIDER_RETRIES
    Pieces,       \* pieces of text in a streamed answer
    MaxRuns,      \* bound: rows in runs
    MaxRows,      \* the same by program; the INSERT behind the last one fails
    MaxStarts,    \* bound: runs that no handoff starts, by program
    MaxCrashes    \* bound: deaths of the process

Runs     == 1 .. MaxRuns
NoRun    == 0
Attempts == Runs \X (1 .. (Retries + 1) * (MaxCrashes + 1))
Nothing  == <<NoRun, 0>>

\* A step's tool and configuration.
Steps ==
    [tool : {"llm", "tool"}, timed : BOOLEAN] \cup [tool : {"handoff"}, target : Workflows]
    \cup [tool : {"memory_read", "memory_write", "approval"}]

ASSUME BoundAssumption ==
    /\ Threads \in Nat \ {0} /\ Pieces \in Nat \ {0} /\ MaxRuns \in Nat \ {0}
    /\ Workflows # {} /\ Programs \subseteq [Workflows -> Steps]
    /\ Retries \in Nat /\ HttpRetries \in Nat /\ MaxCrashes \in Nat
    /\ MaxRows \in [Programs -> 0 .. MaxRuns] /\ MaxStarts \in [Programs -> Nat]

VARIABLES
    step,      \* the step of a workflow; a workflow is immutable
    workflow,  \* runs.workflow_id
    parent,    \* runs.parent_run_id
    origin,    \* the handoff that started a run
    pc,        \* where the thread of a run is, or the status it left the run in
    tries,     \* attempts since the run was taken up
    traced,    \* the runs whose step has a row in spans
    value,     \* spans.output and runs.output: the attempt it is from
    call,      \* what became of an attempt
    out,       \* pieces an attempt's call has published as llm.chunk events
    at,        \* where its call is in the present response
    http,      \* provider requests its call has repeated
    line,      \* work queue of tool_executor
    memory,    \* the attempt that wrote the project's memory last
    crashes

rows  == <<step, workflow, parent, origin>>
flow  == <<pc, tries, traced, value>>
calls == <<call, out, at, http, line>>
vars  == <<rows, flow, calls, memory, crashes>>

\* The step is under way: attempts are made, or there is a span and current_step is
\* where it was.
Attempting == {"start", "call", "child", "written"}
Spanned    == {"spanned", "failing", "pausing"}

\* A thread has the run; "advanced" is behind the step.  A "stuck" run has no thread
\* left, and its row says "running".
Active == Attempting \cup Spanned \cup {"advanced"}
AtRest == {"waiting", "completed", "failed"}
Redone == Attempting \cup Spanned \cup {"stuck"}

TypeOK ==
    /\ step \in Programs /\ workflow \in [Runs -> Workflows]
    /\ parent \in [Runs -> {NoRun} \cup Runs] /\ origin \in [Runs -> Attempts \cup {Nothing}]
    /\ pc \in [Runs -> {"absent", "stuck"} \cup Active \cup AtRest]
    /\ tries \in [Runs -> 0 .. Retries + 1] /\ traced \in SUBSET Runs
    /\ value \in [Runs -> Attempts \cup {Nothing}]
    /\ call \in [Attempts -> {"none", "queued", "running", "handoff", "waiting", "ok", "error"}]
    /\ out \in [Attempts -> Seq(1 .. Pieces)] /\ at \in [Attempts -> 0 .. Pieces]
    /\ http \in [Attempts -> 0 .. HttpRetries] /\ line \in Seq(Attempts)
    /\ memory \in Attempts \cup {Nothing} /\ crashes \in 0 .. MaxCrashes

Init ==
    /\ step \in Programs
    /\ workflow = [r \in Runs |-> CHOOSE w \in Workflows : TRUE]
    /\ parent = [r \in Runs |-> NoRun] /\ origin = [r \in Runs |-> Nothing]
    /\ pc = [r \in Runs |-> "absent"] /\ tries = [r \in Runs |-> 0]
    /\ traced = {} /\ value = [r \in Runs |-> Nothing] /\ call = [a \in Attempts |-> "none"]
    /\ out = [a \in Attempts |-> <<>>] /\ at = [a \in Attempts |-> 0]
    /\ http = [a \in Attempts |-> 0]
    /\ line = <<>> /\ memory = Nothing /\ crashes = 0

Rows      == {r \in Runs : pc[r] # "absent"}
Step(r)   == step[workflow[r]]
Begun(r)  == Cardinality({a \in Attempts : a[1] = r /\ call[a] # "none"})
Latest(r) == <<r, Begun(r)>>
Coming(r) == <<r, Begun(r) + 1>>
Timed(a)  == Step(a[1]).timed

\* Whose call takes a thread of tool_executor.
OnThread == {a \in Attempts : call[a] = "running" /\ Timed(a)}

(***************************************************************************)
(* Rows, and the attempts of a step                                        *)
(***************************************************************************)
\* start_run: the INSERT gives the next id.
InsertRun(w, p, a) ==
    LET r == Cardinality(Rows) + 1 IN
    /\ workflow' = [workflow EXCEPT ![r] = w]
    /\ parent' = [parent EXCEPT ![r] = p]
    /\ origin' = [origin EXCEPT ![r] = a]
    /\ UNCHANGED step

\* A client or the scheduler starts a run.  A client may name any run of the project
\* as its parent; the copy a replay makes is a child of the run that is replayed.
StartRun ==
    /\ Cardinality(Rows) < MaxRows[step]
    /\ Cardinality({r \in Rows : origin[r] = Nothing}) < MaxStarts[step]
    /\ \E w \in Workflows, p \in {NoRun} \cup Rows : InsertRun(w, p, Nothing)
    /\ pc' = [pc EXCEPT ![Cardinality(Rows) + 1] = "start"]
    /\ UNCHANGED <<tries, traced, value, calls, memory, crashes>>

\* _record_span: the row is there once and for all.  The INSERT of a second one raises
\* out of _execute, and the run stays as it is.
Record(r, place, v) ==
    /\ traced' = traced \cup {r}
    /\ pc' = [pc EXCEPT ![r] = IF r \in traced THEN "stuck" ELSE place]
    /\ value' = IF r \in traced THEN value ELSE [value EXCEPT ![r] = v]

\* Mutant: one attempt too many.
RetryOnceMore(r, n) ==
    \/ n <= Retries + 1 /\ pc' = [pc EXCEPT ![r] = "start"] /\ UNCHANGED <<traced, value>>
    \/ n > Retries + 1 /\ Record(r, "failing", Nothing)

\* _execute: the loop over attempts goes on, or the step has failed.
Retry(r, n) ==
    \/ n <= Retries /\ pc' = [pc EXCEPT ![r] = "start"] /\ UNCHANGED <<traced, value>>
    \/ n > Retries /\ Record(r, "failing", Nothing)

\* The UPDATEs of the run's row behind its span, and behind current_step.
Follow(r, from, to) == pc[r] = from /\ pc' = [pc EXCEPT ![r] = to]

Advance(r) ==
    /\ Follow(r, "spanned", "advanced") \/ Follow(r, "advanced", "completed")
       \/ Follow(r, "failing", "failed") \/ Follow(r, "pausing", "waiting")
    /\ UNCHANGED <<rows, tries, traced, value, calls, memory, crashes>>

\* The next attempt of a run begins.
Attempt(r, tool) ==
    /\ pc[r] = "start" /\ Step(r).tool = tool
    /\ tries' = [tries EXCEPT ![r] = @ + 1]
    /\ UNCHANGED <<out, at, http, crashes>>

\* _invoke_llm, _invoke_tool: on a thread of the pool if the step has a timeout.
Invoke(r) ==
    /\ Attempt(r, "llm") \/ Attempt(r, "tool")
    /\ call' = [call EXCEPT ![Coming(r)] = IF Step(r).timed THEN "queued" ELSE "running"]
    /\ line' = IF Step(r).timed THEN Append(line, Coming(r)) ELSE line
    /\ pc' = [pc EXCEPT ![r] = "call"]
    /\ UNCHANGED <<rows, traced, value, memory>>

\* _pause_for_approval: its span is written inside of the attempt.
Pause(r) ==
    /\ Attempt(r, "approval")
    /\ \/ /\ r \notin traced /\ Record(r, "pausing", Coming(r))
          /\ call' = [call EXCEPT ![Coming(r)] = "waiting"]
       \/ /\ r \in traced /\ Retry(r, tries'[r])
          /\ call' = [call EXCEPT ![Coming(r)] = "error"]
    /\ UNCHANGED <<rows, line, memory>>

\* put_memory: the last write wins.
WriteMemory(r) ==
    /\ Attempt(r, "memory_write")
    /\ memory' = Coming(r)
    /\ call' = [call EXCEPT ![Coming(r)] = "ok"]
    /\ pc' = [pc EXCEPT ![r] = "written"]
    /\ UNCHANGED <<rows, traced, value, line>>

\* get_memory: the value, or NotFoundError.
ReadMemory(r) ==
    /\ Attempt(r, "memory_read")
    /\ \/ /\ memory # Nothing /\ Record(r, "spanned", memory)
          /\ call' = [call EXCEPT ![Coming(r)] = "ok"]
       \/ /\ memory = Nothing /\ Retry(r, tries'[r])
          /\ call' = [call EXCEPT ![Coming(r)] = "error"]
    /\ UNCHANGED <<rows, line, memory>>

(***************************************************************************)
(* Handoffs                                                                *)
(***************************************************************************)
\* Mutant: the way up ends at a run that no handoff started.
AncestryOfHandoffs(r) ==
    LET Closed(S) == \A x \in S : origin[x] # Nothing => parent[x] \in S IN
    {workflow[x] : x \in {y \in Rows : \A S \in SUBSET Rows : r \in S /\ Closed(S) => y \in S}}

\* _workflow_ancestry: the workflows of a run and of those its parents lead to.
Ancestry(r) ==
    LET Closed(S) == \A x \in S : parent[x] \in S \cup {NoRun} IN
    {workflow[x] : x \in {y \in Rows : \A S \in SUBSET Rows : r \in S /\ Closed(S) => y \in S}}

\* _apply_agent_tool: a loop is an error; otherwise the child's row is inserted and
\* the thread goes on with the child.
Handoff(r) ==
    /\ Attempt(r, "handoff")
    /\ LET n == Cardinality(Rows) + 1 IN
       \/ /\ Step(r).target \in Ancestry(r) \/ n > MaxRows[step]
          /\ call' = [call EXCEPT ![Coming(r)] = "error"]
          /\ Retry(r, tries'[r]) /\ UNCHANGED rows
       \/ /\ Step(r).target \notin Ancestry(r) /\ n <= MaxRows[step]
          /\ call' = [call EXCEPT ![Coming(r)] = "handoff"]
          /\ InsertRun(Step(r).target, r, Coming(r))
          /\ pc' = [pc EXCEPT ![r] = "child", ![n] = "start"]
          /\ UNCHANGED <<traced, value>>
    /\ UNCHANGED <<line, memory>>

\* Mutant: a child that waits for a decision will do.
DeliversUnfailed(c) == pc[c] # "failed"

\* child["status"] == "completed"
Delivers(c) == pc[c] = "completed"

\* The thread has left the child: it is at rest, or a decision has sent it on elsewhere.
Left(c) == pc[c] \in AtRest \/ (pc[c] = "advanced" /\ Step(c).tool = "approval")

\* start_run of the child returns: its output is the step's, or the attempt fails.
ChildReturns(r) ==
    /\ pc[r] = "child"
    /\ \E c \in Rows :
         /\ origin[c] = Latest(r) /\ Left(c)
         /\ \/ /\ Delivers(c) /\ Record(r, "spanned", value[c])
               /\ call' = [call EXCEPT ![Latest(r)] = "ok"]
            \/ /\ ~Delivers(c) /\ Retry(r, tries[r])
               /\ call' = [call EXCEPT ![Latest(r)] = "error"]
    /\ UNCHANGED <<rows, tries, out, at, http, line, memory, crashes>>

\* decide_approval, on whatever thread; a rejected run counts as failed.
Decide(r) ==
    /\ Follow(r, "waiting", "advanced") \/ Follow(r, "waiting", "failed")
    /\ UNCHANGED <<rows, tries, traced, value, calls, memory, crashes>>

(***************************************************************************)
(* Calls                                                                   *)
(***************************************************************************)
\* A thread waits for the call.
Awaited(a) == pc[a[1]] = "call" /\ Latest(a[1]) = a

\* The call ends, and the thread forgets where it was.  A result nobody waits for is
\* lost; what a failed attempt has published stays, and nothing looks at it.
EndCall(a, outcome) ==
    LET good == outcome = "ok" /\ Awaited(a) IN
    /\ call' = [call EXCEPT ![a] = IF good THEN "ok" ELSE "error"]
    /\ out' = [out EXCEPT ![a] = IF good THEN @ ELSE <<>>]
    /\ at' = [at EXCEPT ![a] = 0] /\ http' = [http EXCEPT ![a] = 0]
    /\ UNCHANGED <<rows, flow, line, memory, crashes>>

\* An idle thread of tool_executor takes the head of its queue.
Take ==
    /\ line # <<>> /\ Cardinality(OnThread) < Threads
    /\ call' = [call EXCEPT ![Head(line)] = "running"]
    /\ line' = Tail(line)
    /\ UNCHANGED <<rows, flow, out, at, http, memory, crashes>>

\* _stream_request: the next event of the response is decoded and published.
Publish(a) ==
    /\ Step(a[1]).tool = "llm" /\ at[a] < Pieces
    /\ at' = [at EXCEPT ![a] = @ + 1]
    /\ out' = [out EXCEPT ![a] = Append(@, at[a] + 1)]
    /\ UNCHANGED <<rows, flow, call, http, line, memory, crashes>>

\* Mutant: what was published does not keep the request from being repeated.
MayRepeatAlways(a) == http[a] < HttpRetries

\* "Chunks were already published to consumers; retrying would duplicate the output".
MayRepeat(a) == out[a] = <<>> /\ http[a] < HttpRetries

\* _stream_request: a URLError or TimeoutError repeats the request, from its start.
Repeat(a) ==
    /\ Step(a[1]).tool = "llm" /\ MayRepeat(a)
    /\ http' = [http EXCEPT ![a] = @ + 1]
    /\ at' = [at EXCEPT ![a] = 0]
    /\ UNCHANGED <<rows, flow, call, out, line, memory, crashes>>

\* One step of a running call: the body of a response may end at any piece, and an
\* unknown provider, a missing key, a malformed event, a transport error behind the
\* last retry or, of other tools, an exception is an error.
Work(a) ==
    /\ call[a] = "running"
    /\ Publish(a) \/ Repeat(a) \/ EndCall(a, "ok") \/ EndCall(a, "error")

\* _execute: future.result, or the call itself, returns or raises.
Return(r) ==
    /\ pc[r] \in {"call", "written"}
    /\ \/ call[Latest(r)] = "ok" /\ Record(r, "spanned", Latest(r))
       \/ call[Latest(r)] = "error" /\ Retry(r, tries[r])
    /\ UNCHANGED <<rows, tries, calls, memory, crashes>>

\* Mutant: the time of a call is counted from where it runs.
OverdueOnThread(r) == Step(r).timed /\ call[Latest(r)] = "running"

\* The time of a call is counted from where it is submitted.
Overdue(r) == Step(r).timed /\ call[Latest(r)] \in {"queued", "running"}

\* Mutant: the future is not cancelled.
Unqueue(a) == UNCHANGED <<call, line>>

\* future.cancel: of a call no thread has taken yet.
Cancel(a) ==
    \/ call[a] # "queued" /\ UNCHANGED <<call, line>>
    \/ \E i \in DOMAIN line :
         /\ line[i] = a /\ line' = RemoveAt(line, i)
         /\ call' = [call EXCEPT ![a] = "error"]

\* FutureTimeoutError: the attempt fails; a call that runs goes on without a reader.
TimeOut(r) ==
    /\ pc[r] = "call" /\ Overdue(r)
    /\ Cancel(Latest(r)) /\ Retry(r, tries[r])
    /\ UNCHANGED <<rows, tries, out, at, http, memory, crashes>>

(***************************************************************************)
(* Specification                                                           *)
(***************************************************************************)
\* The process dies and is restarted; each run that was not at rest is taken up again,
\* a parent beside the child it was waiting for, and a stuck run too.  Its step begins
\* anew unless current_step has moved.
Crash ==
    /\ crashes < MaxCrashes
    /\ crashes' = crashes + 1
    /\ call' = [a \in Attempts |-> IF call[a] \in {"queued", "running", "handoff"} THEN "error"
                                   ELSE call[a]]
    /\ out' = [a \in Attempts |-> IF call[a] = "ok" THEN out[a] ELSE <<>>]
    /\ at' = [a \in Attempts |-> 0] /\ http' = at' /\ line' = <<>>
    /\ pc' = [r \in Runs |-> IF pc[r] \in Redone THEN "start" ELSE pc[r]]
    /\ tries' = [r \in Runs |-> IF pc[r] \in Redone THEN 0 ELSE tries[r]]
    /\ UNCHANGED <<rows, traced, value, memory>>

\* The thread of a run; a call without a timeout is a part of it.
Go(r) ==
    \/ Invoke(r) \/ Pause(r) \/ WriteMemory(r) \/ ReadMemory(r) \/ Handoff(r)
    \/ ChildReturns(r) \/ Return(r) \/ TimeOut(r) \/ Advance(r)
    \/ pc[r] = "call" /\ ~Step(r).timed /\ Work(Latest(r))

Next ==
    \/ StartRun \/ Take \/ Crash
    \/ \E r \in Runs : Go(r) \/ Decide(r)
    \/ \E a \in OnThread : Work(a)

Spec == Init /\ [][Next]_vars

\* A run's thread goes on; a thread of tool_executor may hang for ever.
FairSpec == Spec /\ \A r \in Runs : WF_vars(Go(r))

(***************************************************************************)
(* Properties                                                              *)
(***************************************************************************)
Answers(r) ==
    /\ value[r] = Latest(r) /\ call[Latest(r)] = "ok"
    /\ out[Latest(r)] = [i \in 1 .. Len(out[Latest(r)]) |-> i]

\* _execute, _stream_request: what a completed model step hands on is the answer of
\* its own last attempt, never of one that timed out before, and that attempt's
\* llm.chunk events are the answer piece by piece, none twice or out of order.
OutputIsPublished ==
    \A r \in Rows : pc[r] = "completed" /\ Step(r).tool = "llm" => Answers(r)

\* _apply_agent_tool: "agent handoff loop detected": a run that a handoff started has
\* another workflow than every run on the way down to it, whatever handoffs, replays
\* and parents named by clients that way is made of.
HandoffsDoNotLoop ==
    \A n \in 2 .. Cardinality(Rows) : \A way \in [1 .. n -> Rows] :
      (\A i \in 2 .. n : parent[way[i]] = way[i - 1]) /\ origin[way[n]] # Nothing =>
        \A i \in 1 .. n - 1 : workflow[way[i]] # workflow[way[n]]

Follows(r) ==
    \E c \in Rows : origin[c] = Latest(r) /\ pc[c] = "completed" /\ value[r] = value[c]

\* _apply_agent_tool: a completed handoff hands on what a completed child of its own
\* last attempt produced, whichever of its children paused, failed, or outlived a crash.
ParentFollowsChild ==
    \A r \in Rows : pc[r] = "completed" /\ Step(r).tool = "handoff" => Follows(r)

\* _invoke_tool, _invoke_llm: a step that gave up on a call while it was queued has
\* taken it out of the queue: no thread of the pool is spent on it later.
AbandonedNeverStarts ==
    [][\A a \in Attempts :
         call[a] = "queued" /\ call'[a] = "running" => Awaited(a)]_vars

\* timeout_seconds: every run comes to rest, even where each thread of the pool hangs
\* in an abandoned call and the queue behind it never moves; a run is left "running"
\* for ever only if the process died between its span and its row.
EveryRunRests ==
    \A r \in Runs :
      pc[r] \in Active ~> pc[r] \in AtRest \/ (pc[r] = "stuck" /\ crashes > 0)

(***************************************************************************)
(* The inductive invariant behind the safety properties                    *)
(***************************************************************************)
\* Attempts are numbered from one on, and a run has at most Retries + 1 between crashes.
AttemptsAreCounted ==
    \A r \in Runs :
      /\ \A a \in Attempts : a[1] = r => (call[a] # "none" <=> a[2] <= Begun(r))
      /\ Begun(r) <= (Retries + 1) * crashes + tries[r]
      /\ pc[r] = "start" => tries[r] <= Retries
      /\ pc[r] = "absent" => Begun(r) = 0 /\ tries[r] = 0

\* Rows have the first numbers, their parents smaller ones; a handoff starts a run of its
\* parent's that has another workflow than all of the parent's ancestry.
RowsAreFirst ==
    /\ \E n \in 0 .. MaxRuns : Rows = 1 .. n
    /\ \A r \in Rows : parent[r] < r
    /\ \A r \in Rows : origin[r] # Nothing =>
         origin[r][1] = parent[r] /\ parent[r] \in Rows /\ workflow[r] \notin Ancestry(parent[r])

\* Where the thread of a run is fits its step.
PlaceFitsStep ==
    \A r \in Rows :
      /\ pc[r] = "call" => Begun(r) > 0 /\ Step(r).tool \in {"llm", "tool"}
      /\ pc[r] = "written" => Begun(r) > 0 /\ Step(r).tool = "memory_write"
      /\ pc[r] = "child" => Begun(r) > 0 /\ Step(r).tool = "handoff" /\ call[Latest(r)] = "handoff"
      /\ pc[r] \in {"pausing", "waiting"} => Step(r).tool = "approval"

\* Behind its span, a run has what it will hand on.
OutputIsRecorded ==
    \A r \in Rows : pc[r] \in {"spanned", "advanced"} =>
      /\ Step(r).tool = "llm" => Answers(r)
      /\ Step(r).tool = "handoff" => Follows(r)

\* A run is at its step again behind its own span, and stuck there, after a crash only.
SpanIsWrittenOnce ==
    \A r \in Runs :
      /\ pc[r] = "absent" => r \notin traced
      /\ pc[r] = "stuck" \/ (r \in traced /\ pc[r] \in Attempting) => crashes > 0

\* What waits for a thread is awaited, and waits once.
QueueIsAwaited ==
    /\ \A i \in 1 .. Len(line) : call[line[i]] = "queued"
    /\ \A i, j \in 1 .. Len(line) : line[i] = line[j] => i = j
    /\ \A a \in Attempts : call[a] = "queued" => Awaited(a)

\* What a call has published is the beginning of its answer, and only a call that runs
\* or has answered has published anything.
PiecesInOrder ==
    \A a \in Attempts :
      /\ out[a] = [i \in 1 .. Len(out[a]) |-> i]
      /\ call[a] \notin {"running", "ok"} => out[a] = <<>>
      /\ at[a] = IF call[a] = "running" THEN Len(out[a]) ELSE 0

IInv ==
    /\ TypeOK /\ AttemptsAreCounted /\ RowsAreFirst /\ PlaceFitsStep /\ QueueIsAwaited
    /\ PiecesInOrder /\ OutputIsPublished /\ ParentFollowsChild /\ OutputIsRecorded
    /\ SpanIsWrittenOnce
=============================================================================
