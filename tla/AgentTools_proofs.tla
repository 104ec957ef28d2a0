---------------------------- MODULE AgentTools_proofs ----------------------------
(***************************************************************************)
(* Proofs about AgentTools, for every set of workflows and programs, any   *)
(* number of runs, threads, retries, pieces and crashes.  An action is the *)
(* work of one run, or of one of its calls: what the other rows have stays *)
(* (Beside), so a lemma of each part of IInv says what is left to show of  *)
(* that run.                                                               *)
(***************************************************************************)
EXTENDS AgentTools, NaturalsInduction, WellFoundedInduction, FiniteSetTheorems, SequenceTheorems, TLAPS

Total == (Retries + 1) * (MaxCrashes + 1)
CallStates == {"none", "queued", "running", "handoff", "waiting", "ok", "error"}
Places == {"absent", "stuck"} \cup Active \cup AtRest

\* A run that has what it hands on.
Ahead == {"spanned", "advanced", "completed"}

\* The places, and the sets that Crash tells apart, element by element.
LEMMA PlaceNames ==
    /\ Places = {"absent", "stuck", "start", "call", "child", "written", "spanned", "failing",
                 "pausing", "advanced", "waiting", "completed", "failed"}
    /\ Attempting = {"start", "call", "child", "written"}
    /\ Redone = {"start", "call", "child", "written", "spanned", "failing", "pausing", "stuck"}
    /\ AtRest = {"waiting", "completed", "failed"}
BY DEF Places, Active, AtRest, Attempting, Spanned, Redone

\* The properties of what completed runs hand on hold as soon as it is recorded.
ModelsAnswer == \A r \in Rows : pc[r] \in Ahead /\ Step(r).tool = "llm" => Answers(r)
ParentsFollowed == \A r \in Rows : pc[r] \in Ahead /\ Step(r).tool = "handoff" => Follows(r)

LEMMA Recorded ==
    OutputIsPublished /\ ParentFollowsChild /\ OutputIsRecorded <=> ModelsAnswer /\ ParentsFollowed
BY DEF OutputIsPublished, ParentFollowsChild, OutputIsRecorded, ModelsAnswer, ParentsFollowed, Ahead

\* The parts that are left to show of a step.
LEMMA Parts ==
    ASSUME TypeOK', AttemptsAreCounted', RowsAreFirst', PlaceFitsStep', QueueIsAwaited',
           PiecesInOrder', ModelsAnswer', ParentsFollowed', SpanIsWrittenOnce'
    PROVE  IInv'
<1>1. OutputIsPublished' /\ ParentFollowsChild' /\ OutputIsRecorded'
  BY DEF OutputIsPublished, ParentFollowsChild, OutputIsRecorded, ModelsAnswer, ParentsFollowed, Ahead
<1> QED BY <1>1 DEF IInv

\* What the assumption says of runs and attempts.
LEMMA Bounds ==
    /\ Retries \in Nat /\ HttpRetries \in Nat /\ MaxCrashes \in Nat /\ Pieces \in Nat \ {0} /\ MaxRuns \in Nat \ {0}
    /\ Total \in Nat \ {0} /\ Runs = 1 .. MaxRuns /\ NoRun \notin Runs
    /\ \A a \in Attempts : a[1] \in Runs /\ a[2] \in 1 .. Total /\ a = <<a[1], a[2]>>
    /\ \A r \in Runs : \A k \in 1 .. Total : <<r, k>> \in Attempts
    /\ \A r \in Runs : \A k \in Nat : <<r, k>> # Nothing
    /\ Nothing \notin Attempts
<1>1. /\ Retries \in Nat /\ HttpRetries \in Nat /\ MaxCrashes \in Nat /\ Pieces \in Nat \ {0} /\ MaxRuns \in Nat \ {0}
  BY BoundAssumption
<1>2. Total \in Nat \ {0}
  BY <1>1 DEF Total
<1>3. Attempts = Runs \X (1 .. Total) /\ Runs = 1 .. MaxRuns /\ NoRun \notin Runs
  BY <1>1 DEF Attempts, Total, Runs, NoRun
<1> QED BY <1>1, <1>2, <1>3 DEF Nothing, NoRun

\* Attempts up to the last but one before the last crash leave room for another.
LEMMA Room ==
    ASSUME NEW c \in 0 .. MaxCrashes, NEW t \in 0 .. Retries + 1
    PROVE  /\ (Retries + 1) * c \in Nat
           /\ (Retries + 1) * c + t <= Total
           /\ c < MaxCrashes => (Retries + 1) * (c + 1) = (Retries + 1) * c + Retries + 1
<1>1. Retries \in Nat /\ MaxCrashes \in Nat /\ c \in Nat /\ t \in Nat /\ c <= MaxCrashes
  BY Bounds
<1>2. (Retries + 1) * c \in Nat /\ (Retries + 1) * (c + 1) = (Retries + 1) * c + Retries + 1
  BY <1>1
<1>3. (Retries + 1) * (MaxCrashes - c) \in Nat
  BY <1>1
<1>4. Total = (Retries + 1) * c + (Retries + 1) * (MaxCrashes - c) + Retries + 1
  BY <1>1 DEF Total
<1> QED BY <1>1, <1>2, <1>3, <1>4

\* The first k numbers are k numbers.
LEMMA FirstNumbers ==
    ASSUME NEW k \in Nat
    PROVE  IsFiniteSet(1 .. k) /\ Cardinality(1 .. k) = k
<1>1. 1 \in Int /\ k \in Int
  OBVIOUS
<1>2. IsFiniteSet(1 .. k) /\ Cardinality(1 .. k) = IF 1 > k THEN 0 ELSE k - 1 + 1
  BY <1>1, FS_Interval
<1>3. (IF 1 > k THEN 0 ELSE k - 1 + 1) = k
  OBVIOUS
<1> QED BY <1>2, <1>3

\* The number of attempts of a run whose attempts are numbered from one on.
LEMMA Counted ==
    ASSUME NEW r \in Runs, NEW k \in 0 .. Total, NEW f,
           \A a \in Attempts : a[1] = r => (f[a] # "none" <=> a[2] <= k)
    PROVE  Cardinality({a \in Attempts : a[1] = r /\ f[a] # "none"}) = k
<1> DEFINE A == {a \in Attempts : a[1] = r /\ f[a] # "none"}
           g == [i \in 1 .. k |-> <<r, i>>]
<1>1. k \in Nat /\ 1 .. k \subseteq 1 .. Total
  BY Bounds
<1>2. \A i \in 1 .. k : <<r, i>> \in A
  BY <1>1, Bounds
<1>3. \A a \in A : a[2] \in 1 .. k /\ a = <<r, a[2]>>
  BY <1>1, Bounds
<1>4. g \in Bijection(1 .. k, A)
  <2> HIDE DEF A
  <2>1. g \in [1 .. k -> A]
    BY <1>2
  <2>2. \A i, j \in 1 .. k : g[i] = g[j] => i = j
    OBVIOUS
  <2>3. \A a \in A : \E i \in 1 .. k : g[i] = a
    BY <1>3
  <2> HIDE DEF g
  <2> QED BY <2>1, <2>2, <2>3 DEF Bijection, Injection, Surjection, IsInjective
<1>5. IsFiniteSet(1 .. k) /\ Cardinality(1 .. k) = k
  BY <1>1, FirstNumbers
<1> HIDE DEF A, g
<1>6. Cardinality(A) = Cardinality(1 .. k)
  BY <1>4, <1>5, FS_Bijection DEF ExistsBijection
<1> QED BY <1>5, <1>6 DEF A

\* A run has a number of attempts, and one to come if it starts one.
LEMMA BegunFacts ==
    ASSUME IInv, NEW r \in Runs
    PROVE  /\ Begun(r) \in 0 .. Total
           /\ pc[r] = "start" => Begun(r) + 1 \in 1 .. Total /\ Coming(r) \in Attempts /\ call[Coming(r)] = "none"
           /\ Begun(r) > 0 => Latest(r) \in Attempts
<1>1. Begun(r) \in Nat
  <2>1. IsFiniteSet(Runs) /\ IsFiniteSet(1 .. Total)
    BY Bounds, FirstNumbers
  <2>2. IsFiniteSet(Attempts)
    <3>1. Attempts = Runs \X (1 .. Total)
      BY DEF Attempts, Total
    <3> QED BY <2>1, <3>1, FS_Product
  <2>3. {a \in Attempts : a[1] = r /\ call[a] # "none"} \subseteq Attempts
    OBVIOUS
  <2>4. IsFiniteSet({a \in Attempts : a[1] = r /\ call[a] # "none"})
    BY <2>2, <2>3, FS_Subset
  <2> QED BY <2>4, FS_CardinalityType DEF Begun
<1>2. /\ crashes \in 0 .. MaxCrashes /\ tries[r] \in 0 .. Retries + 1
      /\ Begun(r) <= (Retries + 1) * crashes + tries[r]
      /\ pc[r] = "start" => tries[r] \in 0 .. Retries /\ tries[r] + 1 \in 0 .. Retries + 1
  <2>1. crashes \in 0 .. MaxCrashes /\ tries[r] \in 0 .. Retries + 1
    BY DEF IInv, TypeOK
  <2>2. Begun(r) <= (Retries + 1) * crashes + tries[r] /\ (pc[r] = "start" => tries[r] <= Retries)
    BY DEF IInv, AttemptsAreCounted
  <2>3. Retries \in Nat
    BY Bounds
  <2> QED BY <2>1, <2>2, <2>3
<1>3. (Retries + 1) * crashes \in Nat /\ (Retries + 1) * crashes + tries[r] <= Total
  BY <1>2, Room
<1>4. pc[r] = "start" => (Retries + 1) * crashes + (tries[r] + 1) <= Total
  BY <1>2, Room
<1> DEFINE before == (Retries + 1) * crashes
<1>10. before \in Nat /\ Total \in Nat /\ tries[r] \in Nat
  <2>1. Retries \in Nat /\ Total \in Nat
    BY Bounds
  <2> QED BY <1>2, <1>3, <2>1
<1> HIDE DEF before
<1>5. Begun(r) \in 0 .. Total
  BY <1>1, <1>2, <1>3, <1>10 DEF before
<1>6. pc[r] = "start" => Begun(r) + 1 \in 1 .. Total
  <2> SUFFICES ASSUME pc[r] = "start" PROVE Begun(r) + 1 \in 1 .. Total
    OBVIOUS
  <2>1. Begun(r) <= before + tries[r] /\ before + (tries[r] + 1) <= Total
    BY <1>2, <1>4 DEF before
  <2> QED BY <1>1, <1>10, <2>1
<1>7. pc[r] = "start" => Coming(r) \in Attempts /\ Coming(r)[1] = r /\ Coming(r)[2] = Begun(r) + 1
  BY <1>6, Bounds DEF Coming
<1>8. pc[r] = "start" => call[Coming(r)] = "none"
  BY <1>1, <1>7 DEF IInv, AttemptsAreCounted
<1>9. Begun(r) > 0 => Latest(r) \in Attempts
  BY <1>5, Bounds DEF Latest
<1> QED BY <1>5, <1>6, <1>7, <1>8, <1>9

\* Where the fate of an attempt changes but none begins, the numbers stay.
LEMMA BegunStays ==
    ASSUME \A a \in Attempts : call'[a] = "none" <=> call[a] = "none"
    PROVE  \A r \in Runs : Begun(r)' = Begun(r) /\ Latest(r)' = Latest(r)
<1> SUFFICES ASSUME NEW r \in Runs PROVE Begun(r)' = Begun(r)
  BY DEF Latest
<1>1. {a \in Attempts : a[1] = r /\ call'[a] # "none"} = {a \in Attempts : a[1] = r /\ call[a] # "none"}
  OBVIOUS
<1> QED BY <1>1 DEF Begun

\* AttemptsAreCounted holds on while no attempt begins.
LEMMA CountedStays ==
    ASSUME IInv, \A a \in Attempts : call'[a] = "none" <=> call[a] = "none",
           UNCHANGED <<tries, crashes>>,
           \A r \in Runs : /\ pc'[r] = "start" => tries[r] <= Retries
                           /\ pc'[r] = "absent" => pc[r] = "absent"
    PROVE  AttemptsAreCounted'
BY BegunStays DEF IInv, AttemptsAreCounted

\* The steps of workflows are steps.
LEMMA StepFacts ==
    ASSUME IInv, NEW r \in Runs
    PROVE  /\ workflow[r] \in Workflows /\ Step(r) \in Steps
           /\ Step(r).tool \in {"llm", "tool", "handoff", "memory_read", "memory_write", "approval"}
           /\ Step(r).tool = "handoff" => Step(r).target \in Workflows
<1>1. workflow[r] \in Workflows /\ step \in [Workflows -> Steps]
  BY BoundAssumption DEF IInv, TypeOK
<1>2. Step(r) \in Steps
  BY <1>1 DEF Step
<1> QED BY <1>1, <1>2 DEF Steps

\* Rows are the first numbers, and the next one is none of them.
LEMMA RowFacts ==
    ASSUME IInv
    PROVE  /\ Cardinality(Rows) \in 0 .. MaxRuns /\ Rows = 1 .. Cardinality(Rows)
           /\ Rows \subseteq Runs /\ Cardinality(Rows) + 1 \notin Rows
           /\ \A r \in Rows : r \in Runs /\ pc[r] # "absent"
           /\ \A r \in Runs : pc[r] # "absent" => r \in Rows
           /\ \A r \in Rows : parent[r] \in Rows \cup {NoRun}
<1>1. PICK n \in 0 .. MaxRuns : Rows = 1 .. n
  BY DEF IInv, RowsAreFirst
<1>2. Cardinality(Rows) = n
  BY <1>1, FirstNumbers
<1>3. \A r \in Rows : parent[r] \in Rows \cup {NoRun}
  <2>1. ASSUME NEW r \in Rows PROVE parent[r] \in {NoRun} \cup Runs /\ parent[r] < r
    BY DEF IInv, TypeOK, RowsAreFirst, Rows
  <2> QED BY <1>1, <2>1, Bounds DEF NoRun
<1>4. Rows \subseteq Runs /\ (\A r \in Rows : r \in Runs /\ pc[r] # "absent")
      /\ \A r \in Runs : pc[r] # "absent" => r \in Rows
  BY DEF Rows
<1>5. n + 1 \notin 1 .. n
  OBVIOUS
<1> QED BY <1>1, <1>2, <1>3, <1>4, <1>5

(***************************************************************************)
(* What is left to show when the other rows stay                           *)
(***************************************************************************)
\* Nothing changes but what belongs to run r, and the numbers of its attempts.
Beside(r) ==
    /\ step' = step
    /\ \A q \in Rows : workflow'[q] = workflow[q] /\ parent'[q] = parent[q] /\ origin'[q] = origin[q]
    /\ \A q \in Runs : q # r => Begun(q)' = Begun(q)
    /\ \A q \in Rows : q # r => pc'[q] = pc[q] /\ value'[q] = value[q]
    /\ \A q \in Runs : q # r /\ q \notin Rows => pc'[q] \in {"absent", "start"}
    /\ \A a \in Attempts : a[1] # r => call'[a] = call[a] /\ out'[a] = out[a]

\* What a model step hands on is an attempt, so it has begun one.
LEMMA AnsweredLatest ==
    ASSUME IInv, NEW r \in Runs, Answers(r)
    PROVE  Latest(r) \in Attempts /\ Latest(r)[1] = r
<1>1. Begun(r) \in Nat /\ value[r] \in Attempts \cup {Nothing}
  <2>1. Begun(r) \in 0 .. Total /\ Total \in Nat
    BY BegunFacts, Bounds
  <2> QED BY <2>1 DEF IInv, TypeOK
<1>2. Latest(r) # Nothing /\ Latest(r)[1] = r
  BY <1>1, Bounds DEF Latest
<1> QED BY <1>1, <1>2 DEF Answers

LEMMA StepStays ==
    ASSUME NEW q \in Rows, step' = step, workflow'[q] = workflow[q]
    PROVE  Step(q)' = Step(q)
BY DEF Step

\* PlaceFitsStep is left to show of run r.
LEMMA PlacesStay ==
    ASSUME IInv, NEW r \in Runs, Beside(r),
           pc'[r] = "call" => Begun(r)' > 0 /\ (Step(r).tool \in {"llm", "tool"})',
           pc'[r] = "child" => Begun(r)' > 0 /\ (Step(r).tool = "handoff" /\ call[Latest(r)] = "handoff")',
           pc'[r] = "written" => Begun(r)' > 0 /\ (Step(r).tool = "memory_write")',
           pc'[r] \in {"pausing", "waiting"} => (Step(r).tool = "approval")'
    PROVE  PlaceFitsStep'
<1> SUFFICES ASSUME NEW q \in Runs, pc'[q] \in {"call", "child", "written", "pausing", "waiting"}
             PROVE  /\ pc'[q] = "call" => Begun(q)' > 0 /\ (Step(q).tool \in {"llm", "tool"})'
                    /\ pc'[q] = "child" => Begun(q)' > 0 /\ (Step(q).tool = "handoff" /\ call[Latest(q)] = "handoff")'
                    /\ pc'[q] = "written" => Begun(q)' > 0 /\ (Step(q).tool = "memory_write")'
                    /\ pc'[q] \in {"pausing", "waiting"} => (Step(q).tool = "approval")'
  BY DEF PlaceFitsStep, Rows
<1>1. CASE q = r
  BY <1>1
<1>2. CASE q # r
  <2>1. q \in Rows /\ pc'[q] = pc[q] /\ Begun(q)' = Begun(q) /\ Latest(q)' = Latest(q)
    BY <1>2 DEF Beside, Latest
  <2>2. Step(q)' = Step(q)
    BY <2>1, StepStays DEF Beside
  <2>3. Begun(q) > 0 => call'[Latest(q)] = call[Latest(q)]
    BY <1>2, BegunFacts DEF Latest, Beside
  <2> QED BY <2>1, <2>2, <2>3 DEF IInv, PlaceFitsStep
<1> QED BY <1>1, <1>2

\* ModelsAnswer is left to show of run r.
LEMMA OutputsStay ==
    ASSUME IInv, NEW r \in Runs, Beside(r),
           pc'[r] \in Ahead /\ (Step(r).tool = "llm")' => Answers(r)'
    PROVE  ModelsAnswer'
<1> SUFFICES ASSUME NEW q \in Runs, pc'[q] \in Ahead, (Step(q).tool = "llm")'
             PROVE  Answers(q)'
  BY DEF ModelsAnswer, Rows
<1>1. CASE q = r
  BY <1>1
<1>2. CASE q # r
  <2>1. q \in Rows /\ pc'[q] = pc[q] /\ value'[q] = value[q] /\ Latest(q)' = Latest(q)
    BY <1>2 DEF Beside, Latest, Ahead
  <2>2. Step(q)' = Step(q)
    BY <2>1, StepStays DEF Beside
  <2>3. Answers(q)
    BY <2>1, <2>2, Recorded DEF IInv, ModelsAnswer
  <2>4. Latest(q) \in Attempts /\ Latest(q)[1] = q
    BY <2>3, AnsweredLatest
  <2>5. call'[Latest(q)] = call[Latest(q)] /\ out'[Latest(q)] = out[Latest(q)]
    BY <1>2, <2>4 DEF Beside
  <2> QED BY <2>1, <2>3, <2>5 DEF Answers
<1> QED BY <1>1, <1>2

\* ParentsFollowed is left to show of run r, which stays as it is once it is completed.
LEMMA ParentsFollow ==
    ASSUME IInv, NEW r \in Runs, Beside(r),
           pc[r] = "completed" => pc'[r] = pc[r] /\ value'[r] = value[r],
           pc'[r] \in Ahead /\ (Step(r).tool = "handoff")' =>
             \/ pc[r] \in Ahead /\ value'[r] = value[r] /\ Begun(r)' = Begun(r)
             \/ \E c \in Rows : /\ c # r /\ origin[c] = Latest(r)' /\ pc[c] = "completed"
                                /\ value'[r] = value[c]
    PROVE  ParentsFollowed'
<1> SUFFICES ASSUME NEW q \in Runs, pc'[q] \in Ahead, (Step(q).tool = "handoff")'
             PROVE  \E c \in Runs : /\ origin'[c] = Latest(q)' /\ pc'[c] = "completed"
                                    /\ value'[q] = value'[c]
  BY DEF ParentsFollowed, Follows, Rows
<1>0. \A c \in Rows : pc[c] = "completed" =>
        c \in Runs /\ pc'[c] = "completed" /\ value'[c] = value[c] /\ origin'[c] = origin[c]
  BY DEF Beside, Rows
<1>1. CASE pc[q] \in Ahead /\ value'[q] = value[q] /\ Begun(q)' = Begun(q)
  <2>1. q \in Rows /\ Latest(q)' = Latest(q)
    BY <1>1 DEF Latest, Rows, Ahead
  <2>2. Step(q)' = Step(q)
    BY <2>1, StepStays DEF Beside
  <2>3. PICK c \in Rows : origin[c] = Latest(q) /\ pc[c] = "completed" /\ value[q] = value[c]
    BY <1>1, <2>1, <2>2, Recorded DEF IInv, ParentsFollowed, Follows
  <2> QED BY <1>0, <1>1, <2>1, <2>3
<1>2. CASE ~(pc[q] \in Ahead /\ value'[q] = value[q] /\ Begun(q)' = Begun(q))
  <2>1. q = r
    BY <1>2 DEF Beside, Ahead
  <2>2. PICK c \in Rows : origin[c] = Latest(r)' /\ pc[c] = "completed" /\ value'[r] = value[c]
    BY <1>2, <2>1
  <2> QED BY <1>0, <2>1, <2>2
<1> QED BY <1>1, <1>2

\* SpanIsWrittenOnce holds on if a run whose span is there gets stuck when it comes to a
\* second one, and no run gets back to its step.
LEMMA SpansStay ==
    ASSUME IInv, crashes' = crashes,
           \A q \in Runs :
             \/ pc'[q] = pc[q] /\ (q \in traced' <=> q \in traced)
             \/ pc[q] \in Attempting \cup {"absent"} /\ pc'[q] \in Attempting /\ (q \in traced' <=> q \in traced)
             \/ pc[q] \in Attempting /\ q \in traced /\ pc'[q] = "stuck"
             \/ pc'[q] \notin Attempting \cup {"stuck", "absent"}
    PROVE  SpanIsWrittenOnce'
<1>1. \A q \in Runs : /\ pc[q] = "absent" => q \notin traced
                      /\ pc[q] = "stuck" \/ (q \in traced /\ pc[q] \in Attempting) => crashes > 0
  BY DEF IInv, SpanIsWrittenOnce
<1> QED BY <1>1, PlaceNames DEF SpanIsWrittenOnce

\* QueueIsAwaited is left to show of run r.
LEMMA QueueStays ==
    ASSUME IInv, NEW r \in Runs, Beside(r), line' = line,
           \A a \in Attempts : a[1] = r => (call'[a] = "queued" <=> call[a] = "queued"),
           \A a \in Attempts : a[1] = r /\ call[a] = "queued" => pc'[r] = pc[r] /\ Begun(r)' = Begun(r)
    PROVE  QueueIsAwaited'
<1>1. \A a \in Attempts : call'[a] = "queued" <=> call[a] = "queued"
  BY DEF Beside
<1>2. ASSUME NEW a \in Attempts, call[a] = "queued" PROVE Awaited(a)'
  <2>1. Awaited(a) /\ a[1] \in Runs
    BY <1>2, Bounds DEF IInv, QueueIsAwaited
  <2>2. pc'[a[1]] = pc[a[1]] /\ Begun(a[1])' = Begun(a[1])
    BY <1>2, <2>1 DEF Beside, Awaited, Rows
  <2> QED BY <2>1, <2>2 DEF Awaited, Latest
<1>3. \A i \in 1 .. Len(line) : line[i] \in Attempts
  BY ElementOfSeq DEF IInv, TypeOK
<1> QED BY <1>1, <1>2, <1>3 DEF IInv, QueueIsAwaited

\* PiecesInOrder is left to show of attempts that were in no call and have published nothing.
LEMMA PiecesStay ==
    ASSUME IInv, UNCHANGED <<out, at>>,
           \A a \in Attempts : \/ call'[a] = call[a]
                               \/ call[a] \notin {"running", "ok"}
    PROVE  PiecesInOrder'
<1>1. ASSUME NEW a \in Attempts, call[a] \notin {"running", "ok"} PROVE out[a] = <<>> /\ at[a] = 0
  BY <1>1 DEF IInv, PiecesInOrder
<1> QED BY <1>1 DEF IInv, PiecesInOrder

\* No other row has an ancestry that grows.
LEMMA AncestryStays ==
    ASSUME IInv, Rows \subseteq Rows', NEW r \in Rows,
           \A x \in Rows : parent'[x] = parent[x] /\ workflow'[x] = workflow[x]
    PROVE  Ancestry(r)' \subseteq Ancestry(r)
<1> DEFINE Closed(S) == \A x \in S : parent[x] \in S \cup {NoRun}
           Up == {y \in Rows : \A S \in SUBSET Rows : r \in S /\ Closed(S) => y \in S}
           ClosedP(S) == \A x \in S : parent'[x] \in S \cup {NoRun}
           UpP == {y \in Rows' : \A S \in SUBSET (Rows') : r \in S /\ ClosedP(S) => y \in S}
<1>1. Closed(Rows)
  BY RowFacts
<1>2. \A S \in SUBSET Rows : Closed(S) => ClosedP(S) /\ S \in SUBSET (Rows')
  OBVIOUS
<1>3. ASSUME NEW y \in UpP PROVE y \in Up
  <2>1. y \in Rows
    BY <1>1, <1>2
  <2>2. ASSUME NEW S \in SUBSET Rows, r \in S, Closed(S) PROVE y \in S
    BY <1>2, <2>2
  <2> QED BY <2>1, <2>2
<1>4. \A y \in UpP : y \in Up /\ workflow'[y] = workflow[y]
  BY <1>3
<1>5. Ancestry(r) = {workflow[x] : x \in Up} /\ Ancestry(r)' = {workflow'[x] : x \in UpP}
  BY DEF Ancestry
<1> HIDE DEF Up, UpP
<1> QED BY <1>4, <1>5

\* RowsAreFirst holds on while no row is inserted.
LEMMA RowsStay ==
    ASSUME IInv, UNCHANGED rows, \A r \in Runs : pc'[r] = "absent" <=> pc[r] = "absent"
    PROVE  RowsAreFirst' /\ Rows' = Rows
<1>1. Rows' = Rows
  BY DEF Rows
<1>2. \A r \in Rows : Ancestry(r)' \subseteq Ancestry(r)
  BY <1>1, AncestryStays DEF rows
<1> QED BY <1>1, <1>2 DEF IInv, RowsAreFirst, rows

(***************************************************************************)
(* Attempts                                                                *)
(***************************************************************************)
\* A run goes on to place to; v is what it hands on, if anything is new.
Moves(r, to) ==
    /\ pc' = [pc EXCEPT ![r] = to] /\ traced' \in {traced, traced \cup {r}}
    /\ value' = value \/ \E v \in Attempts \cup {Nothing} : value' = [value EXCEPT ![r] = v]
    /\ to \in {"start", "call", "child", "written"} => traced' = traced
    /\ to = "stuck" => r \in traced

\* A span is recorded, or refused.
LEMMA RecordOutcome ==
    ASSUME TypeOK, NEW r \in Runs, NEW place \in {"spanned", "failing", "pausing"},
           NEW v \in Attempts \cup {Nothing}, Record(r, place, v)
    PROVE  \E to \in {place, "stuck"} : Moves(r, to) /\ (to = place => value' = [value EXCEPT ![r] = v])
<1>1. CASE r \in traced
  BY <1>1 DEF Record, Moves
<1>2. CASE r \notin traced
  BY <1>2 DEF Record, Moves
<1> QED BY <1>1, <1>2

\* A failed attempt is repeated, or its failure is recorded.
LEMMA RetryOutcome ==
    ASSUME TypeOK, NEW r \in Runs, NEW n \in Nat, Retry(r, n)
    PROVE  \E to \in {"start", "failing", "stuck"} : Moves(r, to) /\ (to = "start" => n <= Retries)
<1>1. CASE n <= Retries /\ pc' = [pc EXCEPT ![r] = "start"] /\ UNCHANGED <<traced, value>>
  BY <1>1 DEF Moves
<1>2. CASE n > Retries /\ Record(r, "failing", Nothing)
  <2>1. \E to \in {"failing", "stuck"} : Moves(r, to)
    BY <1>2, RecordOutcome
  <2> QED BY <2>1
<1> QED BY <1>1, <1>2 DEF Retry

\* What moves keep of the places and values of runs.
LEMMA MoveFacts ==
    ASSUME TypeOK, NEW r \in Runs, NEW to \in Places, Moves(r, to)
    PROVE  /\ pc' \in [Runs -> Places] /\ pc'[r] = to /\ \A q \in Runs : q # r => pc'[q] = pc[q]
           /\ value' \in [Runs -> Attempts \cup {Nothing}] /\ \A q \in Runs : q # r => value'[q] = value[q]
           /\ traced' \in SUBSET Runs /\ \A q \in Runs : q # r => (q \in traced' <=> q \in traced)
<1>1. pc \in [Runs -> Places] /\ value \in [Runs -> Attempts \cup {Nothing}] /\ traced \in SUBSET Runs
  BY DEF TypeOK, Places
<1>2. value' \in [Runs -> Attempts \cup {Nothing}] /\ \A q \in Runs : q # r => value'[q] = value[q]
  <2>1. CASE value' = value
    BY <1>1, <2>1
  <2>2. CASE \E v \in Attempts \cup {Nothing} : value' = [value EXCEPT ![r] = v]
    <3>1. PICK v \in Attempts \cup {Nothing} : value' = [value EXCEPT ![r] = v]
      BY <2>2
    <3> QED BY <1>1, <3>1
  <2> QED BY <2>1, <2>2 DEF Moves
<1> QED BY <1>1, <1>2 DEF Moves

\* What changes when run r begins an attempt, with its call in state s.
Began(r, s) ==
    /\ r \in Rows /\ Coming(r) \in Attempts /\ Coming(r)[1] = r
    /\ call' \in [Attempts -> CallStates] /\ tries' \in [Runs -> 0 .. Retries + 1]
    /\ Begun(r)' > 0 /\ Latest(r)' = Coming(r)
    /\ \A q \in Runs : q # r => Begun(q)' = Begun(q)
    /\ \A a \in Attempts : a[1] # r => call'[a] = call[a]
    /\ call[Coming(r)] = "none" /\ call'[Coming(r)] = s
    /\ \A a \in Attempts : call'[a] = "queued" <=> call[a] = "queued" \/ (a = Coming(r) /\ s = "queued")
    /\ \A a \in Attempts : a[1] = r => call[a] # "queued"
    /\ AttemptsAreCounted' /\ PiecesInOrder'

\* That is all that an attempt changes beside the rows and the memory.
LEMMA AttemptStep ==
    ASSUME IInv, NEW r \in Runs, pc[r] = "start", NEW s \in CallStates \ {"none"},
           call' = [call EXCEPT ![Coming(r)] = s], tries' = [tries EXCEPT ![r] = @ + 1],
           UNCHANGED <<out, at, crashes>>,
           \A q \in Runs : q # r => /\ pc'[q] = "start" => pc[q] \in {"absent", "start"}
                                    /\ pc'[q] = "absent" => pc[q] = "absent",
           pc'[r] # "absent", pc'[r] = "start" => tries'[r] <= Retries
    PROVE  Began(r, s)
<1>1. /\ Begun(r) \in 0 .. Total /\ Begun(r) + 1 \in 1 .. Total /\ Coming(r) \in Attempts
      /\ call[Coming(r)] = "none"
  BY BegunFacts
<1>2. Coming(r)[1] = r /\ Coming(r)[2] = Begun(r) + 1
  BY DEF Coming
<1>3. call \in [Attempts -> CallStates] /\ tries \in [Runs -> 0 .. Retries + 1]
  BY DEF IInv, TypeOK, CallStates
<1>4. tries[r] \in 0 .. Retries /\ tries'[r] = tries[r] + 1 /\ tries' \in [Runs -> 0 .. Retries + 1]
  <2>1. tries[r] <= Retries /\ Retries \in Nat
    BY Bounds DEF IInv, AttemptsAreCounted
  <2> QED BY <1>3, <2>1
<1>5. call' \in [Attempts -> CallStates] /\ call'[Coming(r)] = s
      /\ \A a \in Attempts : a # Coming(r) => call'[a] = call[a]
  BY <1>1, <1>3
<1>6. \A a \in Attempts : a[1] = r => (call'[a] # "none" <=> a[2] <= Begun(r) + 1)
  <2> SUFFICES ASSUME NEW a \in Attempts, a[1] = r PROVE call'[a] # "none" <=> a[2] <= Begun(r) + 1
    OBVIOUS
  <2>1. a[2] \in 1 .. Total /\ a = <<r, a[2]>> /\ Total \in Nat
    BY Bounds
  <2>2. call[a] # "none" <=> a[2] <= Begun(r)
    BY DEF IInv, AttemptsAreCounted
  <2>3. CASE a = Coming(r)
    BY <1>2, <1>5, <2>3, <1>1
  <2>4. CASE a # Coming(r)
    <3>1. a[2] # Begun(r) + 1
      BY <2>1, <2>4 DEF Coming
    <3> QED BY <1>1, <1>5, <2>1, <2>2, <2>4, <3>1
  <2> QED BY <2>3, <2>4
<1>7. Begun(r)' = Begun(r) + 1
  <2>1. Begun(r) + 1 \in 0 .. Total
    BY <1>1
  <2> DEFINE f == call'
             k == Begun(r) + 1
  <2>3. k \in 0 .. Total /\ \A a \in Attempts : a[1] = r => (f[a] # "none" <=> a[2] <= k)
    BY <1>6, <2>1
  <2> HIDE DEF f, k
  <2>4. Cardinality({a \in Attempts : a[1] = r /\ f[a] # "none"}) = k
    BY <2>3, Counted
  <2>2. Cardinality({a \in Attempts : a[1] = r /\ call'[a] # "none"}) = Begun(r) + 1
    BY <2>4 DEF f, k
  <2> QED BY <2>2 DEF Begun
<1>8. \A a \in Attempts : a[1] # r => call'[a] = call[a]
  BY <1>2, <1>5
<1>9. ASSUME NEW q \in Runs, q # r PROVE Begun(q)' = Begun(q)
  <2>1. {a \in Attempts : a[1] = q /\ call'[a] # "none"} = {a \in Attempts : a[1] = q /\ call[a] # "none"}
    BY <1>8, <1>9
  <2> QED BY <2>1 DEF Begun
<1>10. AttemptsAreCounted'
  <2>1. ASSUME NEW q \in Runs
        PROVE  /\ \A a \in Attempts : a[1] = q => (call'[a] # "none" <=> a[2] <= Begun(q)')
               /\ Begun(q)' <= (Retries + 1) * crashes' + tries'[q]
               /\ pc'[q] = "start" => tries'[q] <= Retries
               /\ pc'[q] = "absent" => Begun(q)' = 0 /\ tries'[q] = 0
    <3>1. CASE q = r
      <4>1. Begun(r) <= (Retries + 1) * crashes + tries[r] /\ (Retries + 1) * crashes \in Nat
        BY Room DEF IInv, TypeOK, AttemptsAreCounted
      <4> DEFINE before == (Retries + 1) * crashes
      <4>2. before \in Nat /\ Begun(r) <= before + tries[r] /\ crashes' = crashes
        BY <4>1
      <4> HIDE DEF before
      <4>3. Begun(r) + 1 <= before + (tries[r] + 1)
        BY <1>1, <1>4, <4>2
      <4> QED BY <1>4, <1>6, <1>7, <3>1, <4>2, <4>3 DEF before
    <3>2. CASE q # r
      <4>1. Begun(q)' = Begun(q) /\ tries'[q] = tries[q] /\ crashes' = crashes
        BY <1>3, <1>9, <3>2
      <4>2. 0 <= Retries
        BY Bounds
      <4> QED BY <1>8, <3>2, <4>1, <4>2 DEF IInv, AttemptsAreCounted
    <3> QED BY <3>1, <3>2
  <2> QED BY <2>1 DEF AttemptsAreCounted
<1>11. PiecesInOrder'
  <2>1. \A a \in Attempts : call'[a] = call[a] \/ call[a] \notin {"running", "ok"}
    BY <1>1, <1>5
  <2> QED BY <2>1, PiecesStay
<1>12. ASSUME NEW a \in Attempts, a[1] = r PROVE call[a] # "queued"
  BY <1>12 DEF IInv, QueueIsAwaited, Awaited
<1>13. \A a \in Attempts : call'[a] = "queued" <=> call[a] = "queued" \/ (a = Coming(r) /\ s = "queued")
  BY <1>1, <1>5
<1>14. Begun(r)' > 0 /\ Latest(r)' = Coming(r) /\ r \in Rows
  BY <1>1, <1>7 DEF Latest, Coming, Rows
<1> QED BY <1>1, <1>2, <1>4, <1>5, <1>7, <1>8, <1>9, <1>10, <1>11, <1>12, <1>13, <1>14 DEF Began

\* A call is submitted, and waited for.
LEMMA InvokeStep ==
    ASSUME IInv, NEW r \in Runs, Invoke(r)
    PROVE  IInv'
<1> DEFINE s == IF Step(r).timed THEN "queued" ELSE "running"
<1>1. /\ pc[r] = "start" /\ Step(r).tool \in {"llm", "tool"}
      /\ pc' = [pc EXCEPT ![r] = "call"] /\ tries' = [tries EXCEPT ![r] = @ + 1]
      /\ call' = [call EXCEPT ![Coming(r)] = s]
      /\ line' = IF Step(r).timed THEN Append(line, Coming(r)) ELSE line
      /\ UNCHANGED <<rows, out, at, http, crashes, traced, value, memory>>
      /\ s \in CallStates \ {"none"}
  BY DEF Invoke, Attempt, CallStates
<1> HIDE DEF s
<1>2. pc' \in [Runs -> Places] /\ pc'[r] = "call"
      /\ \A q \in Runs : q # r => pc'[q] = pc[q]
  BY <1>1, PlaceNames DEF IInv, TypeOK, Places
<1>3a. Began(r, s)
  <2>1. /\ \A q \in Runs : q # r => /\ pc'[q] = "start" => pc[q] \in {"absent", "start"}
                                    /\ pc'[q] = "absent" => pc[q] = "absent"
        /\ pc'[r] # "absent" /\ (pc'[r] = "start" => tries'[r] <= Retries)
    BY <1>1, <1>2
  <2> QED BY <1>1, <1>2, <2>1, AttemptStep
<1>3. /\ r \in Rows /\ Coming(r) \in Attempts /\ Coming(r)[1] = r
      /\ call' \in [Attempts -> CallStates] /\ tries' \in [Runs -> 0 .. Retries + 1]
      /\ Begun(r)' > 0 /\ Latest(r)' = Coming(r)
      /\ \A q \in Runs : q # r => Begun(q)' = Begun(q)
      /\ \A a \in Attempts : a[1] # r => call'[a] = call[a]
      /\ call[Coming(r)] = "none" /\ call'[Coming(r)] = s
      /\ \A a \in Attempts : call'[a] = "queued" <=> call[a] = "queued" \/ (a = Coming(r) /\ s = "queued")
      /\ \A a \in Attempts : a[1] = r => call[a] # "queued"
      /\ AttemptsAreCounted' /\ PiecesInOrder'
  BY <1>3a DEF Began
<1>4. Beside(r)
  BY <1>1, <1>2, <1>3 DEF Beside, rows, Rows
<1>5. RowsAreFirst'
  BY <1>1, <1>2, RowsStay
<1>6. Step(r)' = Step(r)
  BY <1>1, <1>3, StepStays DEF rows
<1>7. PlaceFitsStep' /\ ModelsAnswer' /\ ParentsFollowed'
  BY <1>1, <1>2, <1>3, <1>4, <1>6, PlacesStay, OutputsStay, ParentsFollow DEF Ahead
<1>11. SpanIsWrittenOnce'
  BY <1>1, <1>2, PlaceNames, SpansStay
<1>8. line \in Seq(Attempts) /\ line' \in Seq(Attempts)
  BY <1>1, <1>3, AppendProperties DEF IInv, TypeOK
<1>9. QueueIsAwaited'
  <2>1. CASE ~Step(r).timed
    BY <1>1, <1>3, <1>4, <2>1, QueueStays DEF s
  <2>2. CASE Step(r).timed
    <3>1. /\ s = "queued" /\ line' = Append(line, Coming(r)) /\ Len(line') = Len(line) + 1 /\ Len(line) \in Nat
          /\ line'[Len(line) + 1] = Coming(r) /\ \A i \in 1 .. Len(line) : line'[i] = line[i]
      BY <1>1, <1>3, <1>8, <2>2, AppendProperties, LenProperties DEF s
    <3>2. \A i \in 1 .. Len(line) : line[i] \in Attempts /\ call[line[i]] = "queued" /\ line[i] # Coming(r)
      BY <1>3, <1>8, ElementOfSeq DEF IInv, QueueIsAwaited
    <3>3. \A i \in 1 .. Len(line') : i \in 1 .. Len(line) \/ i = Len(line) + 1
      BY <3>1
    <3>4. \A i \in 1 .. Len(line') : call'[line'[i]] = "queued"
      BY <1>3, <3>1, <3>2, <3>3
    <3>5. \A i, j \in 1 .. Len(line') : line'[i] = line'[j] => i = j
      BY <3>1, <3>2, <3>3 DEF IInv, QueueIsAwaited
    <3>6. ASSUME NEW a \in Attempts, call'[a] = "queued" PROVE Awaited(a)'
      <4>1. CASE a = Coming(r)
        BY <1>2, <1>3, <4>1 DEF Awaited
      <4>2. CASE a # Coming(r)
        <5>1. Awaited(a) /\ a[1] \in Runs /\ a[1] # r
          BY <1>3, <3>6, <4>2, Bounds DEF IInv, QueueIsAwaited
        <5> QED BY <1>2, <1>3, <5>1 DEF Awaited, Latest
      <4> QED BY <4>1, <4>2
    <3> QED BY <3>4, <3>5, <3>6 DEF QueueIsAwaited
  <2> QED BY <2>1, <2>2
<1>10. TypeOK'
  BY <1>1, <1>2, <1>3, <1>8 DEF IInv, TypeOK, rows, CallStates, Places
<1> QED BY <1>3, <1>5, <1>7, <1>9, <1>10, <1>11, Parts

\* An attempt of run r that ends at once, and inserts no row.
LEMMA BriefStep ==
    ASSUME IInv, NEW r \in Runs, pc[r] = "start", NEW s \in {"waiting", "ok", "error"},
           call' = [call EXCEPT ![Coming(r)] = s], tries' = [tries EXCEPT ![r] = @ + 1],
           UNCHANGED <<rows, out, at, http, line, crashes>>,
           NEW to \in {"start", "written", "spanned", "failing", "pausing", "stuck"}, Moves(r, to),
           to = "start" => tries'[r] <= Retries,
           to = "written" => Step(r).tool = "memory_write",
           to = "pausing" => Step(r).tool = "approval",
           to = "spanned" => Step(r).tool \notin {"llm", "handoff"},
           memory' \in Attempts \cup {Nothing}
    PROVE  IInv'
<1>0. s \in CallStates \ {"none"} /\ to \in Places /\ TypeOK
  BY PlaceNames DEF CallStates, IInv
<1>1. /\ pc' \in [Runs -> Places] /\ pc'[r] = to /\ \A q \in Runs : q # r => pc'[q] = pc[q]
      /\ value' \in [Runs -> Attempts \cup {Nothing}] /\ \A q \in Runs : q # r => value'[q] = value[q]
      /\ traced' \in SUBSET Runs /\ \A q \in Runs : q # r => (q \in traced' <=> q \in traced)
  BY <1>0, MoveFacts
<1>2a. Began(r, s)
  <2>1. /\ \A q \in Runs : q # r => /\ pc'[q] = "start" => pc[q] \in {"absent", "start"}
                                    /\ pc'[q] = "absent" => pc[q] = "absent"
        /\ pc'[r] # "absent" /\ (pc'[r] = "start" => tries'[r] <= Retries)
    BY <1>0, <1>1
  <2> QED BY <1>0, <1>1, <2>1, AttemptStep
<1>2. /\ r \in Rows /\ Coming(r) \in Attempts /\ Coming(r)[1] = r
      /\ call' \in [Attempts -> CallStates] /\ tries' \in [Runs -> 0 .. Retries + 1]
      /\ Begun(r)' > 0 /\ Latest(r)' = Coming(r)
      /\ \A q \in Runs : q # r => Begun(q)' = Begun(q)
      /\ \A a \in Attempts : a[1] # r => call'[a] = call[a]
      /\ call[Coming(r)] = "none" /\ call'[Coming(r)] = s
      /\ \A a \in Attempts : call'[a] = "queued" <=> call[a] = "queued" \/ (a = Coming(r) /\ s = "queued")
      /\ \A a \in Attempts : a[1] = r => call[a] # "queued"
      /\ AttemptsAreCounted' /\ PiecesInOrder'
  BY <1>2a DEF Began
<1>4. Beside(r)
  BY <1>1, <1>2 DEF Beside, rows, Rows
<1>5. RowsAreFirst'
  BY <1>1, RowsStay
<1>6. Step(r)' = Step(r)
  BY <1>2, StepStays DEF rows
<1>7. PlaceFitsStep' /\ ModelsAnswer' /\ ParentsFollowed'
  BY <1>1, <1>2, <1>4, <1>6, PlacesStay, OutputsStay, ParentsFollow DEF Ahead
<1>8. QueueIsAwaited'
  BY <1>2, <1>4, QueueStays
<1>9. SpanIsWrittenOnce'
  <2>1. pc[r] \in Attempting /\ (to \in Attempting => traced' = traced) /\ (to = "stuck" => r \in traced)
    BY PlaceNames DEF Moves
  <2>2. \A q \in Runs : q # r => pc'[q] = pc[q] /\ (q \in traced' <=> q \in traced)
    BY <1>1
  <2>3. \/ pc'[r] \in Attempting /\ (r \in traced' <=> r \in traced)
        \/ r \in traced /\ pc'[r] = "stuck"
        \/ pc'[r] \notin Attempting \cup {"stuck", "absent"}
    BY <1>1, <2>1
  <2> QED BY <2>1, <2>2, <2>3, SpansStay
<1>10. TypeOK'
  BY <1>1, <1>2 DEF IInv, TypeOK, rows, CallStates, Places
<1> QED BY <1>2, <1>5, <1>7, <1>8, <1>9, <1>10, Parts

\* An attempt that ends at once, and fails.
LEMMA BriefFailure ==
    ASSUME IInv, NEW r \in Runs, pc[r] = "start",
           call' = [call EXCEPT ![Coming(r)] = "error"], tries' = [tries EXCEPT ![r] = @ + 1],
           UNCHANGED <<rows, out, at, http, line, memory, crashes>>, Retry(r, tries'[r])
    PROVE  IInv'
<1>1. TypeOK /\ tries \in [Runs -> 0 .. Retries + 1] /\ memory' \in Attempts \cup {Nothing}
  BY DEF IInv, TypeOK
<1>2. tries'[r] \in Nat
  BY <1>1, Bounds
<1>3. PICK to \in {"start", "failing", "stuck"} : Moves(r, to) /\ (to = "start" => tries'[r] <= Retries)
  BY <1>1, <1>2, RetryOutcome
<1> QED BY <1>1, <1>3, BriefStep

\* The gate's span is written, or its attempt fails.
LEMMA PauseStep ==
    ASSUME IInv, NEW r \in Runs, Pause(r)
    PROVE  IInv'
<1>1. /\ pc[r] = "start" /\ Step(r).tool = "approval" /\ tries' = [tries EXCEPT ![r] = @ + 1]
      /\ UNCHANGED <<rows, out, at, http, line, crashes, memory>> /\ memory' \in Attempts \cup {Nothing}
      /\ TypeOK /\ Coming(r) \in Attempts
  BY BegunFacts DEF Pause, Attempt, IInv, TypeOK
<1>2. CASE Record(r, "pausing", Coming(r)) /\ call' = [call EXCEPT ![Coming(r)] = "waiting"]
  <2>1. PICK to \in {"pausing", "stuck"} : Moves(r, to)
    BY <1>1, <1>2, RecordOutcome
  <2> QED BY <1>1, <1>2, <2>1, BriefStep
<1>3. CASE Retry(r, tries'[r]) /\ call' = [call EXCEPT ![Coming(r)] = "error"]
  BY <1>1, <1>3, BriefFailure
<1> QED BY <1>2, <1>3 DEF Pause

\* The writer of the memory goes on to its span.
LEMMA WriteMemoryStep ==
    ASSUME IInv, NEW r \in Runs, WriteMemory(r)
    PROVE  IInv'
<1>1. /\ pc[r] = "start" /\ Step(r).tool = "memory_write" /\ tries' = [tries EXCEPT ![r] = @ + 1]
      /\ UNCHANGED <<rows, out, at, http, line, crashes>> /\ memory' \in Attempts \cup {Nothing}
      /\ call' = [call EXCEPT ![Coming(r)] = "ok"]
  BY BegunFacts DEF WriteMemory, Attempt
<1>2. Moves(r, "written")
  BY DEF WriteMemory, Moves
<1> QED BY <1>1, <1>2, BriefStep

\* The reader hands on the writer's attempt, or fails.
LEMMA ReadMemoryStep ==
    ASSUME IInv, NEW r \in Runs, ReadMemory(r)
    PROVE  IInv'
<1>1. /\ pc[r] = "start" /\ Step(r).tool = "memory_read" /\ tries' = [tries EXCEPT ![r] = @ + 1]
      /\ UNCHANGED <<rows, out, at, http, line, crashes, memory>> /\ memory \in Attempts \cup {Nothing}
      /\ TypeOK
  BY DEF ReadMemory, Attempt, IInv, TypeOK
<1>2. CASE Record(r, "spanned", memory) /\ call' = [call EXCEPT ![Coming(r)] = "ok"]
  <2>1. PICK to \in {"spanned", "stuck"} : Moves(r, to)
    BY <1>1, <1>2, RecordOutcome
  <2> QED BY <1>1, <1>2, <2>1, BriefStep
<1>3. CASE Retry(r, tries'[r]) /\ call' = [call EXCEPT ![Coming(r)] = "error"]
  BY <1>1, <1>3, BriefFailure
<1> QED BY <1>2, <1>3 DEF ReadMemory

(***************************************************************************)
(* Rows                                                                    *)
(***************************************************************************)
\* The new row comes behind the others.  What a handoff starts is new in its ancestry.
LEMMA InsertStep ==
    ASSUME IInv, NEW n, n = Cardinality(Rows) + 1, n <= MaxRuns,
           NEW w \in Workflows, NEW p \in Rows \cup {NoRun}, NEW a,
           InsertRun(w, p, a), pc'[n] = "start",
           \A q \in Runs : q # n => (pc'[q] = "absent" <=> pc[q] = "absent"),
           a # Nothing => a \in Attempts /\ p \in Rows /\ a[1] = p /\ w \notin Ancestry(p)
    PROVE  /\ n \in Runs /\ n \notin Rows /\ pc[n] = "absent" /\ RowsAreFirst'
           /\ workflow' \in [Runs -> Workflows]
           /\ parent' \in [Runs -> {NoRun} \cup Runs] /\ origin' \in [Runs -> Attempts \cup {Nothing}]
           /\ step' = step
           /\ \A q \in Runs : q # n => workflow'[q] = workflow[q] /\ parent'[q] = parent[q] /\ origin'[q] = origin[q]
           /\ \A q \in Rows : Step(q)' = Step(q)
<1>1. /\ n \notin Rows /\ Rows = 1 .. Cardinality(Rows) /\ Rows \subseteq Runs /\ n \in Runs
      /\ Cardinality(Rows) \in Nat /\ n - 1 = Cardinality(Rows)
  BY RowFacts, Bounds
<1>2. pc[n] = "absent"
  BY <1>1 DEF Rows
<1>3. /\ workflow' = [workflow EXCEPT ![n] = w] /\ parent' = [parent EXCEPT ![n] = p]
      /\ origin' = [origin EXCEPT ![n] = a] /\ step' = step
  BY DEF InsertRun
<1>4. /\ workflow' \in [Runs -> Workflows]
      /\ parent' \in [Runs -> {NoRun} \cup Runs] /\ origin' \in [Runs -> Attempts \cup {Nothing}]
      /\ \A q \in Runs : q # n => workflow'[q] = workflow[q] /\ parent'[q] = parent[q] /\ origin'[q] = origin[q]
      /\ workflow'[n] = w /\ parent'[n] = p /\ origin'[n] = a
  BY <1>1, <1>3 DEF IInv, TypeOK
<1>5. Rows' = Rows \cup {n} /\ Rows' = 1 .. n /\ n \in 0 .. MaxRuns
  <2>1. Rows' = Rows \cup {n}
    BY <1>1 DEF Rows
  <2> QED BY <1>1, <2>1, Bounds
<1>6. \A q \in Rows : q # n /\ q \in Runs /\ Ancestry(q)' \subseteq Ancestry(q)
  BY <1>1, <1>4, <1>5, AncestryStays
<1>7. \A q \in Rows' : parent'[q] < q
  <2>1. ASSUME NEW q \in Rows PROVE parent'[q] < q
    BY <1>4, <1>6 DEF IInv, RowsAreFirst
  <2>2. p < n
    BY <1>1, Bounds DEF NoRun
  <2> QED BY <1>4, <1>5, <2>1, <2>2
<1>8. ASSUME NEW q \in Rows', origin'[q] # Nothing
      PROVE  (origin[q][1] = parent[q] /\ parent[q] \in Rows /\ workflow[q] \notin Ancestry(parent[q]))'
  <2>1. CASE q = n
    BY <1>4, <1>5, <1>6, <1>8, <2>1
  <2>2. CASE q # n
    BY <1>4, <1>5, <1>6, <1>8, <2>2 DEF IInv, RowsAreFirst
  <2> QED BY <2>1, <2>2
<1>9. RowsAreFirst'
  BY <1>5, <1>7, <1>8 DEF RowsAreFirst
<1>10. \A q \in Rows : Step(q)' = Step(q)
  BY <1>3, <1>4, <1>6, StepStays
<1> QED BY <1>1, <1>2, <1>3, <1>4, <1>9, <1>10

\* A run that no handoff starts, of any workflow and under any row.
LEMMA StartRunStep ==
    ASSUME IInv, StartRun
    PROVE  IInv'
<1> DEFINE n == Cardinality(Rows) + 1
<1>1. /\ n <= MaxRuns /\ pc' = [pc EXCEPT ![n] = "start"]
      /\ UNCHANGED <<tries, traced, value, call, out, at, http, line, memory, crashes>>
  <2>1. Cardinality(Rows) \in 0 .. MaxRuns /\ MaxRuns \in Nat /\ MaxRows[step] \in 0 .. MaxRuns
    BY RowFacts, Bounds, BoundAssumption DEF IInv, TypeOK
  <2> QED BY <2>1 DEF StartRun, calls
<1>2. PICK w \in Workflows, p \in Rows \cup {NoRun} : InsertRun(w, p, Nothing)
  BY DEF StartRun
<1>3. n \in Runs /\ n \notin Rows
  BY <1>1, RowFacts, Bounds
<1> HIDE DEF n
<1>4. /\ pc' \in [Runs -> Places] /\ pc'[n] = "start" /\ pc[n] = "absent"
      /\ \A q \in Runs : q # n => pc'[q] = pc[q]
  BY <1>1, <1>3, PlaceNames DEF IInv, TypeOK, Places, Rows
<1>5. /\ RowsAreFirst' /\ workflow' \in [Runs -> Workflows]
      /\ parent' \in [Runs -> {NoRun} \cup Runs] /\ origin' \in [Runs -> Attempts \cup {Nothing}]
      /\ step' = step
      /\ \A q \in Runs : q # n => workflow'[q] = workflow[q] /\ parent'[q] = parent[q] /\ origin'[q] = origin[q]
  <2>1. n = Cardinality(Rows) + 1
    BY DEF n
  <2> QED BY <1>1, <1>2, <1>4, <2>1, InsertStep
<1>6. \A q \in Runs : Begun(q)' = Begun(q)
  BY <1>1, BegunStays
<1>7. Beside(n)
  BY <1>1, <1>3, <1>4, <1>5, <1>6 DEF Beside, Rows
<1>8. PlaceFitsStep' /\ ModelsAnswer' /\ ParentsFollowed'
  BY <1>3, <1>4, <1>7, PlacesStay, OutputsStay, ParentsFollow DEF Ahead
<1>13. SpanIsWrittenOnce'
  BY <1>1, <1>3, <1>4, PlaceNames, SpansStay
<1>9. QueueIsAwaited'
  <2>1. \A a \in Attempts : a[1] = n => call[a] # "queued"
    BY <1>4 DEF IInv, QueueIsAwaited, Awaited
  <2> QED BY <1>1, <1>3, <1>7, <2>1, QueueStays
<1>10. AttemptsAreCounted'
  <2>1. tries[n] <= Retries
    BY <1>3, <1>4, Bounds DEF IInv, AttemptsAreCounted
  <2>2. \A q \in Runs : /\ pc'[q] = "start" => tries[q] <= Retries
                        /\ pc'[q] = "absent" => pc[q] = "absent"
    BY <1>4, <2>1 DEF IInv, AttemptsAreCounted
  <2> QED BY <1>1, <2>2, CountedStays
<1>11. PiecesInOrder'
  BY <1>1, PiecesStay
<1>12. TypeOK'
  BY <1>1, <1>4, <1>5 DEF IInv, TypeOK, Places
<1> QED BY <1>5, <1>8, <1>9, <1>10, <1>11, <1>12, <1>13, Parts

\* A handoff that is refused is a failed attempt; otherwise the run waits for its child.
LEMMA HandoffStep ==
    ASSUME IInv, NEW r \in Runs, Handoff(r)
    PROVE  IInv'
<1> DEFINE n == Cardinality(Rows) + 1
<1>1. /\ pc[r] = "start" /\ Step(r).tool = "handoff" /\ tries' = [tries EXCEPT ![r] = @ + 1]
      /\ UNCHANGED <<out, at, http, crashes, line, memory>>
  BY DEF Handoff, Attempt
<1>2. CASE /\ UNCHANGED rows /\ call' = [call EXCEPT ![Coming(r)] = "error"]
           /\ Retry(r, tries'[r])
  BY <1>1, <1>2, BriefFailure
<1>3. CASE /\ Step(r).target \notin Ancestry(r) /\ n <= MaxRows[step]
           /\ call' = [call EXCEPT ![Coming(r)] = "handoff"]
           /\ InsertRun(Step(r).target, r, Coming(r))
           /\ pc' = [pc EXCEPT ![r] = "child", ![n] = "start"]
           /\ UNCHANGED <<traced, value>>
  <2>1. /\ Step(r).target \notin Ancestry(r) /\ n <= MaxRuns
        /\ call' = [call EXCEPT ![Coming(r)] = "handoff"]
        /\ InsertRun(Step(r).target, r, Coming(r))
        /\ pc' = [pc EXCEPT ![r] = "child", ![n] = "start"]
        /\ UNCHANGED <<traced, value>>
    <3>1. Cardinality(Rows) \in 0 .. MaxRuns /\ MaxRuns \in Nat /\ MaxRows[step] \in 0 .. MaxRuns
      BY RowFacts, Bounds, BoundAssumption DEF IInv, TypeOK
    <3> QED BY <1>3, <3>1
  <2>2. n \in Runs /\ n \notin Rows /\ n # r /\ r \in Rows
    BY <1>1, <2>1, RowFacts, Bounds
  <2>n. n = Cardinality(Rows) + 1
    OBVIOUS
  <2> HIDE DEF n
  <2>3. /\ pc' \in [Runs -> Places]
        /\ pc'[r] = "child" /\ pc'[n] = "start" /\ pc[n] = "absent"
        /\ \A q \in Runs : q # n /\ q # r => pc'[q] = pc[q]
    BY <2>1, <2>2, PlaceNames DEF IInv, TypeOK, Places, Rows
  <2>4. Began(r, "handoff")
    <3>1. /\ \A q \in Runs : q # r => /\ pc'[q] = "start" => pc[q] \in {"absent", "start"}
                                      /\ pc'[q] = "absent" => pc[q] = "absent"
          /\ pc'[r] # "absent" /\ (pc'[r] = "start" => tries'[r] <= Retries)
      BY <2>3
    <3> DEFINE s == "handoff"
    <3>2. s \in CallStates \ {"none"} /\ call' = [call EXCEPT ![Coming(r)] = s]
      BY <2>1 DEF CallStates
    <3>3. UNCHANGED <<out, at, crashes>> /\ tries' = [tries EXCEPT ![r] = @ + 1] /\ pc[r] = "start"
      BY <1>1
    <3> HIDE DEF s
    <3>4. Began(r, s)
      BY <3>1, <3>2, <3>3, AttemptStep
    <3> QED BY <3>4 DEF s
  <2>5. /\ Coming(r) \in Attempts /\ Coming(r)[1] = r
        /\ call' \in [Attempts -> CallStates] /\ tries' \in [Runs -> 0 .. Retries + 1]
        /\ Begun(r)' > 0 /\ Latest(r)' = Coming(r)
        /\ \A q \in Runs : q # r => Begun(q)' = Begun(q)
        /\ \A a \in Attempts : a[1] # r => call'[a] = call[a]
        /\ call'[Coming(r)] = "handoff"
        /\ \A a \in Attempts : call'[a] = "queued" <=> call[a] = "queued"
        /\ \A a \in Attempts : a[1] = r => call[a] # "queued"
        /\ AttemptsAreCounted' /\ PiecesInOrder'
    BY <2>4 DEF Began
  <2>6. /\ RowsAreFirst' /\ workflow' \in [Runs -> Workflows]
        /\ parent' \in [Runs -> {NoRun} \cup Runs] /\ origin' \in [Runs -> Attempts \cup {Nothing}]
        /\ step' = step
        /\ \A q \in Runs : q # n => workflow'[q] = workflow[q] /\ parent'[q] = parent[q] /\ origin'[q] = origin[q]
        /\ \A q \in Rows : Step(q)' = Step(q)
    <3>1. \A q \in Runs : q # n => (pc'[q] = "absent" <=> pc[q] = "absent")
      BY <1>1, <2>3
    <3>2. Step(r).target \in Workflows
      BY <1>1, StepFacts
    <3> QED BY <2>1, <2>n, <2>2, <2>3, <2>5, <3>1, <3>2, InsertStep
  <2>7. Beside(r)
    BY <1>1, <2>1, <2>2, <2>3, <2>5, <2>6 DEF Beside, Rows
  <2>8. Step(r)' = Step(r)
    BY <2>2, <2>6
  <2>9. PlaceFitsStep' /\ ModelsAnswer' /\ ParentsFollowed'
    BY <1>1, <2>3, <2>5, <2>7, <2>8, PlacesStay, OutputsStay, ParentsFollow DEF Ahead
  <2>12. SpanIsWrittenOnce'
    BY <1>1, <2>1, <2>3, PlaceNames, SpansStay
  <2>10. QueueIsAwaited'
    BY <1>1, <2>5, <2>7, QueueStays
  <2>11. TypeOK'
    BY <1>1, <2>1, <2>3, <2>5, <2>6 DEF IInv, TypeOK, CallStates, Places
  <2> QED BY <2>5, <2>6, <2>9, <2>10, <2>11, <2>12, Parts
<1> QED BY <1>2, <1>3 DEF Handoff

(***************************************************************************)
(* The end of an attempt                                                   *)
(***************************************************************************)
\* A run that waited for a call or a child goes on.
LEMMA GoesOn ==
    ASSUME IInv, NEW r \in Runs, pc[r] \in {"call", "child", "written"},
           NEW to \in {"start", "spanned", "failing", "stuck"}, Moves(r, to),
           to = "start" => tries[r] <= Retries,
           UNCHANGED <<rows, tries, out, at, http, memory, crashes>>,
           NEW s \in CallStates \ {"none"}, call' = [call EXCEPT ![Latest(r)] = s],
           s = call[Latest(r)] \/ call[Latest(r)] \notin {"running", "ok"},
           to = "spanned" /\ Step(r).tool = "llm" => value'[r] = Latest(r) /\ s = "ok",
           to = "spanned" /\ Step(r).tool = "handoff" =>
             \E c \in Rows : /\ c # r /\ origin[c] = Latest(r) /\ pc[c] = "completed"
                             /\ value'[r] = value[c],
           \/ line' = line /\ call[Latest(r)] # "queued" /\ s # "queued"
           \/ line' \in Seq(Attempts) /\ (Beside(r) => QueueIsAwaited')
    PROVE  IInv'
<1>0. to \in Places /\ TypeOK
  BY PlaceNames DEF IInv
<1>1. /\ pc' \in [Runs -> Places] /\ pc'[r] = to /\ \A q \in Runs : q # r => pc'[q] = pc[q]
      /\ value' \in [Runs -> Attempts \cup {Nothing}] /\ \A q \in Runs : q # r => value'[q] = value[q]
      /\ traced' \in SUBSET Runs /\ \A q \in Runs : q # r => (q \in traced' <=> q \in traced)
  BY <1>0, MoveFacts
<1>2. /\ r \in Rows /\ Latest(r) \in Attempts /\ Latest(r)[1] = r /\ call[Latest(r)] # "none"
      /\ Latest(r) = <<r, Begun(r)>> /\ Begun(r) > 0
  <2>1. r \in Rows /\ Begun(r) > 0
    BY DEF IInv, PlaceFitsStep, Rows
  <2>2. Latest(r) \in Attempts /\ Latest(r)[1] = r /\ Latest(r)[2] = Begun(r) /\ Begun(r) \in Nat
    BY <2>1, BegunFacts DEF Latest
  <2>3. call[Latest(r)] # "none"
    BY <2>2 DEF IInv, AttemptsAreCounted
  <2> QED BY <2>1, <2>2, <2>3 DEF Latest
<1>3. /\ call' \in [Attempts -> CallStates] /\ call'[Latest(r)] = s
      /\ \A a \in Attempts : a # Latest(r) => call'[a] = call[a]
  BY <1>2 DEF IInv, TypeOK, CallStates
<1>4. \A a \in Attempts : call'[a] = "none" <=> call[a] = "none"
  BY <1>2, <1>3
<1>5. \A q \in Runs : Begun(q)' = Begun(q) /\ Latest(q)' = Latest(q)
  BY <1>4, BegunStays
<1>7. Beside(r)
  <2>1. \A a \in Attempts : a[1] # r => call'[a] = call[a] /\ out'[a] = out[a]
    BY <1>2, <1>3
  <2> QED BY <1>1, <1>2, <1>5, <2>1 DEF Beside, rows, Rows
<1>8. RowsAreFirst'
  BY <1>1, RowsStay
<1>9. Step(r)' = Step(r)
  BY <1>2, StepStays DEF rows
<1>10. PlaceFitsStep' /\ ParentsFollowed'
  BY <1>1, <1>5, <1>7, <1>9, PlacesStay, ParentsFollow DEF Ahead
<1>11. ModelsAnswer'
  <2>1. out[Latest(r)] = [i \in 1 .. Len(out[Latest(r)]) |-> i]
    BY <1>2 DEF IInv, PiecesInOrder
  <2>2. to = "spanned" /\ Step(r).tool = "llm" => Answers(r)'
    BY <1>3, <1>5, <2>1 DEF Answers
  <2> QED BY <1>1, <1>7, <1>9, <2>2, OutputsStay DEF Ahead
<1>12. line' \in Seq(Attempts) /\ QueueIsAwaited'
  <2>1. CASE line' = line /\ call[Latest(r)] # "queued" /\ s # "queued"
    <3>1. \A a \in Attempts : a[1] = r => call[a] # "queued"
      BY <2>1 DEF IInv, QueueIsAwaited, Awaited
    <3>2. \A a \in Attempts : a[1] = r => call'[a] # "queued"
      BY <1>3, <2>1, <3>1
    <3>3. QueueIsAwaited'
      BY <1>7, <2>1, <3>1, <3>2, QueueStays
    <3> QED BY <2>1, <3>3 DEF IInv, TypeOK
  <2> QED BY <1>7, <2>1
<1>13. AttemptsAreCounted'
  <2>1. \A q \in Runs : /\ pc'[q] = "start" => tries[q] <= Retries
                        /\ pc'[q] = "absent" => pc[q] = "absent"
    BY <1>1 DEF IInv, AttemptsAreCounted
  <2> QED BY <1>4, <2>1, CountedStays
<1>14. PiecesInOrder'
  <2>1. CASE s = call[Latest(r)]
    <3>1. \A a \in Attempts : call'[a] = call[a]
      BY <1>3, <2>1
    <3> QED BY <3>1, PiecesStay
  <2>2. CASE call[Latest(r)] \notin {"running", "ok"}
    <3>1. \A a \in Attempts : call'[a] = call[a] \/ call[a] \notin {"running", "ok"}
      BY <1>3, <2>2
    <3> QED BY <3>1, PiecesStay
  <2> QED BY <2>1, <2>2
<1>15. SpanIsWrittenOnce'
  <2>1. pc[r] \in Attempting /\ (to \in Attempting => traced' = traced) /\ (to = "stuck" => r \in traced)
    BY PlaceNames DEF Moves
  <2>2. \A q \in Runs : q # r => pc'[q] = pc[q] /\ (q \in traced' <=> q \in traced)
    BY <1>1
  <2>3. \/ pc'[r] \in Attempting /\ (r \in traced' <=> r \in traced)
        \/ r \in traced /\ pc'[r] = "stuck"
        \/ pc'[r] \notin Attempting \cup {"stuck", "absent"}
    BY <1>1, <2>1
  <2> QED BY <2>1, <2>2, <2>3, SpansStay
<1>16. TypeOK'
  BY <1>1, <1>3, <1>12 DEF IInv, TypeOK, rows, CallStates, Places
<1> QED BY <1>8, <1>10, <1>11, <1>12, <1>13, <1>14, <1>15, <1>16, Parts

\* The parent takes what its completed child hands on.
LEMMA ChildReturnsStep ==
    ASSUME IInv, NEW r \in Runs, ChildReturns(r)
    PROVE  IInv'
<1>1. /\ pc[r] = "child" /\ UNCHANGED <<rows, tries, out, at, http, line, memory, crashes>> /\ TypeOK
  BY DEF ChildReturns, IInv
<1>2. r \in Rows /\ Step(r).tool = "handoff" /\ call[Latest(r)] = "handoff"
  BY <1>1 DEF IInv, PlaceFitsStep, Rows
<1>3. PICK c \in Rows :
        /\ origin[c] = Latest(r) /\ Left(c)
        /\ \/ /\ Delivers(c) /\ Record(r, "spanned", value[c])
              /\ call' = [call EXCEPT ![Latest(r)] = "ok"]
           \/ Retry(r, tries[r]) /\ call' = [call EXCEPT ![Latest(r)] = "error"]
  BY DEF ChildReturns
<1>4. c # r /\ value[c] \in Attempts \cup {Nothing} /\ c \in Runs
  BY <1>1, <1>3, PlaceNames DEF TypeOK, Left, Rows
<1>s. {"ok", "error"} \subseteq CallStates \ {"none"}
  BY DEF CallStates
<1>5. CASE Delivers(c) /\ Record(r, "spanned", value[c]) /\ call' = [call EXCEPT ![Latest(r)] = "ok"]
  <2>1. PICK to \in {"spanned", "stuck"} :
          Moves(r, to) /\ (to = "spanned" => value' = [value EXCEPT ![r] = value[c]])
    BY <1>1, <1>4, <1>5, RecordOutcome
  <2>2. pc[c] = "completed" /\ (to = "spanned" => value'[r] = value[c])
    BY <1>1, <1>5, <2>1 DEF Delivers, TypeOK
  <2> QED BY <1>1, <1>2, <1>3, <1>4, <1>s, <1>5, <2>1, <2>2, GoesOn
<1>6. CASE Retry(r, tries[r]) /\ call' = [call EXCEPT ![Latest(r)] = "error"]
  <2>1. tries[r] \in Nat
    BY <1>1, Bounds DEF TypeOK
  <2>2. PICK to \in {"start", "failing", "stuck"} : Moves(r, to) /\ (to = "start" => tries[r] <= Retries)
    BY <1>1, <1>6, <2>1, RetryOutcome
  <2> QED BY <1>1, <1>2, <1>s, <1>6, <2>2, GoesOn
<1> QED BY <1>3, <1>5, <1>6

\* What a run that waits hands on is a state of its last attempt that stays.
LEMMA LatestKept ==
    ASSUME IInv, NEW r \in Runs, Begun(r) > 0, call' = call
    PROVE  /\ Latest(r) \in Attempts /\ call[Latest(r)] \in CallStates \ {"none"}
           /\ call' = [call EXCEPT ![Latest(r)] = call[Latest(r)]]
<1>1. Latest(r) \in Attempts /\ Latest(r)[1] = r /\ Latest(r)[2] = Begun(r) /\ Begun(r) \in Nat
  BY BegunFacts DEF Latest
<1>2. call[Latest(r)] # "none"
  BY <1>1 DEF IInv, AttemptsAreCounted
<1> QED BY <1>1, <1>2 DEF IInv, TypeOK, CallStates

\* An UPDATE of the row of a run that is behind its step, or waits for a decision.
LEMMA FollowStep ==
    ASSUME IInv, NEW r \in Runs, NEW from, NEW to, Follow(r, from, to),
           UNCHANGED <<rows, tries, traced, value, call, out, at, http, line, memory, crashes>>,
           \/ from = "spanned" /\ to = "advanced"
           \/ from = "advanced" /\ to = "completed"
           \/ from = "failing" /\ to = "failed"
           \/ from = "pausing" /\ to = "waiting"
           \/ from = "waiting" /\ to \in {"advanced", "failed"}
    PROVE  IInv'
<1>1. /\ pc[r] = from /\ pc' \in [Runs -> Places] /\ pc'[r] = to
      /\ \A q \in Runs : q # r => pc'[q] = pc[q]
  BY PlaceNames DEF Follow, IInv, TypeOK, Places
<1>2. \A q \in Runs : Begun(q)' = Begun(q) /\ Latest(q)' = Latest(q)
  BY BegunStays
<1>3. r \in Rows /\ Beside(r)
  BY <1>1, <1>2 DEF Beside, rows, Rows
<1>4. RowsAreFirst'
  BY <1>1, RowsStay
<1>5. Step(r)' = Step(r)
  BY <1>3, StepStays DEF rows
<1>6. from \in {"pausing", "waiting"} => Step(r).tool = "approval"
  BY <1>1, <1>3 DEF IInv, PlaceFitsStep
<1>7. PlaceFitsStep'
  BY <1>1, <1>3, <1>5, <1>6, PlacesStay
<1>8. ModelsAnswer'
  <2>1. from \in {"spanned", "advanced"} /\ Step(r).tool = "llm" => Answers(r)
    BY <1>1, <1>3 DEF IInv, OutputIsRecorded
  <2>2. Answers(r) => Answers(r)'
    BY <1>2 DEF Answers
  <2> QED BY <1>1, <1>3, <1>5, <1>6, <2>1, <2>2, OutputsStay DEF Ahead
<1>9. ParentsFollowed'
  BY <1>1, <1>2, <1>3, <1>5, <1>6, ParentsFollow DEF Ahead
<1>10. QueueIsAwaited'
  <2>1. \A a \in Attempts : a[1] = r => call[a] # "queued"
    BY <1>1 DEF IInv, QueueIsAwaited, Awaited
  <2> QED BY <1>3, <2>1, QueueStays
<1>11. AttemptsAreCounted'
  <2>1. \A q \in Runs : /\ pc'[q] = "start" => tries[q] <= Retries
                        /\ pc'[q] = "absent" => pc[q] = "absent"
    BY <1>1 DEF IInv, AttemptsAreCounted
  <2> QED BY <2>1, CountedStays
<1>12. PiecesInOrder'
  BY PiecesStay
<1>13. SpanIsWrittenOnce'
  <2>1. pc'[r] \notin Attempting \cup {"stuck", "absent"}
    BY <1>1, PlaceNames
  <2> QED BY <1>1, <2>1, SpansStay
<1>14. TypeOK'
  BY <1>1 DEF IInv, TypeOK, rows, Places
<1> QED BY <1>4, <1>7, <1>8, <1>9, <1>10, <1>11, <1>12, <1>13, <1>14, Parts

\* The UPDATEs behind a span.
LEMMA AdvanceStep ==
    ASSUME IInv, NEW r \in Runs, Advance(r)
    PROVE  IInv'
BY FollowStep DEF Advance, calls

\* The decision on an approval.
LEMMA DecideStep ==
    ASSUME IInv, NEW r \in Runs, Decide(r)
    PROVE  IInv'
BY FollowStep DEF Decide, calls

\* The call's result is the attempt's.
LEMMA ReturnStep ==
    ASSUME IInv, NEW r \in Runs, Return(r)
    PROVE  IInv'
<1>1. /\ pc[r] \in {"call", "written"} /\ TypeOK
      /\ UNCHANGED <<rows, tries, call, out, at, http, line, memory, crashes>>
  BY DEF Return, calls, IInv
<1>2. r \in Rows /\ Step(r).tool # "handoff" /\ Begun(r) > 0
  BY <1>1 DEF IInv, PlaceFitsStep, Rows
<1>3. /\ Latest(r) \in Attempts /\ call[Latest(r)] \in CallStates \ {"none"}
      /\ call' = [call EXCEPT ![Latest(r)] = call[Latest(r)]]
  BY <1>1, <1>2, LatestKept
<1>4. CASE call[Latest(r)] = "ok" /\ Record(r, "spanned", Latest(r))
  <2>1. PICK to \in {"spanned", "stuck"} :
          Moves(r, to) /\ (to = "spanned" => value' = [value EXCEPT ![r] = Latest(r)])
    BY <1>1, <1>3, <1>4, RecordOutcome
  <2>2. to = "spanned" => value'[r] = Latest(r)
    BY <1>1, <2>1 DEF TypeOK
  <2>3. to # "start" /\ call[Latest(r)] # "queued" /\ line' = line
    BY <1>1, <1>4, <2>1
  <2> HIDE DEF Latest
  <2> QED BY <1>1, <1>2, <1>3, <1>4, <2>1, <2>2, <2>3, GoesOn
<1>5. CASE call[Latest(r)] = "error" /\ Retry(r, tries[r])
  <2>1. tries[r] \in Nat
    BY <1>1, Bounds DEF TypeOK
  <2>2. PICK to \in {"start", "failing", "stuck"} : Moves(r, to) /\ (to = "start" => tries[r] <= Retries)
    BY <1>1, <1>5, <2>1, RetryOutcome
  <2> QED BY <1>1, <1>2, <1>3, <1>5, <2>2, GoesOn
<1> QED BY <1>4, <1>5 DEF Return

\* What is left of a list without its i-th element.
LEMMA Removed ==
    ASSUME NEW S, NEW s \in Seq(S), NEW i \in 1 .. Len(s)
    PROVE  /\ RemoveAt(s, i) \in Seq(S) /\ Len(RemoveAt(s, i)) = Len(s) - 1
           /\ \A j \in 1 .. Len(s) - 1 : RemoveAt(s, i)[j] = IF j < i THEN s[j] ELSE s[j + 1]
<1> DEFINE left == SubSeq(s, 1, i - 1)
           right == SubSeq(s, i + 1, Len(s))
<1>1. Len(s) \in Nat /\ i \in Nat /\ 1 <= i /\ i <= Len(s)
  BY LenProperties
<1>2. \A j \in 1 .. Len(s) : s[j] \in S
  BY ElementOfSeq
<1>3. left \in Seq(S) /\ Len(left) = i - 1 /\ \A j \in 1 .. i - 1 : left[j] = s[j]
  BY <1>1, <1>2, SubSeqProperties
<1>4. right \in Seq(S) /\ Len(right) = Len(s) - i /\ \A j \in 1 .. Len(s) - i : right[j] = s[i + j]
  BY <1>1, <1>2, SubSeqProperties
<1>5. RemoveAt(s, i) = left \o right
  BY DEF RemoveAt
<1> HIDE DEF left, right
<1>6. /\ left \o right \in Seq(S) /\ Len(left \o right) = Len(left) + Len(right)
      /\ \A j \in 1 .. Len(left) + Len(right) :
           (left \o right)[j] = IF j <= Len(left) THEN left[j] ELSE right[j - Len(left)]
  BY <1>3, <1>4, ConcatProperties
<1>7. ASSUME NEW j \in 1 .. Len(s) - 1
      PROVE  (left \o right)[j] = IF j < i THEN s[j] ELSE s[j + 1]
  <2>1. CASE j < i
    BY <1>1, <1>3, <1>4, <1>6, <2>1
  <2>2. CASE ~(j < i)
    <3>1. j - (i - 1) \in 1 .. Len(s) - i /\ i + (j - (i - 1)) = j + 1 /\ ~(j <= i - 1)
          /\ j \in 1 .. Len(left) + Len(right)
      BY <1>1, <1>3, <1>4, <2>2
    <3>2. (left \o right)[j] = right[j - (i - 1)]
      BY <1>3, <1>6, <3>1
    <3> QED BY <1>4, <2>2, <3>1, <3>2
  <2> QED BY <2>1, <2>2
<1>8. Len(left) + Len(right) = Len(s) - 1
  BY <1>1, <1>3, <1>4
<1> QED BY <1>5, <1>6, <1>7, <1>8

\* A call that has waited too long is given up: what is queued leaves the queue.
LEMMA TimeOutStep ==
    ASSUME IInv, NEW r \in Runs, TimeOut(r)
    PROVE  IInv'
<1> DEFINE a == Latest(r)
<1>0. PICK to \in {"start", "failing", "stuck"} : Moves(r, to) /\ (to = "start" => tries[r] <= Retries)
  <2>1. TypeOK /\ tries \in [Runs -> 0 .. Retries + 1]
    BY DEF IInv, TypeOK
  <2>2. tries[r] \in Nat
    BY <2>1, Bounds
  <2>3. Retry(r, tries[r])
    BY DEF TimeOut
  <2> QED BY <2>1, <2>2, <2>3, RetryOutcome
<1>1. /\ pc[r] = "call" /\ Overdue(r) /\ Cancel(a) /\ Moves(r, to) /\ (to = "start" => tries[r] <= Retries)
      /\ UNCHANGED <<rows, tries, out, at, http, memory, crashes>>
  BY <1>0 DEF TimeOut
<1>2. r \in Rows /\ Begun(r) > 0 /\ a \in Attempts /\ a[1] = r
  BY <1>1, BegunFacts DEF IInv, PlaceFitsStep, Rows, Latest
<1>3. CASE call[a] # "queued" /\ UNCHANGED <<call, line>>
  <2>1. /\ call[Latest(r)] \in CallStates \ {"none"}
        /\ call' = [call EXCEPT ![Latest(r)] = call[Latest(r)]]
    BY <1>2, <1>3, LatestKept
  <2> QED BY <1>1, <1>3, <2>1, GoesOn
<1>4. CASE \E i \in DOMAIN line :
             line[i] = a /\ line' = RemoveAt(line, i) /\ call' = [call EXCEPT ![a] = "error"]
  <2>1. PICK i \in 1 .. Len(line) :
          line[i] = a /\ line' = RemoveAt(line, i) /\ call' = [call EXCEPT ![a] = "error"]
    BY <1>4, LenProperties DEF IInv, TypeOK
  <2>2. /\ line \in Seq(Attempts) /\ line' \in Seq(Attempts)
        /\ Len(line) \in Nat /\ Len(line') = Len(line) - 1
        /\ \A j \in 1 .. Len(line) - 1 : line'[j] = IF j < i THEN line[j] ELSE line[j + 1]
    BY <2>1, Removed, LenProperties DEF IInv, TypeOK
  <2>3. call[a] = "queued" /\ call'[a] = "error" /\ \A b \in Attempts : b # a => call'[b] = call[b]
    BY <1>2, <2>1 DEF IInv, TypeOK, QueueIsAwaited
  <2>4. ASSUME Beside(r) PROVE QueueIsAwaited'
    <3> DEFINE old(j) == IF j < i THEN j ELSE j + 1
    <3>1. \A j \in 1 .. Len(line') : old(j) \in 1 .. Len(line) /\ old(j) # i /\ line'[j] = line[old(j)]
      BY <2>2
    <3>2. \A j, k \in 1 .. Len(line') : old(j) = old(k) => j = k
      BY <2>2
    <3> HIDE DEF old
    <3>3. \A j \in 1 .. Len(line) : line[j] \in Attempts /\ call[line[j]] = "queued" /\ (j # i => line[j] # a)
      BY <2>1, <2>2, ElementOfSeq DEF IInv, QueueIsAwaited
    <3>4. \A j \in 1 .. Len(line') : call'[line'[j]] = "queued"
      BY <2>3, <3>1, <3>3
    <3>7. \A j, k \in 1 .. Len(line) : line[j] = line[k] => j = k
      BY DEF IInv, QueueIsAwaited
    <3>5. \A j, k \in 1 .. Len(line') : line'[j] = line'[k] => j = k
      BY <3>1, <3>2, <3>7
    <3>6. ASSUME NEW b \in Attempts, call'[b] = "queued" PROVE Awaited(b)'
      <4>1. b # a /\ call[b] = "queued" /\ Awaited(b) /\ b[1] \in Runs
        BY <2>3, <3>6, Bounds DEF IInv, QueueIsAwaited
      <4>2. b[1] # r
        BY <4>1 DEF Awaited
      <4>3. pc'[b[1]] = pc[b[1]] /\ Begun(b[1])' = Begun(b[1])
        BY <2>4, <4>1, <4>2 DEF Beside, Awaited, Rows
      <4> QED BY <4>1, <4>3 DEF Awaited, Latest
    <3> QED BY <3>4, <3>5, <3>6 DEF QueueIsAwaited
  <2>5. "error" \in CallStates \ {"none"} /\ call[Latest(r)] \notin {"running", "ok"}
        /\ call' = [call EXCEPT ![Latest(r)] = "error"]
    BY <2>1, <2>3 DEF CallStates
  <2> HIDE DEF a
  <2> QED BY <1>1, <2>2, <2>4, <2>5, GoesOn
<1> QED BY <1>1, <1>3, <1>4 DEF Cancel

(***************************************************************************)
(* Calls                                                                   *)
(***************************************************************************)
\* What is left to show when a call goes on: it keeps its place, and no run moves.
LEMMA CallStep ==
    ASSUME IInv, NEW a \in Attempts, UNCHANGED <<rows, flow, memory, crashes>>,
           call[a] \in {"queued", "running"},
           NEW s \in {"running", "ok", "error"}, call' = [call EXCEPT ![a] = s],
           \A b \in Attempts : b # a => out'[b] = out[b] /\ at'[b] = at[b],
           out' \in [Attempts -> Seq(1 .. Pieces)], at' \in [Attempts -> 0 .. Pieces],
           http' \in [Attempts -> 0 .. HttpRetries], line' \in Seq(Attempts),
           out'[a] = [i \in 1 .. Len(out'[a]) |-> i], s = "error" => out'[a] = <<>>,
           at'[a] = IF s = "running" THEN Len(out'[a]) ELSE 0,
           \A i \in 1 .. Len(line') : call'[line'[i]] = "queued",
           \A i, j \in 1 .. Len(line') : line'[i] = line'[j] => i = j
    PROVE  IInv'
<1>1. a[1] \in Runs /\ UNCHANGED <<step, workflow, parent, origin, pc, tries, traced, value>>
  BY Bounds DEF rows, flow
<1>2. /\ call' \in [Attempts -> CallStates] /\ call'[a] = s
      /\ \A b \in Attempts : b # a => call'[b] = call[b]
  BY DEF IInv, TypeOK, CallStates
<1>3. \A b \in Attempts : call'[b] = "none" <=> call[b] = "none"
  BY <1>2
<1>4. \A q \in Runs : Begun(q)' = Begun(q) /\ Latest(q)' = Latest(q)
  BY <1>3, BegunStays
<1>5. Beside(a[1])
  BY <1>1, <1>2, <1>4 DEF Beside, Rows
<1>6. RowsAreFirst'
  BY <1>1, RowsStay
<1>7. \A q \in Runs : Step(q)' = Step(q)
  BY <1>1 DEF Step
<1>8. PlaceFitsStep'
  <2>1. pc[a[1]] = "child" => Latest(a[1]) \in Attempts /\ call[Latest(a[1])] = "handoff" /\ Latest(a[1]) # a
    BY <1>1, BegunFacts DEF IInv, PlaceFitsStep, Rows
  <2>2. pc[a[1]] = "child" => call'[Latest(a[1])] = "handoff"
    BY <1>2, <2>1
  <2> QED BY <1>1, <1>4, <1>5, <1>7, <2>2, PlacesStay DEF IInv, PlaceFitsStep, Rows
<1>9. ModelsAnswer'
  <2> DEFINE r == a[1]
  <2>1. ASSUME pc[r] \in Ahead, Step(r).tool = "llm"
        PROVE  Answers(r)'
    <3>1. r \in Rows /\ r \in Runs
      BY <1>1, <2>1 DEF Rows, Ahead
    <3>2. Answers(r)
      BY <2>1, <3>1, Recorded DEF IInv, ModelsAnswer
    <3>3. Latest(r) \in Attempts /\ Latest(r) # a
      BY <3>1, <3>2, AnsweredLatest DEF Answers
    <3>4. Latest(r)' = Latest(r) /\ value'[r] = value[r]
      BY <1>1, <1>4, <3>1
    <3>5. call'[Latest(r)] = call[Latest(r)] /\ out'[Latest(r)] = out[Latest(r)]
      BY <1>2, <3>3
    <3> HIDE DEF r
    <3> QED BY <3>2, <3>4, <3>5 DEF Answers
  <2> QED BY <1>1, <1>5, <1>7, <2>1, OutputsStay
<1>10. ParentsFollowed'
  BY <1>1, <1>4, <1>5, ParentsFollow
<1>15. SpanIsWrittenOnce'
  BY <1>1, SpansStay
<1>11. QueueIsAwaited'
  <2>1. ASSUME NEW b \in Attempts, call'[b] = "queued" PROVE Awaited(b)'
    <3>1. call[b] = "queued" /\ Awaited(b) /\ b[1] \in Runs
      BY <1>2, <2>1, Bounds DEF IInv, QueueIsAwaited
    <3> QED BY <1>1, <1>4, <3>1 DEF Awaited
  <2> QED BY <2>1 DEF QueueIsAwaited
<1>12. AttemptsAreCounted'
  <2>1. \A q \in Runs : /\ pc'[q] = "start" => tries[q] <= Retries
                        /\ pc'[q] = "absent" => pc[q] = "absent"
    BY <1>1 DEF IInv, AttemptsAreCounted
  <2> QED BY <1>1, <1>3, <2>1, CountedStays
<1>13. PiecesInOrder'
  <2>1. ASSUME NEW b \in Attempts
        PROVE  /\ out'[b] = [i \in 1 .. Len(out'[b]) |-> i]
               /\ call'[b] \notin {"running", "ok"} => out'[b] = <<>>
               /\ at'[b] = IF call'[b] = "running" THEN Len(out'[b]) ELSE 0
    <3>1. CASE b = a
      BY <1>2, <3>1
    <3>2. CASE b # a
      <4>1. out'[b] = out[b] /\ at'[b] = at[b] /\ call'[b] = call[b]
        BY <1>2, <3>2
      <4>2. /\ out[b] = [i \in 1 .. Len(out[b]) |-> i]
            /\ call[b] \notin {"running", "ok"} => out[b] = <<>>
            /\ at[b] = IF call[b] = "running" THEN Len(out[b]) ELSE 0
        BY DEF IInv, PiecesInOrder
      <4> QED BY <4>1, <4>2
    <3> QED BY <3>1, <3>2
  <2> QED BY <2>1 DEF PiecesInOrder
<1>14. TypeOK'
  BY <1>1, <1>2 DEF IInv, TypeOK, CallStates
<1> QED BY <1>6, <1>8, <1>9, <1>10, <1>11, <1>12, <1>13, <1>14, <1>15, Parts

\* The head of the queue gets a thread.
LEMMA TakeStep ==
    ASSUME IInv, Take
    PROVE  IInv'
<1> DEFINE a == Head(line)
<1>1. /\ line # <<>> /\ call' = [call EXCEPT ![a] = "running"] /\ line' = Tail(line)
      /\ UNCHANGED <<rows, flow, out, at, http, memory, crashes>> /\ line \in Seq(Attempts)
  BY DEF Take, IInv, TypeOK
<1>2. /\ Len(line) \in Nat \ {0} /\ a \in Attempts /\ a = line[1] /\ line' \in Seq(Attempts)
      /\ Len(line') = Len(line) - 1 /\ \A i \in 1 .. Len(line) - 1 : line'[i] = line[i + 1]
  BY <1>1, HeadTailProperties, LenProperties, ElementOfSeq
<1>3. call[a] = "queued"
  BY <1>2 DEF IInv, QueueIsAwaited
<1> HIDE DEF a
<1>4. /\ out[a] = <<>> /\ at[a] = 0 /\ out[a] = [i \in 1 .. Len(out[a]) |-> i]
  BY <1>2, <1>3 DEF IInv, PiecesInOrder
<1>5. \A i \in 1 .. Len(line) : line[i] \in Attempts /\ call[line[i]] = "queued" /\ (i # 1 => line[i] # a)
  BY <1>1, <1>2, ElementOfSeq DEF IInv, QueueIsAwaited
<1>6. \A i \in 1 .. Len(line') : i + 1 \in 1 .. Len(line) /\ i + 1 # 1 /\ line'[i] = line[i + 1]
  BY <1>2
<1>7. \A i \in 1 .. Len(line') : call'[line'[i]] = "queued"
  BY <1>1, <1>2, <1>5, <1>6 DEF IInv, TypeOK
<1>8. \A i, j \in 1 .. Len(line') : line'[i] = line'[j] => i = j
  <2> SUFFICES ASSUME NEW i \in 1 .. Len(line'), NEW j \in 1 .. Len(line'), line'[i] = line'[j] PROVE i = j
    OBVIOUS
  <2>1. i + 1 \in 1 .. Len(line) /\ j + 1 \in 1 .. Len(line) /\ line[i + 1] = line[j + 1]
    BY <1>6
  <2>2. i + 1 = j + 1
    BY <2>1 DEF IInv, QueueIsAwaited
  <2> QED BY <2>2
<1>9. /\ \A b \in Attempts : b # a => out'[b] = out[b] /\ at'[b] = at[b]
      /\ out' \in [Attempts -> Seq(1 .. Pieces)] /\ at' \in [Attempts -> 0 .. Pieces]
      /\ http' \in [Attempts -> 0 .. HttpRetries]
      /\ out'[a] = <<>> /\ at'[a] = 0 /\ Len(out'[a]) = 0 /\ out'[a] = [i \in 1 .. Len(out'[a]) |-> i]
  BY <1>1, <1>4 DEF IInv, TypeOK
<1> QED BY <1>1, <1>2, <1>3, <1>7, <1>8, <1>9, CallStep

\* A running call publishes, repeats its request or ends.
LEMMA WorkStep ==
    ASSUME IInv, NEW a \in Attempts, Work(a)
    PROVE  IInv'
<1>1. call[a] = "running" /\ UNCHANGED <<rows, flow, line, memory, crashes>>
  BY DEF Work, Publish, Repeat, EndCall
<1>2. /\ out \in [Attempts -> Seq(1 .. Pieces)] /\ at \in [Attempts -> 0 .. Pieces] /\ at[a] = Len(out[a])
      /\ http \in [Attempts -> 0 .. HttpRetries] /\ line' \in Seq(Attempts) /\ line' = line
      /\ out[a] = [i \in 1 .. Len(out[a]) |-> i] /\ call \in [Attempts -> CallStates]
  BY <1>1 DEF IInv, TypeOK, PiecesInOrder, CallStates
<1>3. ASSUME NEW s \in {"running", "ok", "error"}, call' = [call EXCEPT ![a] = s]
      PROVE  /\ \A i \in 1 .. Len(line') : call'[line'[i]] = "queued"
             /\ \A i, j \in 1 .. Len(line') : line'[i] = line'[j] => i = j
  <2>1. \A i \in 1 .. Len(line) : line[i] \in Attempts /\ call[line[i]] = "queued" /\ line[i] # a
    BY <1>1, <1>2, ElementOfSeq DEF IInv, QueueIsAwaited
  <2> QED BY <1>2, <1>3, <2>1 DEF IInv, QueueIsAwaited
<1>4. CASE Publish(a)
  <2>1. /\ at[a] < Pieces /\ at' = [at EXCEPT ![a] = @ + 1] /\ out' = [out EXCEPT ![a] = Append(@, at[a] + 1)]
        /\ UNCHANGED <<call, http>>
    BY <1>4 DEF Publish
  <2>2. at[a] + 1 \in 1 .. Pieces /\ at[a] + 1 \in 0 .. Pieces /\ out[a] \in Seq(1 .. Pieces) /\ Len(out[a]) \in Nat
    BY <1>2, <2>1, Bounds, LenProperties
  <2>3. /\ at' \in [Attempts -> 0 .. Pieces] /\ out' \in [Attempts -> Seq(1 .. Pieces)]
        /\ at'[a] = at[a] + 1 /\ out'[a] = Append(out[a], at[a] + 1)
        /\ \A b \in Attempts : b # a => out'[b] = out[b] /\ at'[b] = at[b]
    BY <1>2, <2>1, <2>2, AppendProperties
  <2>4. Len(out'[a]) = Len(out[a]) + 1 /\ out'[a] = [i \in 1 .. Len(out'[a]) |-> i]
    <3> DEFINE o == out[a]
               e == at[a] + 1
    <3>1. o \in Seq(1 .. Pieces) /\ e \in 1 .. Pieces /\ Len(o) \in Nat /\ e = Len(o) + 1
          /\ \A i \in 1 .. Len(o) : o[i] = i
      BY <1>2, <2>2
    <3>2. out'[a] = Append(o, e)
      BY <2>3
    <3> HIDE DEF o, e
    <3>3. /\ Append(o, e) \in Seq(1 .. Pieces) /\ Len(Append(o, e)) = Len(o) + 1 /\ Append(o, e)[Len(o) + 1] = e
          /\ \A i \in 1 .. Len(o) : Append(o, e)[i] = o[i]
      BY <3>1, AppendProperties
    <3>4. \A i \in 1 .. Len(o) + 1 : Append(o, e)[i] = i
      BY <3>1, <3>3
    <3>5. Append(o, e) = [i \in 1 .. Len(Append(o, e)) |-> Append(o, e)[i]]
      BY <3>3, IsASeq, LenProperties
    <3> QED BY <3>2, <3>3, <3>4, <3>5 DEF o
  <2>5. call' = [call EXCEPT ![a] = "running"]
    BY <1>1, <1>2, <2>1
  <2>6. at'[a] = Len(out'[a]) /\ http' \in [Attempts -> 0 .. HttpRetries]
    BY <1>2, <2>1, <2>3, <2>4
  <2> QED BY <1>1, <1>2, <1>3, <2>3, <2>4, <2>5, <2>6, CallStep
<1>5. CASE Repeat(a)
  <2>1. /\ out[a] = <<>> /\ http[a] < HttpRetries /\ http' = [http EXCEPT ![a] = @ + 1]
        /\ at' = [at EXCEPT ![a] = 0] /\ UNCHANGED <<call, out>>
    BY <1>5 DEF Repeat, MayRepeat
  <2>2. /\ http' \in [Attempts -> 0 .. HttpRetries] /\ at' \in [Attempts -> 0 .. Pieces] /\ at'[a] = 0
        /\ \A b \in Attempts : b # a => out'[b] = out[b] /\ at'[b] = at[b]
    BY <1>2, <2>1, Bounds
  <2>3. call' = [call EXCEPT ![a] = "running"] /\ out'[a] = <<>> /\ Len(out'[a]) = 0
        /\ out' \in [Attempts -> Seq(1 .. Pieces)] /\ out'[a] = [i \in 1 .. Len(out'[a]) |-> i]
    BY <1>1, <1>2, <2>1
  <2> QED BY <1>1, <1>2, <1>3, <2>2, <2>3, CallStep
<1>6. ASSUME NEW outcome \in {"ok", "error"}, EndCall(a, outcome) PROVE IInv'
  <2> DEFINE s == IF outcome = "ok" /\ Awaited(a) THEN "ok" ELSE "error"
  <2>1. /\ call' = [call EXCEPT ![a] = s] /\ out' = [out EXCEPT ![a] = IF s = "ok" THEN @ ELSE <<>>]
        /\ at' = [at EXCEPT ![a] = 0] /\ http' = [http EXCEPT ![a] = 0] /\ s \in {"ok", "error"}
    BY <1>6 DEF EndCall
  <2> HIDE DEF s
  <2>2. /\ http' \in [Attempts -> 0 .. HttpRetries] /\ at' \in [Attempts -> 0 .. Pieces] /\ at'[a] = 0
        /\ \A b \in Attempts : b # a => out'[b] = out[b] /\ at'[b] = at[b]
    BY <1>2, <2>1, Bounds
  <2>3. <<>> \in Seq(1 .. Pieces) /\ <<>> = [i \in 1 .. Len(<<>>) |-> i]
    BY EmptySeq
  <2>4. /\ out' \in [Attempts -> Seq(1 .. Pieces)] /\ out'[a] = [i \in 1 .. Len(out'[a]) |-> i]
        /\ s = "error" => out'[a] = <<>>
    BY <1>2, <2>1, <2>3
  <2> QED BY <1>1, <1>2, <1>3, <2>1, <2>2, <2>4, CallStep
<1> QED BY <1>4, <1>5, <1>6 DEF Work

\* What a crash leaves: rows, attempts that were answered, and what they published.
LEMMA CrashStep ==
    ASSUME IInv, Crash
    PROVE  IInv'
<1>1. /\ crashes < MaxCrashes /\ crashes' = crashes + 1 /\ UNCHANGED <<rows, traced, value, memory>>
      /\ call' = [a \in Attempts |-> IF call[a] \in {"queued", "running", "handoff"} THEN "error" ELSE call[a]]
      /\ out' = [a \in Attempts |-> IF call[a] = "ok" THEN out[a] ELSE <<>>]
      /\ at' = [a \in Attempts |-> 0] /\ http' = at' /\ line' = <<>>
      /\ pc' = [r \in Runs |-> IF pc[r] \in Redone THEN "start" ELSE pc[r]]
      /\ tries' = [r \in Runs |-> IF pc[r] \in Redone THEN 0 ELSE tries[r]]
  BY DEF Crash
<1>2. \A a \in Attempts : call'[a] = "none" <=> call[a] = "none"
  BY <1>1
<1>3. \A r \in Runs : Begun(r)' = Begun(r) /\ Latest(r)' = Latest(r)
  BY <1>2, BegunStays
<1>4. \A r \in Runs : /\ pc[r] \notin Redone => pc'[r] = pc[r]
                      /\ pc[r] \in Redone => pc'[r] = "start"
                      /\ pc'[r] \in {"absent", "start", "advanced"} \cup AtRest
                      /\ pc'[r] = "absent" <=> pc[r] = "absent"
  BY <1>1, PlaceNames DEF IInv, TypeOK, Places
<1>5. RowsAreFirst' /\ \A r \in Runs : Step(r)' = Step(r)
  BY <1>1, <1>4, RowsStay DEF rows, Step
<1>6. AttemptsAreCounted'
  <2>1. ASSUME NEW r \in Runs
        PROVE  /\ \A a \in Attempts : a[1] = r => (call'[a] # "none" <=> a[2] <= Begun(r)')
               /\ Begun(r)' <= (Retries + 1) * crashes' + tries'[r]
               /\ pc'[r] = "start" => tries'[r] <= Retries
               /\ pc'[r] = "absent" => Begun(r)' = 0 /\ tries'[r] = 0
    <3>1. /\ \A a \in Attempts : a[1] = r => (call[a] # "none" <=> a[2] <= Begun(r))
          /\ Begun(r) <= (Retries + 1) * crashes + tries[r]
          /\ pc[r] = "start" => tries[r] <= Retries
          /\ pc[r] = "absent" => Begun(r) = 0 /\ tries[r] = 0
      BY DEF IInv, AttemptsAreCounted
    <3>2. crashes \in 0 .. MaxCrashes /\ tries[r] \in 0 .. Retries + 1 /\ Retries \in Nat
      BY Bounds DEF IInv, TypeOK
    <3>3. /\ (Retries + 1) * crashes \in Nat
          /\ (Retries + 1) * (crashes + 1) = (Retries + 1) * crashes + Retries + 1
      BY <1>1, <3>2, Room
    <3>4. Begun(r) \in 0 .. Total /\ Total \in Nat
      BY BegunFacts, Bounds
    <3> DEFINE before == (Retries + 1) * crashes
               after == (Retries + 1) * crashes'
    <3>5. before \in Nat /\ after = before + Retries + 1 /\ Begun(r) <= before + tries[r]
      BY <1>1, <3>1, <3>3
    <3> HIDE DEF before, after
    <3>6. Begun(r) <= after + tries'[r] /\ (pc'[r] = "start" => tries'[r] <= Retries)
      <4>1. CASE pc[r] \in Redone
        <5>1. tries'[r] = 0
          BY <1>1, <4>1
        <5> QED BY <3>2, <3>4, <3>5, <5>1
      <4>2. CASE pc[r] \notin Redone
        <5>1. tries'[r] = tries[r] /\ pc'[r] = pc[r]
          BY <1>1, <4>2
        <5> QED BY <3>1, <3>2, <3>4, <3>5, <5>1
      <4> QED BY <4>1, <4>2
    <3>7. pc'[r] = "absent" => tries'[r] = 0 /\ Begun(r) = 0
      BY <1>1, <1>4, <3>1, PlaceNames
    <3> QED BY <1>2, <1>3, <3>1, <3>6, <3>7 DEF after
  <2> QED BY <2>1 DEF AttemptsAreCounted
<1>7. PlaceFitsStep'
  <2>1. ASSUME NEW r \in Runs, pc'[r] \in {"call", "child", "written", "pausing", "waiting"}
        PROVE  pc'[r] = "waiting" /\ pc[r] = "waiting" /\ r \in Rows
    BY <1>4, <2>1, PlaceNames DEF Rows
  <2> QED BY <1>3, <1>5, <2>1 DEF IInv, PlaceFitsStep, Rows
<1>8. QueueIsAwaited'
  <2>1. \A a \in Attempts : call'[a] # "queued"
    BY <1>1
  <2>2. Len(line') = 0
    BY <1>1, EmptySeq
  <2> QED BY <2>1, <2>2 DEF QueueIsAwaited
<1>9. PiecesInOrder'
  <2>1. ASSUME NEW a \in Attempts
        PROVE  /\ out'[a] = [i \in 1 .. Len(out'[a]) |-> i]
               /\ call'[a] \notin {"running", "ok"} => out'[a] = <<>>
               /\ at'[a] = IF call'[a] = "running" THEN Len(out'[a]) ELSE 0
    <3>1. at'[a] = 0 /\ call'[a] # "running" /\ (call[a] = "ok" <=> call'[a] = "ok")
      BY <1>1
    <3>2. CASE call[a] = "ok"
      <4>1. out'[a] = out[a]
        BY <1>1, <3>2
      <4>2. out[a] = [i \in 1 .. Len(out[a]) |-> i]
        BY DEF IInv, PiecesInOrder
      <4> QED BY <3>1, <3>2, <4>1, <4>2
    <3>3. CASE call[a] # "ok"
      <4>1. out'[a] = <<>> /\ <<>> = [i \in 1 .. Len(<<>>) |-> i]
        BY <1>1, <3>3, EmptySeq
      <4> QED BY <3>1, <4>1
    <3> QED BY <3>2, <3>3
  <2> QED BY <2>1 DEF PiecesInOrder
<1>10. ModelsAnswer'
  <2>1. ASSUME NEW r \in Runs, pc'[r] \in Ahead, (Step(r).tool = "llm")'
        PROVE  Answers(r)'
    <3>1. r \in Rows /\ pc[r] \in Ahead
      BY <1>4, <2>1, PlaceNames DEF Rows, Ahead
    <3>2. Answers(r)
      BY <1>5, <2>1, <3>1, Recorded DEF IInv, ModelsAnswer
    <3>3. Latest(r) \in Attempts
      BY <3>2, AnsweredLatest
    <3>4. call'[Latest(r)] = "ok" /\ out'[Latest(r)] = out[Latest(r)]
      BY <1>1, <3>2, <3>3 DEF Answers
    <3> QED BY <1>1, <1>3, <3>2, <3>4 DEF Answers
  <2> QED BY <2>1 DEF ModelsAnswer, Rows
<1>11. ParentsFollowed'
  <2>1. ASSUME NEW r \in Runs, pc'[r] \in Ahead, (Step(r).tool = "handoff")'
        PROVE  \E c \in Runs : /\ origin'[c] = Latest(r)' /\ pc'[c] = "completed"
                               /\ value'[r] = value'[c]
    <3>1. r \in Rows /\ pc[r] \in Ahead /\ Step(r).tool = "handoff"
      BY <1>4, <1>5, <2>1, PlaceNames DEF Rows, Ahead
    <3>2. PICK c \in Rows : origin[c] = Latest(r) /\ pc[c] = "completed" /\ value[r] = value[c]
      BY <3>1, Recorded DEF IInv, ParentsFollowed, Follows
    <3>3. c \in Runs /\ pc'[c] = "completed"
      BY <1>4, <3>2, PlaceNames DEF Rows
    <3> QED BY <1>1, <1>3, <3>2, <3>3 DEF rows
  <2> QED BY <2>1 DEF ParentsFollowed, Follows, Rows
<1>13. SpanIsWrittenOnce'
  <2>1. crashes' > 0
    BY <1>1, Bounds DEF IInv, TypeOK
  <2> QED BY <1>1, <1>4, <2>1 DEF IInv, SpanIsWrittenOnce
<1>12. TypeOK'
  <2>1. pc' \in [Runs -> Places]
    BY <1>1, PlaceNames DEF IInv, TypeOK, Places
  <2>1a. tries' \in [Runs -> 0 .. Retries + 1]
    <3>1. tries \in [Runs -> 0 .. Retries + 1]
      BY DEF IInv, TypeOK
    <3>2. 0 \in 0 .. Retries + 1
      BY Bounds
    <3>3. tries' = [r \in Runs |-> IF pc[r] \in Redone THEN 0 ELSE tries[r]]
      BY <1>1
    <3> QED BY <3>1, <3>2, <3>3
  <2>2. call' \in [Attempts -> CallStates]
    BY <1>1 DEF IInv, TypeOK, CallStates
  <2>3. out' \in [Attempts -> Seq(1 .. Pieces)] /\ line' \in Seq(Attempts)
    BY <1>1, EmptySeq DEF IInv, TypeOK
  <2>4. at' \in [Attempts -> 0 .. Pieces] /\ http' \in [Attempts -> 0 .. HttpRetries]
    BY <1>1, Bounds
  <2>5. crashes' \in 0 .. MaxCrashes
    <3>1. crashes \in 0 .. MaxCrashes /\ crashes < MaxCrashes /\ crashes' = crashes + 1
      BY <1>1 DEF IInv, TypeOK
    <3>2. MaxCrashes \in Nat
      BY Bounds
    <3> QED BY <3>1, <3>2
  <2> QED BY <1>1, <2>1, <2>1a, <2>2, <2>3, <2>4, <2>5 DEF IInv, TypeOK, rows, CallStates, Places
<1> QED BY <1>5, <1>6, <1>7, <1>8, <1>9, <1>10, <1>11, <1>12, <1>13, Parts

(***************************************************************************)
(* The theorems                                                            *)
(***************************************************************************)
\* At first there is no row, and no attempt.
LEMMA Initial == Init => IInv
<1> SUFFICES ASSUME Init PROVE IInv
  OBVIOUS
<1>1. /\ \A r \in Runs : pc[r] = "absent" /\ tries[r] = 0
      /\ \A a \in Attempts : call[a] = "none" /\ out[a] = <<>> /\ at[a] = 0
      /\ line = <<>> /\ crashes = 0 /\ traced = {}
  BY DEF Init
<1>2. Rows = {}
  BY <1>1 DEF Rows
<1>3. TypeOK
  <2>1. workflow \in [Runs -> Workflows]
    BY BoundAssumption DEF Init
  <2>2. out \in [Attempts -> Seq(1 .. Pieces)] /\ line \in Seq(Attempts)
    BY EmptySeq DEF Init
  <2>3. 0 \in 0 .. Pieces /\ 0 \in 0 .. HttpRetries /\ 0 \in 0 .. Retries + 1 /\ 0 \in 0 .. MaxCrashes
    BY Bounds
  <2> QED BY <2>1, <2>2, <2>3 DEF Init, TypeOK
<1>4. AttemptsAreCounted
  <2>1. ASSUME NEW r \in Runs PROVE Begun(r) = 0
    <3>1. {a \in Attempts : a[1] = r /\ call[a] # "none"} = {}
      BY <1>1
    <3> QED BY <3>1, FS_EmptySet DEF Begun
  <2>2. \A a \in Attempts : ~(a[2] <= 0)
    BY Bounds
  <2>3. (Retries + 1) * 0 = 0 /\ 0 <= Retries
    BY Bounds
  <2> QED BY <1>1, <2>1, <2>2, <2>3 DEF AttemptsAreCounted
<1>5. RowsAreFirst
  <2>1. 0 \in 0 .. MaxRuns /\ Rows = 1 .. 0
    BY <1>2, Bounds
  <2> QED BY <1>2, <2>1 DEF RowsAreFirst
<1>6. QueueIsAwaited
  <2>1. Len(line) = 0
    BY <1>1, EmptySeq
  <2> QED BY <1>1, <2>1 DEF QueueIsAwaited
<1>7. PiecesInOrder
  <2>1. <<>> = [i \in 1 .. Len(<<>>) |-> i]
    BY EmptySeq
  <2> QED BY <1>1, <2>1 DEF PiecesInOrder
<1>8. PlaceFitsStep /\ OutputIsPublished /\ ParentFollowsChild /\ OutputIsRecorded
  BY <1>2 DEF PlaceFitsStep, OutputIsPublished, ParentFollowsChild, OutputIsRecorded
<1>9. SpanIsWrittenOnce
  BY <1>1 DEF SpanIsWrittenOnce
<1> QED BY <1>3, <1>4, <1>5, <1>6, <1>7, <1>8, <1>9 DEF IInv

\* IInv holds whatever runs, threads, clients, timeouts and crashes do.
THEOREM Invariance == Spec => []IInv
<1>1. Init => IInv
  BY Initial
<1>2. IInv /\ [Next]_vars => IInv'
  <2> SUFFICES ASSUME IInv, [Next]_vars PROVE IInv'
    OBVIOUS
  <2>1. CASE UNCHANGED vars
    <3>1. UNCHANGED <<rows, pc, tries, traced, value, call, out, at, http, line, memory, crashes>>
      BY <2>1 DEF vars, flow, calls
    <3>2. \A r \in Runs : Begun(r)' = Begun(r) /\ Latest(r)' = Latest(r) /\ Step(r)' = Step(r)
      BY <3>1, BegunStays DEF rows, Step
    <3>3. RowsAreFirst' /\ Rows' = Rows
      BY <3>1, RowsStay
    <3>4. AttemptsAreCounted'
      BY <3>1, CountedStays DEF IInv, AttemptsAreCounted
    <3>5. PiecesInOrder'
      BY <3>1, PiecesStay
    <3>6. TypeOK'
      BY <3>1 DEF IInv, TypeOK, rows
    <3>7. Rows \subseteq Runs /\ \A a \in Attempts : a[1] \in Runs
      BY RowFacts, Bounds
    <3>8. PlaceFitsStep'
      BY <3>1, <3>2, <3>3, <3>7 DEF IInv, PlaceFitsStep
    <3>9. ModelsAnswer'
      <4>1. ModelsAnswer
        BY Recorded DEF IInv
      <4> QED BY <3>1, <3>2, <3>3, <3>7, <4>1 DEF ModelsAnswer, Answers
    <3>10. ParentsFollowed'
      <4>1. ParentsFollowed
        BY Recorded DEF IInv
      <4> QED BY <3>1, <3>2, <3>3, <3>7, <4>1 DEF ParentsFollowed, Follows, rows
    <3>11. QueueIsAwaited'
      BY <3>1, <3>2, <3>7 DEF IInv, QueueIsAwaited, Awaited
    <3>12. SpanIsWrittenOnce'
      BY <3>1 DEF IInv, SpanIsWrittenOnce
    <3> QED BY <3>3, <3>4, <3>5, <3>6, <3>8, <3>9, <3>10, <3>11, <3>12, Parts
  <2>2. CASE StartRun \/ Take \/ Crash
    BY <2>2, StartRunStep, TakeStep, CrashStep
  <2>3. ASSUME NEW r \in Runs, Go(r) PROVE IInv'
    <3>1. CASE pc[r] = "call" /\ Work(Latest(r))
      <4>1. Latest(r) \in Attempts
        BY <3>1, BegunFacts DEF IInv, PlaceFitsStep, Rows
      <4> QED BY <3>1, <4>1, WorkStep
    <3>2. CASE ~(pc[r] = "call" /\ Work(Latest(r)))
      BY <2>3, <3>2, InvokeStep, PauseStep, WriteMemoryStep, ReadMemoryStep, HandoffStep,
         ChildReturnsStep, ReturnStep, TimeOutStep, AdvanceStep DEF Go
    <3> QED BY <3>1, <3>2
  <2>4. ASSUME NEW r \in Runs, Decide(r) PROVE IInv'
    BY <2>4, DecideStep
  <2>5. ASSUME NEW a \in OnThread, Work(a) PROVE IInv'
    BY <2>5, WorkStep DEF OnThread
  <2> QED BY <2>1, <2>2, <2>3, <2>4, <2>5 DEF Next
<1> QED BY <1>1, <1>2, PTL DEF Spec

\* Every variable keeps its type; in particular the retries of a step and the repeated
\* requests of a call stay within their limits.
THEOREM TypeCorrect == Spec => []TypeOK
<1>1. IInv => TypeOK
  BY DEF IInv
<1> QED BY <1>1, Invariance, PTL

\* _stream_request, _execute: a completed model step hands on the answer of its own last
\* attempt, and what was published for it is that answer, for any number of retries.
THEOREM Published == Spec => []OutputIsPublished
<1>1. IInv => OutputIsPublished
  BY DEF IInv
<1> QED BY <1>1, Invariance, PTL

\* _apply_agent_tool: a completed handoff hands on what its own completed child produced.
THEOREM OwnChild == Spec => []ParentFollowsChild
<1>1. IInv => ParentFollowsChild
  BY DEF IInv
<1> QED BY <1>1, Invariance, PTL

\* _execute, _record_span, recover_incomplete_runs: only the death of the process leaves a
\* run in "running" without a thread; no retry, timeout, handoff or decision does.
THEOREM StuckByCrash == Spec => [](\A r \in Runs : pc[r] = "stuck" => crashes > 0)
<1>1. IInv => \A r \in Runs : pc[r] = "stuck" => crashes > 0
  BY DEF IInv, SpanIsWrittenOnce
<1> QED BY <1>1, Invariance, PTL

\* future.cancel: what was given up in the queue never starts, for a pool of any size.
THEOREM NeverStarted == Spec => AbandonedNeverStarts
<1>1. IInv => [\A a \in Attempts : call[a] = "queued" /\ call'[a] = "running" => Awaited(a)]_vars
  BY DEF IInv, QueueIsAwaited
<1> QED BY <1>1, Invariance, PTL DEF AbandonedNeverStarts

\* Every set of natural numbers has a smallest one.
LEMMA SmallestIn ==
    ASSUME NEW S \in SUBSET Nat, S # {}
    PROVE  \E m \in S : \A k \in S : m <= k
<1>1. PICK m \in S : \A k \in S : ~(<<k, m>> \in OpToRel(<, Nat))
  BY NatLessThanWellFounded, WFMin
<1>2. ASSUME NEW k \in S PROVE m <= k
  <2>1. SUFFICES ASSUME k < m PROVE FALSE
    OBVIOUS
  <2>2. <<k, m>> \in Nat \X Nat
    OBVIOUS
  <2>3. <<k, m>> \in OpToRel(<, Nat)
    BY <2>1, <2>2 DEF OpToRel
  <2> QED BY <1>1, <2>3
<1> QED BY <1>2

\* All runs on a way down to a run are in its ancestry.
LEMMA WayIsAncestry ==
    ASSUME NEW n \in Nat \ {0}, NEW way \in [1 .. n -> Rows],
           \A i \in 2 .. n : parent[way[i]] = way[i - 1],
           NEW S \in SUBSET Rows, way[n] \in S, \A x \in S : parent[x] \in S \cup {NoRun},
           NoRun \notin Rows
    PROVE  \A i \in 1 .. n : way[i] \in S
<1> DEFINE Out == {d \in 0 .. n - 1 : way[n - d] \notin S}
<1>1. SUFFICES ASSUME Out # {} PROVE FALSE
  <2>1. ASSUME NEW i \in 1 .. n, way[i] \notin S PROVE Out # {}
    <3>1. n - i \in 0 .. n - 1 /\ n - (n - i) = i
      OBVIOUS
    <3> QED BY <2>1, <3>1
  <2> QED BY <2>1
<1>2. Out \in SUBSET Nat
  OBVIOUS
<1> HIDE DEF Out
<1>3. PICK d \in Out : \A k \in Out : d <= k
  BY <1>1, <1>2, SmallestIn
<1>4. d \in 0 .. n - 1 /\ way[n - d] \notin S
  BY <1>3 DEF Out
<1>5. d # 0
  <2>1. n - 0 = n
    OBVIOUS
  <2> QED BY <1>4, <2>1
<1>6. d - 1 \in 0 .. n - 1 /\ n - (d - 1) \in 2 .. n /\ n - (d - 1) - 1 = n - d /\ n - d \in 1 .. n
  BY <1>4, <1>5
<1>7. way[n - (d - 1)] \in S
  <2>1. SUFFICES ASSUME way[n - (d - 1)] \notin S PROVE FALSE
    OBVIOUS
  <2>2. d - 1 \in Out
    BY <1>6, <2>1 DEF Out
  <2>3. d <= d - 1
    BY <1>3, <2>2
  <2> QED BY <1>4, <2>3
<1>8. parent[way[n - (d - 1)]] = way[n - d]
  BY <1>6
<1>9. way[n - d] \in Rows
  BY <1>6
<1> QED BY <1>4, <1>7, <1>8, <1>9

\* _apply_agent_tool, _workflow_ancestry: no handoff starts a workflow that is on the way
\* down to it, however long that way is and whether handoffs, replays or clients that name
\* a parent have made it.
THEOREM NoHandoffLoop == Spec => []HandoffsDoNotLoop
<1>1. IInv => HandoffsDoNotLoop
  <2> SUFFICES ASSUME IInv,
                      NEW n \in 2 .. Cardinality(Rows), NEW way \in [1 .. n -> Rows],
                      \A i \in 2 .. n : parent[way[i]] = way[i - 1], origin[way[n]] # Nothing,
                      NEW i \in 1 .. n - 1
               PROVE  workflow[way[i]] # workflow[way[n]]
    BY DEF HandoffsDoNotLoop
  <2>1. n \in Nat /\ n - 1 \in Nat \ {0} /\ n \in 1 .. n /\ i \in 1 .. n /\ 1 .. n - 1 \subseteq 1 .. n /\ n \in 2 .. n
    <3>1. Cardinality(Rows) \in 0 .. MaxRuns /\ MaxRuns \in Nat
      BY RowFacts, Bounds
    <3> QED BY <3>1
  <2>2. way[n] \in Rows /\ way[n - 1] \in Rows /\ way[i] \in Rows /\ parent[way[n]] = way[n - 1]
    BY <2>1
  <2>3. workflow[way[n]] \notin Ancestry(way[n - 1])
    BY <2>2 DEF IInv, RowsAreFirst
  <2> DEFINE up == [j \in 1 .. n - 1 |-> way[j]]
  <2>4. up \in [1 .. n - 1 -> Rows] /\ up[n - 1] = way[n - 1] /\ up[i] = way[i]
    BY <2>1
  <2>5. \A j \in 2 .. n - 1 : parent[up[j]] = up[j - 1]
    BY <2>1
  <2>6. NoRun \notin Rows
    BY RowFacts, Bounds
  <2> HIDE DEF up
  <2>7. ASSUME NEW S \in SUBSET Rows, way[n - 1] \in S, \A x \in S : parent[x] \in S \cup {NoRun}
        PROVE  way[i] \in S
    BY <2>1, <2>4, <2>5, <2>6, <2>7, WayIsAncestry
  <2>8. workflow[way[i]] \in Ancestry(way[n - 1])
    BY <2>2, <2>7 DEF Ancestry
  <2> QED BY <2>3, <2>8
<1> QED BY <1>1, Invariance, PTL
=============================================================================
