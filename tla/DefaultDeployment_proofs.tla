----------------------- MODULE DefaultDeployment_proofs -----------------------
(***************************************************************************)
(* Proofs about RunEngine in the default deployment: one process with the  *)
(* in-process pool, and either no gate in any workflow or one client at a  *)
(* time and approvals that do not expire.  Whatever the number of runs,    *)
(* steps, workers, retries and crashes, a run has one owner at most: a     *)
(* place in the queue or in recovery's backlog, a thread that submits,     *)
(* claims or executes it, or its pending approval.                         *)
(***************************************************************************)
EXTENDS RunEngine_proofs

DefaultDeployment ==
    /\ ~Durable /\ ~Separate
    /\ Approvals # {} => Expiring = {} /\ \A t, u \in Requests : t = u

(***************************************************************************)
(* The inductive invariant                                                 *)
(***************************************************************************)
\* The value a step is handed: the output of the span before it.
Handed(r, i) == IF i = 0 THEN Input ELSE spanOut[r][i - 1]

\* The labels of a thread that has a run to itself.
Holding == Executing \cup {"submit", "claim"}

Holds(t, r)  == pc[t] \in Holding /\ job[t] = r
Decides(t, r) == pc[t] \in Deciding /\ job[t] = r
InLine(r) == \E n \in 1 .. Len(queue) : queue[n] = r

OneOwner ==
    /\ \A t, u \in Threads : \A r \in Runs : Holds(t, r) /\ Holds(u, r) => t = u
    /\ \A t \in Threads : \A r \in Runs : Holds(t, r) => ~InLine(r) /\ r \notin backlog
    /\ \A r \in Runs : InLine(r) => r \notin backlog
    /\ \A m, n \in 1 .. Len(queue) : queue[m] = queue[n] => m = n

\* What the row of a run can be while a thread has it.
ThreadFits(t) ==
    /\ pc[t] \in Executing => status[job[t]] \in {"running", "cancelled"}
    /\ pc[t] \in {"submit", "claim"} => status[job[t]] \in {"queued", "cancelled"}
    /\ pc[t] \in Deciding => pc[t] # "lapse" /\ approval[job[t]][idx[t]] = "pending"
    /\ pc[t] \in Deciding \cup {"submit", "cancel"} => t \in Requests
    /\ pc[t] \in AtStep \cup {"mark", "finish"} =>
         idx[t] = step[job[t]] /\ val[t] = Handed(job[t], idx[t])
    /\ pc[t] = "advance" => spanOut[job[t]][idx[t]] = Out(idx[t])
    /\ pc[t] = "pause_row" => spanOut[job[t]][idx[t]] = val[t]

\* A run that waits has a pending approval at its step, and only such a run has one.
GateFits(r) ==
    /\ status[r] = "waiting_approval" => step[r] < N /\ approval[r][step[r]] = "pending"
    /\ \A i \in Steps : approval[r][i] = "pending" =>
         /\ status[r] = "waiting_approval" /\ step[r] = i
         /\ span[r][i] = "waiting" /\ spanOut[r][i] = output[r]

\* The trace has no gap, each span has what the one before it hands on, and so has the row.
TraceFits(r) ==
    /\ output[r] = Handed(r, step[r])
    /\ status[r] = "completed" => step[r] = N
    /\ \A i \in Steps : span[r][i] # "none" => Behind(r, i) /\ spanIn[r][i] = Handed(r, i)

QueueFits(r) ==
    /\ InLine(r) => status[r] \in {"queued", "cancelled"}
    /\ r \in backlog /\ phase = "resubmit" => status[r] = "queued"
    /\ status[r] = "queued" =>
         \/ InLine(r) \/ r \in backlog \/ phase \in {"down", "select"}
         \/ \E t \in Threads : job[t] = r /\ pc[t] \in {"submit", "claim"}

RunFits(r) == GateFits(r) /\ TraceFits(r) /\ QueueFits(r)

\* Clients are served behind recovery, and nothing runs before recovery submits it.
PhaseFits ==
    /\ phase # "up" => \A t \in Requests : pc[t] = "idle"
    /\ phase \in {"down", "select", "update"} => queue = <<>> /\ \A t \in Threads : pc[t] = "idle"
    /\ phase \in {"down", "select", "up"} => backlog = {}
    /\ phase = "update" => backlog = Incomplete

NothingExpires == overdue = {} /\ lapsing = {} /\ sweep = "idle"

Owned ==
    /\ OneOwner /\ PhaseFits /\ NothingExpires
    /\ \A t \in Threads : ThreadFits(t)
    /\ \A r \in Runs : RunFits(r)

(***************************************************************************)
(* Shapes of a step                                                        *)
(***************************************************************************)
\* The rows of a run stay as they are.
RowKept(q) ==
    /\ status'[q] = status[q] /\ step'[q] = step[q] /\ output'[q] = output[q]
    /\ span'[q] = span[q] /\ spanIn'[q] = spanIn[q] /\ spanOut'[q] = spanOut[q]
    /\ approval'[q] = approval[q]

\* The threads other than t stay where they are, with all their locals.
OthersStay(t) ==
    \A u \in Threads \ {t} :
      pc'[u] = pc[u] /\ job'[u] = job[u] /\ idx'[u] = idx[u] /\ val'[u] = val[u]

\* Nobody but t has a run, or decides about it.
Solo(t, r) == \A u \in Threads \ {t} : ~Holds(u, r) /\ ~Decides(u, r)

\* The phases in which t can do something.
Awake(t) == phase \in {"resubmit", "up"} /\ (t \in Requests => phase = "up")

\* Labels and phases, by their parts.
LEMMA HoldingSet ==
    Holding = {"read", "mark", "finish", "check", "over_budget", "denied", "pause",
               "pause_row", "invoke", "recheck_ok", "recheck_error", "record_ok",
               "record_error", "mark_failed", "advance", "submit", "claim"}
BY DEF Holding, Executing, AtStep

LEMMA AwakeThread ==
    ASSUME IInv, Owned, NEW t \in Threads, pc[t] # "idle"
    PROVE  Awake(t)
BY DEF Owned, PhaseFits, Awake, IInv, TypeOK, Phases

\* Where there is an approval to decide, there is one client.
LEMMA OneClient ==
    ASSUME DefaultDeployment, IInv, NEW r \in Runs, NEW i \in Steps, approval[r][i] # "none",
           NEW t \in Requests, NEW u \in Requests
    PROVE  t = u
<1>1. <<r, i>> \in Approvals
  BY DEF IInv, ApprovalHasSpan
<1> QED BY <1>1 DEF DefaultDeployment

\* So who decides is the only client.
LEMMA OnlyDecider ==
    ASSUME DefaultDeployment, IInv, Owned, NEW t \in Threads, pc[t] \in Deciding,
           NEW u \in Requests
    PROVE  u = t
<1>1. ThreadFits(t) /\ ThreadOK(t)
  BY DEF IInv, Owned
<1>2. /\ job[t] \in Runs /\ idx[t] \in Steps /\ approval[job[t]][idx[t]] = "pending"
      /\ t \in Requests
  BY <1>1 DEF ThreadFits, ThreadOK, HasWork, Deciding
<1> QED BY <1>2, OneClient

\* Who has a run, or decides about it, is alone with it.
LEMMA OwnerIsSolo ==
    ASSUME DefaultDeployment, IInv, Owned, NEW t \in Threads, NEW r \in Runs,
           Holds(t, r) \/ Decides(t, r)
    PROVE  Solo(t, r) /\ ~InLine(r) /\ r \notin backlog
<1>1. ASSUME NEW u \in Threads, Decides(u, r)
      PROVE  status[r] = "waiting_approval" /\ u \in Requests
  <2>1. ThreadFits(u) /\ ThreadOK(u) /\ GateFits(r)
    BY DEF IInv, Owned, RunFits
  <2>2. pc[u] \in Deciding /\ job[u] = r /\ idx[u] \in Steps
    BY <1>1, <2>1 DEF Decides, ThreadOK, HasWork
  <2> QED BY <2>1, <2>2 DEF ThreadFits, GateFits
<1>2. ASSUME NEW u \in Threads, Holds(u, r) PROVE status[r] # "waiting_approval"
  BY <1>2 DEF Owned, ThreadFits, Holds, Holding
<1>3. CASE Holds(t, r)
  BY <1>1, <1>2, <1>3 DEF Solo, Owned, OneOwner
<1>4. CASE Decides(t, r)
  <2>1. Solo(t, r)
    BY <1>1, <1>2, <1>4, OnlyDecider DEF Solo, Decides
  <2>2. ~InLine(r)
    BY <1>1, <1>4 DEF Owned, RunFits, QueueFits
  <2>3. pc[t] # "idle"
    BY <1>4 DEF Decides, Deciding
  <2>4. phase = "up"
    BY <1>1, <1>4, <2>3, AwakeThread DEF Awake
  <2> QED BY <2>1, <2>2, <2>4 DEF Owned, PhaseFits
<1> QED BY <1>3, <1>4

\* A thread that does not move, and whose run's rows stay, still fits.
LEMMA FitsBystander ==
    ASSUME IInv, NEW u \in Threads, ThreadFits(u),
           pc'[u] = pc[u], job'[u] = job[u], idx'[u] = idx[u], val'[u] = val[u],
           pc[u] \in Holding \cup Deciding => RowKept(job[u])
    PROVE  ThreadFits(u)'
<1>1. CASE pc[u] \in Holding \cup Deciding
  <2>1. RowKept(job[u])
    BY <1>1
  <2>2. Handed(job[u], idx[u])' = Handed(job[u], idx[u])
    BY <2>1 DEF Handed, RowKept
  <2> QED BY <2>1, <2>2 DEF ThreadFits, RowKept
<1>2. CASE pc[u] \notin Holding \cup Deciding
  BY <1>2 DEF ThreadFits, Holding, Executing, AtStep
<1> QED BY <1>1, <1>2

\* So does a run whose rows stay.
LEMMA RunBystander ==
    ASSUME IInv, NEW q \in Runs, GateFits(q), TraceFits(q), RowKept(q)
    PROVE  GateFits(q)' /\ TraceFits(q)'
<1>1. GateFits(q)'
  BY DEF GateFits, RowKept
<1>2. \A i : Handed(q, i)' = Handed(q, i) /\ Behind(q, i)' = Behind(q, i)
  BY DEF Handed, Behind, RowKept
<1>3. TraceFits(q)'
  BY <1>2 DEF TraceFits, RowKept
<1> QED BY <1>1, <1>3

\* One thread works on a run that it alone has, or takes it.
LEMMA OwnerStep ==
    ASSUME IInv, Owned, NEW t \in Threads, NEW r \in Runs, Awake(t), Solo(t, r),
           \A q \in Runs \ {r} : RowKept(q), OthersStay(t),
           UNCHANGED <<queue, phase, backlog, overdue, lapsing, sweep>>,
           pc[t] \in {"submit", "claim"} => job[t] = r,
           pc'[t] \in Holding \cup Deciding => job'[t] = r,
           pc'[t] \in Holding => ~InLine(r) /\ r \notin backlog,
           ThreadFits(t)', GateFits(r)', TraceFits(r)', QueueFits(r)'
    PROVE  Owned'
<1>1. ASSUME NEW u \in Threads PROVE ThreadFits(u)'
  <2>1. CASE u = t
    BY <2>1
  <2>2. CASE u # t
    <3>1. ThreadFits(u) /\ HasWork(u)
      BY DEF Owned, IInv, ThreadOK
    <3>2. pc[u] \in Holding \cup Deciding => job[u] \in Runs \ {r}
      BY <2>2, <3>1 DEF HasWork, Solo, Holds, Decides, Holding, Executing, AtStep, Deciding
    <3> QED BY <2>2, <3>1, <3>2, FitsBystander DEF OthersStay
  <2> QED BY <2>1, <2>2
<1>2. ASSUME NEW q \in Runs PROVE RunFits(q)'
  <2>1. CASE q = r
    BY <2>1 DEF RunFits
  <2>2. CASE q # r
    <3>1. GateFits(q)' /\ TraceFits(q)'
      BY <2>2, RunBystander DEF Owned, RunFits
    <3>2. QueueFits(q)'
      <4>1. QueueFits(q) /\ RowKept(q)
        BY <2>2 DEF Owned, RunFits
      <4>2. InLine(q)' = InLine(q)
        BY DEF InLine
      <4>3. ASSUME NEW u \in Threads, job[u] = q, pc[u] \in {"submit", "claim"}
            PROVE  job'[u] = q /\ pc'[u] \in {"submit", "claim"}
        BY <2>2, <4>3 DEF OthersStay
      <4> QED BY <4>1, <4>2, <4>3 DEF QueueFits, RowKept
    <3> QED BY <3>1, <3>2 DEF RunFits
  <2> QED BY <2>1, <2>2
<1>3. OneOwner'
  <2>1. ASSUME NEW u \in Threads, NEW q \in Runs, u # t
        PROVE  Holds(u, q)' = Holds(u, q)
    BY <2>1 DEF OthersStay, Holds
  <2>2. \A q \in Runs : Holds(t, q)' => q = r /\ ~InLine(r) /\ r \notin backlog
    BY DEF Holds
  <2>3. \A q \in Runs : InLine(q)' = InLine(q)
    BY DEF InLine
  <2> QED BY <2>1, <2>2, <2>3 DEF Owned, OneOwner, Solo
<1>4. PhaseFits'
  BY DEF Awake, Owned, PhaseFits, OthersStay, Threads
<1>5. NothingExpires'
  BY DEF Owned, NothingExpires
<1> QED BY <1>1, <1>2, <1>3, <1>4, <1>5 DEF Owned

\* One thread lets go of its run, or does something that needs none.
LEMMA FreeStep ==
    ASSUME IInv, Owned, NEW t \in Threads, Awake(t), OthersStay(t),
           UNCHANGED <<status, step, output, span, spanIn, spanOut, approval>>,
           UNCHANGED <<queue, phase, backlog, overdue, lapsing, sweep>>,
           pc[t] \in {"submit", "claim"} => status[job[t]] # "queued",
           pc'[t] \notin Holding \cup Deciding, pc'[t] = "cancel" => t \in Requests
    PROVE  Owned'
<1>1. ASSUME NEW u \in Threads PROVE ThreadFits(u)'
  <2>1. CASE u = t
    BY <2>1 DEF ThreadFits, Holding, Executing, AtStep
  <2>2. CASE u # t
    <3>1. ThreadFits(u) /\ RowKept(job[u])
      BY DEF Owned, RowKept
    <3> QED BY <2>2, <3>1, FitsBystander DEF OthersStay
  <2> QED BY <2>1, <2>2
<1>2. ASSUME NEW q \in Runs PROVE RunFits(q)'
  <2>1. GateFits(q)' /\ TraceFits(q)'
    BY RunBystander DEF Owned, RunFits, RowKept
  <2>2. QueueFits(q)'
    <3>1. QueueFits(q)
      BY DEF Owned, RunFits
    <3>2. InLine(q)' = InLine(q)
      BY DEF InLine
    <3>3. ASSUME NEW u \in Threads, job[u] = q, pc[u] \in {"submit", "claim"}, status[q] = "queued"
          PROVE  job'[u] = q /\ pc'[u] \in {"submit", "claim"}
      BY <3>3 DEF OthersStay
    <3> QED BY <3>1, <3>2, <3>3 DEF QueueFits
  <2> QED BY <2>1, <2>2 DEF RunFits
<1>3. OneOwner'
  <2>1. ASSUME NEW u \in Threads, NEW q \in Runs PROVE Holds(u, q)' => Holds(u, q)
    BY DEF OthersStay, Holds
  <2>2. \A q \in Runs : InLine(q)' = InLine(q)
    BY DEF InLine
  <2> QED BY <2>1, <2>2 DEF Owned, OneOwner
<1>4. PhaseFits'
  BY DEF Awake, Owned, PhaseFits, OthersStay, Threads
<1>5. NothingExpires'
  BY DEF Owned, NothingExpires
<1> QED BY <1>1, <1>2, <1>3, <1>4, <1>5 DEF Owned

\* What is known of a thread that has a run.
LEMMA OwnerHasRun ==
    ASSUME IInv, NEW t \in Threads, pc[t] \in Holding \cup Deciding
    PROVE  job[t] \in Runs
<1>1. pc[t] # "idle" /\ pc[t] # "dead"
  BY HoldingSet DEF Deciding
<1> QED BY <1>1 DEF IInv, ThreadOK, HasWork

LEMMA OwnerKnows ==
    ASSUME DefaultDeployment, IInv, Owned, NEW t \in Threads, NEW r \in Runs, job[t] = r,
           pc[t] \in Holding \cup Deciding
    PROVE  /\ Awake(t) /\ Solo(t, r) /\ ~InLine(r) /\ r \notin backlog
           /\ TypeOK /\ ThreadOK(t) /\ ThreadFits(t)
           /\ GateFits(r) /\ TraceFits(r) /\ QueueFits(r)
<1>1. pc[t] # "idle"
  BY HoldingSet DEF Deciding
<1>2. Holds(t, r) \/ Decides(t, r)
  BY DEF Holds, Decides
<1> QED BY <1>1, <1>2, AwakeThread, OwnerIsSolo DEF IInv, Owned, RunFits

\* A step within _execute or a decision.
LEMMA WorkStep ==
    ASSUME DefaultDeployment, IInv, Owned, NEW t \in Threads, NEW r \in Runs, job[t] = r,
           pc[t] \in Holding \cup Deciding,
           pc'[t] \in Holding \cup Deciding => job'[t] = r,
           \A q \in Runs \ {r} : RowKept(q), OthersStay(t),
           UNCHANGED <<queue, phase, backlog, overdue, lapsing, sweep>>,
           status'[r] # "queued", ThreadFits(t)', GateFits(r)', TraceFits(r)'
    PROVE  Owned'
<1>1. Awake(t) /\ Solo(t, r) /\ ~InLine(r) /\ r \notin backlog
  BY OwnerKnows
<1>2. InLine(r)' = InLine(r)
  BY DEF InLine
<1>3. QueueFits(r)'
  BY <1>1, <1>2 DEF QueueFits
<1> QED BY <1>1, <1>3, OwnerStep

\* A handler that returns, or dies.
LEMMA ReturnStep ==
    ASSUME IInv, Owned, NEW t \in Threads, pc[t] # "idle",
           NEW label \in {"idle", "dead"}, Leave(t, label),
           UNCHANGED <<status, step, output, span, spanIn, spanOut, approval>>,
           UNCHANGED <<queue, phase, backlog, overdue, lapsing, sweep>>,
           pc[t] \in {"submit", "claim"} => status[job[t]] # "queued"
    PROVE  Owned'
<1>1. OthersStay(t) /\ pc'[t] = label
  BY DEF IInv, TypeOK, Leave, Goto, OthersStay
<1>2. pc'[t] \notin Holding \cup Deciding /\ pc'[t] # "cancel"
  BY <1>1, HoldingSet DEF Deciding
<1> QED BY <1>1, <1>2, AwakeThread, FreeStep

\* A step of an executor that writes no row.
LEMMA MoveStep ==
    ASSUME DefaultDeployment, IInv, Owned, NEW t \in Threads, pc[t] \in Executing,
           job'[t] = job[t], OthersStay(t),
           UNCHANGED <<status, step, output, span, spanIn, spanOut, approval>>,
           UNCHANGED <<queue, phase, backlog, overdue, lapsing, sweep>>,
           ThreadFits(t)'
    PROVE  Owned'
<1>1. pc[t] \in Holding
  BY DEF Holding
<1>2. PICK r \in Runs : job[t] = r
  BY <1>1, OwnerHasRun
<1>3. GateFits(r) /\ TraceFits(r) /\ status[r] # "queued" /\ \A q \in Runs : RowKept(q)
  BY <1>1, <1>2, OwnerKnows DEF ThreadFits, RowKept
<1>4. GateFits(r)' /\ TraceFits(r)'
  BY <1>3, RunBystander
<1> QED BY <1>1, <1>2, <1>3, <1>4, WorkStep

\* A step of an executor that sets the status, to other than "completed".
LEMMA StatusStep ==
    ASSUME DefaultDeployment, IInv, Owned, NEW t \in Threads,
           pc[t] \in Executing \cup {"claim"}, OthersStay(t),
           pc'[t] \in Holding \cup Deciding => job'[t] = job[t],
           NEW s \in {"running", "failed"}, status' = [status EXCEPT ![job[t]] = s],
           UNCHANGED <<step, output, span, spanIn, spanOut, approval>>,
           UNCHANGED <<queue, phase, backlog, overdue, lapsing, sweep>>,
           ThreadFits(t)'
    PROVE  Owned'
<1>1. pc[t] \in Holding
  BY DEF Holding
<1>2. PICK r \in Runs : job[t] = r
  BY <1>1, OwnerHasRun
<1>3. GateFits(r) /\ TraceFits(r) /\ ThreadFits(t) /\ TypeOK
  BY <1>1, <1>2, OwnerKnows
<1>4. status'[r] = s /\ \A q \in Runs \ {r} : RowKept(q)
  BY <1>2, <1>3 DEF TypeOK, RowKept
<1>5. GateFits(r)'
  BY <1>2, <1>3, <1>4 DEF GateFits, ThreadFits
<1>6. TraceFits(r)'
  BY <1>3, <1>4 DEF TraceFits, Handed, Behind
<1> QED BY <1>1, <1>2, <1>4, <1>5, <1>6, WorkStep

(***************************************************************************)
(* Each action keeps the invariant                                         *)
(***************************************************************************)
\* Nobody has a run that is not there, or that a terminal row describes.
LEMMA NobodyHas ==
    ASSUME IInv, Owned, NEW r \in Runs, status[r] = "none"
    PROVE  /\ \A u \in Threads : ~Holds(u, r) /\ ~Decides(u, r)
           /\ ~InLine(r) /\ \A i \in Steps : approval[r][i] # "pending"
<1>1. \A i \in Steps : approval[r][i] # "pending"
  BY DEF Owned, RunFits, GateFits
<1>2. ASSUME NEW u \in Threads PROVE ~Holds(u, r) /\ ~Decides(u, r)
  <2>1. ThreadFits(u) /\ HasWork(u)
    BY DEF Owned, IInv, ThreadOK
  <2> QED BY <1>1, <2>1 DEF ThreadFits, HasWork, Holds, Decides, Holding, Deciding
<1> QED BY <1>1, <1>2 DEF Owned, RunFits, QueueFits

\* start_run in either form: the new run is the request's own.
LEMMA StartOwned ==
    ASSUME DefaultDeployment, IInv, Owned, NEW t \in Threads, NEW r \in Runs,
           StartSync(t, r) \/ StartQueued(t, r)
    PROVE  Owned'
<1>1. /\ UNCHANGED <<step, output, span, spanIn, spanOut, approval, idx, val>>
      /\ UNCHANGED <<queue, phase, backlog, overdue, lapsing, sweep>>
      /\ Serving /\ pc[t] = "idle" /\ t \in Requests /\ status[r] = "none"
      /\ pc' \in {[pc EXCEPT ![t] = "read"], [pc EXCEPT ![t] = "submit"]}
      /\ job' = [job EXCEPT ![t] = r]
      /\ status' = [status EXCEPT ![r] = IF pc'[t] = "read" THEN "running" ELSE "queued"]
  BY DEF StartSync, StartQueued, Goto, Quiet, runRow, spanRow, approvalRow, procVars,
         sweepVars, locals, IInv, TypeOK
<1>2. /\ OthersStay(t) /\ job'[t] = r /\ pc'[t] \in {"read", "submit"}
      /\ status'[r] = (IF pc'[t] = "read" THEN "running" ELSE "queued")
      /\ \A q \in Runs \ {r} : RowKept(q)
  BY <1>1 DEF IInv, TypeOK, OthersStay, RowKept
<1>3. phase = "up" /\ Awake(t) /\ r \notin backlog
  BY <1>1 DEF Serving, DefaultDeployment, Awake, Owned, PhaseFits
<1>4. Solo(t, r) /\ ~InLine(r) /\ \A i \in Steps : approval[r][i] # "pending"
  BY <1>1, NobodyHas DEF Solo
<1>5. ThreadFits(t)'
  BY <1>1, <1>2 DEF ThreadFits, Executing, Deciding, AtStep
<1>6. GateFits(r)'
  BY <1>1, <1>2, <1>4 DEF GateFits
<1>7. TraceFits(r)'
  BY <1>1, <1>2 DEF Owned, RunFits, TraceFits, Handed, Behind
<1>8. QueueFits(r)'
  BY <1>1, <1>2, <1>3, <1>4 DEF QueueFits, InLine
<1> QED BY <1>1, <1>2, <1>3, <1>4, <1>5, <1>6, <1>7, <1>8, OwnerStep

LEMMA CancelReadOwned ==
    ASSUME DefaultDeployment, IInv, Owned, NEW t \in Threads, NEW r \in Runs,
           CancelRead(t, r) \/ \E i \in Steps : Escalate(t, r, i)
    PROVE  Owned'
<1>1. /\ UNCHANGED <<status, step, output, span, spanIn, spanOut, approval, idx, val>>
      /\ UNCHANGED <<queue, phase, backlog, overdue, lapsing, sweep>>
      /\ Serving /\ pc[t] = "idle" /\ t \in Requests
      /\ pc' \in {[pc EXCEPT ![t] = "cancel"], [pc EXCEPT ![t] = "approval.escalated"]}
      /\ job' = [job EXCEPT ![t] = r]
  BY DEF CancelRead, Escalate, Goto, Quiet, runRow, spanRow, approvalRow, procVars,
         sweepVars, locals
<1>2. OthersStay(t) /\ pc'[t] \in {"cancel", "approval.escalated"}
  BY <1>1 DEF IInv, TypeOK, OthersStay
<1>3. Awake(t)
  BY <1>1 DEF Serving, DefaultDeployment, Awake
<1> QED BY <1>1, <1>2, <1>3, HoldingSet, FreeStep DEF Deciding

\* decide_approval: who reads a pending approval is the only one to decide it.
LEMMA DecideReadOwned ==
    ASSUME DefaultDeployment, IInv, Owned, NEW t \in Threads, NEW r \in Runs, NEW i \in Steps,
           NEW verdict \in {"approve", "edit", "reject"}, DecideRead(t, r, i, verdict)
    PROVE  Owned'
<1>1. /\ UNCHANGED <<status, step, output, span, spanIn, spanOut, approval, val>>
      /\ UNCHANGED <<queue, phase, backlog, overdue, lapsing, sweep>>
      /\ Serving /\ pc[t] = "idle" /\ t \in Requests /\ approval[r][i] = "pending"
      /\ pc' = [pc EXCEPT ![t] = verdict]
      /\ job' = [job EXCEPT ![t] = r] /\ idx' = [idx EXCEPT ![t] = i]
  BY DEF DecideRead, Goto, Quiet, runRow, spanRow, approvalRow, procVars,
         sweepVars, locals, Owned, NothingExpires
<1>2. /\ OthersStay(t) /\ pc'[t] = verdict /\ job'[t] = r /\ idx'[t] = i
      /\ \A q \in Runs : RowKept(q)
  BY <1>1 DEF IInv, TypeOK, OthersStay, RowKept
<1>3. Awake(t) /\ status[r] = "waiting_approval"
  BY <1>1 DEF Serving, DefaultDeployment, Awake, Owned, RunFits, GateFits
<1>4. Solo(t, r)
  <2>1. ASSUME NEW u \in Threads, u # t PROVE ~Holds(u, r) /\ ~Decides(u, r)
    <3>1. ThreadFits(u) /\ (u \in Requests => u = t)
      BY <1>1, OneClient DEF Owned
    <3> QED BY <1>1, <1>3, <2>1, <3>1
            DEF ThreadFits, Holds, Decides, Holding
  <2> QED BY <2>1 DEF Solo
<1>5. GateFits(r)' /\ TraceFits(r)'
  BY <1>2, RunBystander DEF Owned, RunFits
<1>6. ThreadFits(t)' /\ pc'[t] \notin Holding
  BY <1>1, <1>2, HoldingSet DEF ThreadFits, Executing, Deciding, AtStep
<1>7. QueueFits(r)'
  BY <1>1, <1>3 DEF Owned, RunFits, QueueFits, InLine
<1> QED BY <1>1, <1>2, <1>3, <1>4, <1>5, <1>6, <1>7, OwnerStep

\* _execute_queued takes a queued run, and leaves any other.
LEMMA ClaimOwned ==
    ASSUME DefaultDeployment, IInv, Owned, NEW t \in Threads, Claim(t)
    PROVE  Owned'
<1>1. /\ UNCHANGED <<step, output, span, spanIn, spanOut, approval>>
      /\ UNCHANGED <<queue, phase, backlog, overdue, lapsing, sweep>> /\ pc[t] = "claim"
  BY DEF Claim, Quiet, spanRow, approvalRow, procVars, sweepVars
<1>2. CASE status[job[t]] = "queued"
  <2>1. /\ status' = [status EXCEPT ![job[t]] = "running"]
        /\ pc' = [pc EXCEPT ![t] = "read"] /\ UNCHANGED <<job, idx, val>>
    BY <1>2 DEF Claim, Goto, locals
  <2>2. OthersStay(t) /\ pc'[t] = "read" /\ status'[job[t]] = "running"
    BY <1>1, <2>1, OwnerHasRun, HoldingSet DEF IInv, TypeOK, OthersStay
  <2>3. ThreadFits(t)'
    BY <2>1, <2>2 DEF ThreadFits, Deciding, AtStep
  <2> QED BY <1>1, <2>1, <2>2, <2>3, StatusStep
<1>3. CASE status[job[t]] # "queued"
  BY <1>1, <1>3, ReturnStep DEF Claim, Return
<1> QED BY <1>2, <1>3

\* _execute reads the run that it alone has.
LEMMA ExecuteOwned ==
    ASSUME DefaultDeployment, IInv, Owned, NEW t \in Threads, Execute(t)
    PROVE  Owned'
<1>1. /\ UNCHANGED <<status, step, output, span, spanIn, spanOut, approval>>
      /\ UNCHANGED <<queue, phase, backlog, overdue, lapsing, sweep>> /\ pc[t] = "read"
  BY DEF Execute, Quiet, runRow, spanRow, approvalRow, procVars, sweepVars
<1>2. CASE Return(t)
  BY <1>1, <1>2, ReturnStep DEF Return
<1>3. CASE ~Return(t)
  <2>1. /\ pc' = [pc EXCEPT ![t] = "mark"] /\ idx' = [idx EXCEPT ![t] = step[job[t]]]
        /\ val' = [val EXCEPT ![t] = Resumed(job[t])] /\ UNCHANGED job
    BY <1>3 DEF Execute, Goto
  <2>2. PICK r \in Runs : job[t] = r
    BY <1>1, OwnerHasRun, HoldingSet
  <2>3. TraceFits(r) /\ ThreadFits(t) /\ TypeOK
    BY <1>1, <2>2, HoldingSet, OwnerKnows
  <2>4. OthersStay(t) /\ pc'[t] = "mark" /\ idx'[t] = step[r] /\ val'[t] = Resumed(r)
    BY <2>1, <2>2, <2>3 DEF TypeOK, OthersStay
  <2>5. Resumed(r) = Handed(r, step[r])
    BY <2>3 DEF Resumed, TraceFits, Handed
  <2>6. ThreadFits(t)'
    BY <1>1, <2>1, <2>2, <2>3, <2>4, <2>5
       DEF ThreadFits, Deciding, AtStep, Executing, Handed
  <2> QED BY <1>1, <2>1, <2>4, <2>6, MoveStep DEF Executing
<1> QED BY <1>2, <1>3

\* The tables stay and a thread goes on with its run.
LEMMA MarkOwned ==
    ASSUME DefaultDeployment, IInv, Owned, NEW t \in Threads, Mark(t)
    PROVE  Owned'
<1>1. /\ UNCHANGED <<step, output, span, spanIn, spanOut, approval, job, idx, val>>
      /\ UNCHANGED <<queue, phase, backlog, overdue, lapsing, sweep>> /\ pc[t] = "mark"
      /\ status' = [status EXCEPT ![job[t]] = "running"]
      /\ pc' = [pc EXCEPT ![t] = LoopHead(idx[t])]
  BY DEF Mark, Goto, Quiet, spanRow, approvalRow, procVars, sweepVars, locals
<1>2. OthersStay(t) /\ pc'[t] \in {"check", "finish"} /\ ThreadFits(t) /\ job[t] \in Runs
  BY <1>1, OwnerHasRun, HoldingSet DEF IInv, TypeOK, OthersStay, LoopHead, Owned
<1>3. status'[job[t]] = "running"
  BY <1>1, <1>2 DEF IInv, TypeOK
<1>4. ThreadFits(t)'
  BY <1>1, <1>2, <1>3 DEF ThreadFits, Deciding, AtStep, Executing, Handed
<1> QED BY <1>1, <1>2, <1>4, StatusStep DEF Executing

\* A refusal fails the run.
LEMMA RefuseOwned ==
    ASSUME DefaultDeployment, IInv, Owned, NEW t \in Threads, Refuse(t)
    PROVE  Owned'
<1>1. /\ UNCHANGED <<step, output, span, spanIn, spanOut, approval>>
      /\ UNCHANGED <<queue, phase, backlog, overdue, lapsing, sweep>>
      /\ pc[t] \in {"over_budget", "denied"}
      /\ status' = [status EXCEPT ![job[t]] = "failed"]
      /\ pc' = [pc EXCEPT ![t] = "idle"]
  BY DEF Refuse, Return, Leave, Goto, Quiet, spanRow, approvalRow, procVars, sweepVars
<1>2. OthersStay(t) /\ pc'[t] = "idle"
  BY <1>1 DEF Refuse, Return, Leave, Goto, IInv, TypeOK, OthersStay
<1>3. ThreadFits(t)' /\ pc'[t] \notin Holding \cup Deciding
  BY <1>2, HoldingSet DEF ThreadFits, Deciding, AtStep, Executing
<1> QED BY <1>1, <1>2, <1>3, StatusStep DEF Executing, AtStep

\* The head of the loop, the attempt and the look behind it write nothing.
LEMMA ReadingOwned ==
    ASSUME DefaultDeployment, IInv, Owned, NEW t \in Threads,
           Check(t) \/ Invoke(t) \/ Recheck(t)
    PROVE  Owned'
<1>1. /\ UNCHANGED <<status, step, output, span, spanIn, spanOut, approval>>
      /\ UNCHANGED <<queue, phase, backlog, overdue, lapsing, sweep>>
      /\ pc[t] \in {"check", "invoke", "recheck_ok", "recheck_error"}
  BY DEF Check, Invoke, Recheck, Quiet, runRow, spanRow, approvalRow, procVars, sweepVars
<1>2. CASE Return(t)
  BY <1>1, <1>2, ReturnStep DEF Return
<1>3. CASE ~Return(t)
  <2>1. /\ UNCHANGED <<job, idx, val>>
        /\ \/ pc' = pc
           \/ \E l \in {"over_budget", "denied", "pause", "invoke", "recheck_ok",
                        "recheck_error", "record_ok", "record_error"} :
                pc' = [pc EXCEPT ![t] = l]
    BY <1>3 DEF Check, Invoke, Recheck, Goto, locals, ToolReturns, ToolRaises, Fate
  <2>2. OthersStay(t) /\ pc'[t] \in AtStep \ {"advance", "pause_row"}
    BY <1>1, <2>1 DEF IInv, TypeOK, OthersStay, AtStep
  <2>3. ThreadFits(t)'
    <3>1. ThreadFits(t) /\ pc[t] \in AtStep /\ pc[t] \in Executing
      BY <1>1 DEF Owned, AtStep, Executing
    <3>2. pc'[t] \notin Deciding \cup {"submit", "claim", "cancel", "mark", "finish"}
      BY <2>2 DEF AtStep, Deciding
    <3>3. Handed(job[t], idx[t])' = Handed(job[t], idx[t])
      BY <1>1, <2>1 DEF Handed
    <3> QED BY <1>1, <2>1, <2>2, <3>1, <3>2, <3>3 DEF ThreadFits
  <2> QED BY <1>1, <2>1, <2>2, <2>3, MoveStep DEF Executing, AtStep
<1> QED BY <1>2, <1>3

\* What an executor at a step of its run knows: the row is at that step too, the value is
\* the one handed on, and no approval is pending.
LEMMA ExecutorKnows ==
    ASSUME DefaultDeployment, IInv, Owned, NEW t \in Threads, NEW r \in Runs, NEW i,
           pc[t] \in AtStep \cup {"finish"}, job[t] = r, idx[t] = i
    PROVE  /\ i \in 0 .. N /\ (pc[t] # "finish" => i \in Steps) /\ (pc[t] = "finish" => i = N)
           /\ Behind(r, i) /\ step[r] = i /\ val[t] = Handed(r, i)
           /\ status[r] \in {"running", "cancelled"} /\ TraceFits(r) /\ TypeOK
           /\ \A j \in Steps : approval[r][j] # "pending"
<1>1. pc[t] \in Holding /\ pc[t] \in Executing
  BY DEF Holding, Executing
<1>2. ThreadOK(t) /\ ThreadFits(t) /\ GateFits(r) /\ TraceFits(r) /\ TypeOK
  BY <1>1, OwnerKnows
<1>3. status[r] \in {"running", "cancelled"}
  BY <1>1, <1>2 DEF ThreadFits
<1>4. \A j \in Steps : approval[r][j] # "pending"
  BY <1>2, <1>3 DEF GateFits
<1>5. i \in 0 .. N /\ (pc[t] # "finish" => i \in Steps) /\ (pc[t] = "finish" => i = N) /\ Behind(r, i)
  BY <1>2 DEF TypeOK, ThreadOK, HasWork, WorksBehindTrace
<1> QED BY <1>2, <1>3, <1>4, <1>5 DEF ThreadFits

\* Without a pending approval and with another status than waiting, a gate fits.
LEMMA NoGate ==
    ASSUME NEW r \in Runs, \A j \in Steps : approval'[r][j] # "pending",
           status'[r] # "waiting_approval"
    PROVE  GateFits(r)'
BY DEF GateFits

\* The INSERT of a span, as the end of an attempt or as the beginning of a pause.
LEMMA InsertOwned ==
    ASSUME DefaultDeployment, IInv, Owned, NEW t \in Threads, NEW r \in Runs, NEW i,
           pc[t] \in AtStep, job[t] = r, idx[t] = i,
           NEW s \in {"waiting", "completed", "failed"}, NEW out,
           InsertSpan(r, i, s, val[t], out),
           NEW label \in {"advance", "mark_failed", "pause_row"}, Goto(t, label),
           label = "advance" => out = Out(i), label = "pause_row" => out = val[t],
           UNCHANGED <<status, step, output, approval, job, idx, val>>,
           UNCHANGED <<queue, phase, backlog, overdue, lapsing, sweep>>
    PROVE  Owned'
<1>1. pc[t] \in Executing /\ pc[t] \in Holding /\ pc[t] # "finish"
  BY DEF Holding, Executing, AtStep
<1>2. /\ i \in Steps /\ Behind(r, i) /\ step[r] = i /\ val[t] = Handed(r, i)
      /\ status[r] \in {"running", "cancelled"} /\ TraceFits(r) /\ TypeOK
      /\ \A j \in Steps : approval[r][j] # "pending"
  BY <1>1, ExecutorKnows
<1>3. /\ span[r][i] = "none"
      /\ span'[r][i] = s /\ spanIn'[r][i] = val[t] /\ spanOut'[r][i] = out
      /\ \A j \in Steps \ {i} : /\ span'[r][j] = span[r][j] /\ spanIn'[r][j] = spanIn[r][j]
                                /\ spanOut'[r][j] = spanOut[r][j]
      /\ \A q \in Runs \ {r} : span'[q] = span[q] /\ spanIn'[q] = spanIn[q] /\ spanOut'[q] = spanOut[q]
  BY <1>2 DEF InsertSpan, TypeOK
<1>4. TraceFits(r)' /\ Handed(r, i)' = Handed(r, i)
  <2>1. i \in 0 .. N - 1 /\ N \in Nat /\ Steps = 0 .. N - 1
    BY <1>2, SizeAssumption DEF Steps
  <2>2. ASSUME NEW j \in Steps, span[r][j] # "none" \/ j = i
        PROVE  Behind(r, j)' /\ Handed(r, j)' = Handed(r, j)
    <3>1. Behind(r, j)
      BY <1>2, <2>2 DEF TraceFits
    <3>2. j <= i
      BY <1>3, <2>1, <3>1 DEF Behind
    <3> QED BY <1>3, <2>1, <3>1, <3>2 DEF Behind, Handed
  <2>3. \A j \in Steps : span'[r][j] # "none" => Behind(r, j)' /\ spanIn'[r][j] = Handed(r, j)'
    BY <1>2, <1>3, <2>2 DEF TraceFits
  <2>4. output'[r] = Handed(r, step[r])'
    BY <1>2, <2>2 DEF TraceFits
  <2> QED BY <1>2, <2>2, <2>3, <2>4 DEF TraceFits
<1>5. OthersStay(t) /\ pc'[t] = label /\ \A q \in Runs \ {r} : RowKept(q)
  BY <1>2, <1>3 DEF TypeOK, Goto, OthersStay, RowKept
<1>6. GateFits(r)' /\ status'[r] # "queued"
  BY <1>2, NoGate
<1>7. ThreadFits(t)'
  <2>1. pc'[t] \notin Deciding \cup {"submit", "claim", "cancel"}
    BY <1>5 DEF Deciding
  <2> QED BY <1>2, <1>3, <1>4, <1>5, <2>1 DEF ThreadFits
<1> QED BY <1>1, <1>4, <1>5, <1>6, <1>7, WorkStep

\* _record_span at the end of the attempts: a fresh span, or the exception that ends it.
LEMMA RecordSpanOwned ==
    ASSUME DefaultDeployment, IInv, Owned, NEW t \in Threads, RecordSpan(t)
    PROVE  Owned'
<1>1. /\ UNCHANGED <<status, step, output, approval>>
      /\ UNCHANGED <<queue, phase, backlog, overdue, lapsing, sweep>>
      /\ pc[t] \in {"record_ok", "record_error"}
  BY DEF RecordSpan, Quiet, runRow, approvalRow, procVars, sweepVars
<1>2. PICK r \in Runs : job[t] = r
  BY <1>1, OwnerHasRun, HoldingSet
<1>3. PICK i : idx[t] = i
  OBVIOUS
<1>4. pc[t] \in AtStep
  BY <1>1 DEF AtStep
<1>5. CASE /\ pc[t] = "record_ok" /\ InsertSpan(r, i, "completed", val[t], Out(i))
           /\ Goto(t, "advance") /\ UNCHANGED locals
  BY <1>1, <1>2, <1>3, <1>4, <1>5, InsertOwned DEF locals
<1>6. CASE /\ pc[t] = "record_error" /\ InsertSpan(r, i, "failed", val[t], Input)
           /\ Goto(t, "mark_failed") /\ UNCHANGED locals
  BY <1>1, <1>2, <1>3, <1>4, <1>6, InsertOwned DEF locals
<1>7. CASE Escape(t) /\ UNCHANGED spanRow
  <2>1. \E label \in {"idle", "dead"} : Leave(t, label)
    BY <1>7 DEF Escape
  <2> QED BY <1>1, <1>7, <2>1, ReturnStep DEF spanRow
<1> QED BY <1>2, <1>3, <1>5, <1>6, <1>7 DEF RecordSpan

\* _pause_for_approval: the waiting span, or the error that is retried.
LEMMA PauseOwned ==
    ASSUME DefaultDeployment, IInv, Owned, NEW t \in Threads, Pause(t)
    PROVE  Owned'
<1>1. /\ UNCHANGED <<status, step, output, approval, job, idx, val>>
      /\ UNCHANGED <<queue, phase, backlog, overdue, lapsing, sweep>> /\ pc[t] = "pause"
  BY DEF Pause, Quiet, runRow, approvalRow, procVars, sweepVars
<1>2. PICK r \in Runs : job[t] = r
  BY <1>1, OwnerHasRun, HoldingSet
<1>3. PICK i : idx[t] = i
  OBVIOUS
<1>4. pc[t] \in AtStep /\ pc[t] \in Executing
  BY <1>1 DEF AtStep, Executing
<1>5. CASE InsertSpan(r, i, "waiting", val[t], val[t]) /\ Goto(t, "pause_row")
  <2>1. PICK out : out = val[t]
    OBVIOUS
  <2>2. InsertSpan(r, i, "waiting", val[t], out)
    BY <1>5, <2>1
  <2> QED BY <1>1, <1>2, <1>3, <1>4, <1>5, <2>1, <2>2, InsertOwned
<1>6. CASE UNCHANGED spanRow /\ (pc' = pc \/ Goto(t, "recheck_error"))
  <2>1. OthersStay(t) /\ pc'[t] \in {"pause", "recheck_error"}
    BY <1>1, <1>6 DEF IInv, TypeOK, Goto, OthersStay
  <2>2. ThreadFits(t)'
    <3>1. ThreadFits(t)
      BY DEF Owned
    <3>2. Handed(job[t], idx[t])' = Handed(job[t], idx[t])
      BY <1>1, <1>6 DEF Handed, spanRow
    <3> QED BY <1>1, <1>4, <2>1, <3>1, <3>2 DEF ThreadFits, AtStep, Deciding
  <2> QED BY <1>1, <1>4, <1>6, <2>1, <2>2, MoveStep DEF spanRow
<1> QED BY <1>2, <1>3, <1>5, <1>6 DEF Pause

\* The approval row: the run waits at this gate and nobody has it but a decision to come.
LEMMA PauseRowOwned ==
    ASSUME DefaultDeployment, IInv, Owned, NEW t \in Threads, PauseRow(t)
    PROVE  Owned'
<1>1. /\ UNCHANGED <<span, spanIn, spanOut, job, idx, val>>
      /\ UNCHANGED <<queue, phase, backlog, overdue, lapsing, sweep>> /\ pc[t] = "pause_row"
  BY DEF PauseRow, Quiet, spanRow, locals, procVars, sweepVars
<1>2. PICK r \in Runs : job[t] = r
  BY <1>1, OwnerHasRun, HoldingSet
<1>3. PICK i : idx[t] = i
  OBVIOUS
<1>4. pc[t] \in AtStep /\ pc[t] # "finish" /\ pc[t] \in Holding
  BY <1>1 DEF AtStep, Holding, Executing
<1>5. /\ i \in Steps /\ step[r] = i /\ val[t] = Handed(r, i)
      /\ status[r] \in {"running", "cancelled"} /\ TraceFits(r) /\ TypeOK
      /\ \A j \in Steps : approval[r][j] # "pending"
  BY <1>2, <1>3, <1>4, ExecutorKnows
<1>6. span[r][i] = "waiting" /\ spanOut[r][i] = val[t]
  BY <1>1, <1>2, <1>3 DEF IInv, ThreadOK, PauseOwnsGate, Owned, ThreadFits
<1>7. /\ approval' = [approval EXCEPT ![r][i] = "pending"]
      /\ status' = [status EXCEPT ![r] = "waiting_approval"]
      /\ output' = [output EXCEPT ![r] = val[t]] /\ step' = [step EXCEPT ![r] = i]
      /\ pc' = [pc EXCEPT ![t] = "approval.pending"]
  BY <1>2, <1>3 DEF PauseRow, Goto
<1>8. /\ OthersStay(t) /\ pc'[t] = "approval.pending" /\ \A q \in Runs \ {r} : RowKept(q)
      /\ approval'[r][i] = "pending" /\ status'[r] = "waiting_approval"
      /\ output'[r] = val[t] /\ step'[r] = i
      /\ \A j \in Steps \ {i} : approval'[r][j] # "pending"
  BY <1>1, <1>5, <1>7 DEF TypeOK, OthersStay, RowKept
<1>9. GateFits(r)'
  <2>1. i < N
    BY <1>5, SizeAssumption DEF Steps
  <2> QED BY <1>1, <1>5, <1>6, <1>8, <2>1 DEF GateFits
<1>10. TraceFits(r)'
  <2>1. \A j : Handed(r, j)' = Handed(r, j) /\ Behind(r, j)' = Behind(r, j)
    BY <1>1 DEF Handed, Behind
  <2> QED BY <1>1, <1>5, <1>8, <2>1 DEF TraceFits
<1>11. ThreadFits(t)' /\ pc'[t] \notin Holding \cup Deciding
  BY <1>8, HoldingSet DEF ThreadFits, Deciding, AtStep, Executing
<1> QED BY <1>1, <1>2, <1>4, <1>8, <1>9, <1>10, <1>11, WorkStep

\* The failed step: current_step is there already.
LEMMA MarkFailedOwned ==
    ASSUME DefaultDeployment, IInv, Owned, NEW t \in Threads, MarkFailed(t)
    PROVE  Owned'
<1>1. /\ UNCHANGED <<output, span, spanIn, spanOut, approval>>
      /\ UNCHANGED <<queue, phase, backlog, overdue, lapsing, sweep>> /\ pc[t] = "mark_failed"
      /\ status' = [status EXCEPT ![job[t]] = "failed"]
      /\ step' = [step EXCEPT ![job[t]] = idx[t]]
      /\ pc' = [pc EXCEPT ![t] = "run.failed"] /\ UNCHANGED <<job, idx, val>>
  BY DEF MarkFailed, Goto, Quiet, spanRow, approvalRow, locals, procVars, sweepVars
<1>2. pc[t] \in AtStep /\ pc[t] \in Executing /\ pc[t] \in Holding
  BY <1>1 DEF AtStep, Executing, Holding
<1>3. PICK r \in Runs : job[t] = r
  BY <1>2, OwnerHasRun
<1>4. PICK i : idx[t] = i
  OBVIOUS
<1>5. step[r] = i /\ TypeOK
  BY <1>2, <1>3, <1>4, ExecutorKnows
<1>6. step' = step
  BY <1>1, <1>3, <1>4, <1>5 DEF TypeOK
<1>7. OthersStay(t) /\ pc'[t] = "run.failed"
  BY <1>1, <1>5 DEF TypeOK, OthersStay
<1>8. ThreadFits(t)' /\ pc'[t] \notin Holding \cup Deciding
  BY <1>7, HoldingSet DEF ThreadFits, Deciding, AtStep, Executing
<1> QED BY <1>1, <1>2, <1>6, <1>7, <1>8, StatusStep

\* The end of a step: row and thread go on together, with the output that was recorded.
LEMMA AdvanceOwned ==
    ASSUME DefaultDeployment, IInv, Owned, NEW t \in Threads, Advance(t)
    PROVE  Owned'
<1>1. /\ UNCHANGED <<status, span, spanIn, spanOut, approval, job>>
      /\ UNCHANGED <<queue, phase, backlog, overdue, lapsing, sweep>> /\ pc[t] = "advance"
  BY DEF Advance, Quiet, spanRow, approvalRow, procVars, sweepVars
<1>2. pc[t] \in AtStep /\ pc[t] # "finish" /\ pc[t] \in Holding
  BY <1>1 DEF AtStep, Executing, Holding
<1>3. PICK r \in Runs : job[t] = r
  BY <1>2, OwnerHasRun
<1>4. PICK i : idx[t] = i
  OBVIOUS
<1>5. /\ i \in Steps /\ status[r] \in {"running", "cancelled"} /\ TraceFits(r) /\ TypeOK
      /\ \A j \in Steps : approval[r][j] # "pending"
  BY <1>2, <1>3, <1>4, ExecutorKnows
<1>6. spanOut[r][i] = Out(i)
  BY <1>1, <1>3, <1>4 DEF Owned, ThreadFits
<1>7. /\ output' = [output EXCEPT ![r] = Out(i)] /\ step' = [step EXCEPT ![r] = i + 1]
      /\ idx' = [idx EXCEPT ![t] = i + 1] /\ val' = [val EXCEPT ![t] = Out(i)]
      /\ pc' = [pc EXCEPT ![t] = LoopHead(i + 1)]
  BY <1>3, <1>4 DEF Advance, Goto
<1>8. /\ OthersStay(t) /\ pc'[t] \in {"check", "finish"} /\ \A q \in Runs \ {r} : RowKept(q)
      /\ output'[r] = Out(i) /\ step'[r] = i + 1 /\ idx'[t] = i + 1 /\ val'[t] = Out(i)
  BY <1>1, <1>5, <1>7 DEF TypeOK, OthersStay, RowKept, LoopHead
<1>9. \A j : Handed(r, j)' = Handed(r, j) /\ Behind(r, j)' = Behind(r, j)
  BY <1>1 DEF Handed, Behind
<1>10. Handed(r, i + 1) = Out(i)
  BY <1>5, <1>6 DEF Handed, Steps
<1>11. TraceFits(r)'
  BY <1>1, <1>5, <1>8, <1>9, <1>10 DEF TraceFits
<1>12. GateFits(r)' /\ status'[r] # "queued"
  BY <1>1, <1>5, NoGate
<1>13. ThreadFits(t)'
  BY <1>1, <1>3, <1>5, <1>8, <1>9, <1>10 DEF ThreadFits, Deciding, Executing, AtStep
<1> QED BY <1>1, <1>2, <1>3, <1>8, <1>11, <1>12, <1>13, WorkStep

\* The end of a run, with the value that its last span hands on.
LEMMA FinishOwned ==
    ASSUME DefaultDeployment, IInv, Owned, NEW t \in Threads, Finish(t)
    PROVE  Owned'
<1>1. /\ UNCHANGED <<step, span, spanIn, spanOut, approval, job, idx, val>>
      /\ UNCHANGED <<queue, phase, backlog, overdue, lapsing, sweep>> /\ pc[t] = "finish"
  BY DEF Finish, Quiet, spanRow, approvalRow, locals, procVars, sweepVars
<1>2. pc[t] \in Executing /\ pc[t] \in Holding
  BY <1>1 DEF Executing, Holding
<1>3. PICK r \in Runs : job[t] = r
  BY <1>2, OwnerHasRun
<1>4. PICK i : idx[t] = i
  OBVIOUS
<1>5. /\ i = N /\ step[r] = i /\ val[t] = Handed(r, i) /\ TraceFits(r) /\ TypeOK
      /\ \A j \in Steps : approval[r][j] # "pending"
  BY <1>1, <1>3, <1>4, ExecutorKnows
<1>6. /\ status' = [status EXCEPT ![r] = "completed"] /\ output' = [output EXCEPT ![r] = val[t]]
      /\ pc' = [pc EXCEPT ![t] = "run.completed"]
  BY <1>3 DEF Finish, Goto
<1>7. /\ OthersStay(t) /\ pc'[t] = "run.completed" /\ \A q \in Runs \ {r} : RowKept(q)
      /\ status'[r] = "completed" /\ output'[r] = val[t]
  BY <1>1, <1>5, <1>6 DEF TypeOK, OthersStay, RowKept
<1>8. \A j : Handed(r, j)' = Handed(r, j) /\ Behind(r, j)' = Behind(r, j)
  BY <1>1 DEF Handed, Behind
<1>9. TraceFits(r)'
  BY <1>1, <1>5, <1>7, <1>8 DEF TraceFits
<1>10. GateFits(r)'
  BY <1>1, <1>5, <1>7, NoGate
<1>11. ThreadFits(t)' /\ pc'[t] \notin Holding \cup Deciding
  BY <1>7, HoldingSet DEF ThreadFits, Deciding, AtStep, Executing
<1> QED BY <1>1, <1>2, <1>3, <1>7, <1>9, <1>10, <1>11, WorkStep

\* The announcement of an event needs no run.
LEMMA NotifyOwned ==
    ASSUME IInv, Owned, NEW t \in Threads, Notify(t)
    PROVE  Owned'
<1>1. /\ UNCHANGED <<status, step, output, span, spanIn, spanOut, approval>>
      /\ UNCHANGED <<queue, phase, backlog, overdue, lapsing, sweep>>
      /\ pc[t] \in ThreadEvents /\ Leave(t, "idle")
  BY DEF Notify, Return, Quiet, runRow, spanRow, approvalRow, procVars, sweepVars
<1> QED BY <1>1, ReturnStep DEF ThreadEvents

\* cancel_run writes blindly; in whatever state the run is, who has it may go on to have it.
LEMMA CancelWriteOwned ==
    ASSUME DefaultDeployment, IInv, Owned, NEW t \in Threads, CancelWrite(t)
    PROVE  Owned'
<1>1. /\ UNCHANGED <<step, output, span, spanIn, spanOut, job, idx, val>>
      /\ UNCHANGED <<queue, phase, backlog, overdue, lapsing, sweep>> /\ pc[t] = "cancel"
  BY DEF CancelWrite, Quiet, spanRow, locals, procVars, sweepVars
<1>2. PICK r \in Runs : job[t] = r
  BY <1>1 DEF IInv, ThreadOK, HasWork
<1>3. TypeOK /\ ThreadFits(t)
  BY DEF IInv, Owned
<1>4. t \in Requests /\ phase = "up" /\ backlog = {}
  <2>1. t \in Requests
    BY <1>1, <1>3 DEF ThreadFits
  <2> QED BY <1>1, <2>1, AwakeThread DEF Awake, Owned, PhaseFits
<1>5. /\ status' = [status EXCEPT ![r] = "cancelled"]
      /\ approval' = [approval EXCEPT ![r] =
                        [i \in Steps |-> IF approval[r][i] = "pending" THEN "rejected" ELSE approval[r][i]]]
      /\ pc' = [pc EXCEPT ![t] = "run.cancelled"]
  BY <1>2, <1>3 DEF CancelWrite, Goto, TypeOK
<1>6. /\ OthersStay(t) /\ pc'[t] = "run.cancelled" /\ status'[r] = "cancelled"
      /\ \A j \in Steps : approval'[r][j] # "pending"
      /\ \A q \in Runs \ {r} : RowKept(q)
  BY <1>1, <1>3, <1>5 DEF TypeOK, OthersStay, RowKept
<1>7. \A q \in Runs : \A j : Handed(q, j)' = Handed(q, j) /\ Behind(q, j)' = Behind(q, j)
  BY <1>1 DEF Handed, Behind
<1>8. ASSUME NEW u \in Threads PROVE ThreadFits(u)'
  <2>1. CASE u = t
    BY <1>6, <2>1, HoldingSet DEF ThreadFits, Deciding, AtStep, Executing
  <2>2. CASE u # t
    <3>1. /\ ThreadFits(u) /\ HasWork(u) /\ pc'[u] = pc[u] /\ job'[u] = job[u]
          /\ idx'[u] = idx[u] /\ val'[u] = val[u]
      BY <1>6, <2>2 DEF Owned, IInv, ThreadOK, OthersStay
    <3>2. pc[u] \notin Deciding
      BY <1>4, <2>2, OnlyDecider
    <3>3. CASE pc[u] \in Holding
      <4>1. job[u] \in Runs /\ status'[job[u]] \in {status[job[u]], "cancelled"}
        BY <1>6, <3>3, OwnerHasRun DEF RowKept
      <4>2. Handed(job[u], idx[u])' = Handed(job[u], idx[u])
        BY <1>1, <3>1 DEF Handed
      <4> QED BY <1>1, <3>1, <3>2, <4>1, <4>2 DEF ThreadFits
    <3>4. CASE pc[u] \notin Holding
      BY <3>1, <3>2, <3>4 DEF ThreadFits, Holding, Executing, AtStep
    <3> QED BY <3>3, <3>4
  <2> QED BY <2>1, <2>2
<1>9. ASSUME NEW q \in Runs PROVE RunFits(q)'
  <2>1. GateFits(q) /\ TraceFits(q) /\ QueueFits(q)
    BY DEF Owned, RunFits
  <2>2. GateFits(q)'
    <3>1. CASE q = r
      BY <1>6, <3>1, NoGate
    <3>2. CASE q # r
      BY <1>6, <2>1, <3>2, RunBystander
    <3> QED BY <3>1, <3>2
  <2>3. TraceFits(q)'
    BY <1>1, <1>6, <1>7, <2>1 DEF TraceFits, RowKept
  <2>4. QueueFits(q)'
    <3>1. InLine(q)' = InLine(q) /\ status'[q] \in {status[q], "cancelled"}
      BY <1>1, <1>6 DEF InLine, RowKept
    <3>2. ASSUME NEW u \in Threads, job[u] = q, pc[u] \in {"submit", "claim"}
          PROVE  job'[u] = q /\ pc'[u] \in {"submit", "claim"}
      BY <1>1, <1>6, <3>2 DEF OthersStay
    <3> QED BY <1>1, <1>4, <2>1, <3>1, <3>2 DEF QueueFits
  <2> QED BY <2>2, <2>3, <2>4 DEF RunFits
<1>10. OneOwner'
  <2>1. ASSUME NEW u \in Threads, NEW q \in Runs PROVE Holds(u, q)' => Holds(u, q)
    BY <1>6, HoldingSet DEF OthersStay, Holds
  <2>2. \A q \in Runs : InLine(q)' = InLine(q)
    BY <1>1 DEF InLine
  <2> QED BY <1>1, <2>1, <2>2 DEF Owned, OneOwner
<1>11. PhaseFits' /\ NothingExpires'
  BY <1>1, <1>4 DEF Owned, PhaseFits, NothingExpires
<1> QED BY <1>8, <1>9, <1>10, <1>11 DEF Owned

\* Approvals do not expire, so no decision finds one that has.
LEMMA LapseOwned ==
    ASSUME Owned, NEW t \in Threads, Lapse(t)
    PROVE  Owned'
<1>1. pc[t] = "lapse"
  BY DEF Lapse
<1> QED BY <1>1 DEF Owned, ThreadFits, Deciding

\* What a deciding request knows: the run waits at its gate for nobody else.
LEMMA DeciderKnows ==
    ASSUME DefaultDeployment, IInv, Owned, NEW t \in Threads, NEW r \in Runs, NEW i,
           pc[t] \in Deciding, job[t] = r, idx[t] = i
    PROVE  /\ i \in Steps /\ approval[r][i] = "pending" /\ status[r] = "waiting_approval"
           /\ step[r] = i /\ span[r][i] = "waiting" /\ spanOut[r][i] = output[r]
           /\ TraceFits(r) /\ TypeOK
           /\ \A j \in Steps \ {i} : approval[r][j] # "pending"
<1>1. ThreadFits(t) /\ GateFits(r) /\ TraceFits(r) /\ ThreadOK(t) /\ TypeOK
  BY OwnerKnows
<1>2. i \in Steps /\ approval[r][i] = "pending"
  BY <1>1 DEF ThreadFits, ThreadOK, HasWork
<1> QED BY <1>1, <1>2 DEF GateFits

\* A rejection closes gate and run.
LEMMA RejectOwned ==
    ASSUME DefaultDeployment, IInv, Owned, NEW t \in Threads, Reject(t)
    PROVE  Owned'
<1>1. /\ UNCHANGED <<step, output, span, spanIn, spanOut, job, idx, val>>
      /\ UNCHANGED <<queue, phase, backlog, overdue, lapsing, sweep>> /\ pc[t] = "reject"
  BY DEF Reject, Quiet, spanRow, locals, procVars, sweepVars
<1>2. pc[t] \in Deciding
  BY <1>1 DEF Deciding
<1>3. PICK r \in Runs : job[t] = r
  BY <1>2, OwnerHasRun
<1>4. PICK i : idx[t] = i
  OBVIOUS
<1>5. /\ i \in Steps /\ TraceFits(r) /\ TypeOK
      /\ \A j \in Steps \ {i} : approval[r][j] # "pending"
  BY <1>2, <1>3, <1>4, DeciderKnows
<1>6. /\ approval' = [approval EXCEPT ![r][i] = "rejected"]
      /\ status' = [status EXCEPT ![r] = "rejected"] /\ pc' = [pc EXCEPT ![t] = "run.rejected"]
  BY <1>3, <1>4 DEF Reject, Goto
<1>7. /\ OthersStay(t) /\ pc'[t] = "run.rejected" /\ \A q \in Runs \ {r} : RowKept(q)
      /\ status'[r] = "rejected" /\ \A j \in Steps : approval'[r][j] # "pending"
  BY <1>1, <1>5, <1>6 DEF TypeOK, OthersStay, RowKept
<1>8. GateFits(r)'
  BY <1>7, NoGate
<1>9. TraceFits(r)'
  BY <1>1, <1>5, <1>7 DEF TraceFits, Handed, Behind
<1>10. ThreadFits(t)' /\ pc'[t] \notin Holding \cup Deciding
  BY <1>7, HoldingSet DEF ThreadFits, Deciding, AtStep, Executing
<1> QED BY <1>1, <1>2, <1>3, <1>7, <1>8, <1>9, <1>10, WorkStep

\* An approval, edited or not: the request has the run now, behind the completed gate.
LEMMA ApproveOwned ==
    ASSUME DefaultDeployment, IInv, Owned, NEW t \in Threads, Approve(t)
    PROVE  Owned'
<1>1. /\ UNCHANGED <<spanIn, job, idx, val>>
      /\ UNCHANGED <<queue, phase, backlog, overdue, lapsing, sweep>> /\ pc[t] \in Deciding
  BY DEF Approve, Quiet, locals, procVars, sweepVars, Deciding
<1>2. PICK r \in Runs : job[t] = r
  BY <1>1, OwnerHasRun
<1>3. PICK i : idx[t] = i
  OBVIOUS
<1>4. /\ i \in Steps /\ step[r] = i /\ span[r][i] = "waiting" /\ spanOut[r][i] = output[r]
      /\ TraceFits(r) /\ TypeOK /\ \A j \in Steps \ {i} : approval[r][j] # "pending"
  BY <1>1, <1>2, <1>3, DeciderKnows
<1>5. /\ approval' = [approval EXCEPT ![r][i] = "approved"]
      /\ \/ output' = [output EXCEPT ![r] = Edited(i)] /\ spanOut' = [spanOut EXCEPT ![r][i] = Edited(i)]
         \/ UNCHANGED <<output, spanOut>>
      /\ span' = [span EXCEPT ![r][i] = "completed"] /\ step' = [step EXCEPT ![r] = i + 1]
      /\ status' = [status EXCEPT ![r] = "running"] /\ pc' = [pc EXCEPT ![t] = "read"]
  BY <1>2, <1>3 DEF Approve, Goto
<1>6. /\ OthersStay(t) /\ pc'[t] = "read" /\ \A q \in Runs \ {r} : RowKept(q)
  BY <1>1, <1>4, <1>5 DEF TypeOK, OthersStay, RowKept
<1>7. /\ status'[r] = "running" /\ \A j \in Steps : approval'[r][j] # "pending"
      /\ step'[r] = i + 1 /\ span'[r][i] = "completed" /\ spanOut'[r][i] = output'[r]
      /\ \A j \in Steps \ {i} : span'[r][j] = span[r][j] /\ spanOut'[r][j] = spanOut[r][j]
  BY <1>4, <1>5 DEF TypeOK
<1>8. GateFits(r)'
  BY <1>7, NoGate
<1>9. TraceFits(r)'
  <2>1. i \in 0 .. N - 1 /\ N \in Nat /\ Steps = 0 .. N - 1
    BY <1>4, SizeAssumption DEF Steps
  <2>2. ASSUME NEW j \in Steps, span[r][j] # "none"
        PROVE  Behind(r, j)' /\ spanIn'[r][j] = Handed(r, j)'
    <3>1. Behind(r, j) /\ spanIn[r][j] = Handed(r, j)
      BY <1>4, <2>2 DEF TraceFits
    <3>2. j <= i
      BY <1>4, <2>1, <3>1 DEF Behind
    <3> QED BY <1>1, <1>7, <2>1, <3>1, <3>2 DEF Behind, Handed
  <2>3. \A j \in Steps : span'[r][j] # "none" => span[r][j] # "none"
    BY <1>4, <1>7
  <2>4. output'[r] = Handed(r, step[r])'
    BY <1>7, <2>1 DEF Handed
  <2> QED BY <1>7, <2>2, <2>3, <2>4 DEF TraceFits
<1>10. ThreadFits(t)'
  BY <1>1, <1>2, <1>6, <1>7 DEF ThreadFits, Deciding, AtStep
<1> QED BY <1>1, <1>2, <1>6, <1>7, <1>8, <1>9, <1>10, WorkStep

(***************************************************************************)
(* The queue and the process                                               *)
(***************************************************************************)
\* A place in the queue.
LEMMA InLineAppended ==
    ASSUME TypeOK, NEW r \in Runs, queue' = Append(queue, r)
    PROVE  /\ \A q : InLine(q)' <=> InLine(q) \/ q = r
           /\ (\A m, n \in 1 .. Len(queue) : queue[m] = queue[n] => m = n) /\ ~InLine(r)
                => \A m, n \in 1 .. Len(queue') : queue'[m] = queue'[n] => m = n
<1>1. /\ Len(queue) \in Nat /\ Len(queue') = Len(queue) + 1 /\ queue'[Len(queue) + 1] = r
      /\ \A n \in 1 .. Len(queue) : queue'[n] = queue[n]
  BY DEF TypeOK
<1> QED BY <1>1 DEF InLine

LEMMA InLineTaken ==
    ASSUME TypeOK, queue # <<>>, queue' = Tail(queue),
           \A m, n \in 1 .. Len(queue) : queue[m] = queue[n] => m = n
    PROVE  /\ \A q : InLine(q)' <=> InLine(q) /\ q # Head(queue)
           /\ InLine(Head(queue)) /\ Head(queue) \in Runs
           /\ \A m, n \in 1 .. Len(queue') : queue'[m] = queue'[n] => m = n
<1>1. /\ Len(queue) \in Nat \ {0} /\ Len(queue') = Len(queue) - 1 /\ Head(queue) = queue[1]
      /\ \A n \in 1 .. Len(queue) - 1 : queue'[n] = queue[n + 1]
      /\ queue[1] \in Runs
  BY DEF TypeOK
<1>2. ASSUME NEW q PROVE InLine(q)' <=> InLine(q) /\ q # Head(queue)
  <2>1. ASSUME InLine(q)' PROVE InLine(q) /\ q # Head(queue)
    <3>1. PICK n \in 1 .. Len(queue) - 1 : queue[n + 1] = q
      BY <1>1, <2>1 DEF InLine
    <3>2. n + 1 \in 1 .. Len(queue) /\ n + 1 # 1 /\ 1 \in 1 .. Len(queue)
      BY <1>1
    <3> QED BY <1>1, <3>1, <3>2 DEF InLine
  <2>2. ASSUME InLine(q), q # Head(queue) PROVE InLine(q)'
    <3>1. PICK n \in 1 .. Len(queue) : queue[n] = q
      BY <2>2 DEF InLine
    <3>2. n - 1 \in 1 .. Len(queue) - 1 /\ (n - 1) + 1 = n
      BY <1>1, <2>2, <3>1
    <3>3. queue'[n - 1] = q
      BY <1>1, <3>1, <3>2
    <3> QED BY <1>1, <3>2, <3>3 DEF InLine
  <2> QED BY <2>1, <2>2
<1>3. InLine(Head(queue)) /\ Head(queue) \in Runs
  BY <1>1 DEF InLine
<1>4. ASSUME NEW m \in 1 .. Len(queue'), NEW n \in 1 .. Len(queue'), queue'[m] = queue'[n]
      PROVE  m = n
  <2>1. /\ m + 1 \in 1 .. Len(queue) /\ n + 1 \in 1 .. Len(queue)
        /\ queue[m + 1] = queue[n + 1]
    BY <1>1, <1>4
  <2>2. m + 1 = n + 1
    BY <2>1
  <2> QED BY <1>1, <2>2
<1> QED BY <1>2, <1>3, <1>4

\* RunQueue.submit: the run's place in the queue takes over from the thread.
LEMMA SubmitOwned ==
    ASSUME DefaultDeployment, IInv, Owned, NEW t \in Threads, Submit(t)
    PROVE  Owned'
<1>1. /\ UNCHANGED <<status, step, output, span, spanIn, spanOut, approval>>
      /\ UNCHANGED <<phase, backlog, overdue, lapsing, sweep>>
      /\ pc[t] = "submit" /\ Leave(t, "idle")
  BY DEF Submit, Return, runRow, spanRow, approvalRow, procVars, sweepVars
<1>2. pc[t] \in Holding
  BY <1>1, HoldingSet
<1>3. PICK r \in Runs : job[t] = r
  BY <1>2, OwnerHasRun
<1>4. queue' = Append(queue, r)
  BY <1>3 DEF Submit
<1>5. /\ Awake(t) /\ Solo(t, r) /\ ~InLine(r) /\ r \notin backlog /\ TypeOK /\ ThreadFits(t)
  BY <1>2, <1>3, OwnerKnows
<1>6. OthersStay(t) /\ pc'[t] = "idle" /\ status[r] \in {"queued", "cancelled"}
  BY <1>1, <1>3, <1>5 DEF Leave, Goto, TypeOK, OthersStay, ThreadFits
<1>7. /\ \A q : InLine(q)' <=> InLine(q) \/ q = r
      /\ \A m, n \in 1 .. Len(queue') : queue'[m] = queue'[n] => m = n
  BY <1>4, <1>5, InLineAppended DEF Owned, OneOwner
<1>8. ASSUME NEW u \in Threads PROVE ThreadFits(u)'
  <2>1. CASE u = t
    BY <1>6, <2>1, HoldingSet DEF ThreadFits, Deciding, AtStep, Executing
  <2>2. CASE u # t
    BY <1>1, <1>6, <2>2, FitsBystander DEF Owned, OthersStay, RowKept
  <2> QED BY <2>1, <2>2
<1>9. ASSUME NEW q \in Runs PROVE RunFits(q)'
  <2>1. GateFits(q)' /\ TraceFits(q)'
    BY <1>1, RunBystander DEF Owned, RunFits, RowKept
  <2>2. QueueFits(q)'
    <3>1. QueueFits(q)
      BY DEF Owned, RunFits
    <3>2. ASSUME NEW u \in Threads, job[u] = q, pc[u] \in {"submit", "claim"}, q # r
          PROVE  job'[u] = q /\ pc'[u] \in {"submit", "claim"}
      BY <1>3, <1>6, <3>2 DEF OthersStay
    <3> QED BY <1>1, <1>5, <1>6, <1>7, <3>1, <3>2 DEF QueueFits
  <2> QED BY <2>1, <2>2 DEF RunFits
<1>10. OneOwner'
  <2>1. ASSUME NEW u \in Threads, NEW q \in Runs, Holds(u, q)' PROVE Holds(u, q) /\ q # r
    BY <1>5, <1>6, <2>1, HoldingSet DEF OthersStay, Holds, Solo
  <2> QED BY <1>1, <1>5, <1>7, <2>1 DEF Owned, OneOwner
<1>11. PhaseFits' /\ NothingExpires'
  BY <1>1, <1>5, <1>6 DEF Owned, PhaseFits, NothingExpires, Awake, OthersStay, Threads
<1> QED BY <1>8, <1>9, <1>10, <1>11 DEF Owned

\* RunQueue._consume: the thread takes over from the place in the queue.
LEMMA PopOwned ==
    ASSUME DefaultDeployment, IInv, Owned, NEW t \in Threads, Pop(t)
    PROVE  Owned'
<1>1. /\ UNCHANGED <<status, step, output, span, spanIn, spanOut, approval, idx, val>>
      /\ UNCHANGED <<phase, backlog, overdue, lapsing, sweep>>
      /\ pc[t] = "idle" /\ t \in Workers /\ queue # <<>> /\ queue' = Tail(queue)
      /\ pc' = [pc EXCEPT ![t] = "claim"] /\ TypeOK
  BY DEF Pop, Goto, runRow, spanRow, approvalRow, procVars, sweepVars, IInv
<1>2. PICK r : r = Head(queue)
  OBVIOUS
<1>3. /\ \A q : InLine(q)' <=> InLine(q) /\ q # r
      /\ InLine(r) /\ r \in Runs
      /\ \A m, n \in 1 .. Len(queue') : queue'[m] = queue'[n] => m = n
  BY <1>1, <1>2, InLineTaken DEF Owned, OneOwner
<1>4. job' = [job EXCEPT ![t] = r]
  BY <1>2 DEF Pop
<1>5. OthersStay(t) /\ pc'[t] = "claim" /\ job'[t] = r
  BY <1>1, <1>4 DEF TypeOK, OthersStay
<1>6. status[r] \in {"queued", "cancelled"} /\ r \notin backlog /\ \A u \in Threads : ~Holds(u, r)
  BY <1>3 DEF Owned, RunFits, QueueFits, OneOwner
<1>7. phase \in {"resubmit", "up"} /\ t \notin Requests
  BY <1>1, ThreadAssumption DEF Owned, PhaseFits, TypeOK, Phases
<1>8. ASSUME NEW u \in Threads PROVE ThreadFits(u)'
  <2>1. CASE u = t
    BY <1>1, <1>5, <1>6, <2>1, HoldingSet DEF ThreadFits, Deciding, AtStep, Executing
  <2>2. CASE u # t
    BY <1>1, <1>5, <2>2, FitsBystander DEF Owned, OthersStay, RowKept
  <2> QED BY <2>1, <2>2
<1>9. ASSUME NEW q \in Runs PROVE RunFits(q)'
  <2>1. GateFits(q)' /\ TraceFits(q)'
    BY <1>1, RunBystander DEF Owned, RunFits, RowKept
  <2>2. QueueFits(q)'
    <3>1. QueueFits(q)
      BY DEF Owned, RunFits
    <3>2. ASSUME NEW u \in Threads, job[u] = q, pc[u] \in {"submit", "claim"}
          PROVE  job'[u] = q /\ pc'[u] \in {"submit", "claim"}
      BY <1>1, <1>5, <3>2 DEF OthersStay
    <3> QED BY <1>1, <1>3, <1>5, <3>1, <3>2 DEF QueueFits
  <2> QED BY <2>1, <2>2 DEF RunFits
<1>10. OneOwner'
  <2>1. ASSUME NEW u \in Threads, NEW q \in Runs, Holds(u, q)'
        PROVE  IF u = t THEN q = r ELSE Holds(u, q)
    BY <1>5, <2>1 DEF OthersStay, Holds
  <2> QED BY <1>1, <1>3, <1>6, <2>1 DEF Owned, OneOwner
<1>11. PhaseFits' /\ NothingExpires'
  BY <1>1, <1>5, <1>7 DEF Owned, PhaseFits, NothingExpires, OthersStay, Threads
<1> QED BY <1>8, <1>9, <1>10, <1>11 DEF Owned

\* While the rows stay and no thread moves, threads and rows still fit.
LEMMA RowsStay ==
    ASSUME IInv, Owned, UNCHANGED <<status, step, output, span, spanIn, spanOut, approval>>,
           UNCHANGED <<pc, job, idx, val>>
    PROVE  /\ \A u \in Threads : ThreadFits(u)'
           /\ \A q \in Runs : GateFits(q)' /\ TraceFits(q)'
<1>1. ASSUME NEW u \in Threads PROVE ThreadFits(u)'
  BY FitsBystander DEF Owned, RowKept
<1>2. ASSUME NEW q \in Runs PROVE GateFits(q)' /\ TraceFits(q)'
  BY RunBystander DEF Owned, RunFits, RowKept
<1> QED BY <1>1, <1>2

\* The process dies: threads, queue and backlog are gone, what waits still waits.
LEMMA CrashOwned ==
    ASSUME DefaultDeployment, IInv, Owned, NEW p \in Processes, Crash(p)
    PROVE  Owned'
<1>1. /\ UNCHANGED <<status, step, output, span, spanIn, spanOut, approval, overdue>>
      /\ pc' = [t \in Threads |-> "idle"] /\ queue' = <<>> /\ phase' = "down"
      /\ backlog' = {} /\ sweep' = "idle" /\ lapsing' = {}
  <2>1. p = "all"
    BY DEF Processes, DefaultDeployment
  <2>2. Hosted(p) = Threads /\ HostsQueue(p) /\ HostsSweep(p)
    BY <2>1 DEF Hosted, HostsQueue, HostsSweep
  <2> QED BY <2>2 DEF Crash, DefaultDeployment, runRow, spanRow, approvalRow
<1>2. \A u \in Threads : pc'[u] = "idle"
  BY <1>1
<1>3. \A q : ~InLine(q)' /\ Len(queue') = 0
  BY <1>1 DEF InLine
<1>4. ASSUME NEW u \in Threads PROVE ThreadFits(u)'
  BY <1>2, HoldingSet DEF ThreadFits, Deciding, AtStep, Executing
<1>5. ASSUME NEW q \in Runs PROVE RunFits(q)'
  <2>1. GateFits(q)' /\ TraceFits(q)'
    BY <1>1, RunBystander DEF Owned, RunFits, RowKept
  <2> QED BY <1>1, <1>3, <2>1 DEF RunFits, QueueFits
<1>6. OneOwner'
  BY <1>1, <1>2, <1>3, HoldingSet DEF OneOwner, Holds
<1>7. PhaseFits' /\ NothingExpires'
  BY <1>1, <1>2 DEF Owned, PhaseFits, NothingExpires, Threads
<1> QED BY <1>4, <1>5, <1>6, <1>7 DEF Owned

\* recover_incomplete_runs: nothing else is going on until it submits the first run, so
\* what it has read is what it updates.
LEMMA RecoverOwned ==
    ASSUME DefaultDeployment, IInv, Owned, Recover
    PROVE  Owned'
<1>0. /\ UNCHANGED <<step, output, span, spanIn, spanOut, approval, overdue, lapsing, sweep>>
      /\ UNCHANGED <<pc, job, idx, val>> /\ TypeOK
  BY DEF Recover, Boot, RecoverSelect, RecoverUpdate, Resubmit, Serve, runRow, spanRow,
         approvalRow, sweepVars, locals, IInv
<1>1. NothingExpires' /\ \A u \in Threads, q \in Runs : Holds(u, q)' = Holds(u, q)
  BY <1>0 DEF Owned, NothingExpires, Holds
<1>2. ASSUME queue' = queue
      PROVE  /\ \A q \in Runs : InLine(q)' = InLine(q)
             /\ \A m, n \in 1 .. Len(queue') : queue'[m] = queue'[n] => m = n
  BY <1>2 DEF InLine, Owned, OneOwner
<1>3. CASE Boot \/ RecoverSelect
  <2>1. /\ UNCHANGED <<status, queue>> /\ phase \in {"down", "select"} /\ phase' \in {"select", "update"}
        /\ backlog' = IF phase' = "update" THEN Incomplete ELSE backlog
    BY <1>3 DEF Boot, RecoverSelect, runRow
  <2>2. queue = <<>> /\ backlog = {} /\ \A t \in Threads : pc[t] = "idle"
    BY <2>1 DEF Owned, PhaseFits
  <2>3. \A u \in Threads, q \in Runs : ~InLine(q) /\ ~Holds(u, q)
    BY <2>2, HoldingSet DEF InLine, Holds
  <2>4. /\ \A u \in Threads : ThreadFits(u)'
        /\ \A q \in Runs : GateFits(q)' /\ TraceFits(q)'
    BY <1>0, <2>1, RowsStay
  <2>0. Len(queue') = 0 /\ \A q : ~InLine(q)'
    BY <2>1, <2>2 DEF InLine
  <2>5. ASSUME NEW q \in Runs PROVE QueueFits(q)'
    BY <2>0, <2>1 DEF QueueFits, Incomplete
  <2>6. OneOwner'
    <3>1. \A u \in Threads, q \in Runs : ~Holds(u, q)'
      BY <1>1, <2>3
    <3>2. \A m, n \in 1 .. Len(queue') : FALSE
      BY <2>0
    <3> QED BY <2>0, <3>1, <3>2 DEF OneOwner
  <2>7. PhaseFits'
    BY <1>0, <2>1, <2>2 DEF PhaseFits, Incomplete, Threads
  <2> QED BY <1>1, <2>4, <2>5, <2>6, <2>7 DEF Owned, RunFits
<1>4. CASE RecoverUpdate
  <2>1. /\ UNCHANGED <<queue, backlog>> /\ phase = "update" /\ phase' = "resubmit"
        /\ status' = [r \in Runs |-> IF status[r] = "running" THEN "queued" ELSE status[r]]
    BY <1>4 DEF RecoverUpdate
  <2>2. queue = <<>> /\ backlog = Incomplete /\ \A t \in Threads : pc[t] = "idle"
    BY <2>1 DEF Owned, PhaseFits
  <2>3. \A u \in Threads, q \in Runs : ~InLine(q) /\ ~Holds(u, q)
    BY <2>2, HoldingSet DEF InLine, Holds
  <2>4. ASSUME NEW u \in Threads PROVE ThreadFits(u)'
    BY <1>0, <2>2, HoldingSet DEF ThreadFits, Deciding, AtStep, Executing
  <2>5. ASSUME NEW q \in Runs PROVE GateFits(q)' /\ TraceFits(q)'
    <3>1. GateFits(q) /\ TraceFits(q)
      BY DEF Owned, RunFits
    <3>2. /\ status'[q] = "waiting_approval" <=> status[q] = "waiting_approval"
          /\ status'[q] = "completed" <=> status[q] = "completed"
      BY <2>1
    <3>3. GateFits(q)'
      BY <1>0, <3>1, <3>2 DEF GateFits
    <3>4. TraceFits(q)'
      BY <1>0, <3>1, <3>2 DEF TraceFits, Handed, Behind
    <3> QED BY <3>3, <3>4
  <2>0. Len(queue') = 0 /\ \A q : ~InLine(q)'
    BY <2>1, <2>2 DEF InLine
  <2>6. ASSUME NEW q \in Runs PROVE QueueFits(q)'
    BY <2>0, <2>1, <2>2 DEF QueueFits, Incomplete
  <2>7. OneOwner'
    <3>1. \A u \in Threads, q \in Runs : ~Holds(u, q)'
      BY <1>1, <2>3
    <3>2. \A m, n \in 1 .. Len(queue') : FALSE
      BY <2>0
    <3> QED BY <2>0, <3>1, <3>2 DEF OneOwner
  <2>8. PhaseFits'
    BY <1>0, <2>1, <2>2 DEF PhaseFits, Threads
  <2> QED BY <1>1, <2>4, <2>5, <2>6, <2>7, <2>8 DEF Owned, RunFits
<1>5. CASE Resubmit
  <2>1. UNCHANGED <<status, phase>> /\ phase = "resubmit"
    BY <1>5 DEF Resubmit, runRow
  <2>2. PICK r \in backlog : queue' = Append(queue, r) /\ backlog' = backlog \ {r}
    BY <1>5 DEF Resubmit
  <2>3. /\ r \in Runs /\ status[r] = "queued" /\ ~InLine(r)
        /\ \A u \in Threads : ~Holds(u, r)
    BY <1>0, <2>1 DEF TypeOK, Owned, OneOwner, RunFits, QueueFits
  <2>4. /\ \A q : InLine(q)' <=> InLine(q) \/ q = r
        /\ \A m, n \in 1 .. Len(queue') : queue'[m] = queue'[n] => m = n
    BY <1>0, <2>2, <2>3, InLineAppended DEF Owned, OneOwner
  <2>5. /\ \A u \in Threads : ThreadFits(u)'
        /\ \A q \in Runs : GateFits(q)' /\ TraceFits(q)'
    BY <1>0, <2>1, RowsStay
  <2>6. ASSUME NEW q \in Runs PROVE QueueFits(q)'
    <3>1. QueueFits(q)
      BY DEF Owned, RunFits
    <3> QED BY <1>0, <2>1, <2>2, <2>3, <2>4, <3>1 DEF QueueFits
  <2>7. OneOwner'
    BY <1>1, <2>2, <2>3, <2>4 DEF Owned, OneOwner
  <2>8. PhaseFits'
    BY <1>0, <2>1 DEF Owned, PhaseFits
  <2> QED BY <1>1, <2>5, <2>6, <2>7, <2>8 DEF Owned, RunFits
<1>6. CASE Serve
  <2>1. UNCHANGED <<status, queue, backlog>> /\ phase = "resubmit" /\ phase' = "up" /\ backlog = {}
    BY <1>6 DEF Serve, runRow
  <2>2. /\ \A u \in Threads : ThreadFits(u)'
        /\ \A q \in Runs : GateFits(q)' /\ TraceFits(q)'
    BY <1>0, <2>1, RowsStay
  <2>3. ASSUME NEW q \in Runs PROVE QueueFits(q)'
    <3>1. QueueFits(q)
      BY DEF Owned, RunFits
    <3> QED BY <1>0, <1>2, <2>1, <3>1 DEF QueueFits
  <2>4. OneOwner'
    BY <1>1, <1>2, <2>1 DEF Owned, OneOwner
  <2>5. PhaseFits'
    BY <1>0, <2>1 DEF Owned, PhaseFits
  <2> QED BY <1>1, <2>2, <2>3, <2>4, <2>5 DEF Owned, RunFits
<1> QED BY <1>3, <1>4, <1>5, <1>6 DEF Recover

\* Without approvals that expire the sweep finds nothing.
LEMMA NothingToExpire ==
    ASSUME DefaultDeployment, Owned
    PROVE  ~Expire /\ \A r \in Runs, i \in Steps : ~Overdue(r, i)
<1>1. Expiring = {}
  BY StepAssumption DEF DefaultDeployment
<1> QED BY <1>1 DEF Owned, NothingExpires, Expire, SweepSelect, SweepUpdate, SweepNotify,
                    Overdue

(***************************************************************************)
(* The theorems                                                            *)
(***************************************************************************)
LEMMA OwnedInitially == Init => Owned
<1> SUFFICES ASSUME Init PROVE Owned
  OBVIOUS
<1>1. queue = <<>> /\ Len(queue) = 0 /\ \A t \in Threads : pc[t] = "idle"
  BY DEF Init
<1>2. OneOwner
  BY <1>1, HoldingSet DEF OneOwner, Holds, InLine
<1>3. PhaseFits /\ NothingExpires
  BY DEF Init, PhaseFits, NothingExpires, Threads
<1>4. \A t \in Threads : ThreadFits(t)
  BY <1>1, HoldingSet DEF ThreadFits, Deciding, AtStep, Executing
<1>5. ASSUME NEW r \in Runs PROVE RunFits(r)
  <2>1. /\ status[r] = "none" /\ step[r] = 0 /\ output[r] = Input /\ backlog = {}
        /\ \A i \in Steps : span[r][i] = "none" /\ approval[r][i] = "none"
    BY DEF Init
  <2>2. GateFits(r)
    BY <2>1 DEF GateFits
  <2>3. TraceFits(r)
    BY <2>1 DEF TraceFits, Handed
  <2>4. QueueFits(r)
    BY <1>1, <2>1 DEF QueueFits, InLine
  <2> QED BY <2>2, <2>3, <2>4 DEF RunFits
<1> QED BY <1>2, <1>3, <1>4, <1>5 DEF Owned

LEMMA OwnedInductive ==
    ASSUME DefaultDeployment, IInv, Owned, [Next]_vars
    PROVE  Owned'
<1>1. ASSUME NEW t \in Threads, Continue(t) PROVE Owned'
  BY <1>1, SubmitOwned, ClaimOwned, ExecuteOwned, MarkOwned, ReadingOwned, RefuseOwned,
     RecordSpanOwned, MarkFailedOwned, AdvanceOwned, FinishOwned, NotifyOwned, PauseOwned,
     PauseRowOwned, CancelWriteOwned, LapseOwned, RejectOwned, ApproveOwned
     DEF Continue
<1>2. ASSUME NEW t \in Threads, Pop(t) PROVE Owned'
  BY <1>2, PopOwned
<1>3. ASSUME NEW t \in Threads, Arrive(t) PROVE Owned'
  BY <1>3, StartOwned, CancelReadOwned, DecideReadOwned DEF Arrive
<1>4. ASSUME NEW r \in Runs, NEW i \in Steps, Overdue(r, i) PROVE Owned'
  BY <1>4, NothingToExpire
<1>5. CASE Expire
  BY <1>5, NothingToExpire
<1>6. CASE Recover
  BY <1>6, RecoverOwned
<1>7. ASSUME NEW p \in Processes, Crash(p) PROVE Owned'
  BY <1>7, CrashOwned
<1>8. CASE UNCHANGED vars
  <2>1. /\ UNCHANGED <<status, step, output, span, spanIn, spanOut, approval, overdue>>
        /\ UNCHANGED <<queue, phase, backlog, lapsing, sweep, pc, job, idx, val>>
    BY <1>8 DEF vars, runRow, spanRow, approvalRow, procVars, sweepVars, locals
  <2>2. /\ \A u \in Threads : ThreadFits(u)'
        /\ \A q \in Runs : GateFits(q)' /\ TraceFits(q)'
    BY <2>1, RowsStay
  <2>3. \A q \in Runs : QueueFits(q)'
    BY <2>1 DEF Owned, RunFits, QueueFits, InLine
  <2>4. OneOwner' /\ PhaseFits' /\ NothingExpires'
    BY <2>1 DEF Owned, OneOwner, PhaseFits, NothingExpires, Holds, InLine, Incomplete
  <2> QED BY <2>2, <2>3, <2>4 DEF Owned, RunFits
<1> QED BY <1>1, <1>2, <1>3, <1>4, <1>5, <1>6, <1>7, <1>8 DEF Next

\* A run has one owner at most as long as the default deployment lives, dies and restarts.
THEOREM Ownership ==
    ASSUME DefaultDeployment
    PROVE  Spec => []Owned
<1>1. IInv /\ Owned /\ [Next]_vars => Owned'
  BY OwnedInductive
<1> QED BY <1>1, OwnedInitially, Invariance, PTL DEF Spec

\* _execute_queued, decide_approval, recover_incomplete_runs: a run has one executor at most.
THEOREM ExecutesAlone ==
    ASSUME DefaultDeployment
    PROVE  Spec => []SingleExecutor
<1>1. IInv /\ Owned => SingleExecutor
  BY OwnerHasRun DEF Owned, OneOwner, Holds, Holding, SingleExecutor
<1> QED BY <1>1, Ownership, Invariance, PTL

\* _execute: what a span has as its input is what the span before it handed on, and a
\* completed run has what its last one did, across pauses, edits and restarts.
THEOREM HandsOn ==
    ASSUME DefaultDeployment
    PROVE  Spec => []TraceIsContinuous
<1>1. IInv /\ Owned => TraceIsContinuous
  <2> SUFFICES ASSUME IInv, Owned, NEW r \in Runs
               PROVE  /\ \A i \in Steps : span[r][i] # "none" =>
                           spanIn[r][i] = IF i = 0 THEN Input ELSE spanOut[r][i - 1]
                      /\ status[r] = "completed" => output[r] = spanOut[r][N - 1]
    BY DEF TraceIsContinuous
  <2>1. TraceFits(r)
    BY DEF Owned, RunFits
  <2> QED BY <2>1, SizeAssumption DEF TraceFits, Handed
<1> QED BY <1>1, Ownership, Invariance, PTL

\* _pause_for_approval: a run that waits has a pending approval at its step.
THEOREM WaitsForDecision ==
    ASSUME DefaultDeployment
    PROVE  Spec => []WaitingIsDecidable
<1>1. Owned => WaitingIsDecidable
  BY DEF Owned, RunFits, GateFits, WaitingIsDecidable
<1> QED BY <1>1, Ownership, PTL

\* RunQueue, recover_incomplete_runs: no queued run is lost, wherever the process dies.
THEOREM NoneLost ==
    ASSUME DefaultDeployment
    PROVE  Spec => []QueuedIsHeld
<1>1. Owned => QueuedIsHeld
  BY DEF Owned, RunFits, QueueFits, QueuedIsHeld, InLine
<1> QED BY <1>1, Ownership, PTL

\* Who writes the row of a run that has come to its end: a cancel, or the executor of a
\* run that was cancelled under it.
LEMMA TerminalWriters ==
    ASSUME DefaultDeployment, IInv, Owned, [Next]_vars,
           NEW r \in Runs, status[r] \in Terminal, status'[r] # status[r]
    PROVE  "cancelled" \in {status[r], status'[r]}
<1>0. TypeOK /\ status[r] \notin {"none", "queued", "running", "waiting_approval"}
  BY DEF IInv, Terminal
<1>1. ASSUME NEW t \in Threads, Continue(t)
      PROVE  "cancelled" \in {status[r], status'[r]}
  <2>0. /\ ThreadFits(t)
        /\ pc[t] \in Deciding => job[t] \in Runs /\ idx[t] \in Steps
    <3>1. ThreadFits(t) /\ ThreadOK(t)
      BY DEF Owned, IInv
    <3> QED BY <3>1 DEF ThreadOK, HasWork, Deciding
  <2>1. CASE Mark(t) \/ Refuse(t) \/ MarkFailed(t) \/ Finish(t) \/ PauseRow(t)
    <3>1. pc[t] \in Executing /\ job[t] = r
      BY <1>0, <2>1 DEF Mark, Refuse, MarkFailed, Finish, PauseRow, TypeOK, Executing, AtStep
    <3> QED BY <1>0, <2>0, <3>1 DEF ThreadFits
  <2>2. CASE Reject(t) \/ Approve(t)
    <3>1. pc[t] \in Deciding /\ job[t] = r
      BY <1>0, <2>2 DEF Reject, Approve, TypeOK, Deciding
    <3>2. status[r] = "waiting_approval"
      BY <2>0, <3>1 DEF ThreadFits, Owned, RunFits, GateFits
    <3> QED BY <1>0, <3>2
  <2>3. CASE Claim(t)
    BY <1>0, <2>3 DEF Claim, TypeOK
  <2>4. CASE CancelWrite(t)
    BY <1>0, <2>4 DEF CancelWrite, TypeOK
  <2>5. CASE \/ Submit(t) \/ Execute(t) \/ Check(t) \/ Invoke(t) \/ Recheck(t) \/ RecordSpan(t)
             \/ Advance(t) \/ Notify(t) \/ Pause(t) \/ Lapse(t)
    BY <2>5 DEF Submit, Execute, Check, Invoke, Recheck, RecordSpan, Advance, Notify, Pause,
                Lapse, runRow
  <2> QED BY <1>1, <2>1, <2>2, <2>3, <2>4, <2>5 DEF Continue
<1>2. ASSUME NEW t \in Threads, Pop(t) PROVE FALSE
  BY <1>2 DEF Pop, runRow
<1>3. ASSUME NEW t \in Threads, Arrive(t) PROVE FALSE
  BY <1>0, <1>3 DEF Arrive, StartSync, StartQueued, CancelRead, DecideRead, Escalate, runRow,
                    TypeOK
<1>4. ASSUME NEW q \in Runs, NEW i \in Steps, Overdue(q, i) PROVE FALSE
  BY <1>4, NothingToExpire
<1>5. CASE Expire
  BY <1>5, NothingToExpire
<1>6. CASE Recover
  BY <1>0, <1>6 DEF Recover, Boot, RecoverSelect, RecoverUpdate, Resubmit, Serve, runRow
<1>7. ASSUME NEW p \in Processes, Crash(p) PROVE FALSE
  BY <1>7 DEF Crash, runRow
<1>8. CASE UNCHANGED vars
  BY <1>8 DEF vars, runRow
<1> QED BY <1>1, <1>2, <1>3, <1>4, <1>5, <1>6, <1>7, <1>8 DEF Next

\* "Terminal history is never rewritten" (docs/ARCHITECTURE.md), but to or from "cancelled":
\* what is left of that promise is what cancel_run and _execute race for.
THEOREM RewritesAroundCancel ==
    ASSUME DefaultDeployment
    PROVE  Spec => RewrittenOnlyAroundCancel
<1>1. ASSUME IInv, Owned, [Next]_vars
      PROVE  \A r \in Runs : status[r] \in Terminal /\ status'[r] # status[r]
               => "cancelled" \in {status[r], status'[r]}
  BY <1>1, TerminalWriters
<1> QED BY <1>1, Ownership, Invariance, PTL DEF Spec, RewrittenOnlyAroundCancel
=============================================================================
