-------------------------- MODULE Admission_proofs --------------------------
(***************************************************************************)
(* Proofs about Admission, for any number of projects, workflows, keys,    *)
(* requests and faults.  What a request knows (RunOK, VersionOK) is        *)
(* monotone: projects only disappear, runs and versions only appear.  So a *)
(* step of one request leaves what the others know (Bystanders), and one   *)
(* lemma per action treats the request that steps.                         *)
(***************************************************************************)
EXTENDS Admission, FiniteSetTheorems, TLAPS

LEMMA Initially == Init => IInv
<1> SUFFICES ASSUME Init PROVE IInv
  OBVIOUS
<1>1. TypeOK
  BY BoundAssumption DEF Init, TypeOK
<1>2. OneRunPerKey /\ OwnVersions
  BY DEF Init, OneRunPerKey, OwnVersions
<1>3. \A c \in Requests : RunOK(c) /\ VersionOK(c)
  BY DEF Init, RunOK, VersionOK
<1>4. NoGap
  <2>1. \A p \in Projects : taken[p] = 1 .. 0
    BY DEF Init
  <2> QED BY <2>1 DEF NoGap
<1> QED BY <1>1, <1>2, <1>3, <1>4 DEF IInv

\* A request asks for a run or for a version, of a project there is or was.
LEMMA Asked ==
    ASSUME TypeOK, NEW c \in Requests
    PROVE  /\ want[c].op \in {"run", "version"} /\ Home(c) \in Projects
           /\ want[c].op = "run" => want[c] \in RunWants
<1>1. want[c] \in RunWants \/ want[c] \in VersionWants
  BY DEF TypeOK
<1>2. CASE want[c] \in RunWants
  BY <1>2, NameAssumption DEF RunWants, Home
<1>3. CASE want[c] \in VersionWants
  BY <1>3 DEF VersionWants, Home
<1> QED BY <1>1, <1>2, <1>3

\* What a step leaves alone of every request but c.
OthersKeep(c) ==
    \A d \in Requests \ {c} : pc'[d] = pc[d] /\ answer'[d] = answer[d] /\ seen'[d] = seen[d]

\* What the others know survives a step of request c.
LEMMA Bystanders ==
    ASSUME IInv, NEW c \in Requests, OthersKeep(c), UNCHANGED <<deleted, want>>,
           made' \in {made, made \cup {c}}, faults' = faults \/ faults' = faults + 1,
           \A p \in Projects : taken[p] \subseteq taken'[p]
    PROVE  \A d \in Requests \ {c} : RunOK(d)' /\ VersionOK(d)'
<1> SUFFICES ASSUME NEW d \in Requests \ {c} PROVE RunOK(d)' /\ VersionOK(d)'
  OBVIOUS
<1>0. RunOK(d) /\ VersionOK(d) /\ TypeOK
  BY DEF IInv
<1>1. /\ Home(d)' = Home(d) /\ Live(d)' = Live(d) /\ Kin(d)' = Kin(d)
      /\ ParentFits(d)' = ParentFits(d) /\ \A e \in made : SameKey(d, e)' = SameKey(d, e)
  BY DEF Home, Live, Kin, ParentFits, SameKey
<1>2. d \in made' <=> d \in made
  OBVIOUS
<1>3. faults' = 0 => faults = 0
  BY <1>0 DEF TypeOK
<1>4. Home(d) \in Projects
  BY <1>0, Asked
<1>5. RunOK(d)'
  BY <1>0, <1>1, <1>2, <1>3 DEF RunOK, OthersKeep
<1>6. VersionOK(d)'
  BY <1>0, <1>1, <1>4 DEF VersionOK, OthersKeep
<1> QED BY <1>5, <1>6

\* A step of a request for a run keeps the invariant when it keeps what the
\* request itself knows.
LEMMA RunStep ==
    ASSUME IInv, NEW c \in Requests, want[c].op = "run", OthersKeep(c),
           UNCHANGED <<deleted, taken, want, seen>>,
           made' \in {made, made \cup {c}}, faults' = faults \/ faults' = faults + 1,
           TypeOK', OneRunPerKey', RunOK(c)'
    PROVE  IInv'
<1>1. \A d \in Requests \ {c} : RunOK(d)' /\ VersionOK(d)'
  BY Bystanders
<1>2. VersionOK(c)'
  BY DEF VersionOK
<1>3. NoGap'
  BY DEF IInv, NoGap
<1>4. seen[c] = 0
  BY DEF IInv, RunOK
<1>5. OwnVersions'
  BY <1>4 DEF IInv, OwnVersions, OthersKeep, Home
<1> QED BY <1>1, <1>2, <1>3, <1>5 DEF IInv

\* Only requests for runs are at the labels of one.
LEMMA AsksForRun ==
    ASSUME IInv, NEW c \in Requests, pc[c] \in {"peek", "open", "insert", "fallback", "submit"}
    PROVE  want[c].op = "run"
<1>1. TypeOK /\ VersionOK(c)
  BY DEF IInv
<1> QED BY <1>1, Asked DEF VersionOK

\* A request that creates no run and is answered with nothing, with the run of its
\* key, or with its own, leaves the runs and the keys as they are.
LEMMA AnsweredStep ==
    ASSUME IInv, NEW c \in Requests, UNCHANGED <<deleted, made, taken, want, seen>>,
           NEW label \in {"open", "peek", "insert", "fallback", "submit", "done"},
           pc' = [pc EXCEPT ![c] = label],
           answer' = answer \/ \E d \in made : /\ answer' = [answer EXCEPT ![c] = d]
                                               /\ d = c \/ SameKey(c, d),
           faults' \in 0 .. MaxFaults
    PROVE  TypeOK' /\ OneRunPerKey' /\ OthersKeep(c)
<1>0. TypeOK /\ OneRunPerKey
  BY DEF IInv
<1>1. \A d, e \in Requests : SameKey(d, e)' = SameKey(d, e)
  BY DEF SameKey
<1>2. TypeOK'
  BY <1>0 DEF TypeOK
<1>3. made \subseteq Requests /\ \A d \in Requests : answer[d] \in made \cup {NoRun}
  BY <1>0 DEF TypeOK
<1>4. \A d \in Requests : answer'[d] # NoRun => answer'[d] = d \/ SameKey(d, answer'[d])
  BY <1>0, <1>3 DEF OneRunPerKey, TypeOK
<1>5. \A d \in Requests : answer'[d] \in made \cup {NoRun}
  BY <1>2 DEF TypeOK
<1>6. OneRunPerKey'
  <2>1. \A d, e \in made' : SameKey(d, e)' => d = e
    BY <1>0, <1>1, <1>3 DEF OneRunPerKey
  <2> QED BY <1>4, <2>1 DEF OneRunPerKey, SameKey
<1>7. OthersKeep(c)
  BY <1>0 DEF OthersKeep, TypeOK
<1> QED BY <1>2, <1>6, <1>7

\* A run that is found is one of the key.
LEMMA FoundIsSame ==
    ASSUME NEW c \in Requests, NEW d \in Found(c)
    PROVE  d \in made /\ SameKey(c, d) /\ Live(c)
BY DEF Found

\* Without one, the project is gone or the key is free.
LEMMA NotFound ==
    ASSUME NEW c \in Requests, Found(c) = {}
    PROVE  ~Live(c) \/ \A d \in made : ~SameKey(c, d)
BY DEF Found

LEMMA ArriveStep == ASSUME IInv, NEW c \in Requests, Arrive(c) PROVE IInv'
<1>0. TypeOK /\ RunOK(c) /\ want[c].op = "run" /\ pc[c] = "idle"
  BY DEF IInv, Arrive
<1>1. UNCHANGED <<deleted, made, taken, want, answer, seen, faults>>
  BY DEF Arrive, tables
<1>2. PICK label \in {"done", "open", "peek"} :
        pc' = [pc EXCEPT ![c] = label] /\ (label = "done" => ~Live(c))
  BY DEF Arrive, Goto
<1>3. TypeOK' /\ OneRunPerKey' /\ OthersKeep(c)
  BY <1>0, <1>1, <1>2, AnsweredStep DEF TypeOK
<1>4. RunOK(c)'
  BY <1>0, <1>1, <1>2 DEF TypeOK, RunOK, Kin, Live, Home, ParentFits
<1> QED BY <1>0, <1>1, <1>3, <1>4, RunStep

\* A look-up ends the request with the run of its key or leads on.
LEMMA PeekStep == ASSUME IInv, NEW c \in Requests, Peek(c) PROVE IInv'
<1>0. TypeOK /\ RunOK(c) /\ pc[c] = "peek" /\ want[c].op = "run"
  BY AsksForRun DEF IInv, Peek
<1>1. UNCHANGED <<deleted, made, taken, want, seen, faults>>
  BY DEF Peek, tables
<1>2. \/ \E d \in Found(c) : answer' = [answer EXCEPT ![c] = d] /\ pc' = [pc EXCEPT ![c] = "done"]
      \/ answer' = answer /\ pc' = [pc EXCEPT ![c] = "open"]
  BY DEF Peek, AnswerWith, Goto
<1>3. TypeOK' /\ OneRunPerKey' /\ OthersKeep(c)
  BY <1>0, <1>1, <1>2, AnsweredStep, FoundIsSame DEF TypeOK
<1>4. RunOK(c)'
  <2>1. \A d \in made : d # NoRun
    BY <1>0, NameAssumption DEF TypeOK
  <2> QED BY <1>0, <1>1, <1>2, <2>1, FoundIsSame DEF TypeOK, RunOK, ParentFits, Home
<1> QED BY <1>0, <1>1, <1>3, <1>4, RunStep

LEMMA OpenStep == ASSUME IInv, NEW c \in Requests, Open(c) PROVE IInv'
<1>0. TypeOK /\ RunOK(c) /\ pc[c] = "open" /\ want[c].op = "run"
  BY AsksForRun DEF IInv, Open
<1>1. UNCHANGED <<deleted, made, taken, want, seen, faults>>
  BY DEF Open, tables
<1>2. \/ \E d \in Found(c) : answer' = [answer EXCEPT ![c] = d] /\ pc' = [pc EXCEPT ![c] = "done"]
      \/ answer' = answer /\ pc' = [pc EXCEPT ![c] = "insert"] /\ Kin(c)
      \/ answer' = answer /\ pc' = [pc EXCEPT ![c] = "done"] /\ ~Kin(c)
  BY DEF Open, AnswerWith, Fail, Goto
<1>3. TypeOK' /\ OneRunPerKey' /\ OthersKeep(c)
  BY <1>0, <1>1, <1>2, AnsweredStep, FoundIsSame DEF TypeOK
<1>4. RunOK(c)'
  <2>1. \A d \in made : d # NoRun
    BY <1>0, NameAssumption DEF TypeOK
  <2> QED BY <1>0, <1>1, <1>2, <2>1, FoundIsSame DEF TypeOK, RunOK, ParentFits, Kin, Live, Home
<1> QED BY <1>0, <1>1, <1>3, <1>4, RunStep

\* The INSERT creates the first run of its key, or the key is taken.
LEMMA InsertStep == ASSUME IInv, NEW c \in Requests, Insert(c) PROVE IInv'
<1>0. TypeOK /\ OneRunPerKey /\ RunOK(c) /\ pc[c] = "insert" /\ want[c].op = "run"
  BY AsksForRun DEF IInv, Insert
<1>1. UNCHANGED <<deleted, taken, want, answer, seen, faults>>
  BY DEF Insert
<1>2. CASE Unique(c) /\ made' = made \cup {c} /\ Goto(c, "submit")
  <2>1. \A d \in made : ~SameKey(c, d) /\ ~SameKey(d, c)
    BY <1>2, NotFound DEF Unique, SameKey
  <2>2. TypeOK' /\ OthersKeep(c)
    BY <1>0, <1>1, <1>2 DEF TypeOK, Goto, OthersKeep
  <2>3. OneRunPerKey'
    BY <1>0, <1>1, <1>2, <2>1 DEF OneRunPerKey, SameKey
  <2>4. RunOK(c)'
    BY <1>0, <1>1, <1>2 DEF TypeOK, RunOK, Goto, ParentFits, Home
  <2> QED BY <1>0, <1>1, <1>2, <2>2, <2>3, <2>4, RunStep
<1>3. CASE ~Unique(c) /\ made' = made /\ Goto(c, "fallback")
  <2>1. ~Live(c) \/ \E d \in made : SameKey(c, d)
    BY <1>3 DEF Unique, Found
  <2>2. TypeOK' /\ OneRunPerKey' /\ OthersKeep(c)
    BY <1>0, <1>1, <1>3, AnsweredStep DEF TypeOK, Goto
  <2>3. RunOK(c)'
    BY <1>0, <1>1, <1>3, <2>1 DEF TypeOK, RunOK, Goto, ParentFits, Live, Home, SameKey
  <2> QED BY <1>0, <1>1, <1>3, <2>2, <2>3, RunStep
<1> QED BY <1>2, <1>3 DEF Insert

\* Only a deleted project leaves the loser of a race without a run.
LEMMA FallbackStep == ASSUME IInv, NEW c \in Requests, Fallback(c) PROVE IInv'
<1>0. TypeOK /\ RunOK(c) /\ pc[c] = "fallback" /\ want[c].op = "run"
  BY AsksForRun DEF IInv, Fallback
<1>1. UNCHANGED <<deleted, made, taken, want, seen, faults>>
  BY DEF Fallback, tables
<1>2. \/ \E d \in Found(c) : answer' = [answer EXCEPT ![c] = d] /\ pc' = [pc EXCEPT ![c] = "done"]
      \/ answer' = answer /\ pc' = [pc EXCEPT ![c] = "done"] /\ Found(c) = {}
  BY DEF Fallback, AnswerWith, Fail, Goto
<1>3. TypeOK' /\ OneRunPerKey' /\ OthersKeep(c)
  BY <1>0, <1>1, <1>2, AnsweredStep, FoundIsSame DEF TypeOK
<1>4. RunOK(c)'
  <2>1. \A d \in made : d # NoRun
    BY <1>0, NameAssumption DEF TypeOK
  <2>2. Found(c) = {} => ~Live(c)
    BY <1>0, NotFound DEF RunOK
  <2> QED BY <1>0, <1>1, <1>2, <2>1, <2>2, FoundIsSame DEF TypeOK, RunOK, ParentFits, Kin, Live, Home
<1> QED BY <1>0, <1>1, <1>3, <1>4, RunStep

\* The answer is the request's own run, unless it is deleted or a fault occurs.
LEMMA ReturnStep == ASSUME IInv, NEW c \in Requests, Return(c) PROVE IInv'
<1>0. TypeOK /\ RunOK(c) /\ pc[c] = "submit" /\ want[c].op = "run" /\ c \in made
  BY AsksForRun DEF IInv, Return, RunOK
<1>1. UNCHANGED <<deleted, made, taken, want, seen>>
  BY DEF Return, tables
<1>2. /\ pc' = [pc EXCEPT ![c] = "done"]
      /\ \/ answer' = [answer EXCEPT ![c] = c] /\ faults' = faults
         \/ answer' = answer /\ faults' = faults /\ ~Live(c)
         \/ answer' = answer /\ faults < MaxFaults /\ faults' = faults + 1
  BY DEF Return, AnswerWith, Fail, Goto
<1>3. faults \in Nat /\ faults' \in 0 .. MaxFaults
  BY <1>0, <1>2, BoundAssumption DEF TypeOK
<1>4. TypeOK' /\ OneRunPerKey' /\ OthersKeep(c)
  BY <1>0, <1>1, <1>2, <1>3, AnsweredStep
<1>5. RunOK(c)'
  <2>1. c # NoRun
    BY NameAssumption
  <2> QED BY <1>0, <1>1, <1>2, <1>3, <2>1 DEF TypeOK, RunOK, ParentFits, Kin, Live, Home
<1> QED BY <1>0, <1>1, <1>2, <1>4, <1>5, RunStep

\* The latest of versions without a gap is their number.
LEMMA LatestOfInterval ==
    ASSUME NEW p \in Projects, NEW n \in Nat, taken[p] = 1 .. n
    PROVE  Latest(p) = n
<1>1. n \in taken[p] \cup {0} /\ \A m \in taken[p] : m <= n
  OBVIOUS
<1>2. \A k \in taken[p] \cup {0} : (\A m \in taken[p] : m <= k) => k = n
  OBVIOUS
<1> QED BY <1>1, <1>2 DEF Latest

\* A step of a request for a version keeps the runs, and with them their keys.
LEMMA VersionStep ==
    ASSUME IInv, NEW c \in Requests, want[c].op = "version", OthersKeep(c),
           UNCHANGED <<deleted, made, want, answer, faults>>,
           \A p \in Projects : taken[p] \subseteq taken'[p],
           TypeOK', VersionOK(c)', NoGap', OwnVersions'
    PROVE  IInv'
<1>1. \A d \in Requests \ {c} : RunOK(d)' /\ VersionOK(d)'
  BY Bystanders
<1>2. RunOK(c)'
  BY DEF RunOK
<1>3. OneRunPerKey'
  BY DEF IInv, OneRunPerKey, SameKey
<1> QED BY <1>1, <1>2, <1>3 DEF IInv

LEMMA NumberStep == ASSUME IInv, NEW c \in Requests, Number(c) PROVE IInv'
<1>0. /\ TypeOK /\ VersionOK(c) /\ want[c].op = "version" /\ pc[c] = "idle" /\ seen[c] = 0
      /\ Home(c) \in Projects /\ answer[c] = NoRun
  BY Asked DEF IInv, Number, VersionOK
<1>1. UNCHANGED <<deleted, made, taken, want, answer, faults>>
  BY DEF Number, tables
<1>2. PICK n \in Nat : taken[Home(c)] = 1 .. n
  BY <1>0 DEF IInv, NoGap
<1>3. \/ seen' = [seen EXCEPT ![c] = n + 1] /\ pc' = [pc EXCEPT ![c] = "number"]
      \/ seen' = seen /\ pc' = [pc EXCEPT ![c] = "done"]
  BY <1>0, <1>2, LatestOfInterval DEF Number, Goto
<1>4. TypeOK' /\ OthersKeep(c)
  BY <1>0, <1>1, <1>3 DEF TypeOK, OthersKeep
<1>5. VersionOK(c)'
  BY <1>0, <1>1, <1>2, <1>3 DEF TypeOK, VersionOK, Home
<1>6. NoGap'
  BY <1>1 DEF IInv, NoGap
<1>7. OwnVersions'
  BY <1>0, <1>1, <1>3 DEF IInv, TypeOK, OwnVersions, Home
<1> QED BY <1>0, <1>1, <1>4, <1>5, <1>6, <1>7, VersionStep

\* A number that is free when it is inserted is the next one.
LEMMA InsertVersionStep == ASSUME IInv, NEW c \in Requests, InsertVersion(c) PROVE IInv'
<1> DEFINE p == Home(c)
<1>0. /\ TypeOK /\ VersionOK(c) /\ want[c].op = "version" /\ pc[c] = "number"
      /\ p \in Projects /\ seen[c] \in Nat /\ answer[c] = NoRun
  BY Asked DEF IInv, InsertVersion, RunOK, VersionOK, TypeOK
<1>1. /\ UNCHANGED <<deleted, made, want, answer, faults>>
      /\ pc' = [pc EXCEPT ![c] = "done"]
  BY DEF InsertVersion, Goto
<1>2. CASE seen[c] \notin taken[p] /\ taken' = [taken EXCEPT ![p] = @ \cup {seen[c]}] /\ seen' = seen
  <2>1. PICK n \in Nat : taken[p] = 1 .. n
    BY <1>0 DEF IInv, NoGap
  <2>2. seen[c] = n + 1
    BY <1>0, <1>2, <2>1 DEF VersionOK
  <2>3. taken'[p] = 1 .. (n + 1) /\ \A q \in Projects \ {p} : taken'[q] = taken[q]
    BY <1>0, <1>2, <2>1, <2>2 DEF TypeOK
  <2>4. NoGap'
    BY <2>1, <2>3 DEF IInv, NoGap
  <2>5. TypeOK' /\ OthersKeep(c)
    BY <1>0, <1>1, <1>2 DEF TypeOK, OthersKeep
  <2>6. VersionOK(c)'
    BY <1>0, <1>1, <1>2, <2>2, <2>3 DEF TypeOK, VersionOK, Home
  <2>7. \A d \in Requests \ {c} : pc[d] = "done" /\ Home(d) = p => seen[d] # seen[c]
    <3> SUFFICES ASSUME NEW d \in Requests \ {c}, pc[d] = "done", Home(d) = p PROVE seen[d] # seen[c]
      OBVIOUS
    <3>1. RunOK(d) /\ VersionOK(d) /\ want[d].op \in {"run", "version"}
      BY <1>0, Asked DEF IInv
    <3> QED BY <1>0, <1>2, <2>2, <3>1 DEF RunOK, VersionOK
  <2>8. OwnVersions'
    BY <1>0, <1>1, <1>2, <2>7 DEF IInv, TypeOK, OwnVersions, Home
  <2>9. \A q \in Projects : taken[q] \subseteq taken'[q]
    BY <2>1, <2>3
  <2> QED BY <1>0, <1>1, <2>4, <2>5, <2>6, <2>8, <2>9, VersionStep
<1>3. CASE seen' = [seen EXCEPT ![c] = 0] /\ taken' = taken
  <2>1. TypeOK' /\ OthersKeep(c) /\ seen'[c] = 0
    BY <1>0, <1>1, <1>3 DEF TypeOK, OthersKeep
  <2>2. VersionOK(c)'
    BY <1>0, <1>1, <2>1 DEF TypeOK, VersionOK
  <2>3. NoGap' /\ OwnVersions'
    BY <1>0, <1>1, <1>3, <2>1 DEF IInv, NoGap, OwnVersions, OthersKeep, Home
  <2> QED BY <1>0, <1>1, <1>3, <2>1, <2>2, <2>3, VersionStep
<1> QED BY <1>2, <1>3 DEF InsertVersion

\* A deletion only makes requests fail.
LEMMA DeleteProjectStep == ASSUME IInv, NEW p \in Projects, DeleteProject(p) PROVE IInv'
<1>1. UNCHANGED <<made, taken, pc, want, answer, seen, faults>> /\ deleted' = deleted \cup {p}
  BY DEF DeleteProject, requests
<1>2. TypeOK' /\ OneRunPerKey' /\ NoGap' /\ OwnVersions'
  BY <1>1 DEF IInv, TypeOK, OneRunPerKey, SameKey, NoGap, OwnVersions, Home
<1>3. \A c \in Requests : RunOK(c)' /\ VersionOK(c)'
  <2> SUFFICES ASSUME NEW c \in Requests PROVE RunOK(c)' /\ VersionOK(c)'
    OBVIOUS
  <2>1. RunOK(c) /\ VersionOK(c)
    BY DEF IInv
  <2>2. (Live(c)' => Live(c)) /\ (Kin(c)' => Kin(c)) /\ ParentFits(c)' = ParentFits(c)
    BY <1>1 DEF Live, Kin, ParentFits, Home
  <2>3. \A d \in made : SameKey(c, d)' = SameKey(c, d)
    BY <1>1 DEF SameKey
  <2> QED BY <1>1, <2>1, <2>2, <2>3 DEF RunOK, VersionOK, Home
<1> QED BY <1>2, <1>3 DEF IInv

\* A crash leaves requests without an answer, and is a fault.
LEMMA CrashStep == ASSUME IInv, Crash PROVE IInv'
<1>0. TypeOK /\ faults \in Nat /\ faults' = faults + 1 /\ faults' \in 0 .. MaxFaults /\ faults' # 0
  BY BoundAssumption DEF IInv, TypeOK, Crash
<1>1. /\ UNCHANGED <<deleted, made, taken, want, answer>>
      /\ pc' = [c \in Requests |-> IF pc[c] = "idle" THEN "idle" ELSE "done"]
      /\ seen' = [c \in Requests |-> IF pc[c] = "number" THEN 0 ELSE seen[c]]
  BY DEF Crash, tables
<1>2. TypeOK'
  BY <1>0, <1>1 DEF TypeOK
<1>3. OneRunPerKey' /\ NoGap'
  BY <1>1 DEF IInv, OneRunPerKey, SameKey, NoGap
<1>4. \A c \in Requests : RunOK(c)' /\ VersionOK(c)'
  <2> SUFFICES ASSUME NEW c \in Requests PROVE RunOK(c)' /\ VersionOK(c)'
    OBVIOUS
  <2>1. RunOK(c) /\ VersionOK(c)
    BY DEF IInv
  <2>2. /\ pc'[c] = IF pc[c] = "idle" THEN "idle" ELSE "done"
        /\ seen'[c] = IF pc[c] = "number" THEN 0 ELSE seen[c]
    BY <1>1
  <2>3. RunOK(c)'
    BY <1>0, <1>1, <2>1, <2>2 DEF RunOK, ParentFits, Home
  <2>4. VersionOK(c)'
    BY <1>0, <1>1, <2>1, <2>2 DEF VersionOK, Home
  <2> QED BY <2>3, <2>4
<1>5. \A c \in Requests : pc'[c] = "done" => seen'[c] = 0 \/ (pc[c] = "done" /\ seen'[c] = seen[c])
  <2> SUFFICES ASSUME NEW c \in Requests, pc[c] \notin {"idle", "number", "done"} PROVE seen[c] = 0
    BY <1>1
  <2>1. want[c].op = "run" /\ RunOK(c)
    BY <1>0, Asked DEF IInv, VersionOK
  <2> QED BY <2>1 DEF RunOK
<1>6. OwnVersions'
  BY <1>1, <1>5 DEF IInv, OwnVersions, Home
<1> QED BY <1>2, <1>3, <1>4, <1>6 DEF IInv

\* The invariant holds in every reachable state.
THEOREM Invariance == Spec => []IInv
<1>1. IInv /\ [Next]_vars => IInv'
  <2> SUFFICES ASSUME IInv, [Next]_vars PROVE IInv'
    OBVIOUS
  <2>1. CASE \E c \in Requests : Serve(c)
    BY <2>1, ArriveStep, PeekStep, OpenStep, InsertStep, FallbackStep, ReturnStep, NumberStep,
       InsertVersionStep DEF Serve
  <2>2. CASE \E p \in Projects : DeleteProject(p)
    BY <2>2, DeleteProjectStep
  <2>3. CASE Crash
    BY <2>3, CrashStep
  <2>4. CASE UNCHANGED vars
    BY <2>4 DEF vars, tables, requests, IInv, TypeOK, OneRunPerKey, SameKey, RunOK, VersionOK,
                NoGap, OwnVersions, ParentFits, Kin, Live, Home
  <2> QED BY <2>1, <2>2, <2>3, <2>4 DEF Next
<1> QED BY <1>1, Initially, PTL DEF Spec

\* Every variable keeps its type.
THEOREM TypeCorrect == Spec => []TypeOK
<1>1. IInv => TypeOK
  BY DEF IInv
<1> QED BY <1>1, Invariance, PTL

\* start_run: a key starts one run of a workflow and is answered with it.
THEOREM KeyStartsOneRun == Spec => []OneRunPerKey
<1>1. IInv => OneRunPerKey
  BY DEF IInv
<1> QED BY <1>1, Invariance, PTL

\* start_run: a request fails for its project, its parent or a fault, never for
\* another request.
THEOREM RacesSucceed == Spec => []RacesDoNotFail
<1>1. IInv => RacesDoNotFail
  BY DEF IInv, RacesDoNotFail, RunOK
<1> QED BY <1>1, Invariance, PTL

\* start_run: the check of the parent still holds when the row is inserted.
THEOREM ChildrenStay == Spec => []ChildStaysInProject
<1>1. IInv => ChildStaysInProject
  BY DEF IInv, TypeOK, ChildStaysInProject, RunOK, ParentFits
<1> QED BY <1>1, Invariance, PTL

\* create_workflow: versions are given once and have no gap.
THEOREM OneOwnerPerVersion == Spec => []VersionsAreOwn
<1>1. ASSUME IInv PROVE VersionsAreOwn
  <2>1. ASSUME NEW p \in Projects PROVE taken[p] = 1 .. Cardinality(taken[p])
    <3>1. PICK n \in Nat : taken[p] = 1 .. n
      BY <1>1 DEF IInv, NoGap
    <3>2. Cardinality(1 .. n) = n
      BY FS_Interval
    <3> QED BY <3>1, <3>2
  <2> QED BY <1>1, <2>1 DEF IInv, OwnVersions, VersionsAreOwn
<1> QED BY <1>1, Invariance, PTL
=============================================================================
