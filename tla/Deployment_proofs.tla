--------------------------- MODULE Deployment_proofs ---------------------------
(***************************************************************************)
(* Proofs about Migrations and Deployment, for every set of processes,     *)
(* releases and calls, every table of migrations, on both databases, with  *)
(* any number of faults and any limit and window.  MigIInv is kept by each *)
(* step of a process; IInv adds what the boundary remembers.               *)
(***************************************************************************)
EXTENDS Deployment, NaturalsInduction, WellFoundedInduction, FiniteSetTheorems, SequenceTheorems, TLAPS

(***************************************************************************)
(* Migrations                                                              *)
(***************************************************************************)
\* What the assumption says of the migrations and the heads of the releases.
LEMMA VersionFacts ==
    /\ Len(Table) \in Nat /\ Versions = 1 .. Len(Table)
    /\ \A m \in Versions : Table[m] \in Versions /\ Table[m] \in 1 .. m
    /\ Versions # {} => Table[1] = 1
    /\ \A h \in Heads : h \in Versions
BY MigrationAssumption, LenProperties DEF Versions

\* The first process to lock starts from what is committed.
LEMMA LockStep ==
    ASSUME MigIInv, NEW p \in Procs, Lock(p)
    PROVE  MigIInv'
<1>1. /\ lock = Nobody /\ lock' = p /\ p # Nobody /\ at' = 1
      /\ draft' = [schema |-> schema, ledger |-> ledger]
      /\ stage' = [stage EXCEPT ![p] = "apply"] /\ UNCHANGED <<schema, ledger, head, faults>>
  BY MigrationAssumption DEF Lock, Become, database
<1>2. head[p] \in Nat /\ Len(Table) \in Nat
  BY VersionFacts DEF MigIInv, MigTypeOK
<1>3. MigTypeOK' /\ HolderApplies'
  <2>1. MigTypeOK'
    BY <1>1, <1>2 DEF MigIInv, MigTypeOK
  <2>2. HolderApplies'
    BY <1>1, MigrationAssumption DEF MigIInv, MigTypeOK, HolderApplies
  <2> QED BY <2>1, <2>2
<1>4. DraftIsTrue'
  BY <1>1, <1>2 DEF MigIInv, LedgerIsTrue, DraftIsTrue
<1>5. LedgerIsTrue'
  BY <1>1 DEF MigIInv, MigTypeOK, LedgerIsTrue
<1> QED BY <1>3, <1>4, <1>5 DEF MigIInv

\* A process of another release may start at any time.
LEMMA BootStep ==
    ASSUME MigIInv, NEW p \in Procs, Boot(p)
    PROVE  MigIInv'
BY VersionFacts, MigrationAssumption
   DEF MigIInv, MigTypeOK, HolderApplies, DraftIsTrue, LedgerIsTrue, Boot, Become, database, migration

\* A process that ends takes its draft with it.
LEMMA EndStep ==
    ASSUME MigIInv, NEW p \in Procs, End(p), faults' \in 0 .. MaxFaults
    PROVE  MigIInv'
BY VersionFacts, MigrationAssumption
   DEF MigIInv, MigTypeOK, HolderApplies, DraftIsTrue, LedgerIsTrue, End, Become, Unlock, NoDraft,
       Database, database, migration

\* A process that gives up the lock of SQLite leaves nothing.
LEMMA BusyStep ==
    ASSUME MigIInv, NEW p \in Procs, Busy(p)
    PROVE  MigIInv'
BY VersionFacts, MigrationAssumption
   DEF MigIInv, MigTypeOK, HolderApplies, DraftIsTrue, LedgerIsTrue, Busy, Become, database, migration

\* Where a process is when it comes to a migration.
LEMMA Coming ==
    ASSUME MigIInv, NEW p \in Procs, Come(p)
    PROVE  /\ head[p] \in Heads /\ head[p] \in Versions /\ at \in 1 .. head[p] /\ at \in Versions
           /\ lock = p /\ lock # Nobody /\ at + 1 \in 1 .. Len(Table) + 1
<1>1. head[p] \in Heads /\ at \in 1 .. Len(Table) + 1 /\ at <= head[p] /\ lock = p /\ lock # Nobody
  BY MigrationAssumption DEF MigIInv, MigTypeOK, Come
<1>2. Len(Table) \in Nat /\ head[p] \in 1 .. Len(Table)
  BY <1>1, VersionFacts
<1> QED BY <1>1, <1>2, VersionFacts

\* A recorded migration is passed by.
LEMMA SkipStep ==
    ASSUME MigIInv, NEW p \in Procs, Skip(p)
    PROVE  MigIInv'
<1>1. /\ Come(p) /\ at \in draft.ledger /\ at' = at + 1
      /\ UNCHANGED <<schema, ledger, lock, draft, head, stage, faults>>
  BY DEF Skip, database, procs
<1>2. /\ head[p] \in Versions /\ at \in 1 .. head[p] /\ lock = p /\ lock # Nobody
      /\ at + 1 \in 1 .. Len(Table) + 1 /\ Len(Table) \in Nat
  BY <1>1, Coming, VersionFacts
<1>3. MigTypeOK'
  BY <1>1, <1>2 DEF MigIInv, MigTypeOK
<1>4. DraftIsTrue'
  <2>1. 1 .. at' - 1 \subseteq draft.ledger /\ at' <= head[p] + 1
    BY <1>1, <1>2, VersionFacts DEF MigIInv, DraftIsTrue
  <2> QED BY <1>1, <1>2, <2>1 DEF MigIInv, DraftIsTrue
<1> QED BY <1>1, <1>3, <1>4 DEF MigIInv, HolderApplies, LedgerIsTrue

\* What is recorded is in the schema: the first migration makes at least the first table.
LEMMA ChangeCovers ==
    ASSUME MigIInv, NEW h \in Heads, NEW m \in 1 .. h
    PROVE  Change(h, m) \subseteq Versions /\ m \in draft.schema \cup Change(h, m)
BY VersionFacts DEF Change, Schema, Versions

\* The change and its record come into the draft together.
LEMMA ApplyStep ==
    ASSUME MigIInv, NEW p \in Procs, Apply(p)
    PROVE  MigIInv'
<1> DEFINE new == draft.schema \cup Change(head[p], at)
<1>1. /\ head[p] \in Heads /\ head[p] \in Versions /\ at \in 1 .. head[p] /\ at \in Versions
      /\ lock = p /\ lock # Nobody /\ lock' = p
      /\ at + 1 \in 1 .. Len(Table) + 1 /\ at' = at + 1 /\ draft' = [schema |-> new, ledger |-> draft.ledger \cup {at}]
      /\ UNCHANGED <<schema, ledger, head, stage, faults>>
  BY Coming DEF Apply, database, procs
<1>2. new \subseteq Versions /\ at \in new
  BY <1>1, ChangeCovers DEF MigIInv, MigTypeOK, Database
<1>3. MigTypeOK'
  BY <1>1, <1>2, VersionFacts DEF MigIInv, MigTypeOK, Database
<1>4. DraftIsTrue'
  <2>1. draft'.schema = new /\ draft'.ledger = draft.ledger \cup {at}
    BY <1>1
  <2>2. schema \subseteq new /\ ledger \subseteq draft'.ledger /\ draft'.ledger \subseteq new
    BY <1>1, <1>2, <2>1 DEF MigIInv, DraftIsTrue
  <2>3. 1 .. at' - 1 \subseteq draft'.ledger /\ at' <= head[p] + 1
    BY <1>1, <2>1, VersionFacts DEF MigIInv, DraftIsTrue
  <2>4. ASSUME NEW m \in draft'.ledger PROVE 1 .. m \subseteq draft'.ledger
    BY <1>1, <2>1, <2>3 DEF MigIInv, DraftIsTrue
  <2> QED BY <1>1, <2>1, <2>2, <2>3, <2>4 DEF DraftIsTrue
<1> QED BY <1>1, <1>3, <1>4 DEF MigIInv, HolderApplies, LedgerIsTrue

\* A migration that raises ends its process.
LEMMA FailStep ==
    ASSUME MigIInv, NEW p \in Procs, Fail(p)
    PROVE  MigIInv'
<1>1. faults' \in 0 .. MaxFaults
  BY MigrationAssumption DEF Fail, MigIInv, MigTypeOK
<1> QED BY <1>1, EndStep DEF Fail

\* A process dies, wherever it is.
LEMMA DieStep ==
    ASSUME MigIInv, NEW p \in Procs, Die(p)
    PROVE  MigIInv'
<1>1. faults' \in 0 .. MaxFaults
  BY MigrationAssumption DEF Die, MigIInv, MigTypeOK
<1> QED BY <1>1, EndStep DEF Die

\* A draft is committed when it has all migrations of the release.
LEMMA CommitIsWhole ==
    ASSUME MigIInv, NEW p \in Procs, Commit(p)
    PROVE  /\ lock = p /\ stage'[p] = "serving" /\ head' = head
           /\ ledger \subseteq ledger' /\ ledger' \subseteq schema'
           /\ 1 .. head[p] \subseteq ledger'
           /\ \A m \in ledger' : 1 .. m \subseteq ledger'
<1>1. /\ lock = p /\ lock # Nobody /\ head[p] \in Nat /\ at \in Nat /\ at > head[p]
      /\ schema' = draft.schema /\ ledger' = draft.ledger /\ head' = head /\ stage'[p] = "serving"
  <2>1. head[p] \in Versions /\ at \in 1 .. Len(Table) + 1 /\ Len(Table) \in Nat /\ Versions = 1 .. Len(Table)
    BY VersionFacts DEF MigIInv, MigTypeOK
  <2> QED BY <2>1, MigrationAssumption DEF MigIInv, MigTypeOK, Commit, Become
<1>2. 1 .. head[p] \subseteq 1 .. at - 1
  BY <1>1
<1> QED BY <1>1, <1>2 DEF MigIInv, DraftIsTrue

\* After the commit the process serves with what it has recorded.
LEMMA CommitStep ==
    ASSUME MigIInv, NEW p \in Procs, Commit(p)
    PROVE  MigIInv'
<1>1. MigTypeOK' /\ HolderApplies' /\ DraftIsTrue'
  BY VersionFacts, MigrationAssumption
     DEF MigIInv, MigTypeOK, HolderApplies, DraftIsTrue, Commit, Become, Unlock, NoDraft, Database
<1>2. LedgerIsTrue'
  <2>1. ASSUME NEW q \in Procs, stage'[q] = "serving"
        PROVE  1 .. head'[q] \subseteq ledger'
    <3>1. CASE q = p
      BY <3>1, CommitIsWhole
    <3>2. CASE q # p
      <4>1. stage[q] = "serving"
        BY <2>1, <3>2 DEF Commit, Become, MigIInv, MigTypeOK
      <4> QED BY <4>1, CommitIsWhole DEF MigIInv, LedgerIsTrue
    <3> QED BY <3>1, <3>2
  <2> QED BY <2>1, CommitIsWhole DEF LedgerIsTrue
<1> QED BY <1>1, <1>2 DEF MigIInv

\* No step of a start breaks MigIInv.
LEMMA StartStep ==
    ASSUME MigIInv, NEW p \in Procs, Start(p)
    PROVE  MigIInv'
BY BootStep, LockStep, BusyStep, SkipStep, ApplyStep, FailStep, CommitStep DEF Start

\* Nor does a step beside Migrations.
LEMMA MigUnchanged ==
    ASSUME MigIInv, UNCHANGED migVars
    PROVE  MigIInv'
BY DEF MigIInv, MigTypeOK, HolderApplies, DraftIsTrue, LedgerIsTrue, migVars, database, migration, procs

\* The databases that the first release finds.
LEMMA MigInitial == MigInit => MigIInv
<1> SUFFICES ASSUME MigInit PROVE MigIInv
  OBVIOUS
<1>0. Nobody \notin Procs /\ MaxFaults \in Nat
  BY MigrationAssumption
<1>1. PICK n \in {0} \cup Heads : schema = 1 .. n /\ ledger \in {{}, 1 .. n}
  BY DEF MigInit
<1>2. n \in 0 .. Len(Table) /\ Len(Table) \in Nat
  BY VersionFacts
<1>3. 1 .. n \subseteq Versions /\ \A m \in 1 .. n : 1 .. m \subseteq 1 .. n
  BY <1>2 DEF Versions
<1>4. MigTypeOK
  <2>1. [schema |-> schema, ledger |-> ledger] \in Database /\ NoDraft \in Database
    BY <1>1, <1>3 DEF Database, NoDraft
  <2>2. head \in [Procs -> Heads]
    BY MigrationAssumption DEF MigInit
  <2> QED BY <1>0, <1>2, <2>1, <2>2 DEF MigInit, MigTypeOK
<1> QED BY <1>0, <1>1, <1>3, <1>4 DEF MigIInv, MigInit, HolderApplies, DraftIsTrue, LedgerIsTrue

(***************************************************************************)
(* The bucket                                                              *)
(***************************************************************************)
\* Every set of natural numbers has a smallest one.
LEMMA SmallestIn ==
    ASSUME NEW S \in SUBSET Nat, S # {}
    PROVE  \E m \in S : \A k \in S : m <= k
<1>1. PICK m \in S : \A k \in S : ~(<<k, m>> \in OpToRel(<, Nat))
  BY NatLessThanWellFounded, WFMin
<1>2. ASSUME NEW k \in S PROVE m <= k
  <2>1. SUFFICES ASSUME k < m PROVE FALSE
    OBVIOUS
  <2>2. <<k, m>> \in Nat \X Nat
    OBVIOUS
  <2>3. <<k, m>> \in OpToRel(<, Nat)
    BY <2>1, <2>2 DEF OpToRel
  <2> QED BY <1>1, <2>3
<1> QED BY <1>2

\* A list of times in their order.
Ordered(b) == \A i, j \in 1 .. Len(b) : i <= j => b[i] <= b[j]

\* What is left of an ordered bucket is its end: the entries that are in the window.
LEMMA InWindowIsEnd ==
    ASSUME NEW b \in Seq(Times), Ordered(b), clock \in Times
    PROVE  \E n \in 0 .. Len(b) :
             /\ InWindow(b) \in Seq(Times) /\ Len(InWindow(b)) = Len(b) - n
             /\ \A i \in 1 .. Len(b) - n : InWindow(b)[i] = b[n + i]
             /\ \A i \in 1 .. n : b[i] < clock - Window
             /\ \A i \in n + 1 .. Len(b) : b[i] >= clock - Window
<1> DEFINE S == {n \in 0 .. Len(b) : n = Len(b) \/ Fresh(b[n + 1])}
           gone == Min(S)
<1>0. /\ Len(b) \in Nat /\ \A i \in 1 .. Len(b) : b[i] \in Int
      /\ clock \in Int /\ Window \in Int
  BY LenProperties, ElementOfSeq, CallAssumption DEF Times
<1>1. S \in SUBSET Nat /\ Len(b) \in S
  BY <1>0
<1>2. gone \in S /\ \A k \in S : gone <= k
  <2>1. \E m \in S : \A k \in S : m <= k
    BY <1>1, SmallestIn
  <2> HIDE DEF S
  <2> QED BY <2>1 DEF Min
<1>3. gone \in 0 .. Len(b) /\ InWindow(b) = SubSeq(b, gone + 1, Len(b))
  BY <1>2 DEF InWindow
<1> HIDE DEF gone
<1>4. /\ InWindow(b) \in Seq(Times) /\ Len(InWindow(b)) = Len(b) - gone
      /\ \A i \in 1 .. Len(b) - gone : InWindow(b)[i] = b[gone + i]
  <2>1. \A i \in gone + 1 .. Len(b) : b[i] \in Times
    BY <1>3, <1>0, ElementOfSeq
  <2>2. /\ SubSeq(b, gone + 1, Len(b)) \in Seq(Times)
        /\ Len(SubSeq(b, gone + 1, Len(b))) =
             IF gone + 1 <= Len(b) THEN Len(b) - (gone + 1) + 1 ELSE 0
        /\ \A i \in 1 .. Len(b) - (gone + 1) + 1 :
             SubSeq(b, gone + 1, Len(b))[i] = b[gone + 1 + i - 1]
    BY <1>0, <1>3, <2>1, SubSeqProperties
  <2> QED BY <1>0, <1>3, <2>2
<1>5. \A i \in 1 .. gone : b[i] < clock - Window
  <2> SUFFICES ASSUME NEW i \in 1 .. gone, ~(b[i] < clock - Window) PROVE FALSE
    OBVIOUS
  <2>1. i - 1 \in 0 .. Len(b) /\ b[i - 1 + 1] = b[i] /\ b[i] \in Int
    BY <1>0, <1>3
  <2>2. i - 1 \in S
    <3>1. Fresh(b[i])
      BY <1>0, <2>1 DEF Fresh
    <3> QED BY <2>1, <3>1
  <2> HIDE DEF S
  <2>3. gone <= i - 1
    BY <1>2, <2>2
  <2> QED BY <1>3, <2>3
<1>6. \A i \in gone + 1 .. Len(b) : b[i] >= clock - Window
  <2> SUFFICES ASSUME NEW i \in gone + 1 .. Len(b) PROVE b[i] >= clock - Window
    OBVIOUS
  <2>1. gone # Len(b) /\ gone + 1 \in 1 .. Len(b) /\ i \in 1 .. Len(b) /\ gone + 1 <= i
    BY <1>0, <1>3
  <2>2. b[gone + 1] >= clock - Window
    BY <1>2, <2>1 DEF Fresh
  <2>3. b[gone + 1] <= b[i]
    BY <2>1 DEF Ordered
  <2> QED BY <1>0, <2>1, <2>2, <2>3
<1> QED BY <1>3, <1>4, <1>5, <1>6

(***************************************************************************)
(* The boundary                                                            *)
(***************************************************************************)
\* What the assumption says of calls and times.
LEMMA CallFacts ==
    /\ Limit \in Nat \ {0} /\ Window \in Nat /\ MaxClock \in Nat
    /\ \A c \in Calls : What[c].via \in Procs /\ What[c].actor \in Actors
    /\ \A t \in Times : t \in Nat
BY CallAssumption DEF Requests, Actors, Times

\* The buckets stay while they and their histories do and the clock does not go back.
LEMMA BucketsStay ==
    ASSUME IInv, NEW p \in Procs, NEW a \in Actors,
           bucket'[p][a] = bucket[p][a], admitted'[p][a] = admitted[p][a],
           clock' \in Times, clock' >= clock
    PROVE  BucketIsRecent(p, a)'
<1> DEFINE b == bucket[p][a]
           h == admitted[p][a]
<1>1. b \in Seq(Times) /\ h \in Seq(Times)
  BY DEF IInv, TypeOK
<1>2. /\ Len(b) \in Nat /\ Len(h) \in Nat /\ \A i \in 1 .. Len(h) : h[i] \in Int
      /\ clock \in Int /\ clock' \in Int /\ Window \in Int
  BY <1>1, CallFacts, LenProperties, ElementOfSeq DEF IInv, TypeOK, Times
<1>3. /\ Len(h) - Len(b) >= 0 /\ Len(b) <= Limit
      /\ \A i \in 1 .. Len(b) : b[i] = h[Len(h) - Len(b) + i]
      /\ \A i \in 1 .. Len(h) - Len(b) : h[i] < clock - Window
      /\ \A i, j \in 1 .. Len(h) : i <= j => h[i] <= h[j] /\ h[j] <= clock
  BY DEF IInv, BucketIsRecent
<1>4. ASSUME NEW i \in 1 .. Len(h) - Len(b) PROVE h[i] < clock' - Window
  <2>1. h[i] \in Int /\ h[i] < clock - Window
    BY <1>2, <1>3
  <2> HIDE DEF h
  <2> QED BY <1>2, <2>1
<1>5. ASSUME NEW i \in 1 .. Len(h), NEW j \in 1 .. Len(h), i <= j
      PROVE  h[i] <= h[j] /\ h[j] <= clock'
  <2>1. h[j] \in Int /\ h[i] <= h[j] /\ h[j] <= clock
    BY <1>2, <1>3, <1>5
  <2> HIDE DEF h
  <2> QED BY <1>2, <2>1
<1> QED BY <1>3, <1>4, <1>5 DEF BucketIsRecent

\* At first no call has come and every bucket is empty.
LEMMA DeploymentInitial == Init => IInv
<1> SUFFICES ASSUME Init PROVE IInv
  OBVIOUS
<1>1. MigIInv
  BY MigInitial DEF Init
<1>2. TypeOK
  BY <1>1, CallFacts DEF Init, TypeOK, MigIInv, Times
<1>3. AuditIsLast /\ AnsweredIsAudited
  BY DEF Init, AuditIsLast, AnsweredIsAudited
<1>4. \A p \in Procs : \A a \in Actors : BucketIsRecent(p, a)
  BY CallFacts DEF Init, BucketIsRecent
<1> QED BY <1>1, <1>2, <1>3, <1>4 DEF IInv

\* The start of a process leaves the boundary alone.
LEMMA BesideBoundary ==
    ASSUME IInv, MigIInv', UNCHANGED boundary
    PROVE  IInv'
<1>1. TypeOK' /\ AuditIsLast' /\ AnsweredIsAudited'
  BY DEF IInv, MigIInv, TypeOK, AuditIsLast, AnsweredIsAudited, boundary
<1>2. ASSUME NEW p \in Procs, NEW a \in Actors PROVE BucketIsRecent(p, a)'
  <2>1. bucket' = bucket /\ admitted' = admitted /\ clock' = clock /\ clock \in Times
    BY DEF IInv, TypeOK, boundary
  <2> QED BY <2>1, CallFacts, BucketsStay
<1> QED BY <1>1, <1>2 DEF IInv

\* Time passes.
LEMMA TickStep ==
    ASSUME IInv, Tick
    PROVE  IInv'
<1>1. /\ clock \in Times /\ clock' \in Times /\ clock' >= clock
      /\ UNCHANGED <<migVars, place, answer, bucket, admitted, audited>>
  BY CallFacts DEF IInv, TypeOK, Tick, Times
<1>2. MigIInv'
  BY <1>1, MigUnchanged DEF IInv
<1>3. TypeOK' /\ AuditIsLast' /\ AnsweredIsAudited'
  BY <1>1, <1>2 DEF IInv, MigIInv, TypeOK, AuditIsLast, AnsweredIsAudited
<1>4. \A p \in Procs : \A a \in Actors : BucketIsRecent(p, a)'
  BY <1>1, BucketsStay
<1> QED BY <1>2, <1>3, <1>4 DEF IInv

\* Where the boundary puts a call that it has answered by itself or that a handler has.
LEMMA GoStep ==
    ASSUME IInv, NEW c \in Calls, NEW where \in {"handler", "audit", "done"}, NEW status \in Answers \cup {"none"},
           Go(c, where, status), place[c] \in {"client", "handler"},
           where = "audit" => status # "none",
           where = "done" /\ What[c].mutating /\ What[c].known => status = "error",
           UNCHANGED audited
    PROVE  /\ place' \in [Calls -> {"client", "handler", "audit", "done", "lost"}]
           /\ answer' \in [Calls -> Answers \cup {"none"}]
           /\ AuditIsLast' /\ AnsweredIsAudited'
<1>1. /\ place' = [place EXCEPT ![c] = where] /\ answer' = [answer EXCEPT ![c] = status]
      /\ place \in [Calls -> {"client", "handler", "audit", "done", "lost"}]
      /\ answer \in [Calls -> Answers \cup {"none"}]
  BY DEF IInv, TypeOK, Go
<1>2. AuditIsLast'
  BY <1>1 DEF IInv, AuditIsLast
<1>3. AnsweredIsAudited'
  BY <1>1 DEF IInv, AnsweredIsAudited
<1> QED BY <1>1, <1>2, <1>3

\* The handler has answered or raised.
LEMMA HandleStep ==
    ASSUME IInv, NEW c \in Calls, Handle(c)
    PROVE  IInv'
<1>1. /\ place' \in [Calls -> {"client", "handler", "audit", "done", "lost"}]
      /\ answer' \in [Calls -> Answers \cup {"none"}]
      /\ AuditIsLast' /\ AnsweredIsAudited'
  BY GoStep DEF Handle, Answers
<1>2. UNCHANGED <<migVars, clock, bucket, admitted, audited>>
  BY DEF Handle
<1>3. MigIInv'
  BY <1>2, MigUnchanged DEF IInv
<1>4. TypeOK'
  BY <1>1, <1>2, <1>3 DEF IInv, MigIInv, TypeOK
<1>5. \A p \in Procs : \A a \in Actors : BucketIsRecent(p, a)'
  BY <1>2, CallFacts, BucketsStay DEF IInv, TypeOK
<1> QED BY <1>1, <1>3, <1>4, <1>5 DEF IInv

\* The row and the answer are one: the only row of the call has its status.
LEMMA AuditStep ==
    ASSUME IInv, NEW c \in Calls, Audit(c)
    PROVE  IInv'
<1>1. /\ place[c] = "audit" /\ UNCHANGED <<migVars, clock, bucket, admitted>>
      /\ place' = [place EXCEPT ![c] = "done"]
      /\ place \in [Calls -> {"client", "handler", "audit", "done", "lost"}]
      /\ answer \in [Calls -> Answers \cup {"none"}] /\ audited \subseteq Calls \X Answers
  BY DEF IInv, TypeOK, Audit, Go
<1>2. \/ answer' = [answer EXCEPT ![c] = answer[c]] /\ audited' = audited \cup {<<c, answer[c]>>}
      \/ answer' = [answer EXCEPT ![c] = "error"] /\ audited' = audited
  BY DEF Audit, Go
<1>3. MigIInv'
  BY <1>1, MigUnchanged DEF IInv
<1>4. TypeOK'
  <2>1. answer[c] \in Answers
    BY <1>1 DEF IInv, AuditIsLast
  <2>2. /\ place' \in [Calls -> {"client", "handler", "audit", "done", "lost"}]
        /\ answer' \in [Calls -> Answers \cup {"none"}]
    BY <1>1, <1>2, <2>1 DEF Answers
  <2>3. audited' \subseteq Calls \X Answers
    BY <1>1, <1>2, <2>1
  <2> QED BY <1>1, <1>3, <2>2, <2>3 DEF IInv, MigIInv, TypeOK
<1>5. AuditIsLast'
  BY <1>1, <1>2 DEF IInv, AuditIsLast
<1>6. AnsweredIsAudited'
  BY <1>1, <1>2 DEF IInv, AuditIsLast, AnsweredIsAudited
<1>7. \A p \in Procs : \A a \in Actors : BucketIsRecent(p, a)'
  BY <1>1, CallFacts, BucketsStay DEF IInv, TypeOK
<1> QED BY <1>3, <1>4, <1>5, <1>6, <1>7 DEF IInv

\* What the boundary counts is what it has admitted in the window.
LEMMA WindowCounts ==
    ASSUME IInv, NEW p \in Procs, NEW a \in Actors
    PROVE  LET T == InWindow(bucket[p][a])
               h == admitted[p][a]
               d == Len(h) - Len(T)
           IN  /\ T \in Seq(Times) /\ h \in Seq(Times) /\ d \in Nat /\ Len(T) <= Limit
               /\ \A i \in 1 .. Len(T) : T[i] = h[d + i]
               /\ \A i \in 1 .. d : h[i] < clock - Window
               /\ Cardinality({i \in DOMAIN h : h[i] >= clock - Window}) = Len(T)
<1> DEFINE b == bucket[p][a]
           T == InWindow(b)
           h == admitted[p][a]
           k == Len(h) - Len(b)
           d == Len(h) - Len(T)
<1>1. b \in Seq(Times) /\ h \in Seq(Times) /\ clock \in Times
  BY DEF IInv, TypeOK
<1>2. /\ Len(b) \in Nat /\ Len(h) \in Nat /\ DOMAIN h = 1 .. Len(h)
      /\ \A i \in 1 .. Len(h) : h[i] \in Int
      /\ clock \in Int /\ Window \in Int /\ Limit \in Nat
  BY <1>1, CallFacts, LenProperties, ElementOfSeq DEF Times
<1>3. /\ k >= 0 /\ Len(b) <= Limit
      /\ \A i \in 1 .. Len(b) : b[i] = h[k + i]
      /\ \A i \in 1 .. k : h[i] < clock - Window
      /\ \A i, j \in 1 .. Len(h) : i <= j => h[i] <= h[j] /\ h[j] <= clock
  BY DEF IInv, BucketIsRecent
<1> HIDE DEF b, h
<1>4. Ordered(b)
  <2> SUFFICES ASSUME NEW i \in 1 .. Len(b), NEW j \in 1 .. Len(b), i <= j PROVE b[i] <= b[j]
    BY DEF Ordered
  <2>1. k + i \in 1 .. Len(h) /\ k + j \in 1 .. Len(h) /\ k + i <= k + j
    BY <1>2, <1>3
  <2> QED BY <1>3, <2>1
<1>5. PICK n \in 0 .. Len(b) :
        /\ T \in Seq(Times) /\ Len(T) = Len(b) - n
        /\ \A i \in 1 .. Len(b) - n : T[i] = b[n + i]
        /\ \A i \in 1 .. n : b[i] < clock - Window
        /\ \A i \in n + 1 .. Len(b) : b[i] >= clock - Window
  BY <1>1, <1>4, InWindowIsEnd
<1> HIDE DEF T
<1>6. d = k + n /\ d \in Nat /\ Len(T) <= Limit /\ Len(T) \in Nat
  BY <1>2, <1>3, <1>5
<1>7. ASSUME NEW i \in 1 .. Len(T) PROVE T[i] = h[d + i]
  <2>1. n + i \in 1 .. Len(b) /\ k + (n + i) = d + i /\ i \in 1 .. Len(b) - n
    BY <1>2, <1>5, <1>6
  <2> QED BY <1>3, <1>5, <2>1
<1>8. ASSUME NEW i \in 1 .. d PROVE h[i] < clock - Window
  <2>1. CASE i \in 1 .. k
    BY <1>3, <2>1
  <2>2. CASE i \notin 1 .. k
    <3>1. i - k \in 1 .. n /\ i - k \in 1 .. Len(b) /\ k + (i - k) = i
      BY <1>2, <1>5, <1>6, <2>2
    <3>2. b[i - k] = h[i]
      BY <1>3, <3>1
    <3> QED BY <1>5, <3>1, <3>2
  <2> QED BY <2>1, <2>2
<1>9. ASSUME NEW i \in d + 1 .. Len(h) PROVE h[i] >= clock - Window
  <2>1. i - k \in n + 1 .. Len(b) /\ i - k \in 1 .. Len(b) /\ k + (i - k) = i
    BY <1>2, <1>3, <1>5, <1>6
  <2>2. b[i - k] = h[i]
    BY <1>3, <2>1
  <2> QED BY <1>5, <2>1, <2>2
<1>10. {i \in DOMAIN h : h[i] >= clock - Window} = d + 1 .. Len(h)
  <2>1. ASSUME NEW i \in 1 .. Len(h) PROVE h[i] >= clock - Window <=> i \in d + 1 .. Len(h)
    <3>1. i \in 1 .. d \/ i \in d + 1 .. Len(h)
      BY <1>2, <1>6
    <3>2. h[i] < clock - Window => ~(h[i] >= clock - Window)
      BY <1>2
    <3>3. i \in 1 .. d => ~(i \in d + 1 .. Len(h))
      BY <1>2, <1>6
    <3> QED BY <1>8, <1>9, <3>1, <3>2, <3>3
  <2>2. d + 1 .. Len(h) \subseteq 1 .. Len(h)
    BY <1>2, <1>6
  <2> QED BY <1>2, <2>1, <2>2
<1>11. Cardinality(d + 1 .. Len(h)) = Len(T)
  <2>0. d + 1 \in Int /\ Len(h) \in Int /\ Len(h) - d = Len(T)
    BY <1>2, <1>6
  <2> HIDE DEF d
  <2>1. Cardinality(d + 1 .. Len(h)) = IF d + 1 > Len(h) THEN 0 ELSE Len(h) - (d + 1) + 1
    BY <2>0, FS_Interval
  <2> QED BY <1>2, <1>6, <2>0, <2>1
<1> QED BY <1>1, <1>5, <1>6, <1>7, <1>8, <1>10, <1>11 DEF T, h, b

\* An admitted call is the last of the bucket and of the history.
LEMMA AdmitStep ==
    ASSUME IInv, NEW c \in Calls, Admit(c), UNCHANGED <<migVars, clock>>
    PROVE  /\ bucket' \in [Procs -> [Actors -> Seq(Times)]] /\ admitted' \in [Procs -> [Actors -> Seq(Times)]]
           /\ \A p \in Procs : \A a \in Actors : BucketIsRecent(p, a)'
<1> DEFINE p == What[c].via
           a == What[c].actor
           T == InWindow(bucket[p][a])
           h == admitted[p][a]
           d == Len(h) - Len(T)
           ok == Len(T) < Limit
           S == IF ok THEN Append(T, clock) ELSE T
           g == IF ok THEN Append(h, clock) ELSE h
<1>0. p \in Procs /\ a \in Actors /\ clock \in Times
  BY CallFacts DEF IInv, TypeOK
<1>1. /\ T \in Seq(Times) /\ h \in Seq(Times) /\ d \in Nat /\ Len(T) <= Limit
      /\ \A i \in 1 .. Len(T) : T[i] = h[d + i]
      /\ \A i \in 1 .. d : h[i] < clock - Window
  BY <1>0, WindowCounts
<1>2. /\ \A i, j \in 1 .. Len(h) : i <= j => h[i] <= h[j] /\ h[j] <= clock
  BY <1>0 DEF IInv, BucketIsRecent
<1>3. /\ bucket' = [bucket EXCEPT ![p][a] = S] /\ admitted' = [admitted EXCEPT ![p][a] = g]
  <2>1. bucket' = [bucket EXCEPT ![p][a] = S]
    BY DEF Admit
  <2>2. CASE ok
    BY <2>2 DEF Admit
  <2>3. CASE ~ok
    <3>1. admitted' = admitted
      BY <2>3 DEF Admit, Refuse
    <3> QED BY <1>0, <2>1, <2>3, <3>1 DEF IInv, TypeOK
  <2> QED BY <2>1, <2>2, <2>3
<1> HIDE DEF p, a, T, h
<1>4. /\ Len(T) \in Nat /\ Len(h) \in Nat /\ clock \in Int /\ Window \in Int /\ Limit \in Nat
      /\ \A i \in 1 .. Len(h) : h[i] \in Int
  BY <1>0, <1>1, CallFacts, LenProperties, ElementOfSeq DEF Times
<1>5. S \in Seq(Times) /\ g \in Seq(Times)
  BY <1>0, <1>1, AppendProperties
<1>6. bucket' \in [Procs -> [Actors -> Seq(Times)]] /\ admitted' \in [Procs -> [Actors -> Seq(Times)]]
  BY <1>3, <1>5 DEF IInv, TypeOK
<1>7. /\ Len(g) - Len(S) >= 0 /\ Len(S) <= Limit
      /\ \A i \in 1 .. Len(S) : S[i] = g[Len(g) - Len(S) + i]
      /\ \A i \in 1 .. Len(g) - Len(S) : g[i] < clock - Window
      /\ \A i, j \in 1 .. Len(g) : i <= j => g[i] <= g[j] /\ g[j] <= clock
  <2>1. CASE ~ok
    BY <1>1, <1>2, <1>4, <2>1
  <2>2. CASE ok
    <3>1. /\ Len(S) = Len(T) + 1 /\ S[Len(T) + 1] = clock /\ \A i \in 1 .. Len(T) : S[i] = T[i]
          /\ Len(g) = Len(h) + 1 /\ g[Len(h) + 1] = clock /\ \A i \in 1 .. Len(h) : g[i] = h[i]
      BY <1>0, <1>1, <2>2, AppendProperties
    <3> HIDE DEF S, g
    <3>2. Len(g) - Len(S) = d /\ Len(S) <= Limit
      BY <1>1, <1>4, <2>2, <3>1
    <3>3. ASSUME NEW i \in 1 .. Len(S) PROVE S[i] = g[d + i]
      <4>1. CASE i = Len(T) + 1
        BY <1>1, <1>4, <3>1, <4>1
      <4>2. CASE i # Len(T) + 1
        <5>1. i \in 1 .. Len(T) /\ d + i \in 1 .. Len(h)
          BY <1>1, <1>4, <3>1, <4>2
        <5> QED BY <1>1, <3>1, <5>1
      <4> QED BY <4>1, <4>2
    <3>4. ASSUME NEW i \in 1 .. d PROVE g[i] < clock - Window
      <4>1. i \in 1 .. Len(h)
        BY <1>1, <1>4
      <4> QED BY <1>1, <3>1, <4>1
    <3>5. ASSUME NEW i \in 1 .. Len(g), NEW j \in 1 .. Len(g), i <= j
          PROVE  g[i] <= g[j] /\ g[j] <= clock
      <4>1. CASE j \in 1 .. Len(h)
        <5>1. i \in 1 .. Len(h)
          BY <1>4, <3>5, <4>1
        <5> QED BY <1>2, <3>1, <3>5, <4>1, <5>1
      <4>2. CASE j \notin 1 .. Len(h)
        <5>1. j = Len(h) + 1 /\ (i = j \/ i \in 1 .. Len(h))
          BY <1>4, <3>1, <3>5, <4>2
        <5>2. i \in 1 .. Len(h) => h[i] <= clock
          BY <1>2, <1>4
        <5> QED BY <1>4, <3>1, <5>1, <5>2
      <4> QED BY <4>1, <4>2
    <3>6. d \in Nat
      BY <1>1
    <3> HIDE DEF d
    <3>7. \A i \in 1 .. Len(S) : S[i] = g[Len(g) - Len(S) + i]
      BY <3>2, <3>3
    <3>8. \A i \in 1 .. Len(g) - Len(S) : g[i] < clock - Window
      BY <3>2, <3>4
    <3>9. Len(g) - Len(S) >= 0 /\ Len(S) <= Limit
      BY <3>2, <3>6
    <3>10. \A i, j \in 1 .. Len(g) : i <= j => g[i] <= g[j] /\ g[j] <= clock
      BY <3>5
    <3> QED BY <3>7, <3>8, <3>9, <3>10
  <2> QED BY <2>1, <2>2
<1> HIDE DEF S, g
<1>8. ASSUME NEW q \in Procs, NEW e \in Actors PROVE BucketIsRecent(q, e)'
  <2>1. CASE q = p /\ e = a
    <3>1. bucket'[q][e] = S /\ admitted'[q][e] = g /\ clock' = clock
      BY <1>0, <1>3, <2>1 DEF IInv, TypeOK
    <3> QED BY <1>7, <3>1 DEF BucketIsRecent
  <2>2. CASE ~(q = p /\ e = a)
    <3>1. bucket'[q][e] = bucket[q][e] /\ admitted'[q][e] = admitted[q][e]
      BY <1>3, <2>2 DEF IInv, TypeOK
    <3>2. clock' \in Times /\ clock' >= clock
      BY <1>0, <1>4
    <3> QED BY <3>1, <3>2, BucketsStay
  <2> QED BY <2>1, <2>2
<1> QED BY <1>6, <1>8

\* The boundary up to the handler: unknown, forbidden, over the limit or admitted.
LEMMA EnterStep ==
    ASSUME IInv, NEW c \in Calls, Enter(c)
    PROVE  IInv'
<1> DEFINE Moved ==
      /\ place' \in [Calls -> {"client", "handler", "audit", "done", "lost"}]
      /\ answer' \in [Calls -> Answers \cup {"none"}]
      /\ AuditIsLast' /\ AnsweredIsAudited'
<1>1. place[c] = "client" /\ UNCHANGED <<migVars, clock, audited>>
  BY DEF Enter
<1>2. ASSUME NEW status \in {"unauthorized", "forbidden", "limited"}, Refuse(c, status),
             What[c].known \/ status = "unauthorized"
      PROVE  Moved /\ admitted' = admitted
  <2>1. CASE What[c].mutating /\ What[c].known
    BY <1>1, <1>2, <2>1, GoStep DEF Refuse, Answers
  <2>2. CASE ~(What[c].mutating /\ What[c].known)
    BY <1>1, <1>2, <2>2, GoStep DEF Refuse, Answers
  <2> QED BY <2>1, <2>2
<1>3. Moved
  <2>1. CASE \E status \in {"unauthorized", "forbidden", "limited"} :
               Refuse(c, status) /\ (What[c].known \/ status = "unauthorized")
    BY <1>2, <2>1
  <2>2. CASE Go(c, "handler", "none")
    BY <1>1, <2>2, GoStep
  <2> QED BY <2>1, <2>2 DEF Enter, Admit
<1>4. /\ bucket' \in [Procs -> [Actors -> Seq(Times)]] /\ admitted' \in [Procs -> [Actors -> Seq(Times)]]
      /\ \A p \in Procs : \A a \in Actors : BucketIsRecent(p, a)'
  <2>1. CASE Admit(c)
    BY <1>1, <2>1, AdmitStep
  <2>2. CASE ~Admit(c)
    <3>1. UNCHANGED <<bucket, admitted>>
      BY <2>2 DEF Enter, Refuse
    <3> QED BY <1>1, <3>1, CallFacts, BucketsStay DEF IInv, TypeOK
  <2> QED BY <2>1, <2>2
<1>5. MigIInv'
  BY <1>1, MigUnchanged DEF IInv
<1>6. TypeOK'
  BY <1>1, <1>3, <1>4, <1>5 DEF IInv, MigIInv, TypeOK
<1> QED BY <1>3, <1>4, <1>5, <1>6 DEF IInv

\* The calls that a process takes with it are answered nothing, and its buckets begin anew.
LEMMA StopStep ==
    ASSUME IInv, NEW p \in Procs, Stop(p)
    PROVE  IInv'
<1>1. /\ Die(p) /\ UNCHANGED <<clock, audited>>
      /\ place' = [c \in Calls |-> IF What[c].via = p /\ place[c] \in {"handler", "audit"}
                                   THEN "lost" ELSE place[c]]
      /\ answer' = [c \in Calls |-> IF place'[c] = "lost" THEN "none" ELSE answer[c]]
      /\ bucket' = [bucket EXCEPT ![p] = [a \in Actors |-> <<>>]]
      /\ admitted' = [admitted EXCEPT ![p] = bucket'[p]]
  BY DEF Stop
<1>2. MigIInv'
  BY <1>1, DieStep DEF IInv
<1>3. /\ place' \in [Calls -> {"client", "handler", "audit", "done", "lost"}]
      /\ answer' \in [Calls -> Answers \cup {"none"}]
  BY <1>1 DEF IInv, TypeOK
<1>4. AuditIsLast' /\ AnsweredIsAudited'
  BY <1>1, <1>3 DEF IInv, TypeOK, AuditIsLast, AnsweredIsAudited
<1>5. bucket' \in [Procs -> [Actors -> Seq(Times)]] /\ admitted' \in [Procs -> [Actors -> Seq(Times)]]
  <2>1. [a \in Actors |-> <<>>] \in [Actors -> Seq(Times)]
    BY EmptySeq
  <2>2. bucket' \in [Procs -> [Actors -> Seq(Times)]] /\ bucket'[p] \in [Actors -> Seq(Times)]
    BY <1>1, <2>1 DEF IInv, TypeOK
  <2> QED BY <1>1, <2>2 DEF IInv, TypeOK
<1>6. ASSUME NEW q \in Procs, NEW a \in Actors PROVE BucketIsRecent(q, a)'
  <2>1. CASE q = p
    <3>1. bucket'[q][a] = <<>> /\ admitted'[q][a] = <<>>
      BY <1>1, <2>1 DEF IInv, TypeOK
    <3> QED BY <3>1, CallFacts DEF BucketIsRecent
  <2>2. CASE q # p
    <3>1. bucket'[q][a] = bucket[q][a] /\ admitted'[q][a] = admitted[q][a]
      BY <1>1, <2>2 DEF IInv, TypeOK
    <3>2. clock' \in Times /\ clock' >= clock
      BY <1>1, CallFacts DEF IInv, TypeOK
    <3> QED BY <3>1, <3>2, BucketsStay
  <2> QED BY <2>1, <2>2
<1>7. TypeOK'
  BY <1>1, <1>2, <1>3, <1>5 DEF IInv, MigIInv, TypeOK
<1> QED BY <1>2, <1>4, <1>6, <1>7 DEF IInv

(***************************************************************************)
(* The theorems                                                            *)
(***************************************************************************)
\* IInv holds as long as processes start, serve and die.
THEOREM Invariance == Spec => []IInv
<1>1. Init => IInv
  BY DeploymentInitial
<1>2. IInv /\ [Next]_vars => IInv'
  <2> SUFFICES ASSUME IInv, [Next]_vars PROVE IInv'
    OBVIOUS
  <2>1. CASE UNCHANGED vars
    BY <2>1, MigUnchanged, BesideBoundary DEF vars, IInv
  <2>2. ASSUME NEW p \in Procs, Start(p), UNCHANGED boundary PROVE IInv'
    BY <2>2, StartStep, BesideBoundary DEF IInv
  <2>3. ASSUME NEW p \in Procs, Stop(p) PROVE IInv'
    BY <2>3, StopStep
  <2>4. ASSUME NEW c \in Calls, Enter(c) \/ Handle(c) \/ Audit(c) PROVE IInv'
    BY <2>4, EnterStep, HandleStep, AuditStep
  <2>5. CASE Tick
    BY <2>5, TickStep
  <2> QED BY <2>1, <2>2, <2>3, <2>4, <2>5 DEF Next
<1> QED BY <1>1, <1>2, PTL DEF Spec

\* security_boundary, migrations.py: every variable keeps its type.
THEOREM TypeCorrect == Spec => []TypeOK
<1>1. IInv => TypeOK
  BY DEF IInv
<1> QED BY <1>1, Invariance, PTL

\* migrations.py: the ledger is an initial segment of what the schema has, and a process
\* that serves has its release's migrations, for any number of processes and releases.
THEOREM LedgerTrue == Spec => []LedgerIsTrue
<1>1. IInv => LedgerIsTrue
  BY DEF IInv, MigIInv
<1> QED BY <1>1, Invariance, PTL

\* _migration_lock, connect: the database changes by whole migration runs only.
THEOREM WholeChanges == Spec => AllOrNothing
<1>1. IInv /\ [Next]_vars =>
        [database' # database =>
           \E p \in Procs : /\ lock = p /\ stage'[p] = "serving"
                            /\ 1 .. head[p] \subseteq schema' \cap ledger']_migVars
  <2> SUFFICES ASSUME IInv, [Next]_vars, database' # database
               PROVE  \E p \in Procs : /\ lock = p /\ stage'[p] = "serving"
                                      /\ 1 .. head[p] \subseteq schema' \cap ledger'
    OBVIOUS
  <2>1. PICK p \in Procs : Commit(p)
    BY DEF Next, vars, migVars, Start, Stop, Die, End, Fail, Boot, Lock, Busy, Skip, Apply, Enter,
           Handle, Audit, Tick
  <2> QED BY <2>1, CommitIsWhole DEF IInv
<1> QED BY <1>1, Invariance, PTL DEF Spec, AllOrNothing

\* security_boundary, audit: the answer to a change is in the audit log before it is seen.
THEOREM Audited == Spec => []AnsweredIsAudited
<1>1. IInv => AnsweredIsAudited
  BY DEF IInv
<1> QED BY <1>1, Invariance, PTL

\* security_boundary: a living process refuses for the rate exactly when Limit calls of the
\* actor were admitted in the window, for any limit, window and length of its life.
THEOREM ExactWindow == Spec => WindowIsExact
<1> DEFINE Exact ==
      \A c \in Calls :
        /\ place[c] = "client" /\ place'[c] = "handler" => Cardinality(Recent(c)) < Limit
        /\ answer[c] = "none" /\ answer'[c] = "limited" => Cardinality(Recent(c)) = Limit
<1>1. IInv /\ [Next]_vars => [Exact]_vars
  <2> SUFFICES ASSUME IInv, Next, NEW c \in Calls
               PROVE  /\ place[c] = "client" /\ place'[c] = "handler" => Cardinality(Recent(c)) < Limit
                      /\ answer[c] = "none" /\ answer'[c] = "limited" => Cardinality(Recent(c)) = Limit
    OBVIOUS
  <2>0. /\ place \in [Calls -> {"client", "handler", "audit", "done", "lost"}]
        /\ answer \in [Calls -> Answers \cup {"none"}]
    BY DEF IInv, TypeOK
  <2> DEFINE T == InWindow(bucket[What[c].via][What[c].actor])
  <2>1. Cardinality(Recent(c)) = Len(T) /\ Len(T) <= Limit /\ Len(T) \in Nat
    BY CallFacts, WindowCounts, LenProperties DEF Recent
  <2>2. CASE \E p \in Procs : (Start(p) /\ UNCHANGED boundary) \/ Stop(p)
    BY <2>0, <2>2 DEF Stop, boundary
  <2>3. CASE Enter(c)
    <3>1. Admit(c) => (place'[c] = "handler" /\ Len(T) < Limit) \/ ~(Len(T) < Limit)
      BY <2>0 DEF Admit, Go
    <3>2. ~Admit(c) => place'[c] # "handler" /\ answer'[c] # "limited"
      BY <2>0, <2>3 DEF Enter, Refuse, Go
    <3>3. Len(T) < Limit /\ Admit(c) => answer'[c] # "limited"
      BY <2>0 DEF Admit, Go
    <3>4. ~(Len(T) < Limit) /\ Admit(c) => place'[c] # "handler"
      BY <2>0 DEF Admit, Refuse, Go
    <3> HIDE DEF T
    <3> QED BY <2>1, <3>1, <3>2, <3>3, <3>4, CallFacts
  <2>4. ASSUME NEW e \in Calls, e # c, Enter(e) PROVE place'[c] = place[c] /\ answer'[c] = answer[c]
    BY <2>0, <2>4 DEF Enter, Admit, Refuse, Go
  <2>5. ASSUME NEW e \in Calls, Handle(e) \/ Audit(e)
        PROVE  /\ ~(place[c] = "client" /\ place'[c] = "handler")
               /\ ~(answer[c] = "none" /\ answer'[c] = "limited")
    BY <2>0, <2>5 DEF Handle, Audit, Go
  <2>6. Tick => place' = place /\ answer' = answer
    BY DEF Tick
  <2>7. ASSUME place'[c] = place[c], answer'[c] = answer[c]
        PROVE  /\ ~(place[c] = "client" /\ place'[c] = "handler")
               /\ ~(answer[c] = "none" /\ answer'[c] = "limited")
    BY <2>7
  <2> QED BY <2>2, <2>3, <2>4, <2>5, <2>6, <2>7 DEF Next
<1> QED BY <1>1, Invariance, PTL DEF Spec, WindowIsExact
=============================================================================
