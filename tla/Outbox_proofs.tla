---------------------------- MODULE Outbox_proofs ----------------------------
(***************************************************************************)
(* Proofs about Outbox, for every set of rows and worker processes, every  *)
(* limit and every number of attempts, stalls and crashes.  IInv is        *)
(* inductive: one lemma per action keeps it.  What a thread knows of its   *)
(* row (WorkerOK) is what its last write relies on, and OneSender is what  *)
(* keeps the other threads away from the row while no send has stalled.    *)
(***************************************************************************)
EXTENDS Outbox, FiniteSetTheorems, TLAPS

\* The empty outbox with idle threads satisfies the invariant.
LEMMA Initially == Init => IInv
<1> SUFFICES ASSUME Init PROVE IInv
  OBVIOUS
<1>1. TypeOK
  BY BoundAssumption DEF Init, TypeOK, Labels, Outcomes
<1>2. \A w \in Workers : WorkerOK(w)
  BY DEF Init, WorkerOK, Delivering
<1>3. LiveHasAttemptsLeft /\ DeliveredIsProven /\ DeadIsJustified
  BY BoundAssumption
     DEF Init, LiveHasAttemptsLeft, DeliveredIsProven, DeadIsJustified, Settled
<1>4. OneSender
  BY DEF Init, OneSender, Delivering
<1> QED BY <1>1, <1>2, <1>3, <1>4 DEF IInv

\* _enqueue_outbox: a fresh row is held by nobody.
LEMMA EnqueueStep ==
    ASSUME IInv, NEW k \in Keys, Enqueue(k)
    PROVE  IInv'
<1>0. TypeOK
  BY DEF IInv
<1>1. UNCHANGED <<attempts, lapsed, deleted, recorded, accepted, pc, batch, hold, seen,
                  outcome, stalls, crashes>>
  BY DEF Enqueue, world, locals, counts
<1>2. NewId \in Nat
  <2>1. IsFiniteSet({j \in Keys : id[j] > 0})
    BY KeyAssumption, FS_Subset
  <2> QED BY <2>1, FS_CardinalityType DEF NewId
<1>3. /\ status[k] = "none" /\ status' = [status EXCEPT ![k] = "pending"]
      /\ id' = [id EXCEPT ![k] = NewId] /\ due' = due \cup {k}
  BY DEF Enqueue
<1>4. TypeOK'
  BY <1>0, <1>1, <1>2, <1>3 DEF TypeOK
<1>5. \A w \in Workers : WorkerOK(w)'
  BY <1>1 DEF IInv, WorkerOK
<1>6. LiveHasAttemptsLeft' /\ DeliveredIsProven' /\ DeadIsJustified'
  BY <1>0, <1>1, <1>3
     DEF IInv, TypeOK, LiveHasAttemptsLeft, DeliveredIsProven, DeadIsJustified, Settled
<1>7. OneSender'
  BY <1>0, <1>1, <1>3 DEF IInv, TypeOK, OneSender, WorkerOK
<1> QED BY <1>4, <1>5, <1>6, <1>7 DEF IInv

\* A step that writes no row, no destination and no thread.
LEMMA QuietStep ==
    ASSUME IInv, UNCHANGED <<status, attempts, deleted, recorded, accepted, pc, hold, outcome>>,
           lapsed' \subseteq lapsed, stalls' = stalls, TypeOK'
    PROVE  IInv'
<1>1. \A w \in Workers : WorkerOK(w)'
  BY DEF IInv, WorkerOK
<1>2. LiveHasAttemptsLeft' /\ DeliveredIsProven' /\ DeadIsJustified' /\ OneSender'
  BY DEF IInv, LiveHasAttemptsLeft, DeliveredIsProven, DeadIsJustified, OneSender
<1> QED BY <1>1, <1>2 DEF IInv

\* The clock makes a row due.
LEMMA BecomeDueStep ==
    ASSUME IInv, NEW k \in Keys, BecomeDue(k)
    PROVE  IInv'
<1>1. UNCHANGED <<id, status, attempts, lapsed, deleted, recorded, accepted, pc, batch,
                  hold, seen, outcome, stalls, crashes>> /\ due' = due \cup {k}
  BY DEF BecomeDue, world, locals, counts
<1>2. TypeOK'
  BY <1>1 DEF IInv, TypeOK
<1> QED BY <1>1, <1>2, QuietStep

\* delete_project: what was recorded is now excused by the deletion.
LEMMA DeleteWebhookStep ==
    ASSUME IInv, NEW k \in Keys, DeleteWebhook(k)
    PROVE  IInv'
<1>1. UNCHANGED <<id, status, attempts, due, lapsed, accepted, pc, batch, hold, seen,
                  outcome, stalls, crashes>>
  BY DEF DeleteWebhook, row, locals, counts
<1>2. /\ k \in Webhooks /\ deleted' = deleted \cup {k} /\ recorded' = recorded \ {k}
      /\ recorded \cup deleted \subseteq recorded' \cup deleted'
  BY DEF DeleteWebhook
<1>3. TypeOK'
  BY <1>1, <1>2 DEF IInv, TypeOK
<1>4. \A w \in Workers : WorkerOK(w)'
  BY <1>1, <1>2 DEF IInv, WorkerOK
<1>5. LiveHasAttemptsLeft' /\ DeliveredIsProven' /\ DeadIsJustified' /\ OneSender'
  BY <1>1, <1>2 DEF IInv, LiveHasAttemptsLeft, DeliveredIsProven, DeadIsJustified, OneSender
<1> QED BY <1>3, <1>4, <1>5 DEF IInv

\* A lease runs out: under a thread that still holds the row this is a stall.
LEMMA LeaseExpiresStep ==
    ASSUME IInv, NEW k \in Keys, LeaseExpires(k)
    PROVE  IInv'
<1>1. UNCHANGED <<id, status, attempts, due, deleted, recorded, accepted, pc, batch,
                  hold, seen, outcome, crashes>> /\ lapsed' = lapsed \cup {k}
  BY DEF LeaseExpires, world, locals
<1>2. TypeOK'
  <2>1. stalls' \in 0 .. MaxFaults
    BY BoundAssumption DEF IInv, TypeOK, LeaseExpires
  <2> QED BY <1>1, <2>1 DEF IInv, TypeOK
<1>3. \A w \in Workers : WorkerOK(w)'
  BY <1>1 DEF IInv, WorkerOK
<1>4. LiveHasAttemptsLeft' /\ DeliveredIsProven' /\ DeadIsJustified'
  BY <1>1 DEF IInv, LiveHasAttemptsLeft, DeliveredIsProven, DeadIsJustified
<1>5. OneSender'
  <2>1. CASE ~Held(k) /\ stalls' = stalls
    BY <1>1, <2>1 DEF IInv, OneSender, Held
  <2>2. CASE stalls' = stalls + 1
    BY <2>2 DEF IInv, TypeOK, OneSender
  <2> QED BY <2>1, <2>2 DEF LeaseExpires
<1> QED BY <1>2, <1>3, <1>4, <1>5 DEF IInv

\* A thread that lets its row go knows nothing any more.
LetsGo(w) ==
    /\ pc'[w] \in {"idle", "read"}
    /\ \A u \in Workers \ {w} : pc'[u] = pc[u] /\ hold'[u] = hold[u] /\ outcome'[u] = outcome[u]

\* The locals stay well-typed when a thread lets go.
LEMMA LettingGo ==
    ASSUME TypeOK, NEW w \in Workers, NextRow(w) \/ DropBatch(w)
    PROVE  /\ LetsGo(w)
           /\ pc' \in [Workers -> Labels] /\ batch' \in [Workers -> SUBSET Keys]
           /\ hold' \in [Workers -> Keys \cup {NoKey}] /\ outcome' \in [Workers -> Outcomes]
           /\ seen' \in [Workers -> 0 .. MaxAttempts - 1]
<1>1. /\ LetsGo(w) /\ pc' \in [Workers -> Labels]
  BY DEF TypeOK, NextRow, DropBatch, LetsGo, Labels
<1>2. /\ batch' \in [Workers -> SUBSET Keys] /\ hold' \in [Workers -> Keys \cup {NoKey}]
      /\ outcome' \in [Workers -> Outcomes]
  BY DEF TypeOK, NextRow, DropBatch, Outcomes
<1>3. seen' \in [Workers -> 0 .. MaxAttempts - 1]
  BY BoundAssumption DEF TypeOK, NextRow, DropBatch
<1> QED BY <1>1, <1>2, <1>3

\* A thread that lets go of its row without writing it.
LEMMA AbandonStep ==
    ASSUME IInv, NEW w \in Workers, LetsGo(w), TypeOK',
           UNCHANGED <<status, attempts, lapsed, deleted, recorded, accepted, stalls>>
    PROVE  IInv'
<1>1. \A u \in Workers : WorkerOK(u)'
  BY DEF IInv, WorkerOK, LetsGo, Delivering
<1>2. LiveHasAttemptsLeft' /\ DeliveredIsProven' /\ DeadIsJustified'
  BY DEF IInv, LiveHasAttemptsLeft, DeliveredIsProven, DeadIsJustified
<1>3. OneSender'
  BY DEF IInv, OneSender, LetsGo, Delivering
<1> QED BY <1>1, <1>2, <1>3 DEF IInv

\* _due_outbox reads rows and touches none.
LEMMA PollStep ==
    ASSUME IInv, NEW w \in Workers, Poll(w)
    PROVE  IInv'
<1>1. UNCHANGED <<id, status, attempts, due, lapsed, deleted, recorded, accepted, hold,
                  seen, outcome, stalls, crashes>>
  BY DEF Poll, row, world, locals, counts
<1>2. LetsGo(w) /\ pc' \in [Workers -> Labels]
  BY <1>1 DEF IInv, TypeOK, Poll, Move, LetsGo, Labels
<1>3. batch' \in [Workers -> SUBSET Keys]
  BY DEF IInv, TypeOK, Poll, Due
<1>4. TypeOK'
  BY <1>1, <1>2, <1>3 DEF IInv, TypeOK
<1> QED BY <1>1, <1>2, <1>4, AbandonStep

\* The read of _deliver_outbox notes the attempts of a row that has some left.
LEMMA ReadRowStep ==
    ASSUME IInv, NEW w \in Workers, ReadRow(w)
    PROVE  IInv'
<1>0. TypeOK
  BY DEF IInv
<1>1. UNCHANGED <<id, status, attempts, due, lapsed, deleted, recorded, accepted,
                  outcome, stalls, crashes>>
  BY DEF ReadRow, row, world, counts, locals
<1>2. PICK k \in batch[w] :
        /\ batch' = [batch EXCEPT ![w] = @ \ {k}]
        /\ \/ /\ status[k] \in {"pending", "claimed"}
              /\ hold' = [hold EXCEPT ![w] = k]
              /\ seen' = [seen EXCEPT ![w] = attempts[k]]
              /\ Move(w, "claim")
           \/ /\ Move(w, IF batch[w] = {k} THEN "idle" ELSE "read")
              /\ UNCHANGED locals
  BY DEF ReadRow
<1>3. k \in Keys /\ batch' \in [Workers -> SUBSET Keys]
  BY <1>0, <1>2 DEF TypeOK
<1>4. CASE /\ status[k] \in {"pending", "claimed"}
           /\ hold' = [hold EXCEPT ![w] = k] /\ seen' = [seen EXCEPT ![w] = attempts[k]]
           /\ Move(w, "claim")
  <2>1. attempts[k] \in 0 .. MaxAttempts - 1
    BY <1>0, <1>3, <1>4, BoundAssumption DEF IInv, TypeOK, LiveHasAttemptsLeft, Settled
  <2>2. /\ pc' \in [Workers -> Labels] /\ hold' \in [Workers -> Keys \cup {NoKey}]
        /\ seen' \in [Workers -> 0 .. MaxAttempts - 1]
    BY <1>0, <1>3, <1>4, <2>1 DEF TypeOK, Move, Labels
  <2>3. TypeOK'
    BY <1>0, <1>1, <1>3, <2>2 DEF TypeOK
  <2>4. /\ pc'[w] = "claim" /\ hold'[w] = k
        /\ \A u \in Workers \ {w} : pc'[u] = pc[u] /\ hold'[u] = hold[u]
    BY <1>0, <1>4 DEF TypeOK, Move
  <2>5. \A u \in Workers : WorkerOK(u)'
    BY <1>1, <1>3, <2>4 DEF IInv, WorkerOK, Delivering
  <2>6. LiveHasAttemptsLeft' /\ DeliveredIsProven' /\ DeadIsJustified'
    BY <1>1 DEF IInv, LiveHasAttemptsLeft, DeliveredIsProven, DeadIsJustified
  <2>7. OneSender'
    BY <1>1, <2>4 DEF IInv, OneSender, Delivering
  <2> QED BY <2>3, <2>5, <2>6, <2>7 DEF IInv
<1>5. CASE Move(w, IF batch[w] = {k} THEN "idle" ELSE "read") /\ UNCHANGED locals
  <2>1. LetsGo(w) /\ pc' \in [Workers -> Labels]
    BY <1>0, <1>5 DEF TypeOK, Move, LetsGo, Labels, locals
  <2>2. TypeOK'
    BY <1>0, <1>1, <1>3, <1>5, <2>1 DEF TypeOK, locals
  <2> QED BY <1>1, <2>1, <2>2, AbandonStep
<1> QED BY <1>2, <1>4, <1>5

\* _claim_outbox: the row it takes is nobody's, as long as no send has stalled.
LEMMA ClaimStep ==
    ASSUME IInv, NEW w \in Workers, Claim(w)
    PROVE  IInv'
<1>0. TypeOK /\ WorkerOK(w) /\ pc[w] = "claim" /\ hold[w] \in Keys
  BY DEF IInv, Claim, WorkerOK
<1>1. UNCHANGED <<id, attempts, due, deleted, recorded, accepted, stalls, crashes>>
  BY DEF Claim, world, counts
<1>2. CASE NextRow(w) /\ UNCHANGED <<status, lapsed>>
  <2>1. TypeOK'
    BY <1>0, <1>1, <1>2, LettingGo DEF TypeOK
  <2> QED BY <1>0, <1>1, <1>2, <2>1, LettingGo, AbandonStep
<1>3. CASE /\ Claimable(hold[w]) /\ status' = [status EXCEPT ![hold[w]] = "claimed"]
           /\ lapsed' = lapsed \ {hold[w]} /\ Move(w, "send") /\ UNCHANGED <<batch, locals>>
  <2>1. TypeOK'
    BY <1>0, <1>1, <1>3 DEF TypeOK, Move, Labels, locals
  <2>2. /\ pc'[w] = "send" /\ UNCHANGED <<hold, outcome>>
        /\ \A u \in Workers \ {w} : pc'[u] = pc[u]
    BY <1>0, <1>3 DEF TypeOK, Move, locals
  <2>3. \A u \in Workers : WorkerOK(u)'
    BY <1>0, <1>1, <2>2 DEF IInv, WorkerOK, Delivering
  <2>4. LiveHasAttemptsLeft' /\ DeliveredIsProven' /\ DeadIsJustified'
    BY <1>0, <1>1, <1>3 DEF IInv, TypeOK, LiveHasAttemptsLeft, DeliveredIsProven,
       DeadIsJustified, Claimable, Settled
  <2>5. OneSender'
    BY <1>0, <1>1, <1>3, <2>2 DEF IInv, TypeOK, OneSender, Claimable, Delivering, WorkerOK
  <2> QED BY <2>1, <2>3, <2>4, <2>5 DEF IInv
<1> QED BY <1>2, <1>3 DEF Claim

\* A step of a delivering thread that keeps its row and leaves the rows alone.
LEMMA HoldingStep ==
    ASSUME IInv, NEW w \in Workers, pc[w] \in Delivering, TypeOK', WorkerOK(w)',
           UNCHANGED <<status, attempts, lapsed, deleted, hold, stalls>>,
           recorded \subseteq recorded', accepted \subseteq accepted',
           \A u \in Workers \ {w} : pc'[u] = pc[u] /\ outcome'[u] = outcome[u]
    PROVE  IInv'
<1>1. \A u \in Workers : WorkerOK(u)'
  BY DEF IInv, WorkerOK
<1>2. LiveHasAttemptsLeft' /\ DeliveredIsProven' /\ DeadIsJustified'
  BY DEF IInv, LiveHasAttemptsLeft, DeliveredIsProven, DeadIsJustified
<1>3. OneSender'
  BY DEF IInv, OneSender
<1> QED BY <1>1, <1>2, <1>3 DEF IInv

\* The network call: its outcome is justified by what the destination did.
LEMMA SendStep ==
    ASSUME IInv, NEW w \in Workers, Send(w)
    PROVE  IInv'
<1>0. TypeOK /\ WorkerOK(w) /\ pc[w] = "send" /\ hold[w] \in Keys
  BY DEF IInv, Send, WorkerOK, Delivering
<1>1. UNCHANGED <<id, status, attempts, due, lapsed, deleted, recorded, batch, hold, seen,
                  stalls, crashes>>
  BY DEF Send, row, counts
<1>2. accepted' \in {accepted, accepted \cup {hold[w]}}
  BY DEF Send, DeadEnd, Accept, Decline
<1>3. /\ pc' \in [Workers -> Labels] /\ outcome' \in [Workers -> Outcomes]
      /\ \A u \in Workers \ {w} : pc'[u] = pc[u] /\ outcome'[u] = outcome[u]
  BY <1>0 DEF TypeOK, Send, DeadEnd, Accept, Decline, Move, Labels, Outcomes
<1>4. TypeOK'
  BY <1>0, <1>1, <1>2, <1>3 DEF TypeOK
<1>5. \/ pc'[w] = "settle" /\ outcome'[w] = "dead" /\ hold[w] \in deleted
      \/ pc'[w] = "settle" /\ outcome'[w] = "failed"
      \/ /\ outcome'[w] = "delivered" /\ hold[w] \in accepted'
         /\ pc'[w] = IF hold[w] \in Webhooks THEN "record" ELSE "settle"
  BY <1>0 DEF TypeOK, Send, DeadEnd, Accept, Decline, Move
<1>6. WorkerOK(w)'
  BY <1>0, <1>1, <1>5 DEF WorkerOK, Delivering
<1> QED BY <1>0, <1>1, <1>2, <1>3, <1>4, <1>6, HoldingStep DEF Delivering

\* The INSERT into the delivery history, or its foreign key's refusal.
LEMMA RecordDeliveryStep ==
    ASSUME IInv, NEW w \in Workers, RecordDelivery(w)
    PROVE  IInv'
<1>0. /\ TypeOK /\ WorkerOK(w) /\ pc[w] = "record"
      /\ hold[w] \in accepted \cap Webhooks /\ hold[w] \in Keys
  BY DEF IInv, RecordDelivery, WorkerOK, Delivering
<1>1. UNCHANGED <<id, status, attempts, due, lapsed, deleted, accepted, stalls, crashes>>
  BY DEF RecordDelivery, row, counts
<1>2. CASE DropBatch(w) /\ UNCHANGED recorded
  <2>1. TypeOK'
    BY <1>0, <1>1, <1>2, LettingGo DEF TypeOK
  <2> QED BY <1>0, <1>1, <1>2, <2>1, LettingGo, AbandonStep
<1>3. CASE recorded' = recorded \cup {hold[w]} /\ Move(w, "settle") /\ UNCHANGED <<batch, locals>>
  <2>1. TypeOK'
    BY <1>0, <1>1, <1>3 DEF TypeOK, Move, Labels, locals
  <2>2. /\ pc'[w] = "settle" /\ UNCHANGED <<hold, outcome>>
        /\ \A u \in Workers \ {w} : pc'[u] = pc[u]
    BY <1>0, <1>3 DEF TypeOK, Move, locals
  <2>3. WorkerOK(w)'
    BY <1>0, <1>1, <1>3, <2>2 DEF WorkerOK, Delivering
  <2> QED BY <1>0, <1>1, <1>3, <2>1, <2>2, <2>3, HoldingStep DEF Delivering
<1> QED BY <1>2, <1>3 DEF RecordDelivery

\* The last write of an attempt rests on what the thread knows of its row.
LEMMA SettleStep ==
    ASSUME IInv, NEW w \in Workers, Settle(w)
    PROVE  IInv'
<1>0. TypeOK /\ WorkerOK(w) /\ pc[w] = "settle" /\ hold[w] \in Keys
  BY DEF IInv, Settle, WorkerOK, Delivering
<1>1. /\ UNCHANGED <<id, deleted, recorded, accepted, stalls, crashes>>
      /\ attempts' = [attempts EXCEPT ![hold[w]] = seen[w] + 1] /\ NextRow(w)
  BY DEF Settle, world, counts
<1>2. /\ LetsGo(w)
      /\ pc' \in [Workers -> Labels] /\ batch' \in [Workers -> SUBSET Keys]
      /\ hold' \in [Workers -> Keys \cup {NoKey}] /\ outcome' \in [Workers -> Outcomes]
      /\ seen' \in [Workers -> 0 .. MaxAttempts - 1]
  BY <1>0, <1>1, LettingGo
<1>3. seen[w] \in 0 .. MaxAttempts - 1 /\ seen[w] + 1 \in 0 .. MaxAttempts
  BY <1>0, BoundAssumption DEF TypeOK
<1>4. attempts' \in [Keys -> 0 .. MaxAttempts]
  BY <1>0, <1>1, <1>3 DEF TypeOK
<1>5. PICK s \in Settled \cup {"pending"} :
        /\ status' = [status EXCEPT ![hold[w]] = s]
        /\ s = "pending" => seen[w] + 1 < MaxAttempts
        /\ s = "delivered" => outcome[w] = "delivered"
        /\ s = "dead" => outcome[w] = "dead" \/ seen[w] + 1 >= MaxAttempts
        /\ due' \in {due, due \ {hold[w]}} /\ lapsed' \in {lapsed, lapsed \ {hold[w]}}
  <2>1. CASE Final(w)
    BY <2>1 DEF Settle, Final, Settled
  <2>2. CASE ~Final(w)
    BY <1>3, <2>2, BoundAssumption DEF Settle, Final
  <2> QED BY <2>1, <2>2
<1>6. TypeOK'
  BY <1>0, <1>1, <1>2, <1>4, <1>5 DEF TypeOK, Settled
<1>7. \A u \in Workers : WorkerOK(u)'
  BY <1>1, <1>2 DEF IInv, WorkerOK, LetsGo, Delivering
<1>8. \A k \in Keys \ {hold[w]} : status'[k] = status[k] /\ attempts'[k] = attempts[k]
  BY <1>0, <1>1, <1>5 DEF TypeOK
<1>9. status'[hold[w]] = s /\ attempts'[hold[w]] = seen[w] + 1
  BY <1>0, <1>1, <1>5 DEF TypeOK
<1>10. LiveHasAttemptsLeft' /\ DeadIsJustified'
  BY <1>0, <1>1, <1>3, <1>5, <1>8, <1>9, BoundAssumption
     DEF IInv, WorkerOK, LiveHasAttemptsLeft, DeadIsJustified, Settled
<1>11. DeliveredIsProven'
  BY <1>0, <1>1, <1>5, <1>8, <1>9 DEF IInv, WorkerOK, DeliveredIsProven
<1>12. OneSender'
  BY <1>0, <1>1, <1>2, <1>5, <1>8 DEF IInv, OneSender, LetsGo, WorkerOK, Delivering
<1> QED BY <1>6, <1>7, <1>10, <1>11, <1>12 DEF IInv

\* A worker process dies: its claim outlives it, the row does not change.
LEMMA CrashStep ==
    ASSUME IInv, NEW w \in Workers, Crash(w)
    PROVE  IInv'
<1>0. TypeOK
  BY DEF IInv
<1>1. UNCHANGED <<id, status, attempts, due, lapsed, deleted, recorded, accepted, stalls>>
  BY DEF Crash, row, world
<1>2. crashes' \in 0 .. MaxFaults
  BY <1>0, BoundAssumption DEF Crash, TypeOK
<1>3. LetsGo(w) /\ TypeOK'
  BY <1>0, <1>1, <1>2, LettingGo DEF Crash, TypeOK
<1> QED BY <1>1, <1>3, AbandonStep

\* Every step of the threads, the clock and the clients preserves the invariant.
LEMMA Inductive == IInv /\ [Next]_vars => IInv'
<1> SUFFICES ASSUME IInv, [Next]_vars PROVE IInv'
  OBVIOUS
<1>1. ASSUME NEW k \in Keys, Enqueue(k) \/ DeleteWebhook(k) \/ Time(k) PROVE IInv'
  BY <1>1, EnqueueStep, DeleteWebhookStep, BecomeDueStep, LeaseExpiresStep DEF Time
<1>2. ASSUME NEW w \in Workers, Deliver(w) PROVE IInv'
  BY <1>2, PollStep, ReadRowStep, ClaimStep, SendStep, RecordDeliveryStep, SettleStep DEF Deliver
<1>3. ASSUME NEW w \in Workers, Crash(w) PROVE IInv'
  BY <1>3, CrashStep
<1>4. CASE UNCHANGED vars
  <2>1. TypeOK' /\ UNCHANGED <<status, attempts, deleted, recorded, accepted, pc, hold, outcome,
                               lapsed, stalls>>
    BY <1>4 DEF IInv, TypeOK, vars, row, world, locals, counts
  <2> QED BY <2>1, QuietStep
<1> QED BY <1>1, <1>2, <1>3, <1>4 DEF Next

\* The invariant holds in every reachable state.
THEOREM Invariance == Spec => []IInv
<1> QED BY Initially, Inductive, PTL DEF Spec

\* Attempts never exceed their maximum and every table stays well-typed.
THEOREM TypeCorrect == Spec => []TypeOK
<1>1. IInv => TypeOK
  BY DEF IInv
<1> QED BY <1>1, Invariance, PTL

\* A delivered row was accepted by its destination and is in the history of its
\* webhook, after any number of crashes, stalls and concurrent deliveries.
THEOREM Delivered == Spec => []DeliveredIsProven
<1>1. IInv => DeliveredIsProven
  BY DEF IInv
<1> QED BY <1>1, Invariance, PTL

\* A dead row is out of attempts or its webhook is gone.
THEOREM Dead == Spec => []DeadIsJustified
<1>1. IInv => DeadIsJustified
  BY DEF IInv
<1> QED BY <1>1, Invariance, PTL

\* While no send outlives its lease, at most one thread delivers a row.
THEOREM Alone == Spec => []OneSender
<1>1. IInv => OneSender
  BY DEF IInv
<1> QED BY <1>1, Invariance, PTL

\* A step that finds no stall leaves the settled rows alone.
LEMMA SettledStep ==
    ASSUME IInv, [Next]_vars, stalls = 0, NEW k \in Keys, status[k] \in Settled
    PROVE  status'[k] = status[k]
<1>0. TypeOK
  BY DEF IInv
<1>1. ASSUME NEW j \in Keys, Enqueue(j) \/ DeleteWebhook(j) \/ Time(j) PROVE status'[k] = status[k]
  BY <1>0, <1>1 DEF Enqueue, DeleteWebhook, Time, BecomeDue, LeaseExpires, row, TypeOK, Settled
<1>2. ASSUME NEW w \in Workers, Deliver(w) PROVE status'[k] = status[k]
  <2>1. CASE Poll(w) \/ ReadRow(w) \/ Send(w) \/ RecordDelivery(w)
    BY <2>1 DEF Poll, ReadRow, Send, RecordDelivery, row
  <2>2. CASE Claim(w)
    BY <1>0, <2>2 DEF Claim, Claimable, TypeOK, Settled
  <2>3. CASE Settle(w)
    <3>1. hold[w] \in Keys /\ status[hold[w]] = "claimed"
      BY <2>3 DEF IInv, WorkerOK, OneSender, Settle, Delivering
    <3>2. hold[w] # k
      BY <3>1 DEF Settled
    <3> QED BY <1>0, <2>3, <3>1, <3>2 DEF Settle, TypeOK
  <2> QED BY <1>2, <2>1, <2>2, <2>3 DEF Deliver
<1>3. ASSUME NEW w \in Workers, Crash(w) PROVE status'[k] = status[k]
  BY <1>3 DEF Crash, row
<1>4. CASE UNCHANGED vars
  BY <1>4 DEF vars, row
<1> QED BY <1>1, <1>2, <1>3, <1>4 DEF Next

\* While no send outlives its lease, a delivered or dead row stays what it is:
\* no stale poll, stale read or repeated dispatch sends it again.
THEOREM SettledForGood == Spec => SettledIsFinal
<1>1. IInv /\ [Next]_vars =>
        [stalls = 0 => \A k \in Keys : status[k] \in Settled => status'[k] = status[k]]_vars
  BY SettledStep
<1> QED BY <1>1, Invariance, PTL DEF Spec, SettledIsFinal
=============================================================================
