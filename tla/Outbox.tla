-------------------------------- MODULE Outbox --------------------------------
(***************************************************************************)
(* The outbox: events of runs are inserted as rows of outbox_events and    *)
(* the outbox threads of the worker processes deliver them to webhooks,    *)
(* Slack and e-mail with retries (service.py, notifications.py).           *)
(*                                                                         *)
(* A row is named by its idempotency key "event:run:destination".  A step  *)
(* is one transaction, one stand-alone SELECT or one network call.  The    *)
(* clock is reduced to what the code compares with it: whether a row is    *)
(* due and whether its lease of 300 seconds has run out.                   *)
(*                                                                         *)
(* A definition whose comment starts with "Mutant" is the definition below *)
(* it with a plausible bug; it is not part of the specification.           *)
(***************************************************************************)
EXTENDS Integers, FiniteSets

CONSTANTS
    Keys,        \* the idempotency keys
    NoKey,       \* what a thread holds that holds no row
    Webhooks,    \* the keys whose destination is a webhook of the project
    Workers,     \* the outbox threads, one per worker process
    MaxAttempts, \* attempts before a row is dead-lettered (6 in the code)
    Limit,       \* rows a poll reads (20 in the code)
    MaxFaults    \* bound: how many sends outlive their lease or workers die

ASSUME KeyAssumption == IsFiniteSet(Keys) /\ NoKey \notin Keys /\ Webhooks \subseteq Keys
ASSUME BoundAssumption == /\ MaxAttempts \in Nat \ {0} /\ Limit \in Nat \ {0}
                          /\ MaxFaults \in Nat

VARIABLES
    \* --- outbox_events, webhooks and webhook_deliveries ---
    id,          \* outbox_events.id; 0 before the INSERT
    status,      \* outbox_events.status; "none" before the INSERT
    attempts,    \* outbox_events.attempts
    due,         \* keys whose next_attempt_at has passed
    lapsed,      \* keys whose claimed_at is older than the lease
    deleted,     \* webhook keys whose webhook was deleted with its project
    recorded,    \* keys with a row in webhook_deliveries
    \* --- the destinations ---
    accepted,    \* keys a destination has accepted at least once
    \* --- the outbox threads ---
    pc,          \* where a thread is
    batch,       \* the rows its poll returned and it has not come to yet
    hold,        \* the row it is at
    seen,        \* attempts in the row it read before it claimed
    outcome,     \* what came of the send
    stalls, crashes   \* how many sends outlived their lease, how many workers died

row    == <<status, attempts, due, lapsed>>
world  == <<deleted, recorded, accepted>>
locals == <<hold, seen, outcome>>
counts == <<stalls, crashes>>
vars   == <<id, row, world, pc, batch, locals, counts>>

Settled  == {"delivered", "dead"}
Outcomes == {"none", "delivered", "dead", "failed"}
Labels   == {"idle", "read", "claim", "send", "record", "settle"}
\* Labels between the claim of a row and the write that ends it.
Delivering == {"send", "record", "settle"}

TypeOK ==
    /\ id \in [Keys -> Nat]
    /\ status \in [Keys -> Settled \cup {"none", "pending", "claimed"}]
    /\ attempts \in [Keys -> 0 .. MaxAttempts]
    /\ due \subseteq Keys /\ lapsed \subseteq Keys
    /\ deleted \subseteq Webhooks /\ recorded \subseteq Webhooks
    /\ accepted \subseteq Keys
    /\ pc \in [Workers -> Labels]
    /\ batch \in [Workers -> SUBSET Keys]
    /\ hold \in [Workers -> Keys \cup {NoKey}]
    /\ seen \in [Workers -> 0 .. MaxAttempts - 1]
    /\ outcome \in [Workers -> Outcomes]
    /\ stalls \in 0 .. MaxFaults /\ crashes \in 0 .. MaxFaults

Init ==
    /\ id = [k \in Keys |-> 0]
    /\ status = [k \in Keys |-> "none"]
    /\ attempts = [k \in Keys |-> 0]
    /\ due = {} /\ lapsed = {}
    /\ deleted = {} /\ recorded = {} /\ accepted = {}
    /\ pc = [w \in Workers |-> "idle"]
    /\ batch = [w \in Workers |-> {}]
    /\ hold = [w \in Workers |-> NoKey]
    /\ seen = [w \in Workers |-> 0]
    /\ outcome = [w \in Workers |-> "none"]
    /\ stalls = 0 /\ crashes = 0

(***************************************************************************)
(* The world around the outbox threads                                     *)
(***************************************************************************)
\* AUTOINCREMENT
NewId == Cardinality({k \in Keys : id[k] > 0}) + 1

\* Mutant: INSERT OR REPLACE: a repeated dispatch starts the row anew.
EnqueueAgain(k) ==
    /\ id' = [id EXCEPT ![k] = NewId]
    /\ status' = [status EXCEPT ![k] = "pending"]
    /\ attempts' = [attempts EXCEPT ![k] = 0]
    /\ due' = due \cup {k}
    /\ UNCHANGED <<lapsed, world, pc, batch, locals, counts>>

\* _enqueue_outbox: INSERT OR IGNORE under UNIQUE(idempotency_key); a repeated
\* dispatch of the key changes nothing.
Enqueue(k) ==
    /\ status[k] = "none"
    /\ id' = [id EXCEPT ![k] = NewId]
    /\ status' = [status EXCEPT ![k] = "pending"]
    /\ due' = due \cup {k}
    /\ UNCHANGED <<attempts, lapsed, world, pc, batch, locals, counts>>

\* delete_project: the webhook and its delivery history go with the project,
\* the outbox row stays.
DeleteWebhook(k) ==
    /\ k \in Webhooks \ deleted
    /\ deleted' = deleted \cup {k}
    /\ recorded' = recorded \ {k}
    /\ UNCHANGED <<id, row, accepted, pc, batch, locals, counts>>

\* The clock passes next_attempt_at.
BecomeDue(k) ==
    /\ status[k] = "pending" /\ k \notin due
    /\ due' = due \cup {k}
    /\ UNCHANGED <<id, status, attempts, lapsed, world, pc, batch, locals, counts>>

Held(k) == \E w \in Workers : pc[w] \in Delivering /\ hold[w] = k

\* The clock passes claimed_at + 300 s.  When the claim's thread still is at it
\* (urlopen's timeout bounds every socket operation, not the send), this is a stall.
LeaseExpires(k) ==
    /\ status[k] = "claimed" /\ k \notin lapsed
    /\ \/ ~Held(k) /\ UNCHANGED stalls
       \/ Held(k) /\ stalls + crashes < MaxFaults /\ stalls' = stalls + 1
    /\ lapsed' = lapsed \cup {k}
    /\ UNCHANGED <<id, status, attempts, due, world, pc, batch, locals, crashes>>

(***************************************************************************)
(* The outbox thread                                                       *)
(***************************************************************************)
\* The thread is done with its row and comes to the next one of its batch.
NextRow(w) ==
    /\ pc' = [pc EXCEPT ![w] = IF batch[w] = {} THEN "idle" ELSE "read"]
    /\ hold' = [hold EXCEPT ![w] = NoKey]
    /\ seen' = [seen EXCEPT ![w] = 0]
    /\ outcome' = [outcome EXCEPT ![w] = "none"]
    /\ UNCHANGED batch

\* An exception ends the batch (suppress), or the process ends it.
DropBatch(w) ==
    /\ pc' = [pc EXCEPT ![w] = "idle"]
    /\ batch' = [batch EXCEPT ![w] = {}]
    /\ hold' = [hold EXCEPT ![w] = NoKey]
    /\ seen' = [seen EXCEPT ![w] = 0]
    /\ outcome' = [outcome EXCEPT ![w] = "none"]

Move(w, label) == pc' = [pc EXCEPT ![w] = label]

\* Mutant: a row whose worker died is never read again.
IsDuePending(k) == status[k] = "pending" /\ k \in due

\* The WHERE of _due_outbox: due, or claimed under a lease that has run out.
IsDue(k) == \/ status[k] = "pending" /\ k \in due
            \/ status[k] = "claimed" /\ k \in lapsed

Due == {k \in Keys : IsDue(k)}

\* _due_outbox: ORDER BY id LIMIT.
Poll(w) ==
    /\ pc[w] = "idle"
    /\ Due # {}
    /\ batch' = [batch EXCEPT ![w] =
                    {k \in Due : Cardinality({j \in Due : id[j] < id[k]}) < Limit}]
    /\ Move(w, "read")
    /\ UNCHANGED <<id, row, world, locals, counts>>

\* _deliver_outbox reads the next row by id, and skips a settled one.
ReadRow(w) ==
    /\ pc[w] = "read"
    /\ \E k \in batch[w] :
         /\ \A j \in batch[w] : id[k] <= id[j]
         /\ batch' = [batch EXCEPT ![w] = @ \ {k}]
         /\ \/ /\ status[k] \in {"pending", "claimed"}
               /\ hold' = [hold EXCEPT ![w] = k]
               /\ seen' = [seen EXCEPT ![w] = attempts[k]]
               /\ Move(w, "claim")
               /\ UNCHANGED outcome
            \/ /\ status[k] \in Settled
               /\ Move(w, IF batch[w] = {k} THEN "idle" ELSE "read")
               /\ UNCHANGED locals
    /\ UNCHANGED <<id, row, world, counts>>

\* Mutant: any claimed row can be claimed.
ClaimableAgain(k) == status[k] \in {"pending", "claimed"}

\* The WHERE of _claim_outbox: it looks at the lease but not at next_attempt_at.
Claimable(k) == status[k] = "pending" \/ (status[k] = "claimed" /\ k \in lapsed)

\* _claim_outbox: compare and set; a row somebody else holds is skipped.
Claim(w) ==
    LET k == hold[w] IN
    /\ pc[w] = "claim"
    /\ \/ /\ Claimable(k)
          /\ status' = [status EXCEPT ![k] = "claimed"]
          /\ lapsed' = lapsed \ {k}
          /\ Move(w, "send")
          /\ UNCHANGED <<batch, locals>>
       \/ ~Claimable(k) /\ NextRow(w) /\ UNCHANGED <<status, lapsed>>
    /\ UNCHANGED <<id, attempts, due, world, counts>>

\* get_webhook: a deleted webhook is a dead end.
DeadEnd(w) ==
    /\ hold[w] \in deleted
    /\ outcome' = [outcome EXCEPT ![w] = "dead"]
    /\ Move(w, "settle")
    /\ UNCHANGED <<accepted>>

\* The destination takes the event; a webhook call has a delivery to record.
Accept(w) ==
    LET k == hold[w] IN
    /\ accepted' = accepted \cup {k}
    /\ outcome' = [outcome EXCEPT ![w] = "delivered"]
    /\ Move(w, IF k \in Webhooks THEN "record" ELSE "settle")

\* Any exception of a notifier or a webhook call is a failed attempt.
Decline(w) ==
    /\ outcome' = [outcome EXCEPT ![w] = "failed"]
    /\ Move(w, "settle")
    /\ UNCHANGED accepted

\* The look-up of the destination and the network call.
Send(w) ==
    LET k == hold[w] IN
    /\ pc[w] = "send"
    /\ \/ DeadEnd(w)
       \/ k \notin deleted /\ (Accept(w) \/ Decline(w))
    /\ UNCHANGED <<id, row, deleted, recorded, batch, hold, seen, counts>>

\* Mutant: the row is settled although its history is lost.
RecordDeliveryLost(w) ==
    /\ pc[w] = "record"
    /\ Move(w, "settle")
    /\ UNCHANGED <<id, row, world, batch, locals, counts>>

\* INSERT INTO webhook_deliveries.  When the webhook was deleted meanwhile the
\* foreign key fails, the exception ends the batch and the row stays claimed.
RecordDelivery(w) ==
    LET k == hold[w] IN
    /\ pc[w] = "record"
    /\ \/ /\ k \notin deleted
          /\ recorded' = recorded \cup {k}
          /\ Move(w, "settle")
          /\ UNCHANGED <<batch, locals>>
       \/ k \in deleted /\ DropBatch(w) /\ UNCHANGED recorded
    /\ UNCHANGED <<id, row, deleted, accepted, counts>>

\* Mutant: one attempt too few.
FinalEarly(w) == outcome[w] \in Settled \/ seen[w] + 2 >= MaxAttempts

\* Delivered, dead, or out of attempts.
Final(w) == outcome[w] \in Settled \/ seen[w] + 1 >= MaxAttempts

\* The write that ends the attempt, by id: the row is settled, or pending again
\* with a later next_attempt_at.  The attempts are those the thread has seen, + 1.
Settle(w) ==
    LET k == hold[w] IN
    /\ pc[w] = "settle"
    /\ attempts' = [attempts EXCEPT ![k] = seen[w] + 1]
    /\ \/ /\ Final(w)
          /\ status' = [status EXCEPT ![k] = IF outcome[w] = "delivered" THEN "delivered" ELSE "dead"]
          /\ UNCHANGED <<due, lapsed>>
       \/ /\ ~Final(w)
          /\ status' = [status EXCEPT ![k] = "pending"]
          /\ due' = due \ {k}
          /\ lapsed' = lapsed \ {k}
    /\ NextRow(w)
    /\ UNCHANGED <<id, world, counts>>

\* The worker process dies between two steps and is restarted.
Crash(w) ==
    /\ pc[w] # "idle" /\ stalls + crashes < MaxFaults
    /\ crashes' = crashes + 1
    /\ DropBatch(w)
    /\ UNCHANGED <<id, row, world, stalls>>

(***************************************************************************)
(* Specification                                                           *)
(***************************************************************************)
Deliver(w) == Poll(w) \/ ReadRow(w) \/ Claim(w) \/ Send(w) \/ RecordDelivery(w) \/ Settle(w)
Time(k)    == BecomeDue(k) \/ LeaseExpires(k)

Next ==
    \/ \E k \in Keys : Enqueue(k) \/ DeleteWebhook(k) \/ Time(k)
    \/ \E w \in Workers : Deliver(w) \/ Crash(w)

Spec == Init /\ [][Next]_vars

\* The threads poll every AGENTOPS_OUTBOX_POLL_MS and survive every exception, a
\* network call returns or times out, a dead process is restarted and the clock
\* goes on.  Nothing obliges a run to dispatch an event.
Fairness == /\ \A w \in Workers : WF_vars(Deliver(w))
            /\ \A k \in Keys : WF_vars(Time(k))

FairSpec == Spec /\ Fairness

(***************************************************************************)
(* Properties                                                              *)
(***************************************************************************)
\* _deliver_outbox settles a row as "delivered" only when its destination took
\* the event, and then the delivery history of an existing webhook has it.
DeliveredIsProven ==
    \A k \in Keys : status[k] = "delivered" =>
      k \in accepted /\ (k \in Webhooks => k \in recorded \cup deleted)

\* A row is given up only after its last attempt or when its webhook is gone,
\* whatever crashes, stalls and concurrent claims came in between.
DeadIsJustified ==
    \A k \in Keys : status[k] = "dead" => k \in deleted \/ attempts[k] = MaxAttempts

\* _claim_outbox: as long as no send outlives its lease, at most one thread is
\* delivering a row, and that row is claimed under a running lease.
OneSender ==
    stalls = 0 =>
      \A w \in Workers : pc[w] \in Delivering =>
        /\ status[hold[w]] = "claimed" /\ hold[w] \notin lapsed
        /\ \A u \in Workers \ {w} : pc[u] \in Delivering => hold[u] # hold[w]

\* As long as no send outlives its lease, a settled row is never touched again:
\* neither a stale poll, a stale read nor a repeated dispatch revives it.
SettledIsFinal ==
    [][stalls = 0 => \A k \in Keys : status[k] \in Settled => status'[k] = status[k]]_vars

\* Every event that reached the outbox is delivered or dead-lettered in the end:
\* retries, lost claims and failed history writes leave no row behind.
EveryEventSettles == \A k \in Keys : (status[k] = "pending") ~> (status[k] \in Settled)

(***************************************************************************)
(* The inductive invariant                                                 *)
(***************************************************************************)
\* A thread past its read has a row, and outcomes are justified.
WorkerOK(w) ==
    /\ pc[w] \in Delivering \cup {"claim"} => hold[w] \in Keys
    /\ pc[w] = "record" => hold[w] \in accepted \cap Webhooks /\ outcome[w] = "delivered"
    /\ pc[w] = "settle" =>
         /\ outcome[w] = "delivered" =>
              hold[w] \in accepted /\ (hold[w] \in Webhooks => hold[w] \in recorded \cup deleted)
         /\ outcome[w] = "dead" => hold[w] \in deleted

\* A row that can still be tried has attempts left.
LiveHasAttemptsLeft == \A k \in Keys : status[k] \notin Settled => attempts[k] < MaxAttempts

IInv ==
    /\ TypeOK
    /\ LiveHasAttemptsLeft
    /\ \A w \in Workers : WorkerOK(w)
    /\ DeliveredIsProven
    /\ DeadIsJustified
    /\ OneSender
=============================================================================
