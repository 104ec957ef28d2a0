------------------------------ MODULE Deployment ------------------------------
(***************************************************************************)
(* The request boundary of a serving process (main.py security_boundary):  *)
(* authentication, roles, the sliding window of the rate limit, the        *)
(* handler and the audit record, on top of Migrations.                     *)
(*                                                                         *)
(* A call is one HTTP request that the boundary guards; what it is does    *)
(* not change.  The middleware does not yield before it calls the handler, *)
(* so admission is one step; the handler and the audit are others, in the  *)
(* course of which the process may die.                                    *)
(***************************************************************************)
EXTENDS Migrations, FiniteSetsExt

CONSTANTS
    Calls,
    What,     \* what a call is, and which process it is addressed to
    Limit,    \* 240 requests
    Window,   \* in 60 seconds
    MaxClock  \* bound: the clock

Actors   == {What[c].actor : c \in Calls}
Requests == [via : Procs, actor : STRING, known : BOOLEAN, allowed : BOOLEAN, mutating : BOOLEAN]
Times    == 0 .. MaxClock
Answers  == {"ok", "unauthorized", "forbidden", "limited", "error"}

ASSUME CallAssumption ==
    What \in [Calls -> Requests] /\ Limit \in Nat \ {0} /\ Window \in Nat /\ MaxClock \in Nat

VARIABLES
    clock,
    place,     \* where a call is
    answer,    \* the response, or none yet
    bucket,    \* rate_buckets
    admitted,  \* history: when the present life of a process has admitted an actor's calls
    audited    \* audit_events: a call and the status recorded for it

boundary == <<clock, place, answer, bucket, admitted, audited>>
vars     == <<migVars, boundary>>

TypeOK ==
    /\ MigTypeOK /\ clock \in Times
    /\ place \in [Calls -> {"client", "handler", "audit", "done", "lost"}]
    /\ answer \in [Calls -> Answers \cup {"none"}] /\ audited \subseteq Calls \X Answers
    /\ bucket \in [Procs -> [Actors -> Seq(Times)]] /\ admitted \in [Procs -> [Actors -> Seq(Times)]]

Init ==
    /\ MigInit /\ clock = 0 /\ audited = {}
    /\ place = [c \in Calls |-> "client"]
    /\ answer = [c \in Calls |-> "none"]
    /\ bucket = [p \in Procs |-> [a \in Actors |-> <<>>]]
    /\ admitted = bucket

Go(c, where, status) ==
    /\ place' = [place EXCEPT ![c] = where]
    /\ answer' = [answer EXCEPT ![c] = status]

\* The boundary answers by itself; what an authenticated client wanted to change is audited.
Refuse(c, status) ==
    /\ Go(c, IF What[c].mutating /\ What[c].known THEN "audit" ELSE "done", status)
    /\ UNCHANGED admitted

\* Mutant: an entry leaves the window one tick early.
FreshHalfOpen(t) == t > clock - Window

\* bucket[0] < timestamp - 60 leaves the window.
Fresh(t) == t >= clock - Window

\* The bucket behind the entries that are popped off its left end.
InWindow(b) ==
    LET gone == Min({n \in 0 .. Len(b) : n = Len(b) \/ Fresh(b[n + 1])})
    IN  SubSeq(b, gone + 1, Len(b))

\* The window of an actor, and the call's place in it or a refusal.
Admit(c) ==
    LET p == What[c].via
        a == What[c].actor
        b == InWindow(bucket[p][a])
        ok == Len(b) < Limit
    IN  /\ bucket' = [bucket EXCEPT ![p][a] = IF ok THEN Append(b, clock) ELSE b]
        /\ \/ ok /\ Go(c, "handler", "none")
              /\ admitted' = [admitted EXCEPT ![p][a] = Append(@, clock)]
           \/ ~ok /\ Refuse(c, "limited")

\* security_boundary up to call_next: the token, the role for the method and the path,
\* the rate.  Where authentication is off, every client is a known administrator.
Enter(c) ==
    /\ stage[What[c].via] = "serving" /\ place[c] = "client"
    /\ \/ ~What[c].known /\ Refuse(c, "unauthorized") /\ UNCHANGED bucket
       \/ What[c].known /\ ~What[c].allowed /\ Refuse(c, "forbidden") /\ UNCHANGED bucket
       \/ What[c].known /\ What[c].allowed /\ Admit(c)
    /\ UNCHANGED <<migVars, clock, audited>>

\* The handler answers, or raises what no exception handler takes: call_next raises,
\* and the rest of the middleware with it.
Handle(c) ==
    /\ place[c] = "handler"
    /\ \/ Go(c, IF What[c].mutating THEN "audit" ELSE "done", "ok")
       \/ Go(c, "done", "error")
    /\ UNCHANGED <<migVars, clock, bucket, admitted, audited>>

\* Mutant: a failing audit is ignored.
AuditBestEffort(c) ==
    /\ place[c] = "audit" /\ Go(c, "done", answer[c])
    /\ audited' \in {audited, audited \cup {<<c, answer[c]>>}}
    /\ UNCHANGED <<migVars, clock, bucket, admitted>>

\* service.audit: the row is committed before the response is sent, or the request fails.
Audit(c) ==
    /\ place[c] = "audit"
    /\ \/ Go(c, "done", answer[c]) /\ audited' = audited \cup {<<c, answer[c]>>}
       \/ Go(c, "done", "error") /\ UNCHANGED audited
    /\ UNCHANGED <<migVars, clock, bucket, admitted>>

\* With a process go its buckets and the requests that it serves.
Stop(p) ==
    /\ Die(p)
    /\ place' = [c \in Calls |-> IF What[c].via = p /\ place[c] \in {"handler", "audit"}
                                THEN "lost" ELSE place[c]]
    /\ answer' = [c \in Calls |-> IF place'[c] = "lost" THEN "none" ELSE answer[c]]
    /\ bucket' = [bucket EXCEPT ![p] = [a \in Actors |-> <<>>]]
    /\ admitted' = [admitted EXCEPT ![p] = bucket'[p]]
    /\ UNCHANGED <<clock, audited>>

Tick == clock < MaxClock /\ clock' = clock + 1
        /\ UNCHANGED <<migVars, place, answer, bucket, admitted, audited>>

Next ==
    \/ \E p \in Procs : (Start(p) /\ UNCHANGED boundary) \/ Stop(p)
    \/ \E c \in Calls : Enter(c) \/ Handle(c) \/ Audit(c)
    \/ Tick

Spec == Init /\ [][Next]_vars

\* The restart policy starts a process that ended.
FairSpec == Spec /\ \A p \in Procs : WF_vars(Start(p) /\ UNCHANGED boundary)

\* The calls of c's actor that the process it is addressed to admitted in the last Window.
Recent(c) ==
    LET a == admitted[What[c].via][What[c].actor] IN {i \in DOMAIN a : a[i] >= clock - Window}

\* security_boundary: while a process lives, it turns a call away for its rate exactly
\* when it has admitted Limit calls of the actor in the window that ends now, whatever
\* was refused, expired or answered in between; another process counts for itself.
WindowIsExact ==
    [][\A c \in Calls :
         /\ place[c] = "client" /\ place'[c] = "handler" => Cardinality(Recent(c)) < Limit
         /\ answer[c] = "none" /\ answer'[c] = "limited" => Cardinality(Recent(c)) = Limit]_vars

\* security_boundary, audit: a client never sees the answer to a change, be it done,
\* forbidden or over the limit, before that very status is in the audit log; only an
\* error or a death leaves a doubt.
AnsweredIsAudited ==
    \A c \in Calls :
      place[c] = "done" /\ What[c].mutating /\ What[c].known /\ answer[c] # "error" =>
        {e \in audited : e[1] = c} = {<<c, answer[c]>>}

(***************************************************************************)
(* The inductive invariant behind the safety properties                    *)
(***************************************************************************)
\* The bucket is the end of the history, and what has left it is out of the window.
BucketIsRecent(p, a) ==
    LET b == bucket[p][a]
        h == admitted[p][a]
        d == Len(h) - Len(b)
    IN  /\ d >= 0 /\ Len(b) <= Limit
        /\ \A i \in 1 .. Len(b) : b[i] = h[d + i]
        /\ \A i \in 1 .. d : h[i] < clock - Window
        /\ \A i, j \in 1 .. Len(h) : i <= j => h[i] <= h[j] /\ h[j] <= clock

\* Nothing is recorded of a call before its audit, which has a status to record.
AuditIsLast ==
    \A c \in Calls :
      /\ place[c] \in {"client", "handler", "audit"} => \A e \in audited : e[1] # c
      /\ place[c] = "audit" => answer[c] # "none"

IInv ==
    /\ TypeOK /\ MigIInv /\ AuditIsLast /\ AnsweredIsAudited
    /\ \A p \in Procs : \A a \in Actors : BucketIsRecent(p, a)
=============================================================================
