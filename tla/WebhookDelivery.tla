--------------------------- MODULE WebhookDelivery ---------------------------
(***************************************************************************)
(* Webhook delivery: the outbox table that order transactions write, the   *)
(* workers that claim due rows in batches, POST them one by one and record *)
(* the result, and the retries.  One worker runs in each process; SKIP     *)
(* LOCKED lets the workers of several processes claim at the same time.    *)
(*                                                                         *)
(* A claim is one transaction over the rows it locks and is one action.    *)
(* Recording a failure reads the row and writes it in two statements       *)
(* without a lock: two actions.  A process may die at any point, and the   *)
(* worker ignores a failed write of a result.                              *)
(***************************************************************************)
EXTENDS Integers, FiniteSets

CONSTANTS Endpoints, Events, Workers,
          BatchLimit,    \* 20 in the code
          MaxAttempts,   \* len(delays), 5 in the code
          MaxRetries,    \* bound: manual retries of one delivery
          None

Deliveries == Events \X Endpoints

ASSUME WebhookAssumption ==
    /\ BatchLimit \in Nat \ {0}
    /\ MaxAttempts \in Nat \ {0}
    /\ MaxRetries \in Nat
    /\ None \notin Deliveries

VARIABLES endpoints,    \* webhook_endpoints: state and subscribed events
          deliveries,   \* webhook_deliveries, one for an event and an endpoint
          workers,      \* what each worker holds
          accepted,     \* external: how often an endpoint has accepted a delivery
          retries,      \* history: manual retries of each delivery
          orphaned      \* history: deliveries whose result was lost with their claim

vars == <<endpoints, deliveries, workers, accepted, retries, orphaned>>

Status == {"none", "pending", "processing", "delivered", "retrying", "failed"}
Endpoint == [state : {"none", "enabled", "deleted"}, events : SUBSET Events]
Delivery == [status : Status, attempts : Nat, due : BOOLEAN]

\* A worker holds the claimed jobs it has not posted yet, and the one it is
\* on: sent with what came back, or read with the attempts FailWebhookJob saw.
Worker == [jobs : SUBSET Deliveries, on : Deliveries \cup {None},
           phase : {"idle", "accepted", "refused", "read"}, attempts : Nat]

NoDelivery == [status |-> "none", attempts |-> 0, due |-> FALSE]
Idle == [jobs |-> {}, on |-> None, phase |-> "idle", attempts |-> 0]

Init ==
    /\ endpoints = [e \in Endpoints |-> [state |-> "none", events |-> {}]]
    /\ deliveries = [d \in Deliveries |-> NoDelivery]
    /\ workers = [w \in Workers |-> Idle]
    /\ accepted = [d \in Deliveries |-> 0]
    /\ retries = [d \in Deliveries |-> 0]
    /\ orphaned = {}

-----------------------------------------------------------------------------
(* Endpoints and the outbox *)

CreateWebhookEndpoint(e, events) ==
    /\ endpoints[e].state = "none"
    /\ endpoints' = [endpoints EXCEPT ![e] = [state |-> "enabled", events |-> events]]
    /\ UNCHANGED <<deliveries, workers, accepted, retries, orphaned>>

DeleteWebhookEndpoint(e) ==
    /\ endpoints[e].state = "enabled"
    /\ endpoints' = [endpoints EXCEPT ![e].state = "deleted"]
    /\ UNCHANGED <<deliveries, workers, accepted, retries, orphaned>>

\* An order changes state: one row for every endpoint subscribed at that moment.
enqueueOrderWebhook(event) ==
    LET targets == {e \in Endpoints : endpoints[e].state = "enabled" /\ event \in endpoints[e].events} IN
    /\ targets # {}
    /\ \A e \in Endpoints : deliveries[<<event, e>>].status = "none"
    /\ deliveries' = [d \in Deliveries |->
            IF d[1] = event /\ d[2] \in targets THEN [status |-> "pending", attempts |-> 0, due |-> TRUE]
            ELSE deliveries[d]]
    /\ UNCHANGED <<endpoints, workers, accepted, retries, orphaned>>

\* The clock passes next_retry_at.
PassRetryTime(d) ==
    /\ deliveries[d].status = "retrying"
    /\ ~deliveries[d].due
    /\ deliveries' = [deliveries EXCEPT ![d].due = TRUE]
    /\ UNCHANGED <<endpoints, workers, accepted, retries, orphaned>>

-----------------------------------------------------------------------------
(* Claims *)

\* Mutant: rows left in processing are picked up again.
ClaimableProcessing(d) ==
    \/ deliveries[d].status = "processing"
    \/ deliveries[d].status \in {"pending", "retrying"} /\ deliveries[d].due

\* Mutant: only new rows are selected.
ClaimablePending(d) == deliveries[d].status = "pending" /\ deliveries[d].due

Claimable(d) == deliveries[d].status \in {"pending", "retrying"} /\ deliveries[d].due

\* Mutant: a row whose endpoint is gone is marked before the endpoint is looked up.
ClaimedUnseen(d) == [deliveries[d] EXCEPT !.status = "processing", !.attempts = deliveries[d].attempts + 1]

\* What a claim makes of a row: failed when its endpoint is gone.
Claimed(d) ==
    IF endpoints[d[2]].state = "enabled"
    THEN [deliveries[d] EXCEPT !.status = "processing", !.attempts = deliveries[d].attempts + 1]
    ELSE [deliveries[d] EXCEPT !.status = "failed"]

\* A batch of due rows; it may be less than all of them, since rows that
\* another claim has locked are skipped.
ClaimWebhookJobs(w, batch) ==
    /\ workers[w] = Idle
    /\ batch # {} /\ Cardinality(batch) <= BatchLimit
    /\ \A d \in batch : Claimable(d)
    /\ deliveries' = [d \in Deliveries |-> IF d \in batch THEN Claimed(d) ELSE deliveries[d]]
    /\ workers' = [workers EXCEPT ![w] = [Idle EXCEPT !.jobs = {d \in batch : endpoints[d[2]].state = "enabled"}]]
    /\ UNCHANGED <<endpoints, accepted, retries, orphaned>>

-----------------------------------------------------------------------------
(* Posting the claimed jobs, one by one *)

Sent(w, d, answer) ==
    workers' = [workers EXCEPT ![w] = [jobs |-> workers[w].jobs \ {d}, on |-> d, phase |-> answer, attempts |-> 0]]

\* The endpoint takes the request and its 2xx answer comes back.
PostAccepted(w, d) ==
    /\ workers[w].on = None
    /\ d \in workers[w].jobs
    /\ accepted' = [accepted EXCEPT ![d] = accepted[d] + 1]
    /\ Sent(w, d, "accepted")
    /\ UNCHANGED <<endpoints, deliveries, retries, orphaned>>

\* No answer, another status, or no request: the endpoint may have taken it.
PostRefused(w, d) ==
    /\ workers[w].on = None
    /\ d \in workers[w].jobs
    /\ accepted' \in {accepted, [accepted EXCEPT ![d] = accepted[d] + 1]}
    /\ Sent(w, d, "refused")
    /\ UNCHANGED <<endpoints, deliveries, retries, orphaned>>

NextJob(w) == workers' = [workers EXCEPT ![w] = [Idle EXCEPT !.jobs = workers[w].jobs]]

\* UPDATE ... WHERE id = ..., whatever the row's status is by now.
CompleteWebhookJob(w) ==
    /\ workers[w].phase = "accepted"
    /\ deliveries' = [deliveries EXCEPT ![workers[w].on].status = "delivered"]
    /\ NextJob(w)
    /\ UNCHANGED <<endpoints, accepted, retries, orphaned>>

ReadFailedJob(w) ==
    /\ workers[w].phase = "refused"
    /\ workers' = [workers EXCEPT ![w] = [workers[w] EXCEPT !.phase = "read",
                                                          !.attempts = deliveries[workers[w].on].attempts]]
    /\ UNCHANGED <<endpoints, deliveries, accepted, retries, orphaned>>

\* Mutant: one attempt more than there are delays.
AfterFailureLate(attempts) == IF attempts > MaxAttempts THEN "failed" ELSE "retrying"

\* Mutant: the claim has counted this attempt already, and it is counted again.
AfterFailureEarly(attempts) == IF attempts + 1 >= MaxAttempts THEN "failed" ELSE "retrying"

AfterFailure(attempts) == IF attempts >= MaxAttempts THEN "failed" ELSE "retrying"

\* The status follows from the attempts read before, next_retry_at lies in the
\* future again.
FailWebhookJob(w) ==
    /\ workers[w].phase = "read"
    /\ deliveries' = [deliveries EXCEPT ![workers[w].on] =
                          [@ EXCEPT !.status = AfterFailure(workers[w].attempts), !.due = FALSE]]
    /\ NextJob(w)
    /\ UNCHANGED <<endpoints, accepted, retries, orphaned>>

Held(w) == workers[w].jobs \cup ({workers[w].on} \ {None})

\* The write of a result fails; the worker ignores the error and goes on.
LoseResult(w) ==
    /\ workers[w].on # None
    /\ orphaned' = orphaned \cup {workers[w].on}
    /\ NextJob(w)
    /\ UNCHANGED <<endpoints, deliveries, accepted, retries>>

\* The process dies, a new one starts with nothing claimed.
Crash(w) ==
    /\ Held(w) # {}
    /\ orphaned' = orphaned \cup Held(w)
    /\ workers' = [workers EXCEPT ![w] = Idle]
    /\ UNCHANGED <<endpoints, deliveries, accepted, retries>>

-----------------------------------------------------------------------------
\* Manual retry, whatever the row's status is; the endpoint must still exist.
RetryWebhookJob(d) ==
    /\ retries[d] < MaxRetries
    /\ deliveries[d].status # "none"
    /\ endpoints[d[2]].state = "enabled"
    /\ deliveries' = [deliveries EXCEPT ![d] = [@ EXCEPT !.status = "retrying", !.due = TRUE]]
    /\ retries' = [retries EXCEPT ![d] = retries[d] + 1]
    /\ UNCHANGED <<endpoints, workers, accepted, orphaned>>

WorkerStep(w) ==
    \/ \E batch \in SUBSET Deliveries : ClaimWebhookJobs(w, batch)
    \/ \E d \in Deliveries : PostAccepted(w, d) \/ PostRefused(w, d)
    \/ CompleteWebhookJob(w)
    \/ ReadFailedJob(w)
    \/ FailWebhookJob(w)
    \/ LoseResult(w)
    \/ Crash(w)

Next ==
    \/ \E e \in Endpoints, events \in (SUBSET Events) \ {{}} : CreateWebhookEndpoint(e, events)
    \/ \E e \in Endpoints : DeleteWebhookEndpoint(e)
    \/ \E event \in Events : enqueueOrderWebhook(event)
    \/ \E d \in Deliveries : PassRetryTime(d) \/ RetryWebhookJob(d)
    \/ \E w \in Workers : WorkerStep(w)

Spec == Init /\ [][Next]_vars

\* Posting ends (the client's timeout), and its result is written or lost.
Proceed(w) == \/ \E d \in Deliveries : PostAccepted(w, d) \/ PostRefused(w, d)
              \/ CompleteWebhookJob(w)
              \/ ReadFailedJob(w)
              \/ FailWebhookJob(w)

\* Time passes, the ticker keeps every worker going, and a due row is claimed
\* in the end because claims take the longest due rows first.
Fairness == /\ \A d \in Deliveries : /\ WF_vars(PassRetryTime(d))
                                     /\ SF_vars(\E w \in Workers, batch \in SUBSET Deliveries :
                                                   d \in batch /\ ClaimWebhookJobs(w, batch))
            /\ \A w \in Workers : WF_vars(Proceed(w))

FairSpec == Spec /\ Fairness

-----------------------------------------------------------------------------
(* Properties *)

\* Every variable has its type.
TypeOK ==
    /\ endpoints \in [Endpoints -> Endpoint]
    /\ deliveries \in [Deliveries -> Delivery]
    /\ workers \in [Workers -> Worker]
    /\ accepted \in [Deliveries -> Nat]
    /\ retries \in [Deliveries -> Nat]
    /\ orphaned \subseteq Deliveries

HeldOnce(d) ==
    /\ \A v, w \in Workers : d \in Held(v) /\ d \in Held(w) => v = w
    /\ \A w \in Workers : d \in Held(w) => deliveries[d].status = "processing"

\* Until somebody retries it by hand, a delivery is held by one worker at a
\* time, and only while it is processing: no two workers post the same job, and
\* none overwrites the other's result.
HeldByOne == \A d \in Deliveries : retries[d] = 0 => HeldOnce(d)

\* No claim looks at a row that is processing: unless its claim or result was
\* lost, a worker holds it and will record a result, even when manual retries
\* have given it to several workers that finish in any order.
NoneStranded ==
    \A d \in Deliveries : deliveries[d].status = "processing" => d \in orphaned \/ \E w \in Workers : d \in Held(w)

\* Whatever the interleaving of workers, late failures and manual retries, an
\* endpoint is tried at most MaxAttempts times, and once more for each manual
\* retry; FailWebhookJob's stale read of the attempts gives away none.
AttemptsBudget ==
    \A d \in Deliveries : /\ deliveries[d].attempts <= MaxAttempts + retries[d]
                          /\ accepted[d] <= deliveries[d].attempts

\* A delivery nobody retries by hand is given up only after the last attempt
\* or because its endpoint is gone, and one the endpoint is known to have
\* accepted keeps that result.
GivenUpLate ==
    [][\A d \in Deliveries : retries'[d] = 0 =>
          /\ deliveries[d].status = "delivered" => deliveries'[d].status = "delivered"
          /\ deliveries[d].status # "failed" /\ deliveries'[d].status = "failed" =>
                deliveries'[d].attempts = MaxAttempts \/ endpoints[d[2]].state # "enabled"]_vars

\* Every delivery ends as delivered or failed, unless its claim or its result
\* was lost; then only a manual retry helps.
DeliveryEnds ==
    \A d \in Deliveries : deliveries[d].status # "none" ~>
        deliveries[d].status \in {"delivered", "failed"} \/ d \in orphaned
=============================================================================
