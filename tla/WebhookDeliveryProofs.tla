------------------------ MODULE WebhookDeliveryProofs ------------------------
(***************************************************************************)
(* Proofs about WebhookDelivery, for any number of endpoints, events,      *)
(* workers and attempts.                                                   *)
(***************************************************************************)
EXTENDS WebhookDelivery, FiniteSetTheorems, TLAPS

USE DEF Status

-----------------------------------------------------------------------------
(* Types.  TypeOK is not inductive: recording a result is well typed only  *)
(* because a worker that is not idle is on a delivery.                     *)

WorkersOK == \A w \in Workers : workers[w].phase = "idle" <=> workers[w].on = None

TypeInv == TypeOK /\ WorkersOK

\* The types of what a worker holds.
LEMMA WorkerFields ==
    ASSUME TypeInv, NEW w \in Workers
    PROVE  /\ workers[w].jobs \in SUBSET Deliveries
           /\ workers[w].on \in Deliveries \cup {None}
           /\ workers[w].phase \in {"idle", "accepted", "refused", "read"}
           /\ workers[w].attempts \in Nat
           /\ workers[w].phase # "idle" => workers[w].on \in Deliveries
BY DEF TypeInv, TypeOK, WorkersOK, Worker

\* The types of a delivery's columns.
LEMMA DeliveryFields ==
    ASSUME TypeInv, NEW d \in Deliveries
    PROVE  /\ deliveries[d].status \in Status
           /\ deliveries[d].attempts \in Nat
           /\ deliveries[d].due \in BOOLEAN
BY DEF TypeInv, TypeOK, Delivery

\* One worker changes to another well-typed state.
LEMMA WorkerType ==
    ASSUME TypeInv, NEW w \in Workers, NEW row \in Worker, row.phase = "idle" <=> row.on = None,
           workers' = [workers EXCEPT ![w] = row]
    PROVE  workers' \in [Workers -> Worker] /\ WorkersOK'
BY DEF TypeInv, TypeOK, WorkersOK

\* Going on to the next job keeps the workers well typed.
LEMMA NextJobType ==
    ASSUME TypeInv, NEW w \in Workers, NextJob(w)
    PROVE  workers' \in [Workers -> Worker] /\ WorkersOK'
<1> DEFINE row == [Idle EXCEPT !.jobs = workers[w].jobs]
<1>1. row \in Worker /\ row.phase = "idle" /\ row.on = None
  BY WorkerFields DEF Idle, Worker
<1>2. workers' = [workers EXCEPT ![w] = row]
  BY DEF NextJob
<1> HIDE DEF row
<1>3. QED
  BY <1>1, <1>2, WorkerType

\* Every variable has its type, whatever operation runs.
THEOREM TypeInvariant == Spec => []TypeInv
<1>1. Init => TypeInv
  BY DEF Init, TypeInv, TypeOK, WorkersOK, Endpoint, Delivery, Worker, NoDelivery, Idle
<1>2. TypeInv /\ [Next]_vars => TypeInv'
  <2> SUFFICES ASSUME TypeInv, [Next]_vars
               PROVE  TypeInv'
    OBVIOUS
  <2>0. TypeOK /\ WorkersOK
    BY DEF TypeInv
  <2>1. ASSUME NEW e \in Endpoints, NEW events \in SUBSET Events, CreateWebhookEndpoint(e, events)
        PROVE  TypeInv'
    BY <2>0, <2>1 DEF CreateWebhookEndpoint, Endpoint, TypeInv, TypeOK, WorkersOK
  <2>2. ASSUME NEW e \in Endpoints, DeleteWebhookEndpoint(e)
        PROVE  TypeInv'
    BY <2>0, <2>2 DEF DeleteWebhookEndpoint, Endpoint, TypeInv, TypeOK, WorkersOK
  <2>3. ASSUME NEW event \in Events, enqueueOrderWebhook(event)
        PROVE  TypeInv'
    <3>1. deliveries' \in [Deliveries -> Delivery]
      BY <2>0, <2>3 DEF enqueueOrderWebhook, Delivery, TypeOK
    <3>2. QED
      BY <2>0, <2>3, <3>1 DEF enqueueOrderWebhook, TypeInv, TypeOK, WorkersOK
  <2>4. ASSUME NEW d \in Deliveries, PassRetryTime(d)
        PROVE  TypeInv'
    BY <2>0, <2>4 DEF PassRetryTime, Delivery, TypeInv, TypeOK, WorkersOK
  <2>5. ASSUME NEW d \in Deliveries, RetryWebhookJob(d)
        PROVE  TypeInv'
    <3>1. deliveries' \in [Deliveries -> Delivery]
      BY <2>0, <2>5 DEF RetryWebhookJob, Delivery, TypeOK
    <3>2. retries' \in [Deliveries -> Nat]
      BY <2>0, <2>5 DEF RetryWebhookJob, TypeOK
    <3>3. QED
      BY <2>0, <2>5, <3>1, <3>2 DEF RetryWebhookJob, TypeInv, TypeOK, WorkersOK
  <2>6. ASSUME NEW w \in Workers, NEW batch \in SUBSET Deliveries, ClaimWebhookJobs(w, batch)
        PROVE  TypeInv'
    <3>1. ASSUME NEW d \in Deliveries
          PROVE  Claimed(d) \in Delivery
      <4>1. deliveries[d].attempts + 1 \in Nat
        BY DeliveryFields
      <4>2. CASE endpoints[d[2]].state = "enabled"
        BY <2>0, <4>1, <4>2 DEF Claimed, TypeOK, Delivery
      <4>3. CASE endpoints[d[2]].state # "enabled"
        BY <2>0, <4>3 DEF Claimed, TypeOK, Delivery
      <4>4. QED
        BY <4>2, <4>3
    <3>2. deliveries' \in [Deliveries -> Delivery]
      BY <2>0, <2>6, <3>1 DEF ClaimWebhookJobs, TypeOK
    <3> DEFINE jobs == {d \in batch : endpoints[d[2]].state = "enabled"}
    <3>3. jobs \in SUBSET Deliveries
      OBVIOUS
    <3> DEFINE row == [Idle EXCEPT !.jobs = jobs]
    <3>4. workers' = [workers EXCEPT ![w] = row]
      BY <2>6 DEF ClaimWebhookJobs
    <3> HIDE DEF jobs
    <3>5. row \in Worker /\ row.phase = "idle" /\ row.on = None
      BY <3>3 DEF Idle, Worker
    <3> HIDE DEF row
    <3>6. workers' \in [Workers -> Worker] /\ WorkersOK'
      BY <3>4, <3>5, WorkerType
    <3>7. QED
      BY <2>0, <2>6, <3>2, <3>6 DEF ClaimWebhookJobs, TypeInv, TypeOK
  <2>7. ASSUME NEW w \in Workers, NEW d \in Deliveries, PostAccepted(w, d) \/ PostRefused(w, d)
        PROVE  TypeInv'
    <3>1. accepted' \in [Deliveries -> Nat]
      BY <2>0, <2>7 DEF PostAccepted, PostRefused, TypeOK
    <3>2. d # None
      BY WebhookAssumption
    <3>3. PICK answer \in {"accepted", "refused"} : Sent(w, d, answer)
      BY <2>7 DEF PostAccepted, PostRefused
    <3> DEFINE row == [jobs |-> workers[w].jobs \ {d}, on |-> d, phase |-> answer, attempts |-> 0]
    <3>4. row \in Worker /\ row.phase # "idle" /\ row.on # None
      BY <3>2, WorkerFields DEF Worker
    <3>5. workers' = [workers EXCEPT ![w] = row]
      BY <3>3 DEF Sent
    <3> HIDE DEF row
    <3>6. workers' \in [Workers -> Worker] /\ WorkersOK'
      BY <3>4, <3>5, WorkerType
    <3>7. QED
      BY <2>0, <2>7, <3>1, <3>6 DEF PostAccepted, PostRefused, TypeInv, TypeOK
  <2>8. ASSUME NEW w \in Workers, CompleteWebhookJob(w)
        PROVE  TypeInv'
    <3>1. deliveries' \in [Deliveries -> Delivery]
      BY <2>0, <2>8 DEF CompleteWebhookJob, Delivery, TypeOK
    <3>2. QED
      BY <2>0, <2>8, <3>1, NextJobType DEF CompleteWebhookJob, TypeInv, TypeOK
  <2>9. ASSUME NEW w \in Workers, ReadFailedJob(w)
        PROVE  TypeInv'
    <3> DEFINE d == workers[w].on
    <3>1. d \in Deliveries /\ d # None
      BY <2>9, WorkerFields, WebhookAssumption DEF ReadFailedJob
    <3>2. deliveries[d].attempts \in Nat
      BY <3>1, DeliveryFields
    <3> DEFINE row == [workers[w] EXCEPT !.phase = "read", !.attempts = deliveries[d].attempts]
    <3>3. row \in Worker /\ row.phase # "idle" /\ row.on # None
      BY <2>0, <3>1, <3>2 DEF Worker, TypeOK
    <3>4. workers' = [workers EXCEPT ![w] = row]
      BY <2>9 DEF ReadFailedJob
    <3> HIDE DEF row
    <3>5. workers' \in [Workers -> Worker] /\ WorkersOK'
      BY <3>3, <3>4, WorkerType
    <3>6. QED
      BY <2>0, <2>9, <3>5 DEF ReadFailedJob, TypeInv, TypeOK
  <2>10. ASSUME NEW w \in Workers, FailWebhookJob(w)
         PROVE  TypeInv'
    <3>1. AfterFailure(workers[w].attempts) \in Status
      BY DEF AfterFailure
    <3>2. deliveries' \in [Deliveries -> Delivery]
      BY <2>0, <2>10, <3>1 DEF FailWebhookJob, Delivery, TypeOK
    <3>3. QED
      BY <2>0, <2>10, <3>2, NextJobType DEF FailWebhookJob, TypeInv, TypeOK
  <2>11. ASSUME NEW w \in Workers, LoseResult(w)
         PROVE  TypeInv'
    BY <2>0, <2>11, NextJobType, WorkerFields DEF LoseResult, TypeInv, TypeOK
  <2>12. ASSUME NEW w \in Workers, Crash(w)
         PROVE  TypeInv'
    <3>1. Held(w) \subseteq Deliveries
      BY WorkerFields DEF Held
    <3>2. workers' \in [Workers -> Worker] /\ WorkersOK'
      <4>1. Idle \in Worker /\ Idle.phase = "idle" /\ Idle.on = None
        BY DEF Idle, Worker
      <4>2. QED
        BY <2>12, <4>1, WorkerType DEF Crash
    <3>3. QED
      BY <2>0, <2>12, <3>1, <3>2 DEF Crash, TypeInv, TypeOK
  <2>13. CASE UNCHANGED vars
    BY <2>0, <2>13 DEF vars, TypeInv, TypeOK, WorkersOK
  <2>14. QED
    BY <2>1, <2>2, <2>3, <2>4, <2>5, <2>6, <2>7, <2>8, <2>9, <2>10, <2>11, <2>12, <2>13
       DEF Next, WorkerStep
<1>3. QED
  BY <1>1, <1>2, PTL DEF Spec

-----------------------------------------------------------------------------
(* One worker at a time.  The job a worker is on is no longer among those  *)
(* it has yet to post: without this, recording a result would not end its  *)
(* hold on the delivery.                                                   *)

OnNotQueued == \A w \in Workers : workers[w].on \notin workers[w].jobs

HeldInv == HeldByOne /\ OnNotQueued

\* What a change of one worker does to what the workers hold.
LEMMA HeldChange ==
    ASSUME TypeInv, NEW w \in Workers, NEW row, workers' = [workers EXCEPT ![w] = row]
    PROVE  /\ Held(w)' = row.jobs \cup ({row.on} \ {None})
           /\ \A v \in Workers : v # w => Held(v)' = Held(v)
BY DEF TypeInv, TypeOK, Held

\* A worker that is done with its job keeps the others.
LEMMA HeldNextJob ==
    ASSUME TypeInv, OnNotQueued, NEW w \in Workers, NextJob(w)
    PROVE  /\ Held(w)' = Held(w) \ {workers[w].on}
           /\ \A v \in Workers : v # w => Held(v)' = Held(v)
           /\ OnNotQueued'
<1> DEFINE row == [Idle EXCEPT !.jobs = workers[w].jobs]
<1>1. row.jobs = workers[w].jobs /\ row.on = None
  BY DEF Idle
<1>2. workers' = [workers EXCEPT ![w] = row]
  BY DEF NextJob
<1> HIDE DEF row
<1>3. Held(w)' = workers[w].jobs /\ \A v \in Workers : v # w => Held(v)' = Held(v)
  BY <1>1, <1>2, HeldChange
<1>4. None \notin workers[w].jobs
  BY WorkerFields, WebhookAssumption
<1>5. OnNotQueued'
  BY <1>1, <1>2, <1>4 DEF OnNotQueued, TypeInv, TypeOK
<1>6. Held(w) \ {workers[w].on} = workers[w].jobs
  BY <1>4 DEF Held, OnNotQueued
<1>7. QED
  BY <1>3, <1>5, <1>6

\* The status and the holders of a delivery unchanged: it stays held once.
LEMMA HeldOnceKept ==
    ASSUME NEW d \in Deliveries, HeldOnce(d), deliveries'[d].status = deliveries[d].status,
           \A w \in Workers : d \in Held(w)' <=> d \in Held(w)
    PROVE  HeldOnce(d)'
BY DEF HeldOnce

\* The worker that holds a delivery lets go of it.
LEMMA HeldOnceReleased ==
    ASSUME NEW d \in Deliveries, NEW w \in Workers, HeldOnce(d), d \in Held(w),
           \A v \in Workers : v # w => (d \in Held(v)' <=> d \in Held(v)),
           d \notin Held(w)'
    PROVE  HeldOnce(d)'
BY DEF HeldOnce

\* A result that is written takes the row out of processing.
LEMMA ResultWritten ==
    ASSUME TypeInv, NEW w \in Workers, CompleteWebhookJob(w) \/ FailWebhookJob(w)
    PROVE  deliveries'[workers[w].on].status # "processing"
<1> DEFINE e == workers[w].on
<1>1. e \in Deliveries /\ deliveries[e] \in Delivery
  BY WorkerFields DEF CompleteWebhookJob, FailWebhookJob, TypeInv, TypeOK
<1>2. CASE CompleteWebhookJob(w)
  BY <1>1, <1>2 DEF CompleteWebhookJob, TypeInv, TypeOK, Delivery
<1>3. CASE FailWebhookJob(w)
  <2>1. AfterFailure(workers[w].attempts) # "processing"
    BY DEF AfterFailure
  <2>2. deliveries'[e].status = AfterFailure(workers[w].attempts)
    BY <1>1, <1>3 DEF FailWebhookJob, TypeInv, TypeOK, Delivery
  <2>3. QED
    BY <2>1, <2>2
<1>4. QED
  BY <1>2, <1>3

\* However many workers claim, post, fail and crash, a delivery nobody retries
\* by hand has one holder at most, and is processing while it has.
THEOREM HeldInvariant == Spec => []HeldInv
<1>1. Init => HeldInv
  BY DEF Init, HeldInv, HeldByOne, HeldOnce, Held, OnNotQueued, Idle, NoDelivery
<1>2. TypeInv /\ HeldInv /\ [Next]_vars => HeldInv'
  <2> SUFFICES ASSUME TypeInv, HeldByOne, OnNotQueued, [Next]_vars
               PROVE  HeldByOne' /\ OnNotQueued'
    BY DEF HeldInv
  <2>1. CASE /\ UNCHANGED <<workers, retries, orphaned>>
             /\ \A d \in Deliveries : deliveries'[d].status = deliveries[d].status
    <3>1. \A w \in Workers : Held(w)' = Held(w)
      BY <2>1 DEF Held
    <3>2. QED
      BY <2>1, <3>1, HeldOnceKept DEF HeldByOne, OnNotQueued
  <2>2. ASSUME NEW event \in Events, enqueueOrderWebhook(event)
        PROVE  HeldByOne' /\ OnNotQueued'
    <3>1. UNCHANGED <<workers, retries, orphaned>> /\ \A w \in Workers : Held(w)' = Held(w)
      BY <2>2 DEF enqueueOrderWebhook, Held
    <3>2. ASSUME NEW d \in Deliveries, retries[d] = 0
          PROVE  HeldOnce(d)'
      <4>1. HeldOnce(d)
        BY <3>2 DEF HeldByOne
      <4>2. deliveries'[d] = deliveries[d] \/ (deliveries[d].status = "none" /\ deliveries'[d].status = "pending")
        <5>1. d = <<d[1], d[2]>> /\ d[2] \in Endpoints
          BY DEF Deliveries
        <5>2. QED
          BY <2>2, <5>1 DEF enqueueOrderWebhook
      <4>3. QED
        BY <3>1, <4>1, <4>2 DEF HeldOnce
    <3>3. QED
      BY <3>1, <3>2 DEF HeldByOne, OnNotQueued
  <2>3. ASSUME NEW e \in Deliveries, RetryWebhookJob(e)
        PROVE  HeldByOne' /\ OnNotQueued'
    <3>1. UNCHANGED <<workers, orphaned>> /\ \A w \in Workers : Held(w)' = Held(w)
      BY <2>3 DEF RetryWebhookJob, Held
    <3>2. ASSUME NEW d \in Deliveries, retries'[d] = 0
          PROVE  HeldOnce(d)'
      <4>1. d # e
        BY <2>3, <3>2 DEF RetryWebhookJob, TypeInv, TypeOK
      <4>2. retries[d] = 0 /\ deliveries'[d] = deliveries[d]
        BY <2>3, <3>2, <4>1 DEF RetryWebhookJob, TypeInv, TypeOK
      <4>3. QED
        BY <3>1, <4>2, HeldOnceKept DEF HeldByOne
    <3>3. QED
      BY <3>1, <3>2 DEF HeldByOne, OnNotQueued
  <2>4. ASSUME NEW w \in Workers, NEW batch \in SUBSET Deliveries, ClaimWebhookJobs(w, batch)
        PROVE  HeldByOne' /\ OnNotQueued'
    <3> DEFINE jobs == {d \in batch : endpoints[d[2]].state = "enabled"}
               row == [Idle EXCEPT !.jobs = jobs]
    <3>1. row.jobs = jobs /\ row.on = None
      BY DEF Idle
    <3>2. workers' = [workers EXCEPT ![w] = row]
      BY <2>4 DEF ClaimWebhookJobs
    <3> HIDE DEF row
    <3>3. Held(w)' = jobs /\ \A v \in Workers : v # w => Held(v)' = Held(v)
      BY <3>1, <3>2, HeldChange
    <3>4. Held(w) = {}
      BY <2>4 DEF ClaimWebhookJobs, Held, Idle
    <3>5. OnNotQueued'
      <4>1. None \notin jobs
        BY WebhookAssumption
      <4>2. QED
        BY <3>1, <3>2, <4>1 DEF OnNotQueued, TypeInv, TypeOK
    <3>6. ASSUME NEW d \in Deliveries, retries[d] = 0
          PROVE  HeldOnce(d)'
      <4>1. HeldOnce(d)
        BY <3>6 DEF HeldByOne
      <4>2. CASE d \notin batch
        <5>1. deliveries'[d] = deliveries[d] /\ orphaned' = orphaned
          BY <2>4, <4>2 DEF ClaimWebhookJobs
        <5>2. d \notin Held(w) /\ d \notin Held(w)'
          BY <3>3, <3>4, <4>2
        <5>3. QED
          BY <3>3, <4>1, <5>1, <5>2, HeldOnceKept
      <4>3. CASE d \in batch
        <5>1. deliveries[d].status # "processing"
          BY <2>4, <4>3 DEF ClaimWebhookJobs, Claimable
        <5>2. \A v \in Workers : d \notin Held(v)
          BY <4>1, <5>1 DEF HeldOnce
        <5>3. \A v \in Workers : d \in Held(v)' => v = w
          BY <3>3, <5>2
        <5>4. deliveries'[d] = Claimed(d)
          BY <2>4, <4>3 DEF ClaimWebhookJobs
        <5>5. deliveries[d] \in Delivery
          BY DEF TypeInv, TypeOK
        <5>6. CASE endpoints[d[2]].state = "enabled"
          <6>1. deliveries'[d].status = "processing"
            BY <5>4, <5>5, <5>6 DEF Claimed, Delivery
          <6>2. d \in Held(w)'
            BY <3>3, <4>3, <5>6
          <6>3. QED
            BY <5>3, <6>1, <6>2 DEF HeldOnce
        <5>7. CASE endpoints[d[2]].state # "enabled"
          <6>1. deliveries'[d].status = "failed"
            BY <5>4, <5>5, <5>7 DEF Claimed, Delivery
          <6>2. \A v \in Workers : d \notin Held(v)'
            BY <3>3, <5>3, <5>7
          <6>3. QED
            BY <6>1, <6>2 DEF HeldOnce
        <5>8. QED
          BY <5>6, <5>7
      <4>4. QED
        BY <4>2, <4>3
    <3>7. retries' = retries
      BY <2>4 DEF ClaimWebhookJobs
    <3>8. QED
      BY <3>5, <3>6, <3>7 DEF HeldByOne
  <2>5. ASSUME NEW w \in Workers, NEW e \in Deliveries, PostAccepted(w, e) \/ PostRefused(w, e)
        PROVE  HeldByOne' /\ OnNotQueued'
    <3>1. UNCHANGED <<deliveries, retries, orphaned>> /\ workers[w].on = None /\ e \in workers[w].jobs
      BY <2>5 DEF PostAccepted, PostRefused
    <3>2. PICK answer \in {"accepted", "refused"} : Sent(w, e, answer)
      BY <2>5 DEF PostAccepted, PostRefused
    <3> DEFINE row == [jobs |-> workers[w].jobs \ {e}, on |-> e, phase |-> answer, attempts |-> 0]
    <3>3. row.jobs = workers[w].jobs \ {e} /\ row.on = e
      OBVIOUS
    <3>4. workers' = [workers EXCEPT ![w] = row]
      BY <3>2 DEF Sent
    <3> HIDE DEF row
    <3>5. e # None
      BY WebhookAssumption
    <3>6. Held(w)' = Held(w) /\ \A v \in Workers : v # w => Held(v)' = Held(v)
      <4>1. Held(w)' = row.jobs \cup ({row.on} \ {None}) /\ \A v \in Workers : v # w => Held(v)' = Held(v)
        BY <3>4, HeldChange
      <4>2. Held(w) = workers[w].jobs
        BY <3>1 DEF Held
      <4>3. QED
        BY <3>1, <3>3, <3>5, <4>1, <4>2
    <3>7. OnNotQueued'
      BY <3>3, <3>4 DEF OnNotQueued, TypeInv, TypeOK
    <3>8. QED
      BY <3>1, <3>6, <3>7, HeldOnceKept DEF HeldByOne
  <2>6. ASSUME NEW w \in Workers, ReadFailedJob(w)
        PROVE  HeldByOne' /\ OnNotQueued'
    <3> DEFINE row == [workers[w] EXCEPT !.phase = "read", !.attempts = deliveries[workers[w].on].attempts]
    <3>1. row.jobs = workers[w].jobs /\ row.on = workers[w].on
      BY DEF TypeInv, TypeOK, Worker
    <3>2. workers' = [workers EXCEPT ![w] = row]
      BY <2>6 DEF ReadFailedJob
    <3> HIDE DEF row
    <3>3. Held(w)' = Held(w) /\ \A v \in Workers : v # w => Held(v)' = Held(v)
      BY <3>1, <3>2, HeldChange DEF Held
    <3>4. OnNotQueued'
      BY <3>1, <3>2 DEF OnNotQueued, TypeInv, TypeOK
    <3>5. UNCHANGED <<deliveries, retries, orphaned>>
      BY <2>6 DEF ReadFailedJob
    <3>6. QED
      BY <3>3, <3>4, <3>5, HeldOnceKept DEF HeldByOne
  <2>7. ASSUME NEW w \in Workers, CompleteWebhookJob(w) \/ FailWebhookJob(w) \/ LoseResult(w)
        PROVE  HeldByOne' /\ OnNotQueued'
    <3> DEFINE e == workers[w].on
    <3>1. NextJob(w) /\ retries' = retries /\ orphaned \subseteq orphaned'
      BY <2>7 DEF CompleteWebhookJob, FailWebhookJob, LoseResult
    <3>2. e \in Deliveries /\ e # None
      BY <2>7, WorkerFields, WebhookAssumption DEF CompleteWebhookJob, FailWebhookJob, LoseResult
    <3>3. Held(w)' = Held(w) \ {e} /\ (\A v \in Workers : v # w => Held(v)' = Held(v)) /\ OnNotQueued'
      BY <3>1, HeldNextJob
    <3>4. e \in Held(w)
      BY <3>2 DEF Held
    <3>5. \A d \in Deliveries : d # e => deliveries'[d] = deliveries[d]
      BY <2>7, <3>2 DEF CompleteWebhookJob, FailWebhookJob, LoseResult, TypeInv, TypeOK
    <3>7. ASSUME NEW d \in Deliveries, retries[d] = 0
          PROVE  HeldOnce(d)'
      <4>1. HeldOnce(d)
        BY <3>7 DEF HeldByOne
      <4>2. CASE d = e
        BY <3>3, <3>4, <4>1, <4>2, HeldOnceReleased
      <4>3. CASE d # e
        BY <3>1, <3>3, <3>5, <4>1, <4>3, HeldOnceKept
      <4>4. QED
        BY <4>2, <4>3
    <3>8. QED
      BY <3>1, <3>3, <3>7 DEF HeldByOne
  <2>8. ASSUME NEW w \in Workers, Crash(w)
        PROVE  HeldByOne' /\ OnNotQueued'
    <3>1. UNCHANGED <<deliveries, retries>> /\ orphaned' = orphaned \cup Held(w)
      BY <2>8 DEF Crash
    <3>2. workers' = [workers EXCEPT ![w] = Idle]
      BY <2>8 DEF Crash
    <3>3. Held(w)' = {} /\ \A v \in Workers : v # w => Held(v)' = Held(v)
      <4>1. Idle.jobs = {} /\ Idle.on = None
        BY DEF Idle
      <4>2. QED
        BY <3>2, <4>1, HeldChange
    <3>4. OnNotQueued'
      BY <3>2 DEF OnNotQueued, TypeInv, TypeOK, Idle
    <3>5. ASSUME NEW d \in Deliveries, retries[d] = 0
          PROVE  HeldOnce(d)'
      <4>1. HeldOnce(d)
        BY <3>5 DEF HeldByOne
      <4>2. CASE d \in Held(w)
        BY <3>1, <3>3, <4>1, <4>2, HeldOnceReleased
      <4>3. CASE d \notin Held(w)
        BY <3>1, <3>3, <4>1, <4>3, HeldOnceKept
      <4>4. QED
        BY <4>2, <4>3
    <3>6. QED
      BY <3>1, <3>4, <3>5 DEF HeldByOne
  <2>9. ASSUME NEW e \in Endpoints, NEW events \in SUBSET Events,
               CreateWebhookEndpoint(e, events) \/ DeleteWebhookEndpoint(e)
        PROVE  HeldByOne' /\ OnNotQueued'
    BY <2>1, <2>9 DEF CreateWebhookEndpoint, DeleteWebhookEndpoint
  <2>10. ASSUME NEW d \in Deliveries, PassRetryTime(d)
         PROVE  HeldByOne' /\ OnNotQueued'
    <3>1. \A e \in Deliveries : deliveries'[e].status = deliveries[e].status
      BY <2>10 DEF PassRetryTime, TypeInv, TypeOK, Delivery
    <3>2. QED
      BY <2>1, <2>10, <3>1 DEF PassRetryTime
  <2>11. CASE UNCHANGED vars
    BY <2>1, <2>11 DEF vars
  <2>12. QED
    BY <2>2, <2>3, <2>4, <2>5, <2>6, <2>7, <2>8, <2>9, <2>10, <2>11 DEF Next, WorkerStep
<1>3. QED
  BY <1>1, <1>2, TypeInvariant, PTL DEF Spec

\* Two workers never post the same delivery at the same time, nor overwrite each
\* other's result, unless somebody has retried it by hand.
THEOREM DeliveryHeldByOne == Spec => []HeldByOne
<1>1. HeldInv => HeldByOne
  BY DEF HeldInv
<1>2. QED
  BY <1>1, HeldInvariant, PTL
-----------------------------------------------------------------------------
(* Attempts.  A delivery can be claimed once when it is pending or         *)
(* retrying, and once more for each worker that may still make it so: one  *)
(* that has yet to see an attempts column below MaxAttempts, or has seen   *)
(* one.  From the MaxAttempts-th claim on, what is left of these is paid   *)
(* for by manual retries.                                                  *)

Armed(d) == IF deliveries[d].status \in {"pending", "retrying"} THEN 1 ELSE 0

MayRearm(w, d) ==
    \/ /\ deliveries[d].attempts < MaxAttempts
       /\ d \in workers[w].jobs \/ (workers[w].on = d /\ workers[w].phase = "refused")
    \/ workers[w].on = d /\ workers[w].phase = "read" /\ workers[w].attempts < MaxAttempts

Rearmers(d) == {w \in Workers : MayRearm(w, d)}

Posters(d) == {w \in Workers : d \in workers[w].jobs}

\* The claims from the MaxAttempts-th on.
LateClaims(d) == IF deliveries[d].attempts < MaxAttempts THEN 0 ELSE deliveries[d].attempts - MaxAttempts + 1

Counted(d) == IsFiniteSet(Rearmers(d)) /\ IsFiniteSet(Posters(d))

\* The claims that have used up a retry and those that still can are covered
\* by the first arming and the manual ones.
ClaimsCovered(d) == Armed(d) + Cardinality(Rearmers(d)) + LateClaims(d) <= 1 + retries[d]

\* Every claim is posted once at most.
PostsCovered(d) == accepted[d] + Cardinality(Posters(d)) <= deliveries[d].attempts

UntouchedYet(d) ==
    deliveries[d].status = "none" => deliveries[d].attempts = 0 /\ \A w \in Workers : d \notin Held(w)

Budget(d) == Counted(d) /\ ClaimsCovered(d) /\ PostsCovered(d) /\ UntouchedYet(d)

BudgetInv == \A d \in Deliveries : Budget(d)

\* What the sums are made of.
LEMMA BudgetTypes ==
    ASSUME TypeInv, NEW d \in Deliveries
    PROVE  /\ Armed(d) \in {0, 1}
           /\ LateClaims(d) \in Nat
           /\ retries[d] \in Nat /\ accepted[d] \in Nat
           /\ MaxAttempts \in Nat /\ MaxAttempts > 0
BY WebhookAssumption, DeliveryFields DEF Armed, LateClaims, TypeInv, TypeOK

\* A set of workers that gains no member does not grow.
LEMMA FewerWorkers ==
    ASSUME NEW S, NEW T, IsFiniteSet(S), T \subseteq S
    PROVE  IsFiniteSet(T) /\ Cardinality(T) \in Nat /\ Cardinality(S) \in Nat /\ Cardinality(T) <= Cardinality(S)
BY FS_Subset, FS_CardinalityType

\* One worker joins.
LEMMA OneWorkerMore ==
    ASSUME NEW S, NEW w, NEW T, IsFiniteSet(S), T \subseteq S \cup {w}
    PROVE  IsFiniteSet(T) /\ Cardinality(T) \in Nat /\ Cardinality(S) \in Nat /\ Cardinality(T) <= Cardinality(S) + 1
<1>1. IsFiniteSet(S \cup {w}) /\ Cardinality(S) \in Nat /\ Cardinality(S \cup {w}) <= Cardinality(S) + 1
  BY FS_AddElement, FS_CardinalityType
<1>2. T \in SUBSET (S \cup {w})
  OBVIOUS
<1>3. IsFiniteSet(T) /\ Cardinality(T) <= Cardinality(S \cup {w})
  BY <1>1, <1>2, FS_Subset
<1>4. Cardinality(T) \in Nat /\ Cardinality(S \cup {w}) \in Nat
  BY <1>1, <1>3, FS_CardinalityType
<1>5. QED
  BY <1>1, <1>3, <1>4

\* One worker leaves.
LEMMA OneWorkerLess ==
    ASSUME NEW S, NEW w \in S, NEW T, IsFiniteSet(S), T \subseteq S \ {w}
    PROVE  IsFiniteSet(T) /\ Cardinality(T) \in Nat /\ Cardinality(S) \in Nat /\ Cardinality(T) + 1 <= Cardinality(S)
<1>1. IsFiniteSet(S \ {w}) /\ Cardinality(S) \in Nat /\ Cardinality(S \ {w}) = Cardinality(S) - 1
  BY FS_RemoveElement, FS_CardinalityType
<1>2. T \in SUBSET (S \ {w})
  OBVIOUS
<1>3. IsFiniteSet(T) /\ Cardinality(T) <= Cardinality(S \ {w})
  BY <1>1, <1>2, FS_Subset
<1>4. Cardinality(T) \in Nat
  BY <1>3, FS_CardinalityType
<1>5. QED
  BY <1>1, <1>3, <1>4

\* A delivery whose claims are not touched keeps its budget, if no worker
\* gains it and none is armed without a manual retry.
LEMMA BudgetKept ==
    ASSUME TypeInv, NEW d \in Deliveries, Budget(d),
           retries'[d] \in Nat, accepted'[d] = accepted[d],
           deliveries'[d].attempts = deliveries[d].attempts,
           Rearmers(d)' \subseteq Rearmers(d), Posters(d)' \subseteq Posters(d),
           Armed(d)' - retries'[d] <= Armed(d) - retries[d], Armed(d)' \in {0, 1},
           deliveries'[d].status = "none" => deliveries[d].status = "none" /\ \A w \in Workers : d \notin Held(w)'
    PROVE  Budget(d)'
<1>1. LateClaims(d)' = LateClaims(d)
  BY DEF LateClaims
<1>2. /\ IsFiniteSet(Rearmers(d)') /\ Cardinality(Rearmers(d)') <= Cardinality(Rearmers(d))
      /\ Cardinality(Rearmers(d)') \in Nat /\ Cardinality(Rearmers(d)) \in Nat
  BY FewerWorkers DEF Budget, Counted
<1>3. /\ IsFiniteSet(Posters(d)') /\ Cardinality(Posters(d)') <= Cardinality(Posters(d))
      /\ Cardinality(Posters(d)') \in Nat /\ Cardinality(Posters(d)) \in Nat
  BY FewerWorkers DEF Budget, Counted
<1>4. Counted(d)'
  BY <1>2, <1>3 DEF Counted
<1>5. ClaimsCovered(d)'
  BY <1>1, <1>2, BudgetTypes DEF Budget, ClaimsCovered
<1>6. PostsCovered(d)'
  <2>1. deliveries[d].attempts \in Nat
    BY DeliveryFields
  <2>2. QED
    BY <1>3, <2>1, BudgetTypes DEF Budget, PostsCovered
<1>7. UntouchedYet(d)'
  BY DEF Budget, UntouchedYet
<1>8. QED
  BY <1>4, <1>5, <1>6, <1>7 DEF Budget

\* One worker changes: who may rearm a delivery and who has it yet to post
\* follows from what that worker may.
LEMMA OthersStay ==
    ASSUME NEW d \in Deliveries, NEW w \in Workers,
           deliveries'[d].attempts = deliveries[d].attempts,
           \A v \in Workers : v # w => workers'[v] = workers[v]
    PROVE  /\ \A v \in Workers : v # w => (MayRearm(v, d)' <=> MayRearm(v, d))
           /\ (MayRearm(w, d)' => MayRearm(w, d)) => Rearmers(d)' \subseteq Rearmers(d)
           /\ ~MayRearm(w, d)' => Rearmers(d)' \subseteq Rearmers(d) \ {w}
           /\ (d \in workers'[w].jobs => d \in workers[w].jobs) => Posters(d)' \subseteq Posters(d)
           /\ d \notin workers'[w].jobs => Posters(d)' \subseteq Posters(d) \ {w}
           /\ \A v \in Workers : v # w => Held(v)' = Held(v)
BY DEF MayRearm, Rearmers, Posters, Held

\* A new row armed for the first time.
LEMMA FirstArming ==
    ASSUME TypeInv, NEW d \in Deliveries, Budget(d), UNCHANGED <<workers, accepted, retries>>,
           deliveries[d].status = "none", deliveries'[d] = [status |-> "pending", attempts |-> 0, due |-> TRUE]
    PROVE  Budget(d)'
<1>1. deliveries[d].attempts = 0 /\ \A w \in Workers : d \notin workers[w].jobs /\ workers[w].on # d
  <2>1. d # None
    BY WebhookAssumption
  <2>2. QED
    BY <2>1 DEF Budget, UntouchedYet, Held
<1>2. Posters(d) = {} /\ Posters(d)' = {} /\ Rearmers(d)' = {}
  BY <1>1 DEF Posters, Rearmers, MayRearm
<1>3. LateClaims(d)' = 0 /\ Armed(d)' = 1
  BY WebhookAssumption DEF LateClaims, Armed
<1>4. Cardinality({}) = 0 /\ IsFiniteSet({})
  BY FS_EmptySet
<1>5. accepted[d] <= 0
  BY <1>1, <1>2, <1>4, BudgetTypes DEF Budget, PostsCovered
<1>6. QED
  BY <1>2, <1>3, <1>4, <1>5, BudgetTypes DEF Budget, Counted, ClaimsCovered, PostsCovered, UntouchedYet

\* A claim takes the arming it needs, and gives its worker the chance of
\* another one only before the MaxAttempts-th claim.
LEMMA ClaimCovered ==
    ASSUME TypeInv, NEW d \in Deliveries, Budget(d), NEW w \in Workers,
           UNCHANGED <<accepted, retries>>,
           Armed(d) = 1, deliveries'[d].status = "processing",
           deliveries'[d].attempts = deliveries[d].attempts + 1,
           \A v \in Workers : v # w => workers'[v] = workers[v],
           workers'[w].phase = "idle"
    PROVE  Budget(d)'
<1>1. deliveries[d].attempts \in Nat
  BY DeliveryFields
<1>2. Armed(d)' = 0
  BY DEF Armed
<1>3. Posters(d)' \subseteq Posters(d) \cup {w}
  BY DEF Posters
<1>4. /\ IsFiniteSet(Posters(d)') /\ Cardinality(Posters(d)') <= Cardinality(Posters(d)) + 1
      /\ Cardinality(Posters(d)') \in Nat /\ Cardinality(Posters(d)) \in Nat
  BY <1>3, OneWorkerMore DEF Budget, Counted
<1>5. PostsCovered(d)'
  BY <1>1, <1>4, BudgetTypes DEF Budget, PostsCovered
<1>6. IsFiniteSet(Rearmers(d)') /\ ClaimsCovered(d)'
  <2>1. CASE deliveries[d].attempts + 1 < MaxAttempts
    <3>1. LateClaims(d) = 0 /\ LateClaims(d)' = 0
      BY <1>1, <2>1, BudgetTypes DEF LateClaims
    <3>2. Rearmers(d)' \subseteq Rearmers(d) \cup {w}
      BY <1>1, <2>1, BudgetTypes DEF Rearmers, MayRearm
    <3>3. /\ IsFiniteSet(Rearmers(d)') /\ Cardinality(Rearmers(d)') <= Cardinality(Rearmers(d)) + 1
          /\ Cardinality(Rearmers(d)') \in Nat /\ Cardinality(Rearmers(d)) \in Nat
      BY <3>2, OneWorkerMore DEF Budget, Counted
    <3>4. QED
      BY <1>2, <3>1, <3>3, BudgetTypes DEF Budget, ClaimsCovered
  <2>2. CASE ~(deliveries[d].attempts + 1 < MaxAttempts)
    <3>1. LateClaims(d)' = LateClaims(d) + 1
      BY <1>1, <2>2, BudgetTypes DEF LateClaims
    <3>2. Rearmers(d)' \subseteq Rearmers(d)
      BY <1>1, <2>2, BudgetTypes DEF Rearmers, MayRearm
    <3>3. /\ IsFiniteSet(Rearmers(d)') /\ Cardinality(Rearmers(d)') <= Cardinality(Rearmers(d))
          /\ Cardinality(Rearmers(d)') \in Nat /\ Cardinality(Rearmers(d)) \in Nat
      BY <3>2, FewerWorkers DEF Budget, Counted
    <3>4. QED
      BY <1>2, <3>1, <3>3, BudgetTypes DEF Budget, ClaimsCovered
  <2>3. QED
    BY <2>1, <2>2
<1>7. QED
  BY <1>4, <1>5, <1>6 DEF Budget, Counted, UntouchedYet

\* A post uses up its place among the posters, whether or not the endpoint
\* has taken it.
LEMMA PostCovered ==
    ASSUME TypeInv, NEW d \in Deliveries, Budget(d), NEW w \in Workers,
           UNCHANGED <<deliveries, retries>>,
           accepted'[d] \in {accepted[d], accepted[d] + 1},
           \A v \in Workers : v # w => workers'[v] = workers[v],
           d \in workers[w].jobs, d \notin workers'[w].jobs, workers'[w].phase # "read"
    PROVE  Budget(d)'
<1>1. deliveries[d].attempts \in Nat
  BY DeliveryFields
<1>2. Posters(d)' \subseteq Posters(d) \ {w} /\ w \in Posters(d)
  BY OthersStay DEF Posters
<1>3. /\ IsFiniteSet(Posters(d)') /\ Cardinality(Posters(d)') + 1 <= Cardinality(Posters(d))
      /\ Cardinality(Posters(d)') \in Nat /\ Cardinality(Posters(d)) \in Nat
  BY <1>2, OneWorkerLess DEF Budget, Counted
<1>4. PostsCovered(d)'
  BY <1>1, <1>3, BudgetTypes DEF Budget, PostsCovered
<1>5. MayRearm(w, d)' => MayRearm(w, d)
  BY DEF MayRearm
<1>6. Rearmers(d)' \subseteq Rearmers(d)
  BY <1>5, OthersStay
<1>7. /\ IsFiniteSet(Rearmers(d)') /\ Cardinality(Rearmers(d)') <= Cardinality(Rearmers(d))
      /\ Cardinality(Rearmers(d)') \in Nat /\ Cardinality(Rearmers(d)) \in Nat
  BY <1>6, FewerWorkers DEF Budget, Counted
<1>8. ClaimsCovered(d)'
  BY <1>7, BudgetTypes DEF Budget, ClaimsCovered, Armed, LateClaims
<1>9. UntouchedYet(d)'
  <2>1. d # None
    BY WebhookAssumption
  <2>2. deliveries[d].status # "none"
    BY DEF Budget, UntouchedYet, Held
  <2>3. QED
    BY <2>2 DEF UntouchedYet
<1>10. QED
  BY <1>3, <1>4, <1>7, <1>8, <1>9 DEF Budget, Counted

\* A worker that ends its job without writing keeps every budget.
LEMMA SilentEnd ==
    ASSUME TypeInv, BudgetInv, NEW w \in Workers, UNCHANGED <<deliveries, accepted, retries>>,
           \A v \in Workers : v # w => workers'[v] = workers[v],
           workers'[w].jobs \subseteq workers[w].jobs, workers'[w].on = None
    PROVE  BudgetInv'
<1> SUFFICES ASSUME NEW d \in Deliveries
             PROVE  Budget(d)'
  BY DEF BudgetInv
<1>1. Budget(d) /\ d # None
  BY WebhookAssumption DEF BudgetInv
<1>2. MayRearm(w, d)' => MayRearm(w, d)
  BY <1>1 DEF MayRearm
<1>3. /\ Rearmers(d)' \subseteq Rearmers(d) /\ Posters(d)' \subseteq Posters(d)
      /\ \A v \in Workers : v # w => Held(v)' = Held(v)
  BY <1>2, OthersStay
<1>4. d \in Held(w)' => d \in Held(w)
  BY <1>1 DEF Held
<1>5. Armed(d)' = Armed(d)
  BY DEF Armed
<1>6. QED
  BY <1>1, <1>3, <1>4, <1>5, BudgetKept, BudgetTypes DEF Budget, UntouchedYet

\* A worker that writes its result: only a failure it has seen in time arms
\* the delivery again, and then the worker no longer may.
LEMMA ResultCovered ==
    ASSUME TypeInv, OnNotQueued, BudgetInv, NEW w \in Workers, CompleteWebhookJob(w) \/ FailWebhookJob(w)
    PROVE  BudgetInv'
<1> DEFINE e == workers[w].on
<1>1. e \in Deliveries /\ e # None /\ e \notin workers[w].jobs /\ NextJob(w) /\ UNCHANGED <<accepted, retries>>
  BY WorkerFields, WebhookAssumption DEF CompleteWebhookJob, FailWebhookJob, OnNotQueued
<1>2. workers'[w] = [Idle EXCEPT !.jobs = workers[w].jobs] /\ \A v \in Workers : v # w => workers'[v] = workers[v]
  BY <1>1 DEF NextJob, TypeInv, TypeOK
<1>3. workers'[w].jobs = workers[w].jobs /\ workers'[w].on = None
  BY <1>2 DEF Idle
<1>4. \A d \in Deliveries : d # e => deliveries'[d] = deliveries[d]
  BY <1>1 DEF CompleteWebhookJob, FailWebhookJob, TypeInv, TypeOK
<1>5. /\ deliveries'[e].attempts = deliveries[e].attempts
      /\ \/ deliveries'[e].status \in {"delivered", "failed"}
         \/ /\ deliveries'[e].status = "retrying"
            /\ workers[w].phase = "read" /\ workers[w].attempts < MaxAttempts
  <2>0. deliveries[e] \in Delivery
    BY <1>1 DEF TypeInv, TypeOK
  <2>1. CASE CompleteWebhookJob(w)
    BY <1>1, <2>0, <2>1 DEF CompleteWebhookJob, TypeInv, TypeOK, Delivery
  <2>2. CASE FailWebhookJob(w)
    <3>1. deliveries'[e] = [deliveries[e] EXCEPT !.status = AfterFailure(workers[w].attempts), !.due = FALSE]
      BY <1>1, <2>2 DEF FailWebhookJob, TypeInv, TypeOK
    <3>2. deliveries'[e].attempts = deliveries[e].attempts /\ deliveries'[e].status = AfterFailure(workers[w].attempts)
      BY <2>0, <3>1 DEF Delivery
    <3>3. workers[w].attempts \in Nat /\ MaxAttempts \in Nat
      BY WorkerFields, WebhookAssumption
    <3>4. QED
      BY <2>2, <3>2, <3>3 DEF AfterFailure, FailWebhookJob
  <2>3. QED
    BY <2>1, <2>2
<1> SUFFICES ASSUME NEW d \in Deliveries
             PROVE  Budget(d)'
  BY DEF BudgetInv
<1>6. Budget(d) /\ d # None
  BY WebhookAssumption DEF BudgetInv
<1>7. deliveries'[d].attempts = deliveries[d].attempts
  BY <1>4, <1>5
<1>8. MayRearm(w, d)' => MayRearm(w, d)
  BY <1>3, <1>6, <1>7 DEF MayRearm
<1>9. /\ Rearmers(d)' \subseteq Rearmers(d) /\ Posters(d)' \subseteq Posters(d)
      /\ \A v \in Workers : v # w => Held(v)' = Held(v)
  BY <1>2, <1>3, <1>7, <1>8, OthersStay
<1>10. d \in Held(w)' => d \in Held(w)
  BY <1>3, <1>6 DEF Held
<1>11. CASE d # e
  <2>1. Armed(d)' = Armed(d)
    BY <1>4, <1>11 DEF Armed
  <2>2. QED
    BY <1>1, <1>4, <1>6, <1>9, <1>10, <1>11, <2>1, BudgetKept, BudgetTypes DEF Budget, UntouchedYet
<1>12. CASE d = e /\ deliveries'[e].status # "retrying"
  <2>1. Armed(d)' = 0 /\ deliveries'[d].status # "none"
    BY <1>5, <1>12 DEF Armed
  <2>2. QED
    BY <1>1, <1>6, <1>7, <1>9, <2>1, BudgetKept, BudgetTypes
<1>13. CASE d = e /\ deliveries'[e].status = "retrying"
  <2>1. w \in Rearmers(d) /\ ~MayRearm(w, d)'
    BY <1>1, <1>3, <1>5, <1>6, <1>13 DEF Rearmers, MayRearm
  <2>2. Rearmers(d)' \subseteq Rearmers(d) \ {w}
    BY <1>2, <1>7, <2>1, OthersStay
  <2>3. /\ IsFiniteSet(Rearmers(d)') /\ Cardinality(Rearmers(d)') + 1 <= Cardinality(Rearmers(d))
        /\ Cardinality(Rearmers(d)') \in Nat /\ Cardinality(Rearmers(d)) \in Nat
    BY <1>6, <2>1, <2>2, OneWorkerLess DEF Budget, Counted
  <2>4. LateClaims(d)' = LateClaims(d) /\ Armed(d)' = 1
    BY <1>7, <1>13 DEF LateClaims, Armed
  <2>5. ClaimsCovered(d)'
    BY <1>1, <1>6, <2>3, <2>4, BudgetTypes DEF Budget, ClaimsCovered
  <2>6. IsFiniteSet(Posters(d)') /\ PostsCovered(d)'
    <3>1. /\ IsFiniteSet(Posters(d)') /\ Cardinality(Posters(d)') <= Cardinality(Posters(d))
          /\ Cardinality(Posters(d)') \in Nat /\ Cardinality(Posters(d)) \in Nat
      BY <1>6, <1>9, FewerWorkers DEF Budget, Counted
    <3>2. deliveries[d].attempts \in Nat
      BY DeliveryFields
    <3>3. QED
      BY <1>1, <1>6, <1>7, <3>1, <3>2, BudgetTypes DEF Budget, PostsCovered
  <2>7. UntouchedYet(d)'
    BY <1>13 DEF UntouchedYet
  <2>8. QED
    BY <2>3, <2>5, <2>6, <2>7 DEF Budget, Counted
<1>14. QED
  BY <1>11, <1>12, <1>13

\* Deliveries whose row, workers and counters do not change in what the budget
\* is made of keep it.
LEMMA BudgetSame ==
    ASSUME TypeInv, NEW d \in Deliveries, Budget(d), UNCHANGED <<workers, accepted>>,
           deliveries'[d].attempts = deliveries[d].attempts,
           \/ deliveries'[d].status = deliveries[d].status /\ retries'[d] = retries[d]
           \/ deliveries'[d].status = "retrying" /\ retries'[d] = retries[d] + 1
    PROVE  Budget(d)'
<1>1. Rearmers(d)' = Rearmers(d) /\ Posters(d)' = Posters(d) /\ \A w \in Workers : Held(w)' = Held(w)
  BY DEF Rearmers, MayRearm, Posters, Held
<1>2. Armed(d)' - retries'[d] <= Armed(d) - retries[d] /\ Armed(d)' \in {0, 1} /\ retries'[d] \in Nat
  BY BudgetTypes DEF Armed
<1>3. QED
  BY <1>1, <1>2, BudgetKept DEF Budget, UntouchedYet

\* Every operation keeps every delivery's budget.
LEMMA BudgetStep == ASSUME TypeInv, HeldInv, BudgetInv, [Next]_vars PROVE BudgetInv'
<1>1. CASE /\ UNCHANGED <<workers, accepted, retries>>
           /\ \A d \in Deliveries : /\ deliveries'[d].status = deliveries[d].status
                                    /\ deliveries'[d].attempts = deliveries[d].attempts
  BY <1>1, BudgetSame DEF BudgetInv
<1>2. ASSUME NEW e \in Endpoints, NEW events \in SUBSET Events,
             CreateWebhookEndpoint(e, events) \/ DeleteWebhookEndpoint(e)
      PROVE  BudgetInv'
  BY <1>1, <1>2 DEF CreateWebhookEndpoint, DeleteWebhookEndpoint
<1>3. ASSUME NEW event \in Events, enqueueOrderWebhook(event)
      PROVE  BudgetInv'
  <2> SUFFICES ASSUME NEW d \in Deliveries
               PROVE  Budget(d)'
    BY DEF BudgetInv
  <2>1. UNCHANGED <<workers, accepted, retries>> /\ Budget(d)
    BY <1>3 DEF enqueueOrderWebhook, BudgetInv
  <2>2. \/ deliveries'[d] = deliveries[d]
        \/ /\ deliveries[d].status = "none"
           /\ deliveries'[d] = [status |-> "pending", attempts |-> 0, due |-> TRUE]
    <3>1. d = <<d[1], d[2]>> /\ d[2] \in Endpoints
      BY DEF Deliveries
    <3>2. QED
      BY <1>3, <3>1 DEF enqueueOrderWebhook
  <2>3. QED
    BY <2>1, <2>2, BudgetSame, FirstArming
<1>4. ASSUME NEW e \in Deliveries, PassRetryTime(e)
      PROVE  BudgetInv'
  <2>1. \A d \in Deliveries : /\ deliveries'[d].status = deliveries[d].status
                              /\ deliveries'[d].attempts = deliveries[d].attempts
    BY <1>4 DEF PassRetryTime, TypeInv, TypeOK, Delivery
  <2>2. QED
    BY <1>1, <1>4, <2>1 DEF PassRetryTime
<1>5. ASSUME NEW e \in Deliveries, RetryWebhookJob(e)
      PROVE  BudgetInv'
  <2> SUFFICES ASSUME NEW d \in Deliveries
               PROVE  Budget(d)'
    BY DEF BudgetInv
  <2>1. UNCHANGED <<workers, accepted>> /\ Budget(d)
    BY <1>5 DEF RetryWebhookJob, BudgetInv
  <2>2. CASE d = e
    <3>1. deliveries'[d] = [deliveries[d] EXCEPT !.status = "retrying", !.due = TRUE] /\ retries'[d] = retries[d] + 1
      BY <1>5, <2>2 DEF RetryWebhookJob, TypeInv, TypeOK
    <3>2. deliveries'[d].status = "retrying" /\ deliveries'[d].attempts = deliveries[d].attempts
      BY <3>1 DEF TypeInv, TypeOK, Delivery
    <3>3. QED
      BY <2>1, <3>1, <3>2, BudgetSame
  <2>3. CASE d # e
    <3>1. deliveries'[d] = deliveries[d] /\ retries'[d] = retries[d]
      BY <1>5, <2>3 DEF RetryWebhookJob, TypeInv, TypeOK
    <3>2. QED
      BY <2>1, <3>1, BudgetSame
  <2>4. QED
    BY <2>2, <2>3
<1>6. ASSUME NEW w \in Workers, NEW batch \in SUBSET Deliveries, ClaimWebhookJobs(w, batch)
      PROVE  BudgetInv'
  <2> DEFINE jobs == {d \in batch : endpoints[d[2]].state = "enabled"}
             row == [Idle EXCEPT !.jobs = jobs]
  <2>1. row.jobs = jobs /\ row.on = None /\ row.phase = "idle"
    BY DEF Idle
  <2>2. workers' = [workers EXCEPT ![w] = row] /\ UNCHANGED <<accepted, retries>>
    BY <1>6 DEF ClaimWebhookJobs
  <2> HIDE DEF row
  <2>3. workers'[w] = row /\ \A v \in Workers : v # w => workers'[v] = workers[v]
    BY <2>2 DEF TypeInv, TypeOK
  <2> SUFFICES ASSUME NEW d \in Deliveries
               PROVE  Budget(d)'
    BY DEF BudgetInv
  <2>4. Budget(d) /\ d # None /\ deliveries[d] \in Delivery
    BY WebhookAssumption DEF BudgetInv, TypeInv, TypeOK
  <2>5. CASE d \in batch /\ endpoints[d[2]].state = "enabled"
    <3>1. Armed(d) = 1
      BY <1>6, <2>5 DEF ClaimWebhookJobs, Claimable, Armed
    <3>2. deliveries'[d] = [deliveries[d] EXCEPT !.status = "processing", !.attempts = deliveries[d].attempts + 1]
      BY <1>6, <2>5 DEF ClaimWebhookJobs, Claimed
    <3>3. deliveries'[d].status = "processing" /\ deliveries'[d].attempts = deliveries[d].attempts + 1
      BY <2>4, <3>2 DEF Delivery
    <3>4. workers'[w].phase = "idle"
      BY <2>1, <2>3
    <3>5. QED
      BY <2>2, <2>3, <2>4, <3>1, <3>3, <3>4, ClaimCovered
  <2>6. CASE ~(d \in batch /\ endpoints[d[2]].state = "enabled")
    <3>1. d \notin workers'[w].jobs /\ workers'[w].on # d
      BY <2>1, <2>3, <2>4, <2>6
    <3>2. /\ deliveries'[d].attempts = deliveries[d].attempts
          /\ deliveries'[d].status = "failed" \/ deliveries'[d] = deliveries[d]
      <4>1. CASE d \in batch
        <5>1. deliveries'[d] = [deliveries[d] EXCEPT !.status = "failed"]
          BY <1>6, <2>6, <4>1 DEF ClaimWebhookJobs, Claimed
        <5>2. QED
          BY <2>4, <5>1 DEF Delivery
      <4>2. CASE d \notin batch
        BY <1>6, <4>2 DEF ClaimWebhookJobs
      <4>3. QED
        BY <4>1, <4>2
    <3>3. ~MayRearm(w, d)' /\ d \notin Held(w)'
      BY <3>1, <2>4 DEF MayRearm, Held
    <3>4. /\ Rearmers(d)' \subseteq Rearmers(d) /\ Posters(d)' \subseteq Posters(d)
          /\ \A v \in Workers : v # w => Held(v)' = Held(v)
      BY <2>3, <3>1, <3>2, <3>3, OthersStay
    <3>5. Armed(d)' \in {0, 1} /\ Armed(d)' <= Armed(d)
      BY <3>2 DEF Armed
    <3>6. QED
      BY <2>2, <2>4, <3>2, <3>3, <3>4, <3>5, BudgetKept, BudgetTypes DEF Budget, UntouchedYet
  <2>7. QED
    BY <2>5, <2>6
<1>7. ASSUME NEW w \in Workers, NEW e \in Deliveries, PostAccepted(w, e) \/ PostRefused(w, e)
      PROVE  BudgetInv'
  <2>1. UNCHANGED <<deliveries, retries>> /\ workers[w].on = None /\ e \in workers[w].jobs
    BY <1>7 DEF PostAccepted, PostRefused
  <2>2. PICK answer \in {"accepted", "refused"} : Sent(w, e, answer)
    BY <1>7 DEF PostAccepted, PostRefused
  <2> DEFINE row == [jobs |-> workers[w].jobs \ {e}, on |-> e, phase |-> answer, attempts |-> 0]
  <2>3. workers'[w] = row /\ \A v \in Workers : v # w => workers'[v] = workers[v]
    BY <2>2 DEF Sent, TypeInv, TypeOK
  <2>4. row.jobs = workers[w].jobs \ {e} /\ row.on = e /\ row.phase # "read"
    OBVIOUS
  <2> HIDE DEF row
  <2> SUFFICES ASSUME NEW d \in Deliveries
               PROVE  Budget(d)'
    BY DEF BudgetInv
  <2>5. Budget(d) /\ d # None
    BY WebhookAssumption DEF BudgetInv
  <2>6. CASE d = e
    <3>1. accepted'[d] \in {accepted[d], accepted[d] + 1}
      BY <1>7, <2>6 DEF PostAccepted, PostRefused, TypeInv, TypeOK
    <3>2. QED
      BY <2>1, <2>3, <2>4, <2>5, <2>6, <3>1, PostCovered
  <2>7. CASE d # e
    <3>1. accepted'[d] = accepted[d]
      BY <1>7, <2>7 DEF PostAccepted, PostRefused, TypeInv, TypeOK
    <3>2. MayRearm(w, d)' => MayRearm(w, d)
      BY <2>1, <2>3, <2>4, <2>7 DEF MayRearm
    <3>3. d \in workers'[w].jobs => d \in workers[w].jobs
      BY <2>3, <2>4
    <3>4. /\ Rearmers(d)' \subseteq Rearmers(d) /\ Posters(d)' \subseteq Posters(d)
          /\ \A v \in Workers : v # w => Held(v)' = Held(v)
      BY <2>1, <2>3, <3>2, <3>3, OthersStay
    <3>5. d \in Held(w)' => d \in Held(w)
      BY <2>3, <2>4, <2>7, <3>3 DEF Held
    <3>6. Armed(d)' = Armed(d)
      BY <2>1 DEF Armed
    <3>7. QED
      BY <2>1, <2>5, <3>1, <3>4, <3>5, <3>6, BudgetKept, BudgetTypes DEF Budget, UntouchedYet
  <2>8. QED
    BY <2>6, <2>7
<1>8. ASSUME NEW w \in Workers, ReadFailedJob(w)
      PROVE  BudgetInv'
  <2> DEFINE e == workers[w].on
             row == [workers[w] EXCEPT !.phase = "read", !.attempts = deliveries[e].attempts]
  <2>1. UNCHANGED <<deliveries, accepted, retries>> /\ workers[w].phase = "refused"
    BY <1>8 DEF ReadFailedJob
  <2>2. workers'[w] = row /\ \A v \in Workers : v # w => workers'[v] = workers[v]
    BY <1>8 DEF ReadFailedJob, TypeInv, TypeOK
  <2>3. /\ row.jobs = workers[w].jobs /\ row.on = workers[w].on
        /\ row.phase = "read" /\ row.attempts = deliveries[workers[w].on].attempts
    BY DEF TypeInv, TypeOK, Worker
  <2> HIDE DEF row
  <2> SUFFICES ASSUME NEW d \in Deliveries
               PROVE  Budget(d)'
    BY DEF BudgetInv
  <2>4. Budget(d)
    BY DEF BudgetInv
  <2>5. MayRearm(w, d)' => MayRearm(w, d)
    BY <2>1, <2>2, <2>3 DEF MayRearm
  <2>6. /\ Rearmers(d)' \subseteq Rearmers(d) /\ Posters(d)' \subseteq Posters(d)
        /\ \A v \in Workers : v # w => Held(v)' = Held(v)
    BY <2>1, <2>2, <2>3, <2>5, OthersStay
  <2>7. Held(w)' = Held(w) /\ Armed(d)' = Armed(d)
    BY <2>1, <2>2, <2>3 DEF Held, Armed
  <2>8. QED
    BY <2>1, <2>4, <2>6, <2>7, BudgetKept, BudgetTypes DEF Budget, UntouchedYet
<1>9. ASSUME NEW w \in Workers, CompleteWebhookJob(w) \/ FailWebhookJob(w)
      PROVE  BudgetInv'
  BY <1>9, ResultCovered DEF HeldInv
<1>10. ASSUME NEW w \in Workers, LoseResult(w) \/ Crash(w)
       PROVE  BudgetInv'
  <2>1. UNCHANGED <<deliveries, accepted, retries>> /\ workers'[w].jobs \subseteq workers[w].jobs /\ workers'[w].on = None
    BY <1>10 DEF LoseResult, Crash, NextJob, Idle, TypeInv, TypeOK
  <2>2. \A v \in Workers : v # w => workers'[v] = workers[v]
    BY <1>10 DEF LoseResult, Crash, NextJob, TypeInv, TypeOK
  <2>3. QED
    BY <2>1, <2>2, SilentEnd
<1>11. CASE UNCHANGED vars
  BY <1>1, <1>11 DEF vars
<1>12. QED
  BY <1>2, <1>3, <1>4, <1>5, <1>6, <1>7, <1>8, <1>9, <1>10, <1>11 DEF Next, WorkerStep

\* The counting of claims is an invariant.
THEOREM BudgetInvariant == Spec => []BudgetInv
<1>1. Init => BudgetInv
  <2> SUFFICES ASSUME Init, NEW d \in Deliveries
               PROVE  Budget(d)
    BY DEF BudgetInv
  <2>1. d # None /\ \A w \in Workers : workers[w] = Idle
    BY WebhookAssumption DEF Init
  <2>2. Idle.jobs = {} /\ Idle.on = None
    BY DEF Idle
  <2>3. Rearmers(d) = {} /\ Posters(d) = {} /\ \A w \in Workers : d \notin Held(w)
    BY <2>1, <2>2 DEF Rearmers, MayRearm, Posters, Held
  <2>4. /\ deliveries[d].status = "none" /\ deliveries[d].attempts = 0
        /\ accepted[d] = 0 /\ retries[d] = 0
    BY DEF Init, NoDelivery
  <2>5. Armed(d) = 0 /\ LateClaims(d) = 0
    BY <2>4, WebhookAssumption DEF Armed, LateClaims
  <2>6. QED
    BY <2>3, <2>4, <2>5, FS_EmptySet DEF Budget, Counted, ClaimsCovered, PostsCovered, UntouchedYet
<1>2. QED
  BY <1>1, BudgetStep, TypeInvariant, HeldInvariant, PTL DEF Spec

\* An endpoint is tried at most MaxAttempts times, and once more for each
\* manual retry, however the workers, their late failures and the retries
\* interleave.
THEOREM AttemptsBounded == Spec => []AttemptsBudget
<1>1. ASSUME TypeInv, BudgetInv
      PROVE  AttemptsBudget
  <2> SUFFICES ASSUME NEW d \in Deliveries
               PROVE  deliveries[d].attempts <= MaxAttempts + retries[d] /\ accepted[d] <= deliveries[d].attempts
    BY DEF AttemptsBudget
  <2>1. Budget(d)
    BY <1>1 DEF BudgetInv
  <2>2. Cardinality(Rearmers(d)) \in Nat /\ Cardinality(Posters(d)) \in Nat
    BY <2>1, FS_CardinalityType DEF Budget, Counted
  <2>3. deliveries[d].attempts \in Nat
    BY <1>1, DeliveryFields
  <2>4. accepted[d] <= deliveries[d].attempts
    BY <1>1, <2>1, <2>2, <2>3, BudgetTypes DEF Budget, PostsCovered
  <2>5. LateClaims(d) <= 1 + retries[d]
    BY <1>1, <2>1, <2>2, BudgetTypes DEF Budget, ClaimsCovered
  <2>6. deliveries[d].attempts <= MaxAttempts + retries[d]
    BY <1>1, <2>3, <2>5, BudgetTypes DEF LateClaims
  <2>7. QED
    BY <2>4, <2>6
<1>2. QED
  BY <1>1, BudgetInvariant, TypeInvariant, PTL

-----------------------------------------------------------------------------
(* Nothing is stranded.                                                    *)

\* A row in processing has a worker that will record a result, or its loss is
\* known, whatever manual retries have done meanwhile.
THEOREM NothingStranded == Spec => []NoneStranded
<1>1. Init => NoneStranded
  BY DEF Init, NoDelivery, NoneStranded
<1>2. ASSUME TypeInv, HeldInv, NoneStranded, [Next]_vars
      PROVE  NoneStranded'
  <2>0. OnNotQueued
    BY <1>2 DEF HeldInv
  <2>1. ASSUME orphaned' = orphaned, workers' = workers,
               \A d \in Deliveries : deliveries'[d].status = "processing" => deliveries[d].status = "processing"
        PROVE  NoneStranded'
    BY <1>2, <2>1 DEF NoneStranded, Held
  <2>2. ASSUME NEW e \in Endpoints, NEW events \in SUBSET Events,
               CreateWebhookEndpoint(e, events) \/ DeleteWebhookEndpoint(e)
        PROVE  NoneStranded'
    BY <2>1, <2>2 DEF CreateWebhookEndpoint, DeleteWebhookEndpoint
  <2>3. ASSUME NEW event \in Events, enqueueOrderWebhook(event)
        PROVE  NoneStranded'
    <3>1. \A d \in Deliveries : deliveries'[d].status = "processing" => deliveries[d].status = "processing"
      BY <2>3 DEF enqueueOrderWebhook
    <3>2. QED
      BY <2>1, <2>3, <3>1 DEF enqueueOrderWebhook
  <2>4. ASSUME NEW e \in Deliveries, PassRetryTime(e) \/ RetryWebhookJob(e)
        PROVE  NoneStranded'
    <3>1. PICK row : deliveries' = [deliveries EXCEPT ![e] = row] /\ row.status = "retrying"
      <4>1. deliveries[e] \in Delivery
        BY <1>2 DEF TypeInv, TypeOK
      <4>2. CASE PassRetryTime(e)
        <5>1. [deliveries[e] EXCEPT !.due = TRUE].status = "retrying"
          BY <4>1, <4>2 DEF PassRetryTime, Delivery
        <5>2. QED
          BY <4>2, <5>1 DEF PassRetryTime
      <4>3. CASE RetryWebhookJob(e)
        <5> DEFINE fresh == [deliveries[e] EXCEPT !.status = "retrying", !.due = TRUE]
        <5>1. fresh.status = "retrying"
          BY <4>1 DEF Delivery
        <5>2. deliveries' = [deliveries EXCEPT ![e] = fresh]
          BY <4>3 DEF RetryWebhookJob
        <5>3. QED
          BY <5>1, <5>2
      <4>4. QED
        BY <2>4, <4>2, <4>3
    <3>2. \A d \in Deliveries : deliveries'[d].status = "processing" => deliveries[d].status = "processing"
      BY <1>2, <3>1 DEF TypeInv, TypeOK
    <3>3. UNCHANGED <<workers, orphaned>>
      BY <2>4 DEF PassRetryTime, RetryWebhookJob
    <3>4. QED
      BY <2>1, <3>2, <3>3
  <2>5. ASSUME NEW w \in Workers, NEW batch \in SUBSET Deliveries, ClaimWebhookJobs(w, batch)
        PROVE  NoneStranded'
    <3> DEFINE jobs == {d \in batch : endpoints[d[2]].state = "enabled"}
               row == [Idle EXCEPT !.jobs = jobs]
    <3>1. row.jobs = jobs /\ row.on = None
      BY DEF Idle
    <3>2. workers' = [workers EXCEPT ![w] = row] /\ orphaned' = orphaned
      BY <2>5 DEF ClaimWebhookJobs
    <3> HIDE DEF row
    <3>3. Held(w)' = jobs /\ \A v \in Workers : v # w => Held(v)' = Held(v)
      BY <1>2, <3>1, <3>2, HeldChange
    <3>4. Held(w) = {}
      BY <2>5 DEF ClaimWebhookJobs, Held, Idle
    <3> SUFFICES ASSUME NEW d \in Deliveries, deliveries'[d].status = "processing"
                 PROVE  d \in orphaned' \/ \E v \in Workers : d \in Held(v)'
      BY DEF NoneStranded
    <3>5. CASE d \in batch
      <4>1. deliveries'[d] = Claimed(d) /\ deliveries[d] \in Delivery
        BY <1>2, <2>5, <3>5 DEF ClaimWebhookJobs, TypeInv, TypeOK
      <4>2. endpoints[d[2]].state = "enabled"
        BY <4>1 DEF Claimed, Delivery
      <4>3. QED
        BY <3>3, <3>5, <4>2
    <3>6. CASE d \notin batch
      <4>1. deliveries'[d] = deliveries[d]
        BY <2>5, <3>6 DEF ClaimWebhookJobs
      <4>2. QED
        BY <1>2, <3>2, <3>3, <3>4, <4>1 DEF NoneStranded
    <3>7. QED
      BY <3>5, <3>6
  <2>6. ASSUME NEW w \in Workers, NEW e \in Deliveries, PostAccepted(w, e) \/ PostRefused(w, e)
        PROVE  NoneStranded'
    <3>1. UNCHANGED <<deliveries, orphaned>> /\ workers[w].on = None /\ e \in workers[w].jobs /\ e # None
      BY <2>6, WebhookAssumption DEF PostAccepted, PostRefused
    <3>2. PICK answer \in {"accepted", "refused"} : Sent(w, e, answer)
      BY <2>6 DEF PostAccepted, PostRefused
    <3> DEFINE row == [jobs |-> workers[w].jobs \ {e}, on |-> e, phase |-> answer, attempts |-> 0]
    <3>3. workers' = [workers EXCEPT ![w] = row] /\ row.jobs = workers[w].jobs \ {e} /\ row.on = e
      BY <3>2 DEF Sent
    <3> HIDE DEF row
    <3>4. Held(w)' = Held(w) /\ \A v \in Workers : v # w => Held(v)' = Held(v)
      <4>1. Held(w)' = row.jobs \cup ({row.on} \ {None}) /\ \A v \in Workers : v # w => Held(v)' = Held(v)
        BY <1>2, <3>3, HeldChange
      <4>2. Held(w) = workers[w].jobs
        BY <3>1 DEF Held
      <4>3. QED
        BY <3>1, <3>3, <4>1, <4>2
    <3>5. QED
      BY <1>2, <3>1, <3>4 DEF NoneStranded
  <2>7. ASSUME NEW w \in Workers, ReadFailedJob(w)
        PROVE  NoneStranded'
    <3> DEFINE row == [workers[w] EXCEPT !.phase = "read", !.attempts = deliveries[workers[w].on].attempts]
    <3>1. row.jobs = workers[w].jobs /\ row.on = workers[w].on
      BY <1>2 DEF TypeInv, TypeOK, Worker
    <3>2. workers' = [workers EXCEPT ![w] = row] /\ UNCHANGED <<deliveries, orphaned>>
      BY <2>7 DEF ReadFailedJob
    <3> HIDE DEF row
    <3>3. Held(w)' = Held(w) /\ \A v \in Workers : v # w => Held(v)' = Held(v)
      BY <1>2, <3>1, <3>2, HeldChange DEF Held
    <3>4. QED
      BY <1>2, <3>2, <3>3 DEF NoneStranded
  <2>8. ASSUME NEW w \in Workers, CompleteWebhookJob(w) \/ FailWebhookJob(w) \/ LoseResult(w)
        PROVE  NoneStranded'
    <3> DEFINE e == workers[w].on
    <3>1. NextJob(w) /\ orphaned \subseteq orphaned' /\ e \in Deliveries
      BY <1>2, <2>8, WorkerFields DEF CompleteWebhookJob, FailWebhookJob, LoseResult
    <3>2. Held(w)' = Held(w) \ {e} /\ \A v \in Workers : v # w => Held(v)' = Held(v)
      BY <1>2, <2>0, <3>1, HeldNextJob
    <3>3. \A d \in Deliveries : d # e => deliveries'[d] = deliveries[d]
      BY <1>2, <2>8 DEF CompleteWebhookJob, FailWebhookJob, LoseResult, TypeInv, TypeOK
    <3>4. deliveries'[e].status # "processing" \/ e \in orphaned'
      BY <1>2, <2>8, <3>1, ResultWritten DEF LoseResult
    <3>5. QED
      BY <1>2, <3>1, <3>2, <3>3, <3>4 DEF NoneStranded
  <2>9. ASSUME NEW w \in Workers, Crash(w)
        PROVE  NoneStranded'
    <3>1. deliveries' = deliveries /\ orphaned' = orphaned \cup Held(w) /\ workers' = [workers EXCEPT ![w] = Idle]
      BY <2>9 DEF Crash
    <3>2. \A v \in Workers : v # w => Held(v)' = Held(v)
      BY <1>2, <3>1, HeldChange
    <3>3. QED
      BY <1>2, <3>1, <3>2 DEF NoneStranded
  <2>10. CASE UNCHANGED vars
    BY <2>1, <2>10 DEF vars
  <2>11. QED
    BY <1>2, <2>2, <2>3, <2>4, <2>5, <2>6, <2>7, <2>8, <2>9, <2>10 DEF Next, WorkerStep
<1>3. QED
  BY <1>1, <1>2, TypeInvariant, HeldInvariant, PTL DEF Spec

-----------------------------------------------------------------------------
(* Given up late.  The attempts FailWebhookJob read may be stale by the    *)
(* time it writes; of a delivery nobody has retried they are not, because  *)
(* the claim that could count another attempt would need a row that is not *)
(* processing.                                                             *)

ReadInv ==
    \A d \in Deliveries, w \in Workers :
        retries[d] = 0 /\ workers[w].on = d /\ workers[w].phase = "read" =>
            workers[w].attempts = deliveries[d].attempts

\* What a step does to a delivery nobody has retried by hand.
RowUntouched(d) == /\ deliveries'[d].status = deliveries[d].status
                   /\ deliveries'[d].attempts = deliveries[d].attempts
RowEnqueued(d) == deliveries[d].status = "none" /\ deliveries'[d].status = "pending"
RowClaimed(d) == Claimable(d) /\ deliveries'[d] = Claimed(d)
RowCompleted(d) == /\ deliveries'[d].status = "delivered"
                   /\ deliveries'[d].attempts = deliveries[d].attempts
RowFailed(d, w) == /\ workers[w].on = d /\ workers[w].phase = "read"
                   /\ deliveries'[d].status = AfterFailure(workers[w].attempts)
                   /\ deliveries'[d].attempts = deliveries[d].attempts

LEMMA RowStep ==
    ASSUME TypeInv, [Next]_vars, NEW d \in Deliveries, retries'[d] = 0
    PROVE  /\ retries[d] = 0
           /\ \/ RowUntouched(d) \/ RowEnqueued(d) \/ RowClaimed(d) \/ RowCompleted(d)
              \/ \E w \in Workers : RowFailed(d, w)
<1> DEFINE Outcome == \/ RowUntouched(d) \/ RowEnqueued(d) \/ RowClaimed(d) \/ RowCompleted(d)
                      \/ \E w \in Workers : RowFailed(d, w)
<1>0. deliveries[d] \in Delivery
  BY DEF TypeInv, TypeOK
<1>1. ASSUME deliveries'[d] = deliveries[d], retries' = retries
      PROVE  retries[d] = 0 /\ Outcome
  BY <1>1 DEF RowUntouched
<1>2. ASSUME NEW e \in Endpoints, NEW events \in SUBSET Events,
             CreateWebhookEndpoint(e, events) \/ DeleteWebhookEndpoint(e)
      PROVE  retries[d] = 0 /\ Outcome
  BY <1>1, <1>2 DEF CreateWebhookEndpoint, DeleteWebhookEndpoint
<1>3. ASSUME NEW event \in Events, enqueueOrderWebhook(event)
      PROVE  retries[d] = 0 /\ Outcome
  <2>1. retries' = retries
    BY <1>3 DEF enqueueOrderWebhook
  <2>2. CASE deliveries'[d] = deliveries[d]
    BY <1>1, <2>1, <2>2
  <2>3. CASE deliveries'[d] # deliveries[d]
    <3>1. d[1] = event /\ d[2] \in Endpoints /\ d = <<d[1], d[2]>>
      BY <1>3, <2>3 DEF enqueueOrderWebhook, Deliveries
    <3>2. deliveries[<<event, d[2]>>].status = "none"
      BY <1>3, <3>1 DEF enqueueOrderWebhook
    <3>3. deliveries[d].status = "none"
      BY <3>1, <3>2
    <3>4. deliveries'[d].status = "pending"
      BY <1>3, <2>3 DEF enqueueOrderWebhook
    <3>5. QED
      BY <2>1, <3>3, <3>4 DEF RowEnqueued
  <2>4. QED
    BY <2>2, <2>3
<1>4. ASSUME NEW e \in Deliveries, PassRetryTime(e)
      PROVE  retries[d] = 0 /\ Outcome
  <2>1. deliveries[e] \in Delivery /\ deliveries' = [deliveries EXCEPT ![e].due = TRUE] /\ retries' = retries
    BY <1>4 DEF PassRetryTime, TypeInv, TypeOK
  <2>2. RowUntouched(d)
    BY <1>0, <2>1 DEF RowUntouched, Delivery, TypeInv, TypeOK
  <2>3. QED
    BY <2>1, <2>2
<1>5. ASSUME NEW e \in Deliveries, RetryWebhookJob(e)
      PROVE  retries[d] = 0 /\ Outcome
  <2>1. d # e
    BY <1>5 DEF RetryWebhookJob, TypeInv, TypeOK
  <2>2. deliveries'[d] = deliveries[d] /\ retries'[d] = retries[d]
    BY <1>5, <2>1 DEF RetryWebhookJob, TypeInv, TypeOK
  <2>3. QED
    BY <2>2 DEF RowUntouched
<1>6. ASSUME NEW w \in Workers, NEW batch \in SUBSET Deliveries, ClaimWebhookJobs(w, batch)
      PROVE  retries[d] = 0 /\ Outcome
  <2>1. retries' = retries
    BY <1>6 DEF ClaimWebhookJobs
  <2>2. CASE d \in batch
    BY <1>6, <2>1, <2>2 DEF ClaimWebhookJobs, RowClaimed
  <2>3. CASE d \notin batch
    BY <1>1, <1>6, <2>1, <2>3 DEF ClaimWebhookJobs
  <2>4. QED
    BY <2>2, <2>3
<1>7. ASSUME NEW w \in Workers, CompleteWebhookJob(w)
      PROVE  retries[d] = 0 /\ Outcome
  <2>1. retries' = retries /\ deliveries' = [deliveries EXCEPT ![workers[w].on].status = "delivered"]
    BY <1>7 DEF CompleteWebhookJob
  <2>2. CASE d = workers[w].on
    BY <1>0, <2>1, <2>2 DEF RowCompleted, Delivery, TypeInv, TypeOK
  <2>3. CASE d # workers[w].on
    BY <1>1, <2>1, <2>3 DEF TypeInv, TypeOK
  <2>4. QED
    BY <2>2, <2>3
<1>8. ASSUME NEW w \in Workers, FailWebhookJob(w)
      PROVE  retries[d] = 0 /\ Outcome
  <2> DEFINE e == workers[w].on
             row == [deliveries[e] EXCEPT !.status = AfterFailure(workers[w].attempts), !.due = FALSE]
  <2>1. retries' = retries /\ workers[w].phase = "read" /\ deliveries' = [deliveries EXCEPT ![e] = row]
    BY <1>8 DEF FailWebhookJob
  <2>2. CASE d = e
    <3>1. row.status = AfterFailure(workers[w].attempts) /\ row.attempts = deliveries[d].attempts
      BY <1>0, <2>2 DEF Delivery
    <3> HIDE DEF row
    <3>2. RowFailed(d, w)
      BY <2>1, <2>2, <3>1 DEF RowFailed, TypeInv, TypeOK
    <3>3. QED
      BY <2>1, <3>2
  <2>3. CASE d # e
    BY <1>1, <2>1, <2>3 DEF TypeInv, TypeOK
  <2>4. QED
    BY <2>2, <2>3
<1>9. ASSUME NEW w \in Workers, NEW e \in Deliveries,
             PostAccepted(w, e) \/ PostRefused(w, e) \/ ReadFailedJob(w) \/ LoseResult(w) \/ Crash(w)
      PROVE  retries[d] = 0 /\ Outcome
  BY <1>1, <1>9 DEF PostAccepted, PostRefused, ReadFailedJob, LoseResult, Crash
<1>10. ASSUME UNCHANGED vars
       PROVE  retries[d] = 0 /\ Outcome
  BY <1>1, <1>10 DEF vars
<1> HIDE DEF Outcome
<1>11. ASSUME NEW w \in Workers, WorkerStep(w)
       PROVE  retries[d] = 0 /\ Outcome
  BY <1>6, <1>7, <1>8, <1>9, <1>11 DEF WorkerStep
<1>12. ASSUME NEW e \in Deliveries, PassRetryTime(e) \/ RetryWebhookJob(e)
       PROVE  retries[d] = 0 /\ Outcome
  BY <1>4, <1>5, <1>12
<1>13. ASSUME Next
       PROVE  retries[d] = 0 /\ Outcome
  BY <1>2, <1>3, <1>11, <1>12, <1>13 DEF Next
<1>14. retries[d] = 0 /\ Outcome
  BY <1>10, <1>13
<1>15. QED
  BY <1>14 DEF Outcome

\* A worker that has read the attempts has just done so, or has stood still.
LEMMA ReadStep ==
    ASSUME TypeInv, [Next]_vars, NEW w \in Workers, workers'[w].phase = "read"
    PROVE  \/ workers'[w] = workers[w]
           \/ /\ deliveries' = deliveries
              /\ workers'[w].attempts = deliveries[workers'[w].on].attempts
<1> DEFINE Outcome == \/ workers'[w] = workers[w]
                      \/ /\ deliveries' = deliveries
                         /\ workers'[w].attempts = deliveries[workers'[w].on].attempts
<1>1. ASSUME NEW v \in Workers, NEW row, workers' = [workers EXCEPT ![v] = row], row.phase # "read"
      PROVE  Outcome
  BY <1>1 DEF TypeInv, TypeOK
<1>2. Idle.phase # "read" /\ \A jobs : [Idle EXCEPT !.jobs = jobs].phase # "read"
  BY DEF Idle
<1>3. ASSUME NEW v \in Workers, NextJob(v)
      PROVE  Outcome
  BY <1>1, <1>2, <1>3 DEF NextJob
<1>4. ASSUME NEW v \in Workers, NEW batch \in SUBSET Deliveries, ClaimWebhookJobs(v, batch)
      PROVE  Outcome
  BY <1>1, <1>2, <1>4 DEF ClaimWebhookJobs
<1>5. ASSUME NEW v \in Workers, NEW e \in Deliveries, PostAccepted(v, e) \/ PostRefused(v, e)
      PROVE  Outcome
  <2>1. PICK answer \in {"accepted", "refused"} : Sent(v, e, answer)
    BY <1>5 DEF PostAccepted, PostRefused
  <2> DEFINE row == [jobs |-> workers[v].jobs \ {e}, on |-> e, phase |-> answer, attempts |-> 0]
  <2>2. row.phase # "read" /\ workers' = [workers EXCEPT ![v] = row]
    BY <2>1 DEF Sent
  <2>3. QED
    BY <1>1, <2>2
<1>6. ASSUME NEW v \in Workers, ReadFailedJob(v)
      PROVE  Outcome
  <2> DEFINE row == [workers[v] EXCEPT !.phase = "read", !.attempts = deliveries[workers[v].on].attempts]
  <2>1. workers' = [workers EXCEPT ![v] = row] /\ deliveries' = deliveries
    BY <1>6 DEF ReadFailedJob
  <2>2. row.attempts = deliveries[row.on].attempts
    BY DEF TypeInv, TypeOK, Worker
  <2> HIDE DEF row
  <2>3. QED
    BY <2>1, <2>2 DEF TypeInv, TypeOK
<1>7. ASSUME NEW v \in Workers, Crash(v)
      PROVE  Outcome
  BY <1>1, <1>2, <1>7 DEF Crash
<1>8. ASSUME workers' = workers
      PROVE  Outcome
  BY <1>8
<1> HIDE DEF Outcome
<1>9. ASSUME NEW v \in Workers, WorkerStep(v)
      PROVE  Outcome
  BY <1>3, <1>4, <1>5, <1>6, <1>7, <1>9
  DEF WorkerStep, CompleteWebhookJob, FailWebhookJob, LoseResult
<1>10. Outcome
  BY <1>8, <1>9
  DEF Next, CreateWebhookEndpoint, DeleteWebhookEndpoint, enqueueOrderWebhook, PassRetryTime, RetryWebhookJob, vars
<1>11. QED
  BY <1>10 DEF Outcome

LEMMA ReadInvariant == Spec => []ReadInv
<1>1. Init => ReadInv
  BY DEF Init, Idle, ReadInv
<1>2. ASSUME TypeInv, TypeInv', HeldInv, ReadInv, [Next]_vars
      PROVE  ReadInv'
  <2> SUFFICES ASSUME NEW d \in Deliveries, NEW w \in Workers, retries'[d] = 0,
                      workers'[w].on = d, workers'[w].phase = "read"
               PROVE  workers'[w].attempts = deliveries'[d].attempts
    BY DEF ReadInv
  <2>1. CASE deliveries' = deliveries /\ workers'[w].attempts = deliveries[workers'[w].on].attempts
    BY <2>1
  <2>2. CASE workers'[w] = workers[w]
    <3>1. retries[d] = 0 /\ \/ RowUntouched(d) \/ RowEnqueued(d) \/ RowClaimed(d) \/ RowCompleted(d)
                            \/ \E v \in Workers : RowFailed(d, v)
      BY <1>2, RowStep
    <3>2. workers[w].attempts = deliveries[d].attempts
      BY <1>2, <2>2, <3>1 DEF ReadInv
    <3>3. deliveries[d].status = "processing"
      <4>1. d \in Held(w)
        BY <2>2, WebhookAssumption DEF Held
      <4>2. QED
        BY <1>2, <3>1, <4>1 DEF HeldInv, HeldByOne, HeldOnce
    <3>4. deliveries'[d].attempts = deliveries[d].attempts
      BY <3>1, <3>3 DEF RowUntouched, RowEnqueued, RowClaimed, RowCompleted, RowFailed, Claimable
    <3>5. QED
      BY <2>2, <3>2, <3>4
  <2>3. QED
    BY <1>2, <2>1, <2>2, ReadStep
<1>3. QED
  BY <1>1, <1>2, TypeInvariant, HeldInvariant, PTL DEF Spec

\* A delivery nobody has retried is given up only after MaxAttempts attempts or
\* because its endpoint is gone, and a recorded delivery stays delivered.
THEOREM NotGivenUpEarly == Spec => GivenUpLate
<1>1. ASSUME TypeInv, TypeInv', HeldInv, ReadInv, AttemptsBudget, AttemptsBudget', [Next]_vars
      PROVE  \A d \in Deliveries : retries'[d] = 0 =>
                /\ deliveries[d].status = "delivered" => deliveries'[d].status = "delivered"
                /\ deliveries[d].status # "failed" /\ deliveries'[d].status = "failed" =>
                      deliveries'[d].attempts = MaxAttempts \/ endpoints[d[2]].state # "enabled"
  <2> SUFFICES ASSUME NEW d \in Deliveries, retries'[d] = 0
               PROVE  /\ deliveries[d].status = "delivered" => deliveries'[d].status = "delivered"
                      /\ deliveries[d].status # "failed" /\ deliveries'[d].status = "failed" =>
                            deliveries'[d].attempts = MaxAttempts \/ endpoints[d[2]].state # "enabled"
    OBVIOUS
  <2>1. retries[d] = 0 /\ \/ RowUntouched(d) \/ RowEnqueued(d) \/ RowClaimed(d) \/ RowCompleted(d)
                          \/ \E w \in Workers : RowFailed(d, w)
    BY <1>1, RowStep
  <2>2. CASE RowUntouched(d) \/ RowEnqueued(d) \/ RowCompleted(d)
    BY <2>2 DEF RowUntouched, RowEnqueued, RowCompleted
  <2>3. CASE RowClaimed(d)
    <3>1. deliveries[d].status # "delivered"
      BY <2>3 DEF RowClaimed, Claimable
    <3>2. endpoints[d[2]].state = "enabled" => deliveries'[d].status = "processing"
      BY <1>1, <2>3 DEF RowClaimed, Claimed, TypeInv, TypeOK, Delivery
    <3>3. QED
      BY <3>1, <3>2
  <2>4. ASSUME NEW w \in Workers, RowFailed(d, w)
        PROVE  /\ deliveries[d].status # "delivered"
               /\ deliveries'[d].status = "failed" => deliveries'[d].attempts = MaxAttempts
    <3>1. d \in Held(w)
      BY <2>4, WebhookAssumption DEF Held, RowFailed
    <3>2. deliveries[d].status = "processing"
      BY <1>1, <2>1, <3>1 DEF HeldInv, HeldByOne, HeldOnce
    <3>3. workers[w].attempts = deliveries'[d].attempts
      BY <1>1, <2>1, <2>4 DEF ReadInv, RowFailed
    <3>4. deliveries'[d].attempts <= MaxAttempts + retries'[d] /\ deliveries'[d].attempts \in Nat /\ MaxAttempts \in Nat
      BY <1>1, WebhookAssumption DEF AttemptsBudget, TypeInv, TypeOK, Delivery
    <3>5. deliveries'[d].attempts <= MaxAttempts
      BY <3>4
    <3>6. deliveries'[d].status = "failed" => workers[w].attempts >= MaxAttempts
      BY <2>4 DEF RowFailed, AfterFailure
    <3>7. QED
      BY <3>2, <3>3, <3>4, <3>5, <3>6
  <2>5. QED
    BY <2>1, <2>2, <2>3, <2>4
<1>2. ASSUME vars' = vars
      PROVE  \A d \in Deliveries : retries'[d] = 0 =>
                /\ deliveries[d].status = "delivered" => deliveries'[d].status = "delivered"
                /\ deliveries[d].status # "failed" /\ deliveries'[d].status = "failed" =>
                      deliveries'[d].attempts = MaxAttempts \/ endpoints[d[2]].state # "enabled"
  BY <1>2 DEF vars
<1>3. QED
  BY <1>1, <1>2, TypeInvariant, HeldInvariant, ReadInvariant, AttemptsBounded, PTL DEF Spec, GivenUpLate

=============================================================================
