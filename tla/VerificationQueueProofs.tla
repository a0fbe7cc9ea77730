----------------------- MODULE VerificationQueueProofs -----------------------
(***************************************************************************)
(* Proofs about VerificationQueue, for any number of mailboxes, verifiers, *)
(* scanners and direct requests.                                           *)
(***************************************************************************)
EXTENDS VerificationQueue, TLAPS

-----------------------------------------------------------------------------
(* Queues: what Append, Head and Tail do to the elements of a list.        *)

\* The elements of a list after one more.
LEMMA AppendNew ==
    ASSUME NEW S, NEW s \in Seq(S), NEW x \in S
    PROVE  /\ Append(s, x) \in Seq(S)
           /\ Elements(Append(s, x)) = Elements(s) \cup {x}
           /\ x \notin Elements(s) /\ Distinct(s) => Distinct(Append(s, x))
<1>1. /\ DOMAIN Append(s, x) = 1 .. Len(s) + 1
      /\ DOMAIN s = 1 .. Len(s)
      /\ Len(s) \in Nat
      /\ Append(s, x)[Len(s) + 1] = x
      /\ \A i \in 1 .. Len(s) : Append(s, x)[i] = s[i]
      /\ Append(s, x) \in Seq(S)
  OBVIOUS
<1>2. Elements(Append(s, x)) = Elements(s) \cup {x}
  BY <1>1 DEF Elements
<1>3. ASSUME x \notin Elements(s), Distinct(s)
      PROVE  Distinct(Append(s, x))
  <2>1. \A i \in 1 .. Len(s) : s[i] # x
    BY <1>1, <1>3 DEF Elements
  <2>2. \A i \in 1 .. Len(s) + 1 : i \in 1 .. Len(s) \/ i = Len(s) + 1
    BY <1>1
  <2>3. QED
    BY <1>1, <1>3, <2>1, <2>2 DEF Distinct
<1>4. QED
  BY <1>1, <1>2, <1>3

\* The elements of a list without repetitions after its first was taken.
LEMMA TakeHead ==
    ASSUME NEW S, NEW s \in Seq(S), s # <<>>
    PROVE  /\ Tail(s) \in Seq(S) /\ Head(s) \in S
           /\ Elements(s) = Elements(Tail(s)) \cup {Head(s)}
           /\ Distinct(s) => Distinct(Tail(s)) /\ Head(s) \notin Elements(Tail(s))
<1>1. /\ Len(s) \in Nat \ {0}
      /\ DOMAIN s = 1 .. Len(s)
      /\ DOMAIN Tail(s) = 1 .. Len(s) - 1
      /\ \A i \in 1 .. Len(s) - 1 : Tail(s)[i] = s[i + 1]
      /\ Head(s) = s[1]
      /\ Tail(s) \in Seq(S) /\ Head(s) \in S
  OBVIOUS
<1>2. Elements(s) \subseteq Elements(Tail(s)) \cup {Head(s)}
  <2>1. ASSUME NEW i \in 1 .. Len(s)
        PROVE  s[i] \in Elements(Tail(s)) \cup {Head(s)}
    <3>1. CASE i = 1
      BY <1>1, <3>1
    <3>2. CASE i # 1
      <4>1. i - 1 \in 1 .. Len(s) - 1 /\ Tail(s)[i - 1] = s[i]
        BY <1>1, <3>2
      <4>2. QED
        BY <1>1, <4>1 DEF Elements
    <3>3. QED
      BY <3>1, <3>2
  <2>2. QED
    BY <1>1, <2>1 DEF Elements
<1>3. Elements(Tail(s)) \cup {Head(s)} \subseteq Elements(s)
  BY <1>1 DEF Elements
<1>4. ASSUME Distinct(s)
      PROVE  Distinct(Tail(s)) /\ Head(s) \notin Elements(Tail(s))
  <2>1. \A i \in 1 .. Len(s) - 1 : i + 1 \in 1 .. Len(s) /\ i + 1 # 1
    BY <1>1
  <2>2. 1 \in 1 .. Len(s)
    BY <1>1
  <2>3. Head(s) \notin Elements(Tail(s))
    BY <1>1, <1>4, <2>1, <2>2 DEF Distinct, Elements
  <2>4. ASSUME NEW i \in 1 .. Len(s) - 1, NEW j \in 1 .. Len(s) - 1, Tail(s)[i] = Tail(s)[j]
        PROVE  i = j
    <3>1. i + 1 = j + 1
      BY <1>1, <1>4, <2>1, <2>4 DEF Distinct
    <3>2. QED
      BY <3>1
  <2>5. QED
    BY <1>1, <2>3, <2>4 DEF Distinct
<1>5. QED
  BY <1>1, <1>2, <1>3, <1>4

-----------------------------------------------------------------------------
(* Types.  A goroutine that is not idle is at a mailbox.                   *)

WorkersOK == \A w \in Workers : workers[w].phase # "idle" => workers[w].mailbox \in Mailboxes

TypeInv == TypeOK /\ WorkersOK

\* The types of what a goroutine holds.
LEMMA WorkerFields ==
    ASSUME TypeInv, NEW w \in Workers
    PROVE  /\ workers[w] \in Worker
           /\ workers[w].phase \in {"idle", "popped", "holding", "verifying", "passed", "refused"}
           /\ workers[w].version \in Nat
           /\ workers[w].phase # "idle" => workers[w].mailbox \in Mailboxes
BY DEF TypeInv, TypeOK, WorkersOK, Worker

\* Every goroutine has its queue.
LEMMA QueueOfType == \A w \in Workers : QueueOf(w) \in Queues
BY DEF QueueOf, Queues

\* Queueing an id keeps lists and sets well typed.
LEMMA EnqueueType ==
    ASSUME TypeInv, NEW q \in Queues, NEW m \in Mailboxes, Enqueue(q, m)
    PROVE  list' \in [Queues -> Seq(Mailboxes)] /\ queued' \in [Queues -> SUBSET Mailboxes]
BY AppendNew DEF Enqueue, TypeInv, TypeOK

\* An idle goroutine is well typed.
LEMMA IdleType == Idle \in Worker /\ Idle.phase = "idle"
BY DEF Idle, Worker

\* One goroutine changes to another well-typed state.
LEMMA WorkerType ==
    ASSUME TypeInv, NEW w \in Workers, NEW row \in Worker, row.phase # "idle" => row.mailbox \in Mailboxes,
           workers' = [workers EXCEPT ![w] = row]
    PROVE  workers' \in [Workers -> Worker] /\ WorkersOK'
BY DEF TypeInv, TypeOK, WorkersOK

\* An administrator's save makes a mailbox of a mailbox.
LEMMA EditedType ==
    ASSUME NEW row \in Mailbox, NEW status \in SaveStatuses
    PROVE  EditedMailbox(row, status) \in Mailbox
<1> DEFINE box == EditedMailbox(row, status)
           given == CASE status # "unset" -> status
                      [] status = "unset" /\ row.status = "absent" -> "empty"
                      [] OTHER -> row.status
           verdict == IF status \in {"verified", "failed"} THEN row.version + 1 ELSE row.checked
<1>1. given \in {"absent", "empty", "pending", "verified", "failed", "deleted"}
  BY DEF Mailbox, SaveStatuses
<1>2. row.version + 1 \in Nat /\ verdict \in Nat
  BY DEF Mailbox
<1>3. box = [status |-> given, again |-> FALSE, version |-> row.version + 1, checked |-> verdict]
  BY DEF EditedMailbox
<1> HIDE DEF given, verdict, box
<1>4. box \in Mailbox
  BY <1>1, <1>2, <1>3 DEF Mailbox
<1>5. QED
  BY <1>4 DEF box

\* Every variable has its type, whatever operation runs.
THEOREM TypeInvariant == Spec => []TypeInv
<1>1. Init => TypeInv
  BY IdleType DEF Init, TypeInv, TypeOK, WorkersOK, Mailbox
<1>2. TypeInv /\ [Next]_vars => TypeInv'
  <2> SUFFICES ASSUME TypeInv, [Next]_vars
               PROVE  TypeInv'
    OBVIOUS
  <2>0. TypeOK /\ WorkersOK
    BY DEF TypeInv
  <2>1. ASSUME NEW m \in Mailboxes,
               \/ SavePendingMailbox(m) \/ DeleteMailbox(m) \/ PassTime(m)
               \/ \E status \in SaveStatuses : EditMailbox(m, status)
        PROVE  TypeInv'
    <3>1. mailboxes' \in [Mailboxes -> Mailbox]
      <4>1. mailboxes[m] \in Mailbox /\ mailboxes[m].version + 1 \in Nat
        BY <2>0 DEF TypeOK, Mailbox
      <4>2. SavedPending(mailboxes[m]) \in Mailbox
        BY <4>1 DEF SavedPending, Mailbox
      <4>3. CASE SavePendingMailbox(m)
        BY <2>0, <4>2, <4>3 DEF SavePendingMailbox, TypeOK
      <4>4. CASE DeleteMailbox(m)
        BY <2>0, <4>4 DEF DeleteMailbox, TypeOK, Mailbox
      <4>5. CASE PassTime(m)
        BY <2>0, <4>5 DEF PassTime, TypeOK, Mailbox
      <4>6. ASSUME NEW status \in SaveStatuses, EditMailbox(m, status)
            PROVE  mailboxes' \in [Mailboxes -> Mailbox]
        <5>1. EditedMailbox(mailboxes[m], status) \in Mailbox
          BY <4>1, EditedType
        <5>2. QED
          BY <2>0, <4>6, <5>1 DEF EditMailbox, TypeOK
      <4>7. QED
        BY <2>1, <4>3, <4>4, <4>5, <4>6
    <3>2. /\ UNCHANGED <<list, queued, sweep, workers, inFlight, leaked>>
          /\ unqueued' \subseteq Mailboxes /\ overtaken' \subseteq Mailboxes /\ kept' \subseteq Mailboxes
      BY <2>0, <2>1 DEF SavePendingMailbox, EditMailbox, DeleteMailbox, PassTime, TypeOK
    <3>3. QED
      BY <2>0, <3>1, <3>2 DEF TypeInv, TypeOK, WorkersOK
  <2>2. ASSUME NEW m \in Mailboxes, EnqueueSaved(m) \/ EnqueueSwept(m) \/ QueueMailboxHistoryScans(m)
        PROVE  TypeInv'
    <3>1. list' \in [Queues -> Seq(Mailboxes)] /\ queued' \in [Queues -> SUBSET Mailboxes]
      BY <2>2, EnqueueType DEF EnqueueSaved, EnqueueSwept, QueueMailboxHistoryScans, Queues
    <3>2. QED
      BY <2>0, <2>2, <3>1 DEF EnqueueSaved, EnqueueSwept, QueueMailboxHistoryScans, TypeInv, TypeOK, WorkersOK
  <2>3. ASSUME NEW m \in Mailboxes, EnqueueSavedFails(m) \/ EnqueueSweptFails(m)
        PROVE  TypeInv'
    BY <2>0, <2>3 DEF EnqueueSavedFails, EnqueueSweptFails, TypeInv, TypeOK, WorkersOK
  <2>4. ASSUME NEW w \in Workers, PopMailboxJob(w)
        PROVE  TypeInv'
    <3> DEFINE q == QueueOf(w)
               row == [Idle EXCEPT !.phase = "popped", !.mailbox = Head(list[q])]
    <3>1. q \in Queues /\ list[q] \in Seq(Mailboxes) /\ list[q] # <<>>
      BY <2>0, <2>4, QueueOfType DEF PopMailboxJob, TypeOK
    <3>2. Head(list[q]) \in Mailboxes /\ Tail(list[q]) \in Seq(Mailboxes)
      BY <3>1, TakeHead
    <3>3. row \in Worker /\ row.mailbox \in Mailboxes
      BY <3>2 DEF Idle, Worker
    <3>4. workers' = [workers EXCEPT ![w] = row] /\ list' = [list EXCEPT ![q] = Tail(list[q])]
      BY <2>4 DEF PopMailboxJob
    <3>5. list' \in [Queues -> Seq(Mailboxes)]
      BY <2>0, <3>2, <3>4 DEF TypeOK
    <3> HIDE DEF row, q
    <3>6. workers' \in [Workers -> Worker] /\ WorkersOK'
      BY <3>3, <3>4, WorkerType
    <3>7. QED
      BY <2>0, <2>4, <3>5, <3>6 DEF PopMailboxJob, TypeInv, TypeOK
  <2>5. ASSUME NEW w \in Workers, RemoveQueued(w)
        PROVE  TypeInv'
    <3> DEFINE row == [workers[w] EXCEPT !.phase = "holding"]
    <3>1. row \in Worker /\ row.mailbox \in Mailboxes
      BY <2>5, WorkerFields DEF RemoveQueued, Worker
    <3>2. workers' = [workers EXCEPT ![w] = row]
      BY <2>5 DEF RemoveQueued
    <3> HIDE DEF row
    <3>3. workers' \in [Workers -> Worker] /\ WorkersOK'
      BY <3>1, <3>2, WorkerType
    <3>4. queued' \in [Queues -> SUBSET Mailboxes]
      BY <2>0, <2>5 DEF RemoveQueued, TypeOK
    <3>5. QED
      BY <2>0, <2>5, <3>3, <3>4 DEF RemoveQueued, TypeInv, TypeOK
  <2>6. ASSUME NEW w \in Workers, RemoveFails(w)
        PROVE  TypeInv'
    <3>1. workers' \in [Workers -> Worker] /\ WorkersOK'
      BY <2>6, IdleType, WorkerType DEF RemoveFails
    <3>2. workers[w].mailbox \in Mailboxes
      BY <2>6, WorkerFields DEF RemoveFails
    <3>3. leaked' \in [Queues -> SUBSET Mailboxes]
      BY <2>0, <2>6, <3>2 DEF RemoveFails, TypeOK
    <3>4. QED
      BY <2>0, <2>6, <3>1, <3>3 DEF RemoveFails, TypeInv, TypeOK
  <2>7. ASSUME PendingMailboxVerificationIDs
        PROVE  TypeInv'
    BY <2>0, <2>7 DEF PendingMailboxVerificationIDs, TypeInv, TypeOK, WorkersOK
  <2>8. ASSUME NEW w \in Workers, BeginVerify(w)
        PROVE  TypeInv'
    <3> DEFINE m == workers[w].mailbox
               row == [phase |-> "verifying", mailbox |-> m, version |-> mailboxes[m].version]
    <3>1. m \in Mailboxes
      BY <2>8, WorkerFields DEF BeginVerify
    <3>2. row \in Worker /\ row.mailbox \in Mailboxes
      BY <2>0, <3>1 DEF TypeOK, Mailbox, Worker
    <3>3. /\ workers' = [workers EXCEPT ![w] = Idle] \/ workers' = [workers EXCEPT ![w] = row]
          /\ inFlight' \subseteq Mailboxes
      BY <2>0, <2>8, <3>1 DEF BeginVerify, TypeOK
    <3> HIDE DEF row
    <3>4. workers' \in [Workers -> Worker] /\ WorkersOK'
      BY <3>2, <3>3, IdleType, WorkerType
    <3>5. QED
      BY <2>0, <2>8, <3>3, <3>4 DEF BeginVerify, TypeInv, TypeOK
  <2>9. ASSUME NEW w \in Workers, NEW m \in Mailboxes, AdminVerify(w, m)
        PROVE  TypeInv'
    <3> DEFINE row == [phase |-> "verifying", mailbox |-> m, version |-> mailboxes[m].version]
    <3>1. row \in Worker /\ row.mailbox \in Mailboxes
      BY <2>0 DEF TypeOK, Mailbox, Worker
    <3>2. workers' = [workers EXCEPT ![w] = row]
      BY <2>9 DEF AdminVerify
    <3> HIDE DEF row
    <3>3. workers' \in [Workers -> Worker] /\ WorkersOK'
      BY <3>1, <3>2, WorkerType
    <3>4. QED
      BY <2>0, <2>9, <3>3 DEF AdminVerify, TypeInv, TypeOK
  <2>10. ASSUME NEW w \in Workers, NEW verdict \in {"verified", "failed"}, UpdateMailboxVerification(w, verdict)
         PROVE  TypeInv'
    <3> DEFINE m == workers[w].mailbox
               phase == IF verdict = "verified" THEN "passed" ELSE "refused"
               row == [workers[w] EXCEPT !.phase = phase]
               box == [mailboxes[m] EXCEPT !.status = verdict, !.again = FALSE, !.checked = workers[w].version]
    <3>1. m \in Mailboxes /\ workers[w].version \in Nat
      BY <2>10, WorkerFields DEF UpdateMailboxVerification
    <3>2. box \in Mailbox
      <4>1. mailboxes[m] \in Mailbox
        BY <2>0, <3>1 DEF TypeOK
      <4>2. \A box1 \in Mailbox : [box1 EXCEPT !.status = verdict] \in Mailbox
        BY DEF Mailbox
      <4>3. \A box1 \in Mailbox : [box1 EXCEPT !.again = FALSE] \in Mailbox
        BY DEF Mailbox
      <4>4. \A box1 \in Mailbox : [box1 EXCEPT !.checked = workers[w].version] \in Mailbox
        BY <3>1 DEF Mailbox
      <4>5. QED
        BY <4>1, <4>2, <4>3, <4>4
    <3>3. mailboxes' = [mailboxes EXCEPT ![m] = box]
      BY <2>10 DEF UpdateMailboxVerification
    <3>4. row \in Worker /\ row.mailbox \in Mailboxes
      <4>1. phase \in {"passed", "refused"}
        OBVIOUS
      <4> HIDE DEF phase
      <4>2. QED
        BY <3>1, <4>1, WorkerFields DEF Worker
    <3>5. workers' = [workers EXCEPT ![w] = row]
      BY <2>10 DEF UpdateMailboxVerification
    <3> HIDE DEF row, box
    <3>6. workers' \in [Workers -> Worker] /\ WorkersOK'
      BY <3>4, <3>5, WorkerType
    <3>7. mailboxes' \in [Mailboxes -> Mailbox]
      BY <2>0, <3>2, <3>3 DEF TypeOK
    <3>8. QED
      BY <2>0, <2>10, <3>6, <3>7 DEF UpdateMailboxVerification, TypeInv, TypeOK
  <2>11. ASSUME NEW w \in Workers, VerifyFails(w)
         PROVE  TypeInv'
    <3> DEFINE row == [workers[w] EXCEPT !.phase = "refused"]
    <3>1. row \in Worker /\ row.mailbox \in Mailboxes
      BY <2>11, WorkerFields DEF VerifyFails, Worker
    <3>2. workers' = [workers EXCEPT ![w] = row]
      BY <2>11 DEF VerifyFails
    <3> HIDE DEF row
    <3>3. workers' \in [Workers -> Worker] /\ WorkersOK'
      BY <3>1, <3>2, WorkerType
    <3>4. QED
      BY <2>0, <2>11, <3>3 DEF VerifyFails, TypeInv, TypeOK
  <2>12. ASSUME NEW w \in Workers, FinishVerify(w)
         PROVE  TypeInv'
    <3>1. workers' \in [Workers -> Worker] /\ WorkersOK'
      BY <2>12, IdleType, WorkerType DEF FinishVerify
    <3>2. list' \in [Queues -> Seq(Mailboxes)] /\ queued' \in [Queues -> SUBSET Mailboxes]
      <4>1. workers[w].mailbox \in Mailboxes
        BY <2>12, WorkerFields DEF FinishVerify
      <4>2. QED
        BY <2>0, <2>12, <4>1, EnqueueType DEF FinishVerify, Queues, TypeOK
    <3>3. inFlight' \subseteq Mailboxes
      BY <2>0, <2>12 DEF FinishVerify, DeleteInFlight, TypeOK
    <3>4. QED
      BY <2>0, <2>12, <3>1, <3>2, <3>3 DEF FinishVerify, TypeInv, TypeOK
  <2>13. ASSUME NEW w \in Workers, ScanMailboxHistory(w)
         PROVE  TypeInv'
    <3>1. workers' \in [Workers -> Worker] /\ WorkersOK'
      BY <2>13, IdleType, WorkerType DEF ScanMailboxHistory
    <3>2. QED
      BY <2>0, <2>13, <3>1 DEF ScanMailboxHistory, TypeInv, TypeOK
  <2>14. ASSUME Restart
         PROVE  TypeInv'
    <3>1. \A q \in Queues : Popped(q) \subseteq Mailboxes
      BY WorkerFields DEF Popped
    <3>2. leaked' \in [Queues -> SUBSET Mailboxes]
      BY <2>0, <2>14, <3>1 DEF Restart, TypeOK
    <3>3. workers' \in [Workers -> Worker] /\ WorkersOK'
      BY <2>14, IdleType DEF Restart, WorkersOK
    <3>4. QED
      BY <2>0, <2>14, <3>2, <3>3 DEF Restart, TypeInv, TypeOK
  <2>15. CASE UNCHANGED vars
    BY <2>0, <2>15 DEF vars, TypeInv, TypeOK, WorkersOK
  <2>16. QED
    BY <2>1, <2>2, <2>3, <2>4, <2>5, <2>6, <2>7, <2>8, <2>9, <2>10, <2>11, <2>12, <2>13, <2>14, <2>15
       DEF Next, MailboxStep, WorkerStep
<1>3. QED
  BY <1>1, <1>2, PTL DEF Spec

-----------------------------------------------------------------------------
(* The queues and their sets.  That no two goroutines have popped the same *)
(* id is what makes one SREM end exactly one pop.                          *)

PoppedOnce ==
    \A v, w \in Workers :
        /\ workers[v].phase = "popped" /\ workers[w].phase = "popped"
        /\ QueueOf(v) = QueueOf(w) /\ workers[v].mailbox = workers[w].mailbox
        => v = w

QueueInv == QueueMatchesSet /\ PoppedOnce

\* A goroutine that neither was nor is between BRPOP and SREM.
LEMMA PoppedKept ==
    ASSUME TypeInv, PoppedOnce, NEW w \in Workers, NEW row, workers' = [workers EXCEPT ![w] = row],
           workers[w].phase # "popped", row.phase # "popped"
    PROVE  PoppedOnce' /\ \A q \in Queues : Popped(q)' = Popped(q)
<1>1. \A v \in Workers : workers'[v] = IF v = w THEN row ELSE workers[v]
  BY DEF TypeInv, TypeOK
<1>2. QED
  BY <1>1 DEF Popped, PoppedOnce, QueueOf

\* A goroutine that has just popped an id.
LEMMA PoppedMore ==
    ASSUME TypeInv, PoppedOnce, NEW w \in Workers, NEW row, workers' = [workers EXCEPT ![w] = row],
           workers[w].phase # "popped", row.phase = "popped", row.mailbox \notin Popped(QueueOf(w))
    PROVE  /\ PoppedOnce'
           /\ \A q \in Queues : Popped(q)' = IF q = QueueOf(w) THEN Popped(q) \cup {row.mailbox} ELSE Popped(q)
<1>1. \A v \in Workers : workers'[v] = IF v = w THEN row ELSE workers[v]
  BY DEF TypeInv, TypeOK
<1>2. \A v \in Workers : QueueOf(v)' = QueueOf(v)
  BY DEF QueueOf
<1>3. \A v \in Workers : workers[v].phase = "popped" /\ QueueOf(v) = QueueOf(w) => workers[v].mailbox # row.mailbox
  BY DEF Popped
<1>4. PoppedOnce'
  BY <1>1, <1>2, <1>3 DEF PoppedOnce
<1>5. ASSUME NEW q \in Queues
      PROVE  Popped(q)' = IF q = QueueOf(w) THEN Popped(q) \cup {row.mailbox} ELSE Popped(q)
  BY <1>1, <1>2 DEF Popped
<1>6. QED
  BY <1>4, <1>5

\* A goroutine that has called SREM, or failed to.
LEMMA PoppedLess ==
    ASSUME TypeInv, PoppedOnce, NEW w \in Workers, NEW row, workers' = [workers EXCEPT ![w] = row],
           workers[w].phase = "popped", row.phase # "popped"
    PROVE  /\ PoppedOnce'
           /\ \A q \in Queues : Popped(q)' = IF q = QueueOf(w) THEN Popped(q) \ {workers[w].mailbox} ELSE Popped(q)
           /\ workers[w].mailbox \in Popped(QueueOf(w))
<1>1. \A v \in Workers : workers'[v] = IF v = w THEN row ELSE workers[v]
  BY DEF TypeInv, TypeOK
<1>2. \A v \in Workers : QueueOf(v)' = QueueOf(v)
  BY DEF QueueOf
<1>3. \A v \in Workers : v # w /\ workers[v].phase = "popped" /\ QueueOf(v) = QueueOf(w)
                           => workers[v].mailbox # workers[w].mailbox
  BY DEF PoppedOnce
<1>4. PoppedOnce'
  BY <1>1, <1>2 DEF PoppedOnce
<1>5. ASSUME NEW q \in Queues
      PROVE  Popped(q)' = IF q = QueueOf(w) THEN Popped(q) \ {workers[w].mailbox} ELSE Popped(q)
  BY <1>1, <1>2, <1>3 DEF Popped
<1>6. QED
  BY <1>4, <1>5 DEF Popped

\* Queueing an id that is anywhere on its way changes nothing, another one is
\* appended.
LEMMA EnqueueMatches ==
    ASSUME TypeInv, QueueMatchesSet, NEW q \in Queues, NEW m \in Mailboxes, Enqueue(q, m),
           \A r \in Queues : Popped(r)' = Popped(r), leaked' = leaked
    PROVE  QueueMatchesSet'
<1>1. list[q] \in Seq(Mailboxes)
  BY DEF TypeInv, TypeOK
<1>2. ASSUME NEW r \in Queues, r # q
      PROVE  MatchesSet(r)'
  <2>1. list'[r] = list[r] /\ queued'[r] = queued[r]
    BY <1>2 DEF Enqueue, TypeInv, TypeOK
  <2>2. QED
    BY <2>1 DEF MatchesSet, QueueMatchesSet, Elements, Distinct
<1>3. MatchesSet(q)'
  <2>1. MatchesSet(q)
    BY DEF QueueMatchesSet
  <2>2. queued'[q] = queued[q] \cup {m}
    BY DEF Enqueue, TypeInv, TypeOK
  <2>3. CASE m \in queued[q]
    <3>1. list'[q] = list[q] /\ queued'[q] = queued[q]
      BY <2>2, <2>3 DEF Enqueue
    <3>2. QED
      BY <2>1, <3>1 DEF MatchesSet, Elements, Distinct
  <2>4. CASE m \notin queued[q]
    <3>1. list'[q] = Append(list[q], m)
      BY <2>4 DEF Enqueue, TypeInv, TypeOK
    <3>2. m \notin Elements(list[q]) /\ m \notin Popped(q) /\ m \notin leaked[q]
      BY <2>1, <2>4 DEF MatchesSet
    <3>3. Elements(list'[q]) = Elements(list[q]) \cup {m} /\ Distinct(list'[q])
      BY <1>1, <2>1, <3>1, <3>2, AppendNew DEF MatchesSet
    <3>4. QED
      BY <2>1, <2>2, <3>2, <3>3 DEF MatchesSet
  <2>5. QED
    BY <2>3, <2>4
<1>4. QED
  BY <1>2, <1>3 DEF QueueMatchesSet

\* Lists, sets and lost ids unchanged, and the same ids popped.
LEMMA MatchesKept ==
    ASSUME QueueMatchesSet, UNCHANGED <<list, queued, leaked>>, \A q \in Queues : Popped(q)' = Popped(q)
    PROVE  QueueMatchesSet'
BY DEF QueueMatchesSet, MatchesSet, Elements, Distinct

\* The set of a queue always holds exactly the ids in the list, the ids being
\* removed and the ids whose removal was lost, whatever goroutines, requests,
\* failures and restarts do.
THEOREM QueuesMatchTheirSets == Spec => []QueueMatchesSet
<1>1. Init => QueueInv
  BY DEF Init, QueueInv, QueueMatchesSet, MatchesSet, PoppedOnce, Popped, Elements, Distinct, Idle
<1>2. TypeInv /\ QueueInv /\ [Next]_vars => QueueInv'
  <2> SUFFICES ASSUME TypeInv, QueueMatchesSet, PoppedOnce, [Next]_vars
               PROVE  QueueMatchesSet' /\ PoppedOnce'
    BY DEF QueueInv
  <2>1. CASE UNCHANGED <<workers, list, queued, leaked>>
    <3>1. PoppedOnce' /\ \A q \in Queues : Popped(q)' = Popped(q)
      BY <2>1 DEF PoppedOnce, Popped, QueueOf
    <3>2. QED
      BY <2>1, <3>1, MatchesKept
  <2>2. ASSUME NEW m \in Mailboxes, EnqueueSaved(m) \/ EnqueueSwept(m) \/ QueueMailboxHistoryScans(m)
        PROVE  QueueMatchesSet' /\ PoppedOnce'
    <3>1. UNCHANGED <<workers, leaked>>
      BY <2>2 DEF EnqueueSaved, EnqueueSwept, QueueMailboxHistoryScans
    <3>2. PoppedOnce' /\ \A q \in Queues : Popped(q)' = Popped(q)
      BY <3>1 DEF PoppedOnce, Popped, QueueOf
    <3>3. PICK q \in Queues : Enqueue(q, m)
      BY <2>2 DEF EnqueueSaved, EnqueueSwept, QueueMailboxHistoryScans, Queues
    <3>4. QED
      BY <3>1, <3>2, <3>3, EnqueueMatches
  <2>3. ASSUME NEW w \in Workers, PopMailboxJob(w)
        PROVE  QueueMatchesSet' /\ PoppedOnce'
    <3> DEFINE p == QueueOf(w)
               id == Head(list[p])
               row == [Idle EXCEPT !.phase = "popped", !.mailbox = id]
    <3>1. p \in Queues /\ list[p] \in Seq(Mailboxes) /\ list[p] # <<>> /\ MatchesSet(p)
      BY <2>3, QueueOfType DEF PopMailboxJob, TypeInv, TypeOK, QueueMatchesSet
    <3>2. /\ Elements(list[p]) = Elements(Tail(list[p])) \cup {id}
          /\ Distinct(Tail(list[p])) /\ id \notin Elements(Tail(list[p]))
      BY <3>1, TakeHead DEF MatchesSet
    <3>3. /\ workers' = [workers EXCEPT ![w] = row] /\ workers[w].phase # "popped"
          /\ list' = [list EXCEPT ![p] = Tail(list[p])] /\ UNCHANGED <<queued, leaked>>
      BY <2>3 DEF PopMailboxJob
    <3>4. row.phase = "popped" /\ row.mailbox = id
      BY DEF Idle
    <3>5. id \notin Popped(p) /\ id \notin leaked[p]
      BY <3>1, <3>2 DEF MatchesSet
    <3> HIDE DEF row, p, id
    <3>6. /\ PoppedOnce'
          /\ \A q \in Queues : Popped(q)' = IF q = p THEN Popped(q) \cup {id} ELSE Popped(q)
      BY <3>3, <3>4, <3>5, PoppedMore DEF p
    <3>7. list'[p] = Tail(list[p]) /\ \A q \in Queues : q # p => list'[q] = list[q]
      BY <3>1, <3>3 DEF TypeInv, TypeOK
    <3>8. MatchesSet(p)'
      BY <3>1, <3>2, <3>3, <3>5, <3>6, <3>7 DEF MatchesSet
    <3>9. ASSUME NEW q \in Queues, q # p
          PROVE  MatchesSet(q)'
      BY <3>3, <3>6, <3>7, <3>9 DEF MatchesSet, QueueMatchesSet
    <3>10. QED
      BY <3>6, <3>8, <3>9 DEF QueueMatchesSet
  <2>4. ASSUME NEW w \in Workers, RemoveQueued(w) \/ RemoveFails(w)
        PROVE  QueueMatchesSet' /\ PoppedOnce'
    <3> DEFINE p == QueueOf(w)
               id == workers[w].mailbox
    <3>1. p \in Queues /\ MatchesSet(p) /\ workers[w].phase = "popped" /\ list' = list
      BY <2>4, QueueOfType DEF RemoveQueued, RemoveFails, QueueMatchesSet
    <3>2. PICK row : workers' = [workers EXCEPT ![w] = row] /\ row.phase # "popped"
      <4>1. CASE RemoveQueued(w)
        <5>1. [workers[w] EXCEPT !.phase = "holding"].phase = "holding"
          BY WorkerFields DEF Worker
        <5>2. QED
          BY <4>1, <5>1 DEF RemoveQueued
      <4>2. CASE RemoveFails(w)
        BY <4>2, IdleType DEF RemoveFails
      <4>3. QED
        BY <2>4, <4>1, <4>2
    <3> HIDE DEF p, id
    <3>3. /\ PoppedOnce' /\ id \in Popped(p)
          /\ \A q \in Queues : Popped(q)' = IF q = p THEN Popped(q) \ {id} ELSE Popped(q)
      BY <3>1, <3>2, PoppedLess DEF p, id
    <3>4. \/ queued' = [queued EXCEPT ![p] = queued[p] \ {id}] /\ leaked' = leaked
          \/ leaked' = [leaked EXCEPT ![p] = leaked[p] \cup {id}] /\ queued' = queued
      BY <2>4 DEF RemoveQueued, RemoveFails, p, id
    <3>5. ASSUME NEW q \in Queues, q # p
          PROVE  MatchesSet(q)'
      <4>1. queued'[q] = queued[q] /\ leaked'[q] = leaked[q]
        BY <3>4, <3>5 DEF TypeInv, TypeOK
      <4>2. QED
        BY <3>1, <3>3, <3>5, <4>1 DEF MatchesSet, QueueMatchesSet
    <3>6. \/ queued'[p] = queued[p] \ {id} /\ leaked'[p] = leaked[p]
          \/ leaked'[p] = leaked[p] \cup {id} /\ queued'[p] = queued[p]
      BY <3>1, <3>4 DEF TypeInv, TypeOK
    <3>7. MatchesSet(p)'
      BY <3>1, <3>3, <3>6 DEF MatchesSet
    <3>8. QED
      BY <3>3, <3>5, <3>7 DEF QueueMatchesSet
  <2>5. ASSUME NEW w \in Workers,
               \/ BeginVerify(w) \/ VerifyFails(w) \/ ScanMailboxHistory(w)
               \/ \E m \in Mailboxes : AdminVerify(w, m)
               \/ \E verdict \in {"verified", "failed"} : UpdateMailboxVerification(w, verdict)
        PROVE  QueueMatchesSet' /\ PoppedOnce'
    <3>1. UNCHANGED <<list, queued, leaked>> /\ workers[w].phase # "popped"
      BY <2>5 DEF BeginVerify, VerifyFails, ScanMailboxHistory, AdminVerify, UpdateMailboxVerification
    <3>2. PICK row : workers' = [workers EXCEPT ![w] = row] /\ row.phase # "popped"
      <4>1. CASE BeginVerify(w) \/ ScanMailboxHistory(w) \/ \E m \in Mailboxes : AdminVerify(w, m)
        <5>1. \A m, n : [phase |-> "verifying", mailbox |-> m, version |-> n].phase = "verifying"
          OBVIOUS
        <5>2. QED
          BY <4>1, <5>1, IdleType DEF BeginVerify, ScanMailboxHistory, AdminVerify
      <4>2. \A phase : [workers[w] EXCEPT !.phase = phase].phase = phase
        BY WorkerFields DEF Worker
      <4>3. CASE VerifyFails(w)
        BY <4>2, <4>3 DEF VerifyFails
      <4>4. ASSUME NEW verdict \in {"verified", "failed"}, UpdateMailboxVerification(w, verdict)
            PROVE  \E row : workers' = [workers EXCEPT ![w] = row] /\ row.phase # "popped"
        <5>1. (IF verdict = "verified" THEN "passed" ELSE "refused") # "popped"
          OBVIOUS
        <5>2. QED
          BY <4>2, <4>4, <5>1 DEF UpdateMailboxVerification
      <4>5. QED
        BY <2>5, <4>1, <4>3, <4>4
    <3>3. PoppedOnce' /\ \A q \in Queues : Popped(q)' = Popped(q)
      BY <3>1, <3>2, PoppedKept
    <3>4. QED
      BY <3>1, <3>3, MatchesKept
  <2>6. ASSUME NEW w \in Workers, FinishVerify(w)
        PROVE  QueueMatchesSet' /\ PoppedOnce'
    <3>1. /\ workers' = [workers EXCEPT ![w] = Idle] /\ workers[w].phase # "popped" /\ leaked' = leaked
          /\ Enqueue("history", workers[w].mailbox) \/ UNCHANGED <<list, queued>>
      BY <2>6 DEF FinishVerify
    <3>2. PoppedOnce' /\ \A q \in Queues : Popped(q)' = Popped(q)
      BY <3>1, IdleType, PoppedKept
    <3>3. workers[w].mailbox \in Mailboxes
      BY <2>6, WorkerFields DEF FinishVerify
    <3>4. CASE Enqueue("history", workers[w].mailbox)
      BY <3>1, <3>2, <3>3, <3>4, EnqueueMatches DEF Queues
    <3>5. CASE UNCHANGED <<list, queued>>
      BY <3>1, <3>2, <3>5, MatchesKept
    <3>6. QED
      BY <3>1, <3>2, <3>4, <3>5
  <2>7. ASSUME Restart
        PROVE  QueueMatchesSet' /\ PoppedOnce'
    <3>1. \A w \in Workers : workers'[w].phase = "idle"
      BY <2>7, IdleType DEF Restart
    <3>2. PoppedOnce' /\ \A q \in Queues : Popped(q)' = {}
      BY <3>1 DEF PoppedOnce, Popped
    <3>3. UNCHANGED <<list, queued>> /\ \A q \in Queues : leaked'[q] = leaked[q] \cup Popped(q)
      BY <2>7 DEF Restart
    <3>4. ASSUME NEW q \in Queues
          PROVE  MatchesSet(q)'
      BY <3>2, <3>3 DEF MatchesSet, QueueMatchesSet
    <3>5. QED
      BY <3>2, <3>4 DEF QueueMatchesSet
  <2>8. ASSUME NEW m \in Mailboxes,
               \/ SavePendingMailbox(m) \/ EnqueueSavedFails(m) \/ DeleteMailbox(m)
               \/ PassTime(m) \/ EnqueueSweptFails(m)
               \/ \E status \in SaveStatuses : EditMailbox(m, status)
        PROVE  QueueMatchesSet' /\ PoppedOnce'
    BY <2>1, <2>8 DEF SavePendingMailbox, EditMailbox, EnqueueSavedFails, DeleteMailbox, PassTime, EnqueueSweptFails
  <2>9. CASE PendingMailboxVerificationIDs
    BY <2>1, <2>9 DEF PendingMailboxVerificationIDs
  <2>10. CASE UNCHANGED vars
    BY <2>1, <2>10 DEF vars
  <2>11. QED
    BY <2>2, <2>3, <2>4, <2>5, <2>6, <2>7, <2>8, <2>9, <2>10 DEF Next, MailboxStep, WorkerStep
<1>3. QueueInv => QueueMatchesSet
  BY DEF QueueInv
<1>4. QED
  BY <1>1, <1>2, <1>3, TypeInvariant, PTL DEF Spec

-----------------------------------------------------------------------------
(* One verifier at a time.  A verifier that is at a mailbox has its id in  *)
(* inFlight; it takes it out when it leaves, and nothing else is in there. *)

BusyInFlight == \A w \in Verifiers : Busy(w) => workers[w].mailbox \in inFlight

VerifierInv == OneVerifierAtATime /\ BusyInFlight /\ InFlightReleased

BusyPhases == {"verifying", "passed", "refused"}

\* One goroutine changes.  A verifier that was at no mailbox is at none still;
\* one that was at a mailbox is at it still, or leaves it together with its id.
LEMMA VerifierKept ==
    ASSUME TypeInv, VerifierInv, NEW w \in Workers, NEW row, workers' = [workers EXCEPT ![w] = row],
           \/ w \notin Verifiers /\ inFlight' = inFlight
           \/ ~Busy(w) /\ row.phase \notin BusyPhases /\ inFlight' = inFlight
           \/ Busy(w) /\ row.phase \in BusyPhases /\ row.mailbox = workers[w].mailbox /\ inFlight' = inFlight
           \/ /\ w \in Verifiers /\ Busy(w) /\ row.phase \notin BusyPhases
              /\ inFlight' = inFlight \ {workers[w].mailbox}
    PROVE  VerifierInv'
<1>1. \A v \in Workers : workers'[v] = IF v = w THEN row ELSE workers[v]
  BY DEF TypeInv, TypeOK
<1>2. Verifiers \subseteq Workers
  BY DEF Workers
<1>3. OneVerifierAtATime'
  BY <1>1, <1>2 DEF VerifierInv, OneVerifierAtATime, Busy, BusyPhases
<1>4. BusyInFlight'
  BY <1>1, <1>2 DEF VerifierInv, OneVerifierAtATime, BusyInFlight, Busy, BusyPhases
<1>5. InFlightReleased'
  <2>1. SUFFICES ASSUME NEW m \in inFlight'
                 PROVE  \E v \in Verifiers : Busy(v)' /\ workers'[v].mailbox = m
    BY DEF InFlightReleased
  <2>2. PICK v \in Verifiers : Busy(v) /\ workers[v].mailbox = m
    BY <2>1 DEF VerifierInv, InFlightReleased
  <2>3. Busy(v)' /\ workers'[v].mailbox = m
    BY <1>1, <1>2, <2>1, <2>2 DEF Busy, BusyPhases
  <2>4. QED
    BY <2>3
<1>6. QED
  BY <1>3, <1>4, <1>5 DEF VerifierInv

\* Every step keeps what ties inFlight to the verifiers.
THEOREM VerifierInvariant == Spec => []VerifierInv
<1>1. Init => VerifierInv
  BY DEF Init, VerifierInv, OneVerifierAtATime, BusyInFlight, InFlightReleased, Busy, Idle, Workers
<1>2. TypeInv /\ VerifierInv /\ [Next]_vars => VerifierInv'
  <2> SUFFICES ASSUME TypeInv, VerifierInv, [Next]_vars
               PROVE  VerifierInv'
    OBVIOUS
  <2>1. CASE UNCHANGED <<workers, inFlight>>
    BY <2>1 DEF VerifierInv, OneVerifierAtATime, BusyInFlight, InFlightReleased, Busy
  <2>2. ASSUME NEW w \in Workers, PopMailboxJob(w) \/ RemoveQueued(w) \/ RemoveFails(w) \/ ScanMailboxHistory(w)
        PROVE  VerifierInv'
    <3>1. \E row : workers' = [workers EXCEPT ![w] = row] /\ row.phase \notin BusyPhases
      <4>1. CASE PopMailboxJob(w)
        <5>1. \A id : [Idle EXCEPT !.phase = "popped", !.mailbox = id].phase = "popped"
          BY DEF Idle
        <5>2. QED
          BY <4>1, <5>1 DEF PopMailboxJob, BusyPhases
      <4>2. CASE RemoveQueued(w)
        <5>1. [workers[w] EXCEPT !.phase = "holding"].phase = "holding"
          BY WorkerFields DEF Worker
        <5>2. QED
          BY <4>2, <5>1 DEF RemoveQueued, BusyPhases
      <4>3. CASE RemoveFails(w) \/ ScanMailboxHistory(w)
        BY <4>3, IdleType DEF RemoveFails, ScanMailboxHistory, BusyPhases
      <4>4. QED
        BY <2>2, <4>1, <4>2, <4>3
    <3>2. ~Busy(w) /\ inFlight' = inFlight
      BY <2>2 DEF PopMailboxJob, RemoveQueued, RemoveFails, ScanMailboxHistory, Busy
    <3>3. QED
      BY <3>1, <3>2, VerifierKept
  <2>3. ASSUME NEW w \in Workers, BeginVerify(w)
        PROVE  VerifierInv'
    <3> DEFINE m == workers[w].mailbox
               row == [phase |-> "verifying", mailbox |-> m, version |-> mailboxes[m].version]
    <3>1. CASE workers' = [workers EXCEPT ![w] = Idle] /\ inFlight' = inFlight
      <4>1. ~Busy(w)
        BY <2>3 DEF BeginVerify, Busy
      <4>2. QED
        BY <3>1, <4>1, IdleType, VerifierKept DEF BusyPhases
    <3>2. CASE m \notin inFlight /\ workers' = [workers EXCEPT ![w] = row] /\ inFlight' = inFlight \cup {m}
      <4>1. row.phase = "verifying" /\ row.mailbox = m
        OBVIOUS
      <4> HIDE DEF row, m
      <4>2. \A v \in Workers : workers'[v] = IF v = w THEN row ELSE workers[v]
        BY <3>2 DEF TypeInv, TypeOK
      <4>3. Verifiers \subseteq Workers
        BY DEF Workers
      <4>4. \A v \in Verifiers : Busy(v) => workers[v].mailbox # m
        BY <3>2 DEF VerifierInv, BusyInFlight
      <4>5. OneVerifierAtATime'
        BY <4>1, <4>2, <4>3, <4>4 DEF VerifierInv, OneVerifierAtATime, Busy
      <4>6. BusyInFlight'
        BY <3>2, <4>1, <4>2, <4>3 DEF VerifierInv, BusyInFlight, Busy
      <4>7. ~Busy(w) /\ w \in Verifiers
        BY <2>3 DEF BeginVerify, Busy
      <4>8. InFlightReleased'
        BY <3>2, <4>1, <4>2, <4>3, <4>7 DEF VerifierInv, InFlightReleased, Busy
      <4>9. QED
        BY <4>5, <4>6, <4>8 DEF VerifierInv
    <3>3. QED
      BY <2>3, <3>1, <3>2 DEF BeginVerify, AlreadyInFlight
  <2>4. ASSUME NEW w \in Workers, NEW m \in Mailboxes, AdminVerify(w, m)
        PROVE  VerifierInv'
    <3>1. w \notin Verifiers
      BY <2>4, VerificationAssumption DEF AdminVerify
    <3>2. QED
      BY <2>4, <3>1, VerifierKept DEF AdminVerify
  <2>5. ASSUME NEW w \in Workers,
               VerifyFails(w) \/ \E verdict \in {"verified", "failed"} : UpdateMailboxVerification(w, verdict)
        PROVE  VerifierInv'
    <3>1. PICK phase \in BusyPhases : workers' = [workers EXCEPT ![w].phase = phase]
      BY <2>5 DEF VerifyFails, UpdateMailboxVerification, BusyPhases
    <3> DEFINE row == [workers[w] EXCEPT !.phase = phase]
    <3>2. workers' = [workers EXCEPT ![w] = row] /\ row.mailbox = workers[w].mailbox /\ row.phase \in BusyPhases
      BY <3>1, WorkerFields DEF Worker
    <3> HIDE DEF row
    <3>3. Busy(w) /\ inFlight' = inFlight
      BY <2>5 DEF VerifyFails, UpdateMailboxVerification, Busy
    <3>4. QED
      BY <3>2, <3>3, VerifierKept
  <2>6. ASSUME NEW w \in Workers, FinishVerify(w)
        PROVE  VerifierInv'
    <3>1. /\ workers' = [workers EXCEPT ![w] = Idle] /\ Busy(w)
          /\ \/ w \notin Verifiers /\ inFlight' = inFlight
             \/ w \in Verifiers /\ inFlight' = inFlight \ {workers[w].mailbox}
      BY <2>6 DEF FinishVerify, DeleteInFlight, Busy
    <3>2. QED
      BY <3>1, IdleType, VerifierKept DEF BusyPhases
  <2>7. ASSUME Restart
        PROVE  VerifierInv'
    <3>1. \A w \in Workers : workers'[w].phase = "idle"
      BY <2>7, IdleType DEF Restart
    <3>2. inFlight' = {}
      BY <2>7 DEF Restart
    <3>3. QED
      BY <3>1, <3>2 DEF VerifierInv, OneVerifierAtATime, BusyInFlight, InFlightReleased, Busy, Workers
  <2>8. ASSUME NEW m \in Mailboxes, MailboxStep(m)
        PROVE  VerifierInv'
    BY <2>1, <2>8 DEF MailboxStep, SavePendingMailbox, EditMailbox, EnqueueSaved, EnqueueSavedFails, DeleteMailbox,
                      PassTime, EnqueueSwept, EnqueueSweptFails, QueueMailboxHistoryScans
  <2>9. CASE PendingMailboxVerificationIDs
    BY <2>1, <2>9 DEF PendingMailboxVerificationIDs
  <2>10. CASE UNCHANGED vars
    BY <2>1, <2>10 DEF vars
  <2>11. QED
    BY <2>2, <2>3, <2>4, <2>5, <2>6, <2>7, <2>8, <2>9, <2>10 DEF Next, WorkerStep
<1>3. QED
  BY <1>1, <1>2, TypeInvariant, PTL DEF Spec

\* Although ids are queued again while a verification runs, two verifiers are
\* never at the same mailbox.
THEOREM VerifiersExclusive == Spec => []OneVerifierAtATime
<1>1. VerifierInv => OneVerifierAtATime
  BY DEF VerifierInv
<1>2. QED
  BY <1>1, VerifierInvariant, PTL

\* However a verification ends, its id leaves inFlight with it, so no mailbox is
\* kept from the verifiers by a verification that is over.
THEOREM InFlightAlwaysReleased == Spec => []InFlightReleased
<1>1. VerifierInv => InFlightReleased
  BY DEF VerifierInv
<1>2. QED
  BY <1>1, VerifierInvariant, PTL

-----------------------------------------------------------------------------
(* Current verdicts.  A goroutine that verifies a mailbox has read what    *)
(* was saved last, unless it was saved again since.                        *)

ReadsCurrent(w) ==
    workers[w].phase = "verifying" =>
        workers[w].mailbox \in overtaken \/ workers[w].version = mailboxes[workers[w].mailbox].version

VerdictInv == VerdictIsCurrent /\ \A w \in Workers : ReadsCurrent(w)

\* A step that changes one goroutine only keeps the verdicts, if it then verifies
\* it has read the mailbox as it is.
LEMMA VerdictKept ==
    ASSUME TypeInv, VerdictInv, UNCHANGED <<mailboxes, overtaken, kept>>,
           NEW w \in Workers, NEW row, workers' = [workers EXCEPT ![w] = row],
           row.phase = "verifying" => row.version = mailboxes[row.mailbox].version
    PROVE  VerdictInv'
<1>1. \A v \in Workers : workers'[v] = IF v = w THEN row ELSE workers[v]
  BY DEF TypeInv, TypeOK
<1>2. QED
  BY <1>1 DEF VerdictInv, VerdictIsCurrent, ReadsCurrent

\* A mailbox that nobody has saved while it was verified, and whose credential no
\* administrator has replaced under its verdict, has the verdict of what was saved
\* last, although verdicts are written long after the mailbox was read.
THEOREM VerdictsCurrent == Spec => []VerdictIsCurrent
<1>1. Init => VerdictInv
  BY DEF Init, VerdictInv, VerdictIsCurrent, ReadsCurrent, Idle
<1>2. TypeInv /\ VerdictInv /\ [Next]_vars => VerdictInv'
  <2> SUFFICES ASSUME TypeInv, VerdictInv, [Next]_vars
               PROVE  VerdictInv'
    OBVIOUS
  <2>1. CASE UNCHANGED <<mailboxes, workers, overtaken, kept>>
    BY <2>1 DEF VerdictInv, VerdictIsCurrent, ReadsCurrent
  <2>2. ASSUME NEW m \in Mailboxes, SavePendingMailbox(m)
        PROVE  VerdictInv'
    <3>1. /\ mailboxes'[m].status = "pending"
          /\ \A n \in Mailboxes : n # m => mailboxes'[n] = mailboxes[n]
      BY <2>2 DEF SavePendingMailbox, SavedPending, TypeInv, TypeOK, Mailbox
    <3>2. overtaken \subseteq overtaken' /\ workers' = workers /\ kept \ {m} \subseteq kept'
      BY <2>2 DEF SavePendingMailbox
    <3>3. ASSUME NEW w \in Workers, workers[w].phase = "verifying"
          PROVE  workers[w].mailbox \in overtaken' \/ workers[w].version = mailboxes'[workers[w].mailbox].version
      <4>1. workers[w].mailbox \in Mailboxes
        BY <3>3, WorkerFields
      <4>2. CASE workers[w].mailbox = m
        BY <2>2, <3>3, <4>2 DEF SavePendingMailbox, Verifying
      <4>3. CASE workers[w].mailbox # m
        BY <3>1, <3>2, <3>3, <4>1, <4>3 DEF VerdictInv, ReadsCurrent
      <4>4. QED
        BY <4>2, <4>3
    <3>4. QED
      BY <3>1, <3>2, <3>3 DEF VerdictInv, VerdictIsCurrent, ReadsCurrent
  <2>3. ASSUME NEW m \in Mailboxes, NEW status \in SaveStatuses, EditMailbox(m, status)
         PROVE  VerdictInv'
    <3>1. /\ mailboxes'[m] = EditedMailbox(mailboxes[m], status)
          /\ \A n \in Mailboxes : n # m => mailboxes'[n] = mailboxes[n]
      BY <2>3 DEF EditMailbox, TypeInv, TypeOK
    <3>2. /\ overtaken \subseteq overtaken' /\ workers' = workers /\ kept \ {m} \subseteq kept'
          /\ status = "unset" /\ mailboxes[m].status \in {"verified", "failed"} => m \in kept'
      BY <2>3 DEF EditMailbox
    <3>3. mailboxes'[m].status \in {"verified", "failed"} => m \in kept' \/ mailboxes'[m].checked = mailboxes'[m].version
      <4>1. CASE status = "unset"
        <5>1. mailboxes'[m].status \in {"empty", mailboxes[m].status}
          BY <3>1, <4>1 DEF EditedMailbox
        <5>2. QED
          BY <3>2, <4>1, <5>1
      <4>2. CASE status \in {"empty", "pending"}
        BY <3>1, <4>2 DEF EditedMailbox
      <4>3. CASE status \in {"verified", "failed"}
        BY <3>1, <4>3 DEF EditedMailbox
      <4>4. QED
        BY <4>1, <4>2, <4>3 DEF SaveStatuses
    <3>4. ASSUME NEW w \in Workers, workers[w].phase = "verifying"
          PROVE  workers[w].mailbox \in overtaken' \/ workers[w].version = mailboxes'[workers[w].mailbox].version
      <4>1. workers[w].mailbox \in Mailboxes
        BY <3>4, WorkerFields
      <4>2. CASE workers[w].mailbox = m
        BY <2>3, <3>4, <4>2 DEF EditMailbox, Verifying
      <4>3. CASE workers[w].mailbox # m
        BY <3>1, <3>2, <3>4, <4>1, <4>3 DEF VerdictInv, ReadsCurrent
      <4>4. QED
        BY <4>2, <4>3
    <3>5. \A n \in Mailboxes : n # m /\ n \in kept => n \in kept'
      BY <3>2
    <3>6. QED
      BY <3>1, <3>2, <3>3, <3>4, <3>5 DEF VerdictInv, VerdictIsCurrent, ReadsCurrent
  <2>4. ASSUME NEW m \in Mailboxes, DeleteMailbox(m) \/ PassTime(m)
        PROVE  VerdictInv'
    <3>1. /\ mailboxes'[m].version = mailboxes[m].version
          /\ \/ mailboxes'[m].status = "deleted"
             \/ /\ mailboxes'[m].status = mailboxes[m].status /\ mailboxes'[m].checked = mailboxes[m].checked
                /\ kept' = kept
          /\ \A n \in Mailboxes : n # m => mailboxes'[n] = mailboxes[n]
      <4>1. mailboxes \in [Mailboxes -> Mailbox]
        BY DEF TypeInv, TypeOK
      <4>2. CASE DeleteMailbox(m)
        <5> DEFINE box == [mailboxes[m] EXCEPT !.status = "deleted", !.again = FALSE, !.checked = 0]
        <5>1. box.status = "deleted" /\ box.version = mailboxes[m].version
          BY <4>1 DEF Mailbox
        <5>2. mailboxes' = [mailboxes EXCEPT ![m] = box]
          BY <4>2 DEF DeleteMailbox
        <5> HIDE DEF box
        <5>3. QED
          BY <4>1, <5>1, <5>2
      <4>3. CASE PassTime(m)
        BY <4>1, <4>3 DEF PassTime, Mailbox
      <4>4. QED
        BY <2>4, <4>2, <4>3
    <3>2. UNCHANGED <<workers, overtaken>> /\ kept \ {m} \subseteq kept'
      BY <2>4 DEF DeleteMailbox, PassTime
    <3>3. \A n \in Mailboxes : mailboxes'[n].version = mailboxes[n].version
      BY <3>1
    <3>4. \A w \in Workers : workers[w].phase = "verifying" => workers[w].mailbox \in Mailboxes
      BY WorkerFields
    <3>5. QED
      BY <3>1, <3>2, <3>3, <3>4 DEF VerdictInv, VerdictIsCurrent, ReadsCurrent
  <2>5. ASSUME NEW w \in Workers, PopMailboxJob(w) \/ RemoveQueued(w) \/ RemoveFails(w) \/ ScanMailboxHistory(w)
                                 \/ VerifyFails(w) \/ FinishVerify(w)
        PROVE  VerdictInv'
    <3>1. \E row : workers' = [workers EXCEPT ![w] = row] /\ row.phase # "verifying"
      <4>1. CASE PopMailboxJob(w)
        <5>1. \A id : [Idle EXCEPT !.phase = "popped", !.mailbox = id].phase = "popped"
          BY DEF Idle
        <5>2. QED
          BY <4>1, <5>1 DEF PopMailboxJob
      <4>2. CASE RemoveQueued(w) \/ VerifyFails(w)
        <5>1. PICK phase : phase # "verifying" /\ workers' = [workers EXCEPT ![w].phase = phase]
          BY <4>2 DEF RemoveQueued, VerifyFails
        <5>2. [workers[w] EXCEPT !.phase = phase].phase = phase
          BY WorkerFields DEF Worker
        <5>3. QED
          BY <5>1, <5>2
      <4>3. CASE RemoveFails(w) \/ ScanMailboxHistory(w) \/ FinishVerify(w)
        BY <4>3, IdleType DEF RemoveFails, ScanMailboxHistory, FinishVerify
      <4>4. QED
        BY <2>5, <4>1, <4>2, <4>3
    <3>2. UNCHANGED <<mailboxes, overtaken, kept>>
      BY <2>5 DEF PopMailboxJob, RemoveQueued, RemoveFails, ScanMailboxHistory, VerifyFails, FinishVerify
    <3>3. QED
      BY <3>1, <3>2, VerdictKept
  <2>6. ASSUME NEW w \in Workers, NEW m, workers' = [workers EXCEPT ![w] =
                  [phase |-> "verifying", mailbox |-> m, version |-> mailboxes[m].version]],
               UNCHANGED <<mailboxes, overtaken, kept>>
        PROVE  VerdictInv'
    <3> DEFINE row == [phase |-> "verifying", mailbox |-> m, version |-> mailboxes[m].version]
    <3>1. workers' = [workers EXCEPT ![w] = row] /\ row.version = mailboxes[row.mailbox].version
      BY <2>6
    <3> HIDE DEF row
    <3>2. QED
      BY <2>6, <3>1, VerdictKept
  <2>7. ASSUME NEW w \in Workers, BeginVerify(w)
        PROVE  VerdictInv'
    <3>1. UNCHANGED <<mailboxes, overtaken, kept>>
      BY <2>7 DEF BeginVerify
    <3>2. CASE workers' = [workers EXCEPT ![w] = Idle]
      BY <3>1, <3>2, IdleType, VerdictKept
    <3>3. CASE workers' # [workers EXCEPT ![w] = Idle]
      BY <2>6, <2>7, <3>1, <3>3 DEF BeginVerify
    <3>4. QED
      BY <3>2, <3>3
  <2>8. ASSUME NEW w \in Workers, NEW m \in Mailboxes, AdminVerify(w, m)
        PROVE  VerdictInv'
    BY <2>6, <2>8 DEF AdminVerify
  <2>9. ASSUME NEW w \in Workers, NEW verdict \in {"verified", "failed"}, UpdateMailboxVerification(w, verdict)
        PROVE  VerdictInv'
    <3>1. PICK m \in Mailboxes : m = workers[w].mailbox
      BY <2>9, WorkerFields DEF UpdateMailboxVerification
    <3>2. m \in overtaken \/ workers[w].version = mailboxes[m].version
      BY <2>9, <3>1 DEF UpdateMailboxVerification, VerdictInv, ReadsCurrent
    <3>3. /\ mailboxes'[m].version = mailboxes[m].version /\ mailboxes'[m].checked = workers[w].version
          /\ \A n \in Mailboxes : n # m => mailboxes'[n] = mailboxes[n]
      BY <2>9, <3>1 DEF UpdateMailboxVerification, TypeInv, TypeOK, Mailbox
    <3>4. overtaken' = overtaken /\ kept' = kept \ {m}
      BY <2>9, <3>1 DEF UpdateMailboxVerification
    <3>5. workers'[w].phase # "verifying" /\ \A v \in Workers : v # w => workers'[v] = workers[v]
      BY <2>9 DEF UpdateMailboxVerification, TypeInv, TypeOK, Worker
    <3>6. VerdictIsCurrent'
      BY <3>2, <3>3, <3>4 DEF VerdictInv, VerdictIsCurrent
    <3>7. \A v \in Workers : workers[v].phase = "verifying" => workers[v].mailbox \in Mailboxes
      BY WorkerFields
    <3>8. \A n \in Mailboxes : mailboxes'[n].version = mailboxes[n].version
      BY <3>3
    <3>9. ASSUME NEW v \in Workers PROVE ReadsCurrent(v)'
      BY <3>4, <3>5, <3>7, <3>8 DEF VerdictInv, ReadsCurrent
    <3>10. QED
      BY <3>6, <3>9 DEF VerdictInv
  <2>10. CASE Restart
    <3>1. \A w \in Workers : workers'[w].phase = "idle"
      BY <2>10, IdleType DEF Restart
    <3>2. QED
      BY <2>10, <3>1 DEF Restart, VerdictInv, VerdictIsCurrent, ReadsCurrent
  <2>11. CASE UNCHANGED vars
    BY <2>1, <2>11 DEF vars
  <2>12. CASE PendingMailboxVerificationIDs
    BY <2>1, <2>12 DEF PendingMailboxVerificationIDs
  <2>13. ASSUME NEW m \in Mailboxes, MailboxStep(m)
         PROVE  VerdictInv'
    BY <2>1, <2>2, <2>3, <2>4, <2>13
       DEF MailboxStep, EnqueueSaved, EnqueueSavedFails, EnqueueSwept, EnqueueSweptFails, QueueMailboxHistoryScans
  <2>14. QED
    BY <2>5, <2>7, <2>8, <2>9, <2>10, <2>11, <2>12, <2>13 DEF Next, WorkerStep
<1>3. VerdictInv => VerdictIsCurrent
  BY DEF VerdictInv
<1>4. QED
  BY <1>1, <1>2, <1>3, TypeInvariant, PTL DEF Spec
=============================================================================
