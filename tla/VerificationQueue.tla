-------------------------- MODULE VerificationQueue --------------------------
(***************************************************************************)
(* The verification of saved mailboxes: two Redis queues (verification and *)
(* history scan), each a list with a set of the ids it holds, the workers  *)
(* that consume them, the compensating scan that queues pending mailboxes  *)
(* again, and the administrator's direct verification.                     *)
(*                                                                         *)
(* Queueing is one Lua script and is atomic; dequeueing is BRPOP and then  *)
(* SREM, two calls.  A verification reads the mailbox, talks to the mail   *)
(* server and writes its verdict much later.  Redis may refuse any call,   *)
(* and the process may die at any point; Redis and PostgreSQL survive.     *)
(* What a credential contains, and its refreshing, are left out: a         *)
(* mailbox carries the number of times it was saved.  The status empty     *)
(* stands for every string that is neither pending nor a verdict.          *)
(***************************************************************************)
EXTENDS Integers, Sequences

CONSTANTS Mailboxes,
          Verifiers, Scanners,   \* goroutines that consume the two queues
          Callers,               \* adminVerifyMailbox requests that may run at the same time
          MaxVersion,            \* bound: how often a mailbox is saved
          None

ASSUME VerificationAssumption ==
    /\ None \notin Mailboxes
    /\ MaxVersion \in Nat
    /\ Verifiers \cap Scanners = {} /\ (Verifiers \cup Scanners) \cap Callers = {}

VARIABLES mailboxes,   \* status, due again, times saved, and which of those the verdict is about
          unqueued,    \* saved by a request that has not queued it yet
          list,        \* Redis: the two lists
          queued,      \* Redis: the two sets
          sweep,       \* ids the compensating scan has read and not queued yet
          workers,     \* what each goroutine and each request does
          inFlight,    \* sync.Map of the ids the verifiers are at
          leaked,      \* history: ids popped whose SREM never happened
          overtaken,   \* history: mailboxes saved while a verification of them ran
          kept         \* history: mailboxes whose verdict an administrator's save left standing

vars == <<mailboxes, unqueued, list, queued, sweep, workers, inFlight, leaked, overtaken, kept>>

Queues == {"verification", "history"}
Workers == Verifiers \cup Scanners \cup Callers
QueueOf(w) == IF w \in Verifiers THEN "verification" ELSE "history"

Mailbox == [status : {"absent", "empty", "pending", "verified", "failed", "deleted"}, again : BOOLEAN,
            version : Nat, checked : Nat]

\* popped: BRPOP done; holding: SREM done; verifying: mailbox read;
\* passed or refused: verdict written, or the verification ended in an error.
Worker == [phase : {"idle", "popped", "holding", "verifying", "passed", "refused"},
           mailbox : Mailboxes \cup {None}, version : Nat]

Idle == [phase |-> "idle", mailbox |-> None, version |-> 0]

Init ==
    /\ mailboxes = [m \in Mailboxes |-> [status |-> "absent", again |-> FALSE, version |-> 0, checked |-> 0]]
    /\ unqueued = {}
    /\ list = [q \in Queues |-> <<>>]
    /\ queued = [q \in Queues |-> {}]
    /\ sweep = {}
    /\ workers = [w \in Workers |-> Idle]
    /\ inFlight = {}
    /\ leaked = [q \in Queues |-> {}]
    /\ overtaken = {}
    /\ kept = {}

-----------------------------------------------------------------------------
(* The queues *)

\* Mutant: the id is pushed whether or not SADD added it.
PushAlways(q, m) ==
    /\ queued' = [queued EXCEPT ![q] = queued[q] \cup {m}]
    /\ list' = [list EXCEPT ![q] = Append(list[q], m)]

\* SADD, and LPUSH only if the id was not in the set; the list is written with
\* its oldest id first.
Enqueue(q, m) ==
    /\ queued' = [queued EXCEPT ![q] = queued[q] \cup {m}]
    /\ list' = IF m \in queued[q] THEN list ELSE [list EXCEPT ![q] = Append(list[q], m)]

\* BRPOP.
PopMailboxJob(w) ==
    LET q == QueueOf(w) IN
    /\ w \notin Callers
    /\ workers[w].phase = "idle"
    /\ list[q] # <<>>
    /\ workers' = [workers EXCEPT ![w] = [Idle EXCEPT !.phase = "popped", !.mailbox = Head(list[q])]]
    /\ list' = [list EXCEPT ![q] = Tail(list[q])]
    /\ UNCHANGED <<mailboxes, unqueued, queued, sweep, inFlight, leaked, overtaken, kept>>

\* SREM; only now can the id be queued again.
RemoveQueued(w) ==
    /\ workers[w].phase = "popped"
    /\ queued' = [queued EXCEPT ![QueueOf(w)] = queued[QueueOf(w)] \ {workers[w].mailbox}]
    /\ workers' = [workers EXCEPT ![w].phase = "holding"]
    /\ UNCHANGED <<mailboxes, unqueued, list, sweep, inFlight, leaked, overtaken, kept>>

\* SREM fails: the job is dropped and its id stays in the set.
RemoveFails(w) ==
    /\ workers[w].phase = "popped"
    /\ leaked' = [leaked EXCEPT ![QueueOf(w)] = leaked[QueueOf(w)] \cup {workers[w].mailbox}]
    /\ workers' = [workers EXCEPT ![w] = Idle]
    /\ UNCHANGED <<mailboxes, unqueued, list, queued, sweep, inFlight, overtaken, kept>>

-----------------------------------------------------------------------------
(* Mailboxes *)

\* Mutant: an existing mailbox keeps its verdict.
KeepVerdict(row) ==
    [row EXCEPT !.status = IF row.status = "absent" THEN "pending" ELSE row.status, !.version = row.version + 1]

\* An imported or authorised mailbox starts over as pending.
SavedPending(row) == [row EXCEPT !.status = "pending", !.again = FALSE, !.version = row.version + 1]

Verifying(m) == \E w \in Workers : workers[w].phase = "verifying" /\ workers[w].mailbox = m

\* Import of a line, or an OAuth callback: saved here, queued by the next step.
SavePendingMailbox(m) ==
    /\ mailboxes[m].status # "deleted"
    /\ mailboxes[m].version < MaxVersion
    /\ mailboxes' = [mailboxes EXCEPT ![m] = SavedPending(mailboxes[m])]
    /\ unqueued' = unqueued \cup {m}
    /\ overtaken' = IF Verifying(m) THEN overtaken \cup {m} ELSE overtaken
    /\ kept' = kept \ {m}
    /\ UNCHANGED <<list, queued, sweep, workers, inFlight, leaked>>

\* What an administrator's save says of the status, which may be nothing.
SaveStatuses == {"unset", "empty", "pending", "verified", "failed"}

\* The row an administrator's save makes: a status that is not given leaves the
\* one there is, or an empty one on a new mailbox, and a verdict that is given is
\* the administrator's own.  (Whether a verdict comes due again is open, as it is
\* in PassTime.)
EditedMailbox(row, status) ==
    [status  |-> CASE status # "unset" -> status
                   [] status = "unset" /\ row.status = "absent" -> "empty"
                   [] OTHER -> row.status,
     again   |-> FALSE,
     version |-> row.version + 1,
     checked |-> IF status \in {"verified", "failed"} THEN row.version + 1 ELSE row.checked]

\* The administrator saves a mailbox with another credential.  Nothing is queued,
\* and the old verdict may stay with the new credential.  (The row is written as
\* it is: that it may have been read earlier is in OrderStore and Credentials.)
EditMailbox(m, status) ==
    /\ mailboxes[m].status # "deleted"
    /\ mailboxes[m].version < MaxVersion
    /\ mailboxes' = [mailboxes EXCEPT ![m] = EditedMailbox(mailboxes[m], status)]
    /\ overtaken' = IF Verifying(m) THEN overtaken \cup {m} ELSE overtaken
    /\ kept' = IF status = "unset" /\ mailboxes[m].status \in {"verified", "failed"} THEN kept \cup {m} ELSE kept \ {m}
    /\ UNCHANGED <<unqueued, list, queued, sweep, workers, inFlight, leaked>>

EnqueueSaved(m) ==
    /\ m \in unqueued
    /\ unqueued' = unqueued \ {m}
    /\ Enqueue("verification", m)
    /\ UNCHANGED <<mailboxes, sweep, workers, inFlight, leaked, overtaken, kept>>

\* Redis refuses; the request ignores the error.
EnqueueSavedFails(m) ==
    /\ m \in unqueued
    /\ unqueued' = unqueued \ {m}
    /\ UNCHANGED <<mailboxes, list, queued, sweep, workers, inFlight, leaked, overtaken, kept>>

\* The row goes, with its verdict.
DeleteMailbox(m) ==
    /\ mailboxes[m].status \notin {"absent", "deleted"}
    /\ mailboxes' = [mailboxes EXCEPT ![m] = [mailboxes[m] EXCEPT !.status = "deleted", !.again = FALSE, !.checked = 0]]
    /\ kept' = kept \ {m}
    /\ UNCHANGED <<unqueued, list, queued, sweep, workers, inFlight, leaked, overtaken>>

\* A transient failure grows old, or the access token of a verified mailbox
\* expires.  (Not every verdict comes due again: which do is left open.)
PassTime(m) ==
    /\ mailboxes[m].status \in {"verified", "failed"}
    /\ ~mailboxes[m].again
    /\ mailboxes' = [mailboxes EXCEPT ![m].again = TRUE]
    /\ UNCHANGED <<unqueued, list, queued, sweep, workers, inFlight, leaked, overtaken, kept>>

-----------------------------------------------------------------------------
(* The compensating scan *)

\* Mutant: the scan looks for old verdicts only.
DueOldVerdict(m) == mailboxes[m].status \in {"verified", "failed"} /\ mailboxes[m].again

DueForVerification(m) ==
    \/ mailboxes[m].status = "pending"
    \/ mailboxes[m].status \in {"verified", "failed"} /\ mailboxes[m].again

PendingMailboxVerificationIDs ==
    /\ sweep = {}
    /\ sweep' = {m \in Mailboxes : DueForVerification(m)}
    /\ sweep' # {}
    /\ UNCHANGED <<mailboxes, unqueued, list, queued, workers, inFlight, leaked, overtaken, kept>>

\* The ids are queued one by one, whatever has become of them since.
EnqueueSwept(m) ==
    /\ m \in sweep
    /\ sweep' = sweep \ {m}
    /\ Enqueue("verification", m)
    /\ UNCHANGED <<mailboxes, unqueued, workers, inFlight, leaked, overtaken, kept>>

EnqueueSweptFails(m) ==
    /\ m \in sweep
    /\ sweep' = sweep \ {m}
    /\ UNCHANGED <<mailboxes, unqueued, list, queued, workers, inFlight, leaked, overtaken, kept>>

-----------------------------------------------------------------------------
(* Verification *)

\* Mutant: LoadOrStore's answer is ignored.
NeverInFlight(m) == FALSE

AlreadyInFlight(m) == m \in inFlight

\* A job of a mailbox another verifier is at is dropped; so is one whose
\* mailbox is gone.  Otherwise the mailbox is read.
BeginVerify(w) ==
    LET m == workers[w].mailbox IN
    /\ w \in Verifiers
    /\ workers[w].phase = "holding"
    /\ IF AlreadyInFlight(m) \/ mailboxes[m].status = "deleted"
       THEN workers' = [workers EXCEPT ![w] = Idle] /\ UNCHANGED inFlight
       ELSE /\ workers' = [workers EXCEPT ![w] = [phase |-> "verifying", mailbox |-> m, version |-> mailboxes[m].version]]
            /\ inFlight' = inFlight \cup {m}
    /\ UNCHANGED <<mailboxes, unqueued, list, queued, sweep, leaked, overtaken, kept>>

\* The administrator's request does not look at inFlight; nor does the mail
\* worker, which records a verdict in the same two steps.
AdminVerify(w, m) ==
    /\ w \in Callers
    /\ workers[w].phase = "idle"
    /\ mailboxes[m].status \notin {"absent", "deleted"}
    /\ workers' = [workers EXCEPT ![w] = [phase |-> "verifying", mailbox |-> m, version |-> mailboxes[m].version]]
    /\ UNCHANGED <<mailboxes, unqueued, list, queued, sweep, inFlight, leaked, overtaken, kept>>

\* UpdateMailboxVerification: the verdict is written under the row lock,
\* whatever has been saved since the mailbox was read.
UpdateMailboxVerification(w, verdict) ==
    LET m == workers[w].mailbox IN
    /\ workers[w].phase = "verifying"
    /\ mailboxes[m].status # "deleted"
    /\ mailboxes' = [mailboxes EXCEPT ![m] = [mailboxes[m] EXCEPT !.status = verdict, !.again = FALSE,
                                                                 !.checked = workers[w].version]]
    /\ workers' = [workers EXCEPT ![w].phase = IF verdict = "verified" THEN "passed" ELSE "refused"]
    /\ kept' = kept \ {m}
    /\ UNCHANGED <<unqueued, list, queued, sweep, inFlight, leaked, overtaken>>

\* The verification ends in an error and writes nothing.
VerifyFails(w) ==
    /\ workers[w].phase = "verifying"
    /\ workers' = [workers EXCEPT ![w].phase = "refused"]
    /\ UNCHANGED <<mailboxes, unqueued, list, queued, sweep, inFlight, leaked, overtaken, kept>>

\* Mutant: a verification that ends in an error returns before Delete.
DeleteIfPassed(w) ==
    IF w \in Verifiers /\ workers[w].phase = "passed" THEN inFlight \ {workers[w].mailbox} ELSE inFlight

\* However the verification ended, the id leaves inFlight.
DeleteInFlight(w) == IF w \in Verifiers THEN inFlight \ {workers[w].mailbox} ELSE inFlight

\* A verifier that passed a mailbox queues its history scan, unless Redis refuses.
FinishVerify(w) ==
    LET m == workers[w].mailbox IN
    /\ workers[w].phase \in {"passed", "refused"}
    /\ workers' = [workers EXCEPT ![w] = Idle]
    /\ inFlight' = DeleteInFlight(w)
    /\ \/ w \in Verifiers /\ workers[w].phase = "passed" /\ Enqueue("history", m)
       \/ UNCHANGED <<list, queued>>
    /\ UNCHANGED <<mailboxes, unqueued, sweep, leaked, overtaken, kept>>

\* A history scan marks the pairs (see OrderStore) or fails; neither is retried.
ScanMailboxHistory(w) ==
    /\ w \in Scanners
    /\ workers[w].phase = "holding"
    /\ workers' = [workers EXCEPT ![w] = Idle]
    /\ UNCHANGED <<mailboxes, unqueued, list, queued, sweep, inFlight, leaked, overtaken, kept>>

\* The rescan of all mailboxes offers a verified one to the history queue; that
\* it also asks for a free pair and no active order only makes it rarer.
QueueMailboxHistoryScans(m) ==
    /\ mailboxes[m].status = "verified"
    /\ Enqueue("history", m)
    /\ UNCHANGED <<mailboxes, unqueued, sweep, workers, inFlight, leaked, overtaken, kept>>

Popped(q) == {workers[w].mailbox : w \in {v \in Workers : workers[v].phase = "popped" /\ QueueOf(v) = q}}

\* The process dies and starts again.
Restart ==
    /\ \/ unqueued \cup sweep # {}
       \/ \E w \in Workers : workers[w] # Idle
    /\ unqueued' = {}
    /\ sweep' = {}
    /\ workers' = [w \in Workers |-> Idle]
    /\ inFlight' = {}
    /\ leaked' = [q \in Queues |-> leaked[q] \cup Popped(q)]
    /\ UNCHANGED <<mailboxes, list, queued, overtaken, kept>>

-----------------------------------------------------------------------------
MailboxStep(m) ==
    \/ SavePendingMailbox(m)
    \/ \E status \in SaveStatuses : EditMailbox(m, status)
    \/ EnqueueSaved(m)
    \/ EnqueueSavedFails(m)
    \/ DeleteMailbox(m)
    \/ PassTime(m)
    \/ EnqueueSwept(m)
    \/ EnqueueSweptFails(m)
    \/ QueueMailboxHistoryScans(m)

WorkerStep(w) ==
    \/ PopMailboxJob(w)
    \/ RemoveQueued(w)
    \/ RemoveFails(w)
    \/ BeginVerify(w)
    \/ \E m \in Mailboxes : AdminVerify(w, m)
    \/ \E verdict \in {"verified", "failed"} : UpdateMailboxVerification(w, verdict)
    \/ VerifyFails(w)
    \/ FinishVerify(w)
    \/ ScanMailboxHistory(w)

Next ==
    \/ \E m \in Mailboxes : MailboxStep(m)
    \/ \E w \in Workers : WorkerStep(w)
    \/ PendingMailboxVerificationIDs
    \/ Restart

Spec == Init /\ [][Next]_vars

\* The ticker keeps scanning and the goroutines keep consuming; Redis, the mail
\* server and PostgreSQL answer at least now and then, and the process stays up
\* long enough now and then (hence SF).
Fairness ==
    /\ WF_vars(PendingMailboxVerificationIDs)
    /\ \A m \in Mailboxes :
          /\ SF_vars(EnqueueSwept(m))
          /\ SF_vars(\E w \in Verifiers : PopMailboxJob(w) /\ workers'[w].mailbox = m)
          /\ SF_vars(\E w \in Verifiers : workers[w].mailbox = m /\ BeginVerify(w))
          /\ SF_vars(\E w \in Verifiers, verdict \in {"verified", "failed"} :
                        workers[w].mailbox = m /\ UpdateMailboxVerification(w, verdict))
    /\ \A w \in Verifiers : WF_vars(RemoveQueued(w)) /\ WF_vars(FinishVerify(w))

FairSpec == Spec /\ Fairness

-----------------------------------------------------------------------------
(* Properties *)

\* Every variable has its type.
TypeOK ==
    /\ mailboxes \in [Mailboxes -> Mailbox]
    /\ unqueued \subseteq Mailboxes
    /\ list \in [Queues -> Seq(Mailboxes)]
    /\ queued \in [Queues -> SUBSET Mailboxes]
    /\ sweep \subseteq Mailboxes
    /\ workers \in [Workers -> Worker]
    /\ inFlight \subseteq Mailboxes
    /\ leaked \in [Queues -> SUBSET Mailboxes]
    /\ overtaken \subseteq Mailboxes
    /\ kept \subseteq Mailboxes

Elements(s) == {s[i] : i \in DOMAIN s}

Distinct(s) == \A i, j \in DOMAIN s : s[i] = s[j] => i = j

MatchesSet(q) ==
    /\ queued[q] = Elements(list[q]) \cup Popped(q) \cup leaked[q]
    /\ Elements(list[q]) \cap Popped(q) = {}
    /\ (Elements(list[q]) \cup Popped(q)) \cap leaked[q] = {}
    /\ Distinct(list[q])

\* The set that guards a queue says exactly what is on its way: the ids in the
\* list, each there once, the ids popped and not yet removed, and the ids whose
\* removal was lost; no id is in two of these places.
QueueMatchesSet == \A q \in Queues : MatchesSet(q)

Busy(w) == workers[w].phase \in {"verifying", "passed", "refused"}

\* Although an id can be queued again while its verification runs, no two
\* verifiers are at the same mailbox.
OneVerifierAtATime ==
    \A v, w \in Verifiers : Busy(v) /\ Busy(w) /\ workers[v].mailbox = workers[w].mailbox => v = w

\* An id is in inFlight only while a verifier is at its mailbox: none is left
\* behind, or every later job of that mailbox would be dropped until a restart.
InFlightReleased == \A m \in inFlight : \E w \in Verifiers : Busy(w) /\ workers[w].mailbox = m

\* A verdict is about what was saved last, unless the mailbox was saved while it
\* was being verified, or an administrator's save has replaced the credential
\* under the verdict and no verdict was written since (postgres_resources.go:94
\* leaves it and :136 replaces the credential).
VerdictIsCurrent ==
    \A m \in Mailboxes :
        mailboxes[m].status \in {"verified", "failed"} =>
            m \in overtaken \/ m \in kept \/ mailboxes[m].checked = mailboxes[m].version

\* A pending mailbox gets a verdict (or is saved otherwise, or deleted) in the
\* end, whatever was lost between the request, Redis and the workers, unless its
\* id was left behind in the set of the verification queue.  A mailbox that an
\* administrator saved as a new one without a status is not pending: no scan
\* finds it.
PendingEnds ==
    \A m \in Mailboxes : mailboxes[m].status = "pending" ~>
        mailboxes[m].status # "pending" \/ m \in leaked["verification"]

-----------------------------------------------------------------------------
\* CHANGELOG.md:1235: a mailbox whose queueing failed never stays pending for
\* ever, the compensating scan queues it again.
NeverPendingForEver == \A m \in Mailboxes : mailboxes[m].status = "pending" ~> mailboxes[m].status # "pending"
=============================================================================
