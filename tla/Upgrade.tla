------------------------------- MODULE Upgrade -------------------------------
(***************************************************************************)
(* The online upgrade: the server's handlers write status.json and         *)
(* request.json into a shared directory, the updater beside it takes the   *)
(* request, replaces the server's container and writes how it went.        *)
(*                                                                         *)
(* A handler reads the status and writes it later; nothing is locked       *)
(* between two administrators.  Replacing the container ends every handler *)
(* in progress.  The history variables are raced (a status was written by  *)
(* a handler that had read another one) and broken (a process stopped, or  *)
(* a failure could not be written down).                                   *)
(***************************************************************************)
EXTENDS Naturals

CONSTANTS Requests,   \* bound: the calls of POST /admin/upgrade
          None        \* no file

ASSUME NoneAssumption == None \notin Requests

VARIABLES status,      \* status.json
          request,     \* request.json: the call that wrote it
          processing,  \* request.processing.json
          handler,     \* the progress of each call
          seen,        \* the status each call has read
          backups,     \* the calls whose database backup was verified and renamed
          updater,     \* where updater.sh is
          image,       \* what the server runs: the release it had, or the new one
          raced, broken

vars == <<status, request, processing, handler, seen, backups, updater, image, raced, broken>>

Status == {"idle", "backing_up", "queued", "updating", "success", "failed"}

\* Mutant: a queued upgrade is forgotten.
InProgressUnqueued == {"backing_up", "updating"}

\* The states in which adminUpgrade refuses.
InProgress == {"backing_up", "queued", "updating"}

Init ==
    /\ status = "idle"
    /\ request = None
    /\ processing = None
    /\ handler = [r \in Requests |-> "new"]
    /\ seen = [r \in Requests |-> "idle"]
    /\ backups = {}
    /\ updater = "watching"
    /\ image = "old"
    /\ raced = FALSE
    /\ broken = FALSE

-----------------------------------------------------------------------------
(* adminUpgrade *)

Goto(r, phase) == handler' = [handler EXCEPT ![r] = phase]

\* readUpgradeStatus; an upgrade in progress is answered with 409, and so is
\* one to the version that runs.
ReadStatus(r) ==
    /\ handler[r] = "new"
    /\ seen' = [seen EXCEPT ![r] = status]
    /\ \/ status \notin InProgress /\ Goto(r, "checked")
       \/ (status \in InProgress \/ image = "new") /\ Goto(r, "answered")
    /\ UNCHANGED <<status, request, processing, backups, updater, image, raced, broken>>

WriteBackingUp(r) ==
    /\ handler[r] = "checked"
    /\ Goto(r, "backing_up")
    /\ status' = "backing_up"
    /\ raced' = (raced \/ status # seen[r])
    /\ UNCHANGED <<request, processing, seen, backups, updater, image, broken>>

\* createPostgresUpgradeBackup has dumped, closed, verified and renamed the file.
BackupCompletes(r) ==
    /\ handler[r] = "backing_up"
    /\ Goto(r, "backed_up")
    /\ backups' = backups \cup {r}
    /\ UNCHANGED <<status, request, processing, seen, updater, image, raced, broken>>

\* Mutant: the failure is not written down.
GiveUpSilently(r) == Goto(r, "answered") /\ UNCHANGED <<status, broken>>

\* The call gives up and says so in the status, whoever's status that is now;
\* that the status cannot be written is ignored.
GiveUp(r) ==
    /\ Goto(r, "answered")
    /\ \/ status' = "failed" /\ UNCHANGED broken
       \/ broken' = TRUE /\ UNCHANGED status

\* Mutant: the upgrade goes on without a backup.
BackupSkipped(r) ==
    /\ handler[r] = "backing_up"
    /\ Goto(r, "backed_up")
    /\ UNCHANGED <<status, request, processing, seen, backups, updater, image, raced, broken>>

\* The backup fails, takes more than ten minutes, or the browser goes away.
BackupFails(r) ==
    /\ handler[r] = "backing_up"
    /\ GiveUp(r)
    /\ UNCHANGED <<request, processing, seen, backups, updater, image, raced>>

WriteQueued(r) ==
    /\ handler[r] = "backed_up"
    /\ Goto(r, "queued")
    /\ status' = "queued"
    /\ UNCHANGED <<request, processing, seen, backups, updater, image, raced, broken>>

\* The rename replaces a request that is still there.
WriteRequest(r) ==
    /\ handler[r] = "queued"
    /\ Goto(r, "answered")
    /\ request' = r
    /\ UNCHANGED <<status, processing, seen, backups, updater, image, raced, broken>>

\* The status or the request cannot be written; for the first status the call
\* is just refused.
WriteFails(r) ==
    /\ \/ handler[r] = "checked" /\ Goto(r, "answered") /\ UNCHANGED <<status, broken>>
       \/ handler[r] \in {"backed_up", "queued"} /\ GiveUp(r)
    /\ UNCHANGED <<request, processing, seen, backups, updater, image, raced>>

\* What becomes of the handlers when the server process ends.
Ended == [r \in Requests |-> IF handler[r] = "new" THEN "new" ELSE "answered"]

ServerCrash ==
    /\ handler' = Ended
    /\ handler' # handler
    /\ broken' = TRUE
    /\ UNCHANGED <<status, request, processing, seen, backups, updater, image, raced>>

-----------------------------------------------------------------------------
(* updater.sh *)

TakeRequest ==
    /\ updater = "watching"
    /\ request # None
    /\ processing' = request
    /\ request' = None
    /\ updater' = "taken"
    /\ UNCHANGED <<status, handler, seen, backups, image, raced, broken>>

WriteUpdating ==
    /\ updater = "taken"
    /\ status' = "updating"
    /\ updater' = "updating"
    /\ UNCHANGED <<request, processing, handler, seen, backups, image, raced, broken>>

Conclude(s) == status' = s /\ updater' = "concluded"

\* The image is not the official one, cannot be pulled, or already runs.
NothingToReplace ==
    /\ updater = "updating"
    /\ \/ Conclude("failed")
       \/ image = "new" /\ Conclude("success")
    /\ UNCHANGED <<request, processing, handler, seen, backups, image, raced, broken>>

\* start_heromail removes the containers and starts one of the image.
StartImage(i) == image' = i /\ handler' = Ended

ReplaceServer ==
    /\ updater = "updating"
    /\ image = "old"
    /\ StartImage("new")
    /\ updater' = "starting"
    /\ UNCHANGED <<status, request, processing, seen, backups, raced, broken>>

Healthy ==
    /\ updater = "starting"
    /\ Conclude("success")
    /\ UNCHANGED <<request, processing, handler, seen, backups, image, raced, broken>>

\* No health within ten minutes: the previous image is tagged and started, if
\* there is one.
Unhealthy ==
    /\ updater = "starting"
    /\ \/ /\ status' = "updating"
          /\ updater' = "rolling_back"
       \/ Conclude("failed")
    /\ UNCHANGED <<request, processing, handler, seen, backups, image, raced, broken>>

RollBack ==
    /\ updater = "rolling_back"
    /\ StartImage("old")
    /\ updater' = "restoring"
    /\ UNCHANGED <<status, request, processing, seen, backups, raced, broken>>

\* Healthy again or not, the upgrade has failed.
Restored ==
    /\ updater \in {"rolling_back", "restoring"}
    /\ Conclude("failed")
    /\ UNCHANGED <<request, processing, handler, seen, backups, image, raced, broken>>

RemoveProcessing ==
    /\ updater = "concluded"
    /\ processing' = None
    /\ updater' = "watching"
    /\ UNCHANGED <<status, request, handler, seen, backups, image, raced, broken>>

\* The updater's container restarts; what it was processing stays where it is.
UpdaterCrash ==
    /\ updater # "watching"
    /\ updater' = "watching"
    /\ broken' = TRUE
    /\ UNCHANGED <<status, request, processing, handler, seen, backups, image, raced>>

-----------------------------------------------------------------------------
HandlerStep(r) ==
    \/ WriteBackingUp(r)
    \/ BackupCompletes(r) \/ BackupFails(r)
    \/ WriteQueued(r) \/ WriteRequest(r) \/ WriteFails(r)

UpdaterStep ==
    \/ TakeRequest \/ WriteUpdating
    \/ NothingToReplace \/ ReplaceServer
    \/ Healthy \/ Unhealthy \/ RollBack \/ Restored
    \/ RemoveProcessing

Next ==
    \/ \E r \in Requests : ReadStatus(r) \/ HandlerStep(r)
    \/ UpdaterStep
    \/ ServerCrash \/ UpdaterCrash

Spec == Init /\ [][Next]_vars

\* Each call goes on to its answer (the backup has its time limit), and the
\* updater's loop and its wait for health end.
FairSpec == Spec /\ (\A r \in Requests : WF_vars(HandlerStep(r))) /\ WF_vars(UpdaterStep)

-----------------------------------------------------------------------------
(* Properties *)

\* Every variable has its type.
TypeOK ==
    /\ status \in Status
    /\ request \in Requests \cup {None}
    /\ processing \in Requests \cup {None}
    /\ handler \in [Requests -> {"new", "checked", "backing_up", "backed_up", "queued", "answered"}]
    /\ seen \in [Requests -> Status]
    /\ backups \subseteq Requests
    /\ updater \in {"watching", "taken", "updating", "starting", "rolling_back", "restoring", "concluded"}
    /\ image \in {"old", "new"}
    /\ raced \in BOOLEAN /\ broken \in BOOLEAN

\* CHANGELOG.md:1448: no image is taken without a backup.  Whatever the updater
\* may take, or has taken, was asked for by a call whose own backup is complete,
\* even when two administrators ask at once or a process stops.
BackupFirst ==
    /\ request # None => request \in backups
    /\ processing # None => processing \in backups
    /\ image = "new" => backups # {}

\* An upgrade that waits or runs shows in the status, so that nobody starts
\* another one; unless two calls had read the same status, or something broke.
UpgradeShown ==
    ~raced /\ ~broken /\ (request # None \/ updater \notin {"watching", "concluded"}) => status \in {"queued", "updating"}

\* The status does not stay in progress for ever, which would refuse every
\* further upgrade (upgrade.go:96); unless something broke.
StatusSettles == status \in {"backing_up", "queued", "updating"} ~> (status \in {"success", "failed"} \/ broken)
=============================================================================
