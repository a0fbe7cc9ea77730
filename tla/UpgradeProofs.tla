---------------------------- MODULE UpgradeProofs ----------------------------
(***************************************************************************)
(* The online upgrade for any number of calls: the types, that no image is *)
(* taken without a backup (BackupFirst), and that an upgrade which waits   *)
(* or runs shows in the status (UpgradeShown).                             *)
(***************************************************************************)
EXTENDS Upgrade, TLAPS

USE DEF Status, InProgress

\* Every variable has its type, whichever handler or updater step runs.
THEOREM TypeInvariant == Spec => []TypeOK
<1>1. Init => TypeOK
  BY DEF Init, TypeOK
<1>2. TypeOK /\ [Next]_vars => TypeOK'
  <2> SUFFICES ASSUME TypeOK, [Next]_vars
               PROVE  TypeOK'
    OBVIOUS
  <2>1. ASSUME NEW r \in Requests, ReadStatus(r) \/ HandlerStep(r)
        PROVE  TypeOK'
    <3>1. CASE ReadStatus(r)
      BY <3>1 DEF ReadStatus, Goto, TypeOK
    <3>2. CASE WriteBackingUp(r)
      BY <3>2 DEF WriteBackingUp, Goto, TypeOK
    <3>3. CASE BackupCompletes(r) \/ WriteQueued(r) \/ WriteRequest(r)
      BY <3>3 DEF BackupCompletes, WriteQueued, WriteRequest, Goto, TypeOK
    <3>4. CASE BackupFails(r) \/ WriteFails(r)
      BY <3>4 DEF BackupFails, WriteFails, GiveUp, Goto, TypeOK
    <3>5. QED
      BY <2>1, <3>1, <3>2, <3>3, <3>4 DEF HandlerStep
  <2>2. CASE UpdaterStep
    BY <2>2 DEF UpdaterStep, TakeRequest, WriteUpdating, NothingToReplace, ReplaceServer, Healthy, Unhealthy, RollBack,
                Restored, RemoveProcessing, Conclude, StartImage, Ended, TypeOK
  <2>3. CASE ServerCrash \/ UpdaterCrash
    BY <2>3 DEF ServerCrash, UpdaterCrash, Ended, TypeOK
  <2>4. CASE UNCHANGED vars
    BY <2>4 DEF vars, TypeOK
  <2>5. QED
    BY <2>1, <2>2, <2>3, <2>4 DEF Next
<1>3. QED
  BY <1>1, <1>2, PTL DEF Spec

-----------------------------------------------------------------------------
(* Backups.  A call that has its backup behind it has a complete one, and  *)
(* the updater leaves its watch only with such a call's request.           *)

BackupInv ==
    /\ BackupFirst
    /\ \A r \in Requests : handler[r] \in {"backed_up", "queued"} => r \in backups
    /\ updater # "watching" => backups # {}

\* No image is taken without a backup: what the updater may take was asked for
\* by a call whose own backup is complete, whatever crashes and whoever else asks.
THEOREM BackupsComeFirst == Spec => []BackupFirst
<1>1. Init => BackupInv
  BY DEF Init, BackupInv, BackupFirst
<1>2. TypeOK /\ BackupInv /\ [Next]_vars => BackupInv'
  <2> SUFFICES ASSUME TypeOK, BackupInv, [Next]_vars
               PROVE  BackupInv'
    OBVIOUS
  <2>1. ASSUME NEW r \in Requests, ReadStatus(r) \/ HandlerStep(r)
        PROVE  BackupInv'
    <3>1. /\ backups \subseteq backups'
          /\ UNCHANGED <<processing, updater, image>>
          /\ request' = request \/ (request' = r /\ r \in backups)
      BY <2>1 DEF BackupInv, HandlerStep, ReadStatus, WriteBackingUp, BackupCompletes, BackupFails, WriteQueued,
                  WriteRequest, WriteFails
    <3>2. PICK phase : /\ handler' = [handler EXCEPT ![r] = phase]
                       /\ phase \in {"backed_up", "queued"} => r \in backups'
      BY <2>1 DEF BackupInv, HandlerStep, ReadStatus, WriteBackingUp, BackupCompletes, BackupFails, WriteQueued,
                  WriteRequest, WriteFails, GiveUp, Goto
    <3>3. \A q \in Requests : handler'[q] \in {"backed_up", "queued"} => q \in backups'
      BY <3>1, <3>2 DEF BackupInv, TypeOK
    <3>4. QED
      BY <3>1, <3>3 DEF BackupInv, BackupFirst
  <2>2. CASE UpdaterStep
    BY <2>2, NoneAssumption
       DEF UpdaterStep, TakeRequest, WriteUpdating, NothingToReplace, ReplaceServer, Healthy, Unhealthy, RollBack,
           Restored, RemoveProcessing, Conclude, StartImage, Ended, BackupInv, BackupFirst, TypeOK
  <2>3. CASE ServerCrash \/ UpdaterCrash
    BY <2>3 DEF ServerCrash, UpdaterCrash, Ended, BackupInv, BackupFirst
  <2>4. CASE UNCHANGED vars
    BY <2>4 DEF vars, BackupInv, BackupFirst
  <2>5. QED
    BY <2>1, <2>2, <2>3, <2>4 DEF Next
<1>3. BackupInv => BackupFirst
  BY DEF BackupInv
<1>4. QED
  BY <1>1, <1>2, <1>3, TypeInvariant, PTL DEF Spec

-----------------------------------------------------------------------------
(* The status.  Unless two calls raced or something broke, at most one     *)
(* call is active, or its request waits, or the updater is at it; and the  *)
(* status tells which.                                                     *)

Active(r) == handler[r] \in {"backing_up", "backed_up", "queued"}
NoneActive == \A r \in Requests : ~Active(r)
OnlyActive(r, phases) == handler[r] \in phases /\ \A q \in Requests : q # r => ~Active(q)
AtRest == updater \in {"watching", "concluded"}
Quiet == request = None /\ AtRest

Shown ==
    \/ status \notin InProgress /\ Quiet /\ NoneActive
    \/ status = "backing_up" /\ Quiet /\ \E r \in Requests : OnlyActive(r, {"backing_up", "backed_up"})
    \/ status = "queued" /\ Quiet /\ \E r \in Requests : OnlyActive(r, {"queued"})
    \/ status = "queued" /\ NoneActive /\ request # None /\ AtRest
    \/ status = "queued" /\ NoneActive /\ request = None /\ updater = "taken"
    \/ /\ status = "updating" /\ NoneActive /\ request = None
       /\ updater \in {"updating", "starting", "rolling_back", "restoring"}

ShownInv ==
    /\ \A r \in Requests : handler[r] = "checked" => seen[r] \notin InProgress
    /\ raced \/ broken \/ Shown

\* A call's step keeps the status true.
LEMMA HandlerShows ==
    ASSUME TypeOK, ShownInv, NEW r \in Requests, ReadStatus(r) \/ HandlerStep(r), ~raced', ~broken'
    PROVE  Shown'
<1>0. ~raced /\ ~broken
  BY DEF ReadStatus, HandlerStep, WriteBackingUp, BackupCompletes, BackupFails, WriteQueued, WriteRequest, WriteFails,
         GiveUp, TypeOK
<1>1. Shown
  BY <1>0 DEF ShownInv
<1>2. \A q \in Requests : q # r => handler'[q] = handler[q]
  BY DEF ReadStatus, HandlerStep, WriteBackingUp, BackupCompletes, BackupFails, WriteQueued, WriteRequest, WriteFails,
         GiveUp, Goto, TypeOK
<1>3. CASE ReadStatus(r)
  <2>1. ~Active(r) /\ ~Active(r)' /\ UNCHANGED <<status, request, updater>>
    BY <1>3 DEF ReadStatus, Goto, Active, TypeOK
  <2>2. QED
    BY <1>1, <1>2, <2>1 DEF Shown, Quiet, AtRest, NoneActive, OnlyActive, Active
<1>4. CASE WriteBackingUp(r)
  <2>1. status \notin InProgress /\ Quiet /\ NoneActive
    BY <1>1, <1>4 DEF WriteBackingUp, ShownInv, Shown
  <2>2. OnlyActive(r, {"backing_up", "backed_up"})'
    BY <1>2, <1>4, <2>1 DEF WriteBackingUp, Goto, NoneActive, OnlyActive, Active, TypeOK
  <2>3. QED
    BY <1>4, <2>1, <2>2 DEF WriteBackingUp, Shown, Quiet, AtRest
<1>5. CASE BackupCompletes(r)
  <2>1. status = "backing_up" /\ Quiet /\ OnlyActive(r, {"backing_up", "backed_up"})
    BY <1>1, <1>5 DEF BackupCompletes, Shown, NoneActive, OnlyActive, Active
  <2>2. OnlyActive(r, {"backing_up", "backed_up"})'
    BY <1>2, <1>5, <2>1 DEF BackupCompletes, Goto, OnlyActive, Active, TypeOK
  <2>3. QED
    BY <1>5, <2>1, <2>2 DEF BackupCompletes, Shown, Quiet, AtRest
<1>6. CASE WriteQueued(r)
  <2>1. Quiet /\ OnlyActive(r, {"backing_up", "backed_up"})
    BY <1>1, <1>6 DEF WriteQueued, Shown, NoneActive, OnlyActive, Active
  <2>2. OnlyActive(r, {"queued"})'
    BY <1>2, <1>6, <2>1 DEF WriteQueued, Goto, OnlyActive, Active, TypeOK
  <2>3. QED
    BY <1>6, <2>1, <2>2 DEF WriteQueued, Shown, Quiet, AtRest
<1>7. CASE WriteRequest(r)
  <2>1. status = "queued" /\ Quiet /\ OnlyActive(r, {"queued"})
    BY <1>1, <1>7 DEF WriteRequest, Shown, NoneActive, OnlyActive, Active
  <2>2. NoneActive' /\ request' # None
    BY <1>2, <1>7, <2>1, NoneAssumption DEF WriteRequest, Goto, NoneActive, OnlyActive, Active, TypeOK
  <2>3. QED
    BY <1>7, <2>1, <2>2 DEF WriteRequest, Shown, Quiet, AtRest
<1>8. CASE WriteFails(r) /\ handler[r] = "checked"
  <2>1. ~Active(r) /\ ~Active(r)' /\ UNCHANGED <<status, request, updater>>
    BY <1>8 DEF WriteFails, Goto, Active, TypeOK
  <2>2. QED
    BY <1>1, <1>2, <2>1 DEF Shown, Quiet, AtRest, NoneActive, OnlyActive, Active
<1>9. CASE BackupFails(r) \/ (WriteFails(r) /\ handler[r] # "checked")
  <2>1. GiveUp(r) /\ Active(r) /\ UNCHANGED <<request, updater>>
    BY <1>9 DEF BackupFails, WriteFails, Active
  <2>2. Quiet /\ \A q \in Requests : q # r => ~Active(q)
    BY <1>1, <2>1 DEF Shown, NoneActive, OnlyActive, Active
  <2>3. status' = "failed" /\ NoneActive'
    BY <1>2, <2>1, <2>2 DEF GiveUp, Goto, NoneActive, Active, TypeOK
  <2>4. QED
    BY <2>1, <2>2, <2>3 DEF Shown, Quiet, AtRest
<1>10. QED
  BY <1>3, <1>4, <1>5, <1>6, <1>7, <1>8, <1>9 DEF HandlerStep

\* So does the updater's.
LEMMA UpdaterShows ==
    ASSUME TypeOK, Shown, UpdaterStep
    PROVE  Shown'
<1>1. CASE ReplaceServer \/ RollBack
  <2>1. handler' = Ended /\ updater \in {"updating", "rolling_back"} /\ UNCHANGED <<status, request>>
        /\ updater' \in {"starting", "restoring"}
    BY <1>1 DEF ReplaceServer, RollBack, StartImage
  <2>2. NoneActive'
    BY <2>1 DEF Ended, NoneActive, Active
  <2>3. QED
    BY <2>1, <2>2 DEF Shown, Quiet, AtRest
<1>2. CASE ~(ReplaceServer \/ RollBack)
  <2>1. handler' = handler
    BY <1>2 DEF UpdaterStep, TakeRequest, WriteUpdating, NothingToReplace, Healthy, Unhealthy, Restored, RemoveProcessing
  <2>2. (NoneActive => NoneActive') /\ \A r \in Requests : \A phases : OnlyActive(r, phases) => OnlyActive(r, phases)'
    BY <2>1 DEF NoneActive, OnlyActive, Active
  <2>3. CASE TakeRequest
    <3>1. status = "queued" /\ NoneActive
      BY <2>3 DEF TakeRequest, Shown, Quiet
    <3>2. QED
      BY <2>2, <2>3, <3>1 DEF TakeRequest, Shown
  <2>4. CASE WriteUpdating
    BY <2>2, <2>4 DEF WriteUpdating, Shown, Quiet, AtRest
  <2>5. CASE NothingToReplace \/ Healthy \/ Restored
    BY <2>2, <2>5 DEF NothingToReplace, Healthy, Restored, Conclude, Shown, Quiet, AtRest
  <2>6. CASE Unhealthy
    BY <2>2, <2>6 DEF Unhealthy, Conclude, Shown, Quiet, AtRest
  <2>7. CASE RemoveProcessing
    <3>1. AtRest /\ AtRest' /\ UNCHANGED <<status, request>>
      BY <2>7 DEF RemoveProcessing, AtRest
    <3>2. QED
      BY <2>2, <2>7, <3>1 DEF RemoveProcessing, Shown, Quiet
  <2>8. QED
    BY <1>2, <2>3, <2>4, <2>5, <2>6, <2>7 DEF UpdaterStep
<1>3. QED
  BY <1>1, <1>2

\* An upgrade that waits or runs shows in the status, so that nobody starts
\* another one, unless two calls had read the same status or something broke.
THEOREM UpgradesShown == Spec => []UpgradeShown
<1>1. Init => ShownInv
  BY DEF Init, ShownInv, Shown, Quiet, AtRest, NoneActive, Active
<1>2. TypeOK /\ ShownInv /\ [Next]_vars => ShownInv'
  <2> SUFFICES ASSUME TypeOK, ShownInv, [Next]_vars
               PROVE  ShownInv'
    OBVIOUS
  <2>1. ASSUME NEW r \in Requests, ReadStatus(r) \/ HandlerStep(r)
        PROVE  ShownInv'
    <3>1. \A q \in Requests : handler'[q] = "checked" => seen'[q] \notin InProgress
      <4>1. CASE ReadStatus(r)
        BY <4>1 DEF ReadStatus, Goto, ShownInv, TypeOK
      <4>2. CASE HandlerStep(r)
        <5>1. seen' = seen /\ \A q \in Requests : handler'[q] = "checked" => handler[q] = "checked"
          BY <4>2 DEF HandlerStep, WriteBackingUp, BackupCompletes, BackupFails, WriteQueued, WriteRequest, WriteFails,
                      GiveUp, Goto, TypeOK
        <5>2. QED
          BY <5>1 DEF ShownInv
      <4>3. QED
        BY <2>1, <4>1, <4>2
    <3>2. ~raced' /\ ~broken' => Shown'
      BY <2>1, HandlerShows
    <3>3. QED
      BY <3>1, <3>2 DEF ShownInv
  <2>2. CASE UpdaterStep
    <3>1. /\ UNCHANGED <<seen, raced, broken>>
          /\ handler' = handler \/ handler' = Ended
      BY <2>2 DEF UpdaterStep, TakeRequest, WriteUpdating, NothingToReplace, ReplaceServer, Healthy, Unhealthy, RollBack,
                  Restored, RemoveProcessing, StartImage
    <3>2. Shown => Shown'
      BY <2>2, UpdaterShows
    <3>3. QED
      BY <3>1, <3>2 DEF ShownInv, Ended
  <2>3. CASE ServerCrash \/ UpdaterCrash
    BY <2>3 DEF ServerCrash, UpdaterCrash, Ended, ShownInv
  <2>4. CASE UNCHANGED vars
    BY <2>4 DEF vars, ShownInv, Shown, Quiet, AtRest, NoneActive, OnlyActive, Active
  <2>5. QED
    BY <2>1, <2>2, <2>3, <2>4 DEF Next
<1>3. ShownInv => UpgradeShown
  BY DEF ShownInv, Shown, UpgradeShown, Quiet, AtRest
<1>4. QED
  BY <1>1, <1>2, <1>3, TypeInvariant, PTL DEF Spec
=============================================================================
