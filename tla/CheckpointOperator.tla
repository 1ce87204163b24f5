------------------------- MODULE CheckpointOperator -------------------------
(***************************************************************************)
(* operator/controllers/checkpoint_controller.go, the reconciler of        *)
(* Checkpoint resources, and operator/internal/savepoint/manager.go, a     *)
(* client that creates savepoints, waits for them and restores from them.  *)
(* As in StreamJobOperator every call of the API server is a step, reads   *)
(* come from a cache that lags behind (and lists in no order), and a write *)
(* based on an outdated copy is refused.  A tick is a little more than the *)
(* ten seconds after which a checkpoint counts as done; the deletion of    *)
(* the job is external.                                                    *)
(***************************************************************************)
EXTENDS Naturals, FiniteSets, FiniteSetsExt

CONSTANTS Checkpoints,     \* names of the Checkpoint resources, all of one job
          MaxCount,        \* RetentionPolicy.MaxCount
          MaxAge,          \* RetentionPolicy.MaxAge in full ticks; beyond MaxClock, none
          RetainOnFailure, \* RetentionPolicy.RetainOnJobFailure
          WaitTimeout,     \* the deadline of WaitForSavepointCompletion
          MaxClock         \* bound: the last tick

ASSUME CheckpointOperatorAssumption ==
    /\ IsFiniteSet(Checkpoints)
    /\ MaxCount \in Nat /\ MaxAge \in Nat /\ WaitTimeout \in Nat /\ MaxClock \in Nat
    /\ RetainOnFailure \in BOOLEAN

VARIABLES
    cps,        \* the resources in the API server
    seen,       \* the cache
    jobExists,
    self, held, \* the resource that is reconciled and the copy Reconcile works on
    cpAt,       \* the call it makes next
    namesUsed,  \* the names given so far
    triggers,   \* history: how often triggerCheckpoint ran for each resource
    waiting,    \* WaitForSavepointCompletion: the resource and the deadline
    savepointPath, \* the savepoint StreamJob.Spec.SavepointPath names
    clock

cpVars == <<cps, seen, jobExists, self, held, cpAt, triggers, namesUsed, waiting, savepointPath, clock>>
cpOther == <<jobExists, namesUsed, waiting, savepointPath, clock>>

None == "none"
Never == MaxClock + MaxAge + 1
NewPhase == ""   \* the status has not been written yet
NoCp == [exists |-> FALSE, finalizer |-> FALSE, deleting |-> FALSE, phase |-> NewPhase,
         start |-> Never, completion |-> Never, expiry |-> Never]

CpInit ==
    /\ cps = [c \in Checkpoints |-> NoCp]
    /\ seen = cps
    /\ jobExists = TRUE
    /\ self = None
    /\ held = NoCp
    /\ cpAt = "idle"
    /\ namesUsed = {}
    /\ triggers = [c \in Checkpoints |-> 0]
    /\ waiting = [for |-> None, until |-> 0]
    /\ savepointPath = None
    /\ clock = 0

-----------------------------------------------------------------------------
(* The reconciler.                                                         *)

CpReturn == cpAt' = "idle" /\ held' = NoCp /\ self' = None

\* Update and Status().Update: refused on an outdated copy.
UpdateCp(new, next) ==
    LET accepted == held = cps[self] IN
    /\ cps' = IF accepted THEN [cps EXCEPT ![self] = new] ELSE cps
    /\ IF accepted /\ next # "idle" THEN held' = new /\ cpAt' = next /\ UNCHANGED self
       ELSE CpReturn

\* r.Delete: with a finalizer the resource is marked, without it is gone.
Deleted(o) == IF o.finalizer THEN [o EXCEPT !.deleting = TRUE] ELSE NoCp

isExpired(o) == clock > o.expiry

\* The faulty form that starts a checkpoint again while it is in progress.
CpBeginAgain(o) ==
    IF o.deleting THEN "delete"
    ELSE IF ~o.finalizer THEN "finalizer"
    ELSE IF o.phase = NewPhase THEN "start"
    ELSE IF isExpired(o) THEN "expire"
    ELSE IF o.phase = "InProgress" THEN "Pending" ELSE o.phase

CpBegin(o) ==
    IF o.deleting THEN "delete"
    ELSE IF ~o.finalizer THEN "finalizer"
    ELSE IF o.phase = NewPhase THEN "start"
    ELSE IF isExpired(o) THEN "expire"
    ELSE o.phase

GetCp(c) ==
    /\ cpAt = "idle"
    /\ seen[c].exists
    /\ self' = c
    /\ held' = seen[c]
    /\ cpAt' = CpBegin(seen[c])
    /\ UNCHANGED <<cps, seen, triggers, cpOther>>

AddCpFinalizer ==
    /\ cpAt = "finalizer"
    /\ UpdateCp([held EXCEPT !.finalizer = TRUE], IF held.phase = NewPhase THEN "start" ELSE held.phase)
    /\ UNCHANGED <<seen, triggers, cpOther>>

InitCpStatus ==
    /\ cpAt = "start"
    /\ UpdateCp([held EXCEPT !.phase = "Pending", !.start = clock], "Pending")
    /\ UNCHANGED <<seen, triggers, cpOther>>

\* deleteCheckpointData has no effect; the finalizer goes and with it the resource.
reconcileCpDelete ==
    /\ cpAt = "delete"
    /\ UpdateCp(IF held.finalizer THEN NoCp ELSE held, "idle")
    /\ UNCHANGED <<seen, triggers, cpOther>>

reconcilePending ==
    /\ cpAt = "Pending"
    /\ UpdateCp([held EXCEPT !.phase = IF jobExists THEN "InProgress" ELSE "Failed"],
                IF jobExists THEN "trigger" ELSE "idle")
    /\ UNCHANGED <<seen, triggers, cpOther>>

\* The task list is made in the copy and the copy is dropped.
triggerCheckpoint ==
    /\ cpAt = "trigger"
    /\ triggers' = [triggers EXCEPT ![self] = @ + 1]
    /\ CpReturn
    /\ UNCHANGED <<cps, seen, cpOther>>

checkCheckpointStatus(o) == clock > o.start

\* A checkpoint that is old enough is complete before it is looked at for a
\* timeout, so that isTimedOut is never the reason for a failure.
reconcileInProgress ==
    /\ cpAt = "InProgress"
    /\ IF checkCheckpointStatus(held)
       THEN UpdateCp([held EXCEPT !.phase = "Completed", !.completion = clock,
                                  !.expiry = clock + MaxAge], "idle")
       ELSE CpReturn /\ UNCHANGED cps
    /\ UNCHANGED <<seen, triggers, cpOther>>

\* The resources to delete are the first of a list that has no order; one that is
\* being deleted already still counts.
RemoveExcess(limit) ==
    LET completed == {c \in Checkpoints : seen[c].exists /\ seen[c].phase = "Completed"}
        excess == IF Cardinality(completed) > limit THEN Cardinality(completed) - limit ELSE 0
    IN  \E gone \in kSubset(excess, completed) :
          cps' = [c \in Checkpoints |-> IF c \in gone /\ cps[c].exists THEN Deleted(cps[c]) ELSE cps[c]]

applyRetentionPolicy ==
    /\ cpAt = "Completed"
    /\ IF MaxCount > 0 THEN RemoveExcess(MaxCount) ELSE UNCHANGED cps
    /\ CpReturn
    /\ UNCHANGED <<seen, triggers, cpOther>>

reconcileFailed ==
    /\ cpAt = "Failed"
    /\ cps' = IF RetainOnFailure \/ ~cps[self].exists THEN cps
              ELSE [cps EXCEPT ![self] = Deleted(@)]
    /\ CpReturn
    /\ UNCHANGED <<seen, triggers, cpOther>>

\* Marked first; Delete is a second call.
expireCheckpoint ==
    /\ cpAt = "expire"
    /\ UpdateCp([held EXCEPT !.phase = "Expired"], "remove")
    /\ UNCHANGED <<seen, triggers, cpOther>>

DeleteExpired ==
    /\ cpAt = "remove"
    /\ cps' = [cps EXCEPT ![self] = IF @.exists THEN Deleted(@) ELSE @]
    /\ CpReturn
    /\ UNCHANGED <<seen, triggers, cpOther>>

CpReconcile ==
    \/ \E c \in Checkpoints : GetCp(c)
    \/ AddCpFinalizer \/ InitCpStatus \/ reconcileCpDelete \/ reconcilePending
    \/ triggerCheckpoint \/ reconcileInProgress \/ applyRetentionPolicy \/ reconcileFailed
    \/ expireCheckpoint \/ DeleteExpired

-----------------------------------------------------------------------------
(* The savepoint manager, in another process, used by one client.          *)

\* The name holds the second of the creation: it is not used again.
NewName == CHOOSE c \in Checkpoints : c \notin namesUsed

TriggerSavepoint ==
    /\ waiting.for = None
    /\ namesUsed # Checkpoints
    /\ namesUsed' = namesUsed \cup {NewName}
    /\ cps' = [cps EXCEPT ![NewName] = [NoCp EXCEPT !.exists = TRUE]]
    /\ waiting' = [for |-> NewName, until |-> clock + WaitTimeout]
    /\ UNCHANGED <<seen, jobExists, self, held, cpAt, triggers, savepointPath, clock>>

\* The ticker of WaitForSavepointCompletion: the deadline first, then the status.
WaitForSavepoint ==
    LET o == seen[waiting.for] IN
    /\ waiting.for # None
    /\ \/ clock > waiting.until
       \/ ~o.exists
       \/ o.phase \in {"Completed", "Failed", "Expired"}
    /\ waiting' = [for |-> None, until |-> 0]
    /\ UNCHANGED <<cps, seen, jobExists, self, held, cpAt, triggers, namesUsed, savepointPath, clock>>

\* GetLatestSavepoint: the completed one that completed last.
LatestSavepoint ==
    LET done == {c \in Checkpoints : seen[c].exists /\ seen[c].phase = "Completed"}
    IN  {c \in done : \A d \in done : seen[c].completion >= seen[d].completion}

RestoreFromSavepoint ==
    /\ waiting.for = None
    /\ jobExists
    /\ \E c \in LatestSavepoint : savepointPath' = c
    /\ savepointPath' # savepointPath
    /\ UNCHANGED <<cps, seen, jobExists, self, held, cpAt, triggers, namesUsed, waiting, clock>>

CleanupOldSavepoints ==
    /\ waiting.for = None
    /\ RemoveExcess(MaxCount)
    /\ cps' # cps
    /\ UNCHANGED <<seen, jobExists, self, held, cpAt, triggers, namesUsed, waiting, savepointPath, clock>>

SavepointManager ==
    \/ CleanupOldSavepoints
    \/ TriggerSavepoint
    \/ WaitForSavepoint
    \/ RestoreFromSavepoint

-----------------------------------------------------------------------------
CacheCp(c) ==
    /\ seen[c] # cps[c]
    /\ seen' = [seen EXCEPT ![c] = cps[c]]
    /\ UNCHANGED <<cps, self, held, cpAt, triggers, cpOther>>

JobDeleted ==
    /\ jobExists
    /\ jobExists' = FALSE
    /\ UNCHANGED <<cps, seen, self, held, cpAt, triggers, namesUsed, waiting, savepointPath, clock>>

\* The operator dies between two calls and is started again.
OperatorCrash ==
    /\ cpAt # "idle"
    /\ CpReturn
    /\ UNCHANGED <<cps, seen, triggers, cpOther>>

CpTick ==
    /\ clock < MaxClock
    /\ clock' = clock + 1
    /\ UNCHANGED <<cps, seen, self, held, cpAt, triggers, namesUsed, jobExists, waiting, savepointPath>>

CpNext ==
    \/ CpReconcile \/ SavepointManager
    \/ \E c \in Checkpoints : CacheCp(c)
    \/ JobDeleted \/ OperatorCrash \/ CpTick

CpSpec == CpInit /\ [][CpNext]_cpVars

-----------------------------------------------------------------------------
Rank(phase) ==
    CASE phase = NewPhase -> 0 [] phase = "Pending" -> 1 [] phase = "InProgress" -> 2
      [] phase \in {"Completed", "Failed"} -> 3 [] phase = "Expired" -> 4

(* A checkpoint goes through its phases once and in order, is triggered at most once
   and keeps the time it completed, although the reconciler acts on copies that may be
   out of date and may die between any two calls. *)
PhasesForward ==
    [][\A c \in Checkpoints :
        /\ triggers'[c] <= 1
        /\ cps[c].exists /\ cps'[c].exists =>
            /\ Rank(cps'[c].phase) >= Rank(cps[c].phase)
            /\ cps[c].phase = "Completed" => cps'[c].completion = cps[c].completion]_cpVars

(* "Sort by creation time and delete oldest": the retention never deletes the savepoint
   that completed last. *)
RetentionKeepsNewest ==
    [][\A c \in LatestSavepoint :
         cpAt = "Completed" /\ ~cps[c].deleting /\ ~isExpired(cps[c]) => ~cps'[c].deleting]_cpVars

(* "Checkpoint completed successfully": it was triggered on the pods of the job. *)
CompletedWasTriggered ==
    \A c \in Checkpoints : cps[c].phase = "Completed" => triggers[c] > 0

(* "RestoreFromSavepoint": the savepoint the job is to start from is there. *)
SavepointThere == savepointPath # None => cps[savepointPath].exists
=============================================================================
