-------------------------- MODULE StreamJobOperator -------------------------
(***************************************************************************)
(* operator/controllers/streamjob_controller.go: the reconciler of a       *)
(* StreamJob, the StatefulSet or Deployment and the Service it owns.       *)
(* Every call of the API server is a step of its own.  Reads come from the *)
(* informer caches, which lag behind; a write is refused when the object   *)
(* has changed since the copy it is based on was read (resourceVersion).   *)
(* Copies are compared by content: a copy that equals the object is as     *)
(* good as the newest.  Users, the kubelet and the garbage collector are   *)
(* external.                                                               *)
(***************************************************************************)
EXTENDS Naturals, FiniteSets

CONSTANTS JobSpecs,        \* specs a user may give: image, parallelism, backend
          MaxGeneration,   \* bound: generations of the job's spec
          MaxApiErrors     \* bound: calls of the API server that fail for other reasons

ASSUME StreamJobAssumption ==
    /\ JobSpecs \subseteq [image : STRING, parallelism : Nat \ {0}, backend : {"rocksdb", "memory"}]
    /\ MaxGeneration \in Nat \ {0}
    /\ MaxApiErrors \in Nat

VARIABLES
    job,         \* the StreamJob in the API server
    jobSeen,     \* the reconciler's cache of it
    workloads,   \* the StatefulSet and the Deployment of that name
    workloadsSeen,
    service,     \* the Service exists, and is in the cache
    copy,        \* the StreamJob Reconcile works on
    at,          \* the call Reconcile makes next
    apiErrors

objects == <<job, workloads, service>>
caches == <<jobSeen, workloadsSeen>>
jobVars == <<job, jobSeen, workloads, workloadsSeen, service, copy, at, apiErrors>>

Kinds == {"StatefulSet", "Deployment"}
NoImage == ""
NoPhase == ""    \* the status has not been written yet
NoSpec == [image |-> NoImage, parallelism |-> 0, backend |-> "memory"]
NoJob == [exists |-> FALSE, spec |-> NoSpec, generation |-> 0, finalizer |-> FALSE,
          deleting |-> FALSE, phase |-> NoPhase, observed |-> 0, conditions |-> {}]
NoWorkload == [exists |-> FALSE, replicas |-> 0, image |-> NoImage, ready |-> 0]

\* reconcileWorkload's choice.
KindOf(spec) == IF spec.backend = "rocksdb" THEN "StatefulSet" ELSE "Deployment"

\* The environment, mounts and volumes follow from the spec like the image does.
buildPodSpec(spec) == spec.image
buildStatefulSet(spec) == [exists |-> TRUE, replicas |-> spec.parallelism,
                           image |-> buildPodSpec(spec), ready |-> 0]
buildDeployment(spec) == [exists |-> TRUE, replicas |-> spec.parallelism,
                          image |-> buildPodSpec(spec), ready |-> 0]
Built(spec) == IF KindOf(spec) = "StatefulSet" THEN buildStatefulSet(spec)
               ELSE buildDeployment(spec)

\* A reconciler that has seen nothing yet.
ReconcilerStarts ==
    /\ jobSeen = NoJob
    /\ workloads = [k \in Kinds |-> NoWorkload]
    /\ workloadsSeen = [k \in Kinds |-> NoWorkload]
    /\ service = [exists |-> FALSE, seen |-> FALSE]
    /\ copy = NoJob
    /\ at = "idle"
    /\ apiErrors = 0

JobInit ==
    /\ \E s \in JobSpecs : job = [NoJob EXCEPT !.exists = TRUE, !.spec = s, !.generation = 1]
    /\ ReconcilerStarts

\* No user has created a job.
NoJobInit == job = NoJob /\ ReconcilerStarts

-----------------------------------------------------------------------------
(* Reconcile.  It is called again after an error, after 30 seconds, and    *)
(* when a watched object changes.                                          *)

Return == at' = "idle" /\ copy' = NoJob

\* A call that fails: the error is returned and the request is queued again.
CallFails ==
    /\ at \notin {"idle", "workload"}
    /\ apiErrors < MaxApiErrors
    /\ apiErrors' = apiErrors + 1
    /\ Return
    /\ UNCHANGED <<objects, caches>>

\* r.Update and r.Status().Update on the StreamJob.
UpdateJob(new, next) ==
    /\ job' = IF copy = job THEN new ELSE job
    /\ IF copy = job /\ next # "idle" THEN copy' = new /\ at' = next ELSE Return
    /\ UNCHANGED <<workloads, service, caches, apiErrors>>

\* The faulty form that leaves the finalizer for a later pass.
FirstStepWithoutFinalizer(c) ==
    IF c.deleting THEN "delete"
    ELSE IF c.phase = NoPhase THEN "start"
    ELSE IF service.seen /\ ~c.finalizer THEN "finalizer"
    ELSE "workload"

FirstStep(c) ==
    IF c.deleting THEN "delete"
    ELSE IF ~c.finalizer THEN "finalizer"
    ELSE IF c.phase = NoPhase THEN "start"
    ELSE "workload"

GetJob ==
    /\ at = "idle"
    /\ jobSeen.exists
    /\ copy' = jobSeen
    /\ at' = FirstStep(jobSeen)
    /\ UNCHANGED <<objects, caches, apiErrors>>

AddFinalizer ==
    /\ at = "finalizer"
    /\ UpdateJob([copy EXCEPT !.finalizer = TRUE], IF copy.phase = NoPhase THEN "start" ELSE "workload")

InitStatus ==
    /\ at = "start"
    /\ UpdateJob([copy EXCEPT !.phase = "Pending"], "workload")

\* The finalizer was the last thing that kept the object.  The savepoint and the
\* clean-up before it are calls without an effect.
reconcileDelete ==
    /\ at = "delete"
    /\ UpdateJob(IF copy.finalizer THEN NoJob ELSE copy, "idle")

\* The faulty form that only looks at the replicas.
shouldUpdateReplicas(spec, w) == w.replicas # spec.parallelism

shouldUpdate(spec, w) == w.replicas # spec.parallelism \/ w.image # spec.image

\* Create fails when the cache has not seen the object yet, Update when the
\* cached copy is not the object.
reconcileWorkload ==
    LET k == KindOf(copy.spec)
        w == workloadsSeen[k]
        build == [Built(copy.spec) EXCEPT !.ready = w.ready]
        due == ~w.exists \/ shouldUpdate(copy.spec, w)
    IN  /\ at = "workload"
        /\ UNCHANGED <<job, service, caches, copy>>
        /\ \/ /\ ~due
              /\ at' = "service"
              /\ UNCHANGED <<workloads, apiErrors>>
           \/ /\ due
              /\ w = workloads[k]
              /\ workloads' = [workloads EXCEPT ![k] = build]
              /\ at' = "service"
              /\ UNCHANGED apiErrors
           \/ /\ due
              /\ w # workloads[k]
              /\ at' = "degraded"
              /\ UNCHANGED <<workloads, apiErrors>>
           \/ /\ apiErrors < MaxApiErrors
              /\ apiErrors' = apiErrors + 1
              /\ at' = "degraded"
              /\ UNCHANGED workloads

\* The condition is written if it can be; the error is returned anyway.
MarkDegraded ==
    /\ at = "degraded"
    /\ job' = IF copy = job THEN [job EXCEPT !.conditions = @ \cup {"Degraded"}] ELSE job
    /\ Return
    /\ UNCHANGED <<workloads, service, caches, apiErrors>>

reconcileService ==
    /\ at = "service"
    /\ \/ service.seen /\ at' = "status" /\ UNCHANGED <<service, copy>>
       \/ ~service.seen /\ ~service.exists /\ at' = "status"
          /\ service' = [service EXCEPT !.exists = TRUE] /\ UNCHANGED copy
       \/ ~service.seen /\ service.exists /\ Return /\ UNCHANGED service
    /\ UNCHANGED <<job, workloads, caches, apiErrors>>

PhaseOf(spec, w) == IF w.ready > 0 THEN "Running" ELSE "Pending"
ConditionOf(spec, w) == IF w.ready = spec.parallelism THEN "Ready" ELSE "Progressing"

StatusOf(c, w) ==
    [c EXCEPT !.phase = PhaseOf(c.spec, w), !.observed = c.generation,
              !.conditions = @ \cup {ConditionOf(c.spec, w)}]

\* A workload that the cache has not seen yet is an error.
updateStatus ==
    LET w == workloadsSeen[KindOf(copy.spec)] IN
    /\ at = "status"
    /\ UpdateJob(IF w.exists THEN StatusOf(copy, w) ELSE copy, "idle")

\* The steps after the service (ConfigMap, PVCs, autoscaler, checkpoints) are
\* functions without an effect.
Reconcile ==
    \/ GetJob \/ AddFinalizer \/ InitStatus \/ reconcileDelete \/ reconcileWorkload
    \/ MarkDegraded \/ reconcileService \/ updateStatus

-----------------------------------------------------------------------------
(* Users and the cluster.                                                  *)

ChangeSpec ==
    /\ job.exists /\ ~job.deleting
    /\ job.generation < MaxGeneration
    /\ \E s \in JobSpecs \ {job.spec} :
        job' = [job EXCEPT !.spec = s, !.generation = @ + 1]
    /\ UNCHANGED <<jobSeen, workloads, workloadsSeen, service, copy, at, apiErrors>>

DeleteJob ==
    /\ job.exists /\ ~job.deleting
    /\ job' = IF job.finalizer THEN [job EXCEPT !.deleting = TRUE] ELSE NoJob
    /\ UNCHANGED <<jobSeen, workloads, workloadsSeen, service, copy, at, apiErrors>>

CacheJob ==
    /\ jobSeen # job
    /\ jobSeen' = job
    /\ UNCHANGED <<objects, workloadsSeen, copy, at, apiErrors>>

CacheWorkload(k) ==
    /\ workloadsSeen[k] # workloads[k]
    /\ workloadsSeen' = [workloadsSeen EXCEPT ![k] = workloads[k]]
    /\ UNCHANGED <<objects, jobSeen, copy, at, apiErrors>>

CacheService ==
    /\ service.seen # service.exists
    /\ service' = [service EXCEPT !.seen = service.exists]
    /\ UNCHANGED <<job, workloads, caches, copy, at, apiErrors>>

\* Pods come and, after a reduction, go.
Pods(k) ==
    LET w == workloads[k] IN
    /\ w.exists /\ w.ready # w.replicas
    /\ workloads' = [workloads EXCEPT ![k].ready = IF @ < w.replicas THEN @ + 1 ELSE @ - 1]
    /\ UNCHANGED <<job, service, caches, copy, at, apiErrors>>

GarbageCollect(k) ==
    /\ ~job.exists /\ workloads[k].exists
    /\ workloads' = [workloads EXCEPT ![k] = NoWorkload]
    /\ UNCHANGED <<job, service, caches, copy, at, apiErrors>>

JobCluster ==
    \/ CacheJob \/ CacheService
    \/ \E k \in Kinds : CacheWorkload(k) \/ Pods(k) \/ GarbageCollect(k)

JobNext == Reconcile \/ CallFails \/ ChangeSpec \/ DeleteJob \/ JobCluster

\* The controller is called again and again, the caches follow, the pods start.
JobFairness ==
    /\ WF_jobVars(Reconcile)
    /\ WF_jobVars(CacheJob)
    /\ WF_jobVars(CacheService)
    /\ \A k \in Kinds : WF_jobVars(CacheWorkload(k)) /\ WF_jobVars(Pods(k))
    /\ \A k \in Kinds : WF_jobVars(GarbageCollect(k))

JobSpec == JobInit /\ [][JobNext]_jobVars /\ JobFairness

-----------------------------------------------------------------------------
Jobs == [exists : BOOLEAN, spec : JobSpecs \cup {NoSpec}, generation : Nat,
         finalizer : BOOLEAN, deleting : BOOLEAN, phase : {NoPhase, "Pending", "Running"},
         observed : Nat, conditions : SUBSET {"Degraded", "Ready", "Progressing"}]
Images == {s.image : s \in JobSpecs \cup {NoSpec}}
Workloads == [exists : BOOLEAN, replicas : Nat, image : Images, ready : Nat]

(* Type invariant: the objects in the API server, the caches and the copy in hand. *)
JobTypeOK ==
    /\ {job, jobSeen, copy} \subseteq Jobs
    /\ workloads \in [Kinds -> Workloads]
    /\ workloadsSeen \in [Kinds -> Workloads]
    /\ service \in [exists : BOOLEAN, seen : BOOLEAN]
    /\ at \in {"idle", "delete", "finalizer", "start", "workload", "degraded", "service", "status"}
    /\ apiErrors \in 0..MaxApiErrors

(* Whatever is changed, refused or seen late, in the end the job is gone or its
   workload runs the image and the number of replicas of its last spec, and its status
   says so. *)
JobConverges ==
    <>[](\/ ~job.exists
         \/ LET w == workloads[KindOf(job.spec)] IN
            /\ w.replicas = job.spec.parallelism /\ w.image = job.spec.image
            /\ job.phase = "Running" /\ job.observed = job.generation
            /\ "Ready" \in job.conditions)

(* A workload is only created while its job exists: the finalizer, added first, keeps
   the job until no pass that works on an older copy can create anything. *)
NoOrphan ==
    [][\A k \in Kinds : workloads'[k].exists /\ ~workloads[k].exists => job.exists]_jobVars

(* "Running": a job whose status has observed its last generation and says Running has
   a workload with that generation's image. *)
ObservedMeansApplied ==
    job.exists /\ job.observed = job.generation =>
        workloads[KindOf(job.spec)].image = job.spec.image

(* One job, one workload: only the kind that the state backend asks for is there when
   the status has observed the spec. *)
OneWorkload ==
    job.exists /\ job.observed = job.generation =>
        \A k \in Kinds : workloads[k].exists => k = KindOf(job.spec)
=============================================================================
