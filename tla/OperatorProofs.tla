---------------------------- MODULE OperatorProofs ----------------------------
(***************************************************************************)
(* The controllers of the Kubernetes operator, for every set of specs and  *)
(* checkpoints and for every bound: what a pass that works on an outdated  *)
(* copy may not do to a StreamJob, a StreamCluster or a Checkpoint.        *)
(*                                                                         *)
(* Then the checkpoints of the engine themselves: a recovered pipeline has *)
(* lost no effect and is not behind a completed checkpoint, for any number *)
(* of events, checkpoints, crashes and failed calls, with and without a    *)
(* backend.  NoEffectLost is about the running process only.  What carries *)
(* it over a crash is that the offsets of a checkpoint, while it is        *)
(* collected and when it is a file, are never ahead of the provider's      *)
(* state in it: CreateCheckpoint is given the offsets before it asks for   *)
(* the state.                                                              *)
(***************************************************************************)
EXTENDS StreamJobOperator, StreamClusterOperator, CheckpointOperator, CheckpointManager,
        WellFoundedInduction, TLAPS

-----------------------------------------------------------------------------
(* The controllers.                                                        *)

\* A pass works on a copy of a job that existed.
CopyExists == at # "idle" => copy.exists

\* While a pass may create the workload, the finalizer keeps the job.
CreatorsKeepJob == at \in {"start", "workload"} => job.exists /\ job.finalizer

\* A job that the cache shows with its finalizer and not being deleted is still there.
CacheOfLiveJob ==
    jobSeen.exists /\ jobSeen.finalizer /\ ~jobSeen.deleting => job.exists /\ job.finalizer

\* A deletion, once seen, is never taken back.
DeletionLasts == jobSeen.exists /\ jobSeen.deleting => job.deleting \/ ~job.exists

\* The pass that removes the finalizer knows that the cache has seen the deletion.
DeletionSeen ==
    at = "delete" => /\ job.deleting \/ ~job.exists
                     /\ jobSeen.deleting \/ ~jobSeen.exists

\* The inductive invariant of the StreamJob controller.
JobInv ==
    JobTypeOK /\ CopyExists /\ CreatorsKeepJob /\ CacheOfLiveJob /\ DeletionLasts /\ DeletionSeen

-----------------------------------------------------------------------------
\* The absent job and the absent workload have the types of the others.
LEMMA NothingTyped == NoJob \in Jobs /\ NoWorkload \in Workloads
<1>1. NoJob \in Jobs
    BY DEF NoJob, Jobs
<1>2. NoSpec.image = NoImage
    BY DEF NoSpec
<1>3. NoImage \in Images
    BY <1>2 DEF Images
<1>4. NoWorkload \in Workloads
    BY <1>3 DEF NoWorkload, Workloads
<1> QED BY <1>1, <1>4

\* The reconciler starts with a new job and empty caches.
LEMMA JobInitially == JobInit => JobInv
<1> SUFFICES ASSUME JobInit PROVE JobInv
    OBVIOUS
<1>1. NoJob \in Jobs /\ NoWorkload \in Workloads
    BY NothingTyped
<1>2. PICK s \in JobSpecs : job = [NoJob EXCEPT !.exists = TRUE, !.spec = s, !.generation = 1]
    BY DEF JobInit
<1>3. job = [exists |-> TRUE, spec |-> s, generation |-> 1, finalizer |-> FALSE,
             deleting |-> FALSE, phase |-> NoPhase, observed |-> 0, conditions |-> {}]
    BY <1>2 DEF NoJob
<1>4. job \in Jobs
    BY <1>3 DEF Jobs
<1>5. JobTypeOK
    BY <1>1, <1>4, StreamJobAssumption DEF JobInit, ReconcilerStarts, JobTypeOK
<1>6. CopyExists /\ CreatorsKeepJob /\ CacheOfLiveJob /\ DeletionLasts /\ DeletionSeen
    BY DEF JobInit, ReconcilerStarts, NoJob, CopyExists, CreatorsKeepJob, CacheOfLiveJob,
           DeletionLasts, DeletionSeen
<1> QED BY <1>5, <1>6 DEF JobInv

\* What a write of the job changes, and where the pass goes on.
LEMMA UpdateKeeps ==
    ASSUME JobInv, NEW new \in Jobs, NEW next,
           next \in {"idle", "start", "workload"},
           UpdateJob(new, next),
           at # "idle",
           new.exists,
           new.deleting = copy.deleting,
           copy.finalizer => new.finalizer,
           next # "idle" => new.finalizer
    PROVE  JobInv'
<1>1. /\ copy = job \/ job' = job
      /\ copy = job => job' = new
      /\ \/ at' = next /\ copy' = new /\ copy = job /\ next # "idle"
         \/ at' = "idle" /\ copy' = NoJob
      /\ UNCHANGED <<workloads, service, jobSeen, workloadsSeen, apiErrors>>
    BY DEF UpdateJob, Return, caches
<1>2. NoJob \in Jobs
    BY DEF NoJob, Jobs
<1>3. JobTypeOK'
    BY <1>1, <1>2 DEF JobInv, JobTypeOK
<1>4. job'.exists = job.exists /\ job'.deleting = job.deleting /\ (job.finalizer => job'.finalizer)
    BY <1>1 DEF JobInv, JobTypeOK, Jobs, CopyExists
<1>5. CopyExists' /\ CreatorsKeepJob' /\ CacheOfLiveJob' /\ DeletionLasts' /\ DeletionSeen'
    BY <1>1, <1>4 DEF JobInv, CopyExists, CreatorsKeepJob, CacheOfLiveJob, DeletionLasts, DeletionSeen
<1> QED BY <1>3, <1>5 DEF JobInv

\* A pass that ends, and whatever else leaves the objects and the caches alone.
LEMMA ReturnKeeps ==
    ASSUME JobInv, Return, UNCHANGED <<workloads, jobSeen, workloadsSeen>>,
           service' \in [exists : BOOLEAN, seen : BOOLEAN],
           apiErrors' \in 0..MaxApiErrors, job' \in Jobs,
           job'.exists = job.exists, job'.deleting = job.deleting, job'.finalizer = job.finalizer
    PROVE  JobInv'
<1>1. NoJob \in Jobs
    BY DEF NoJob, Jobs
<1>2. JobTypeOK'
    BY <1>1 DEF JobInv, JobTypeOK, Return
<1>3. CopyExists' /\ CreatorsKeepJob' /\ CacheOfLiveJob' /\ DeletionLasts' /\ DeletionSeen'
    BY DEF JobInv, CopyExists, CreatorsKeepJob, CacheOfLiveJob, DeletionLasts, DeletionSeen, Return
<1> QED BY <1>2, <1>3 DEF JobInv

\* A pass that goes on to a call that creates nothing.
LEMMA GoOnKeeps ==
    ASSUME JobInv, UNCHANGED <<job, jobSeen, workloadsSeen, copy>>, at # "idle",
           at' \in {"degraded", "service", "status"},
           workloads' \in [Kinds -> Workloads],
           service' \in [exists : BOOLEAN, seen : BOOLEAN],
           apiErrors' \in 0..MaxApiErrors
    PROVE  JobInv'
<1>1. JobTypeOK'
    BY DEF JobInv, JobTypeOK
<1>2. CopyExists' /\ CreatorsKeepJob' /\ CacheOfLiveJob' /\ DeletionLasts' /\ DeletionSeen'
    BY DEF JobInv, CopyExists, CreatorsKeepJob, CacheOfLiveJob, DeletionLasts, DeletionSeen
<1> QED BY <1>1, <1>2 DEF JobInv

\* The cluster moves while the pass stays where it is.
LEMMA ClusterKeeps ==
    ASSUME JobInv, UNCHANGED <<job, jobSeen, copy, at, apiErrors>>,
           workloads' \in [Kinds -> Workloads],
           workloadsSeen' \in [Kinds -> Workloads],
           service' \in [exists : BOOLEAN, seen : BOOLEAN]
    PROVE  JobInv'
<1>1. JobTypeOK'
    BY DEF JobInv, JobTypeOK
<1>2. CopyExists' /\ CreatorsKeepJob' /\ CacheOfLiveJob' /\ DeletionLasts' /\ DeletionSeen'
    BY DEF JobInv, CopyExists, CreatorsKeepJob, CacheOfLiveJob, DeletionLasts, DeletionSeen
<1> QED BY <1>1, <1>2 DEF JobInv

\* The workload that a spec asks for.
LEMMA BuiltTyped ==
    ASSUME NEW spec \in JobSpecs \cup {NoSpec}, NEW n \in Nat
    PROVE  /\ KindOf(spec) \in Kinds
           /\ [Built(spec) EXCEPT !.ready = n] \in Workloads
           /\ spec.parallelism \in Nat
<1>1. spec.parallelism \in Nat /\ spec.image \in Images
    BY StreamJobAssumption DEF NoSpec, Images
<1>2. Built(spec) = [exists |-> TRUE, replicas |-> spec.parallelism, image |-> spec.image, ready |-> 0]
    BY DEF Built, buildStatefulSet, buildDeployment, buildPodSpec
<1> DEFINE b == Built(spec)
<1>3. b \in Workloads
    BY <1>1, <1>2 DEF Workloads
<1> HIDE DEF b
<1>4. [b EXCEPT !.ready = n] \in Workloads
    BY <1>3 DEF Workloads
<1> QED BY <1>1, <1>4 DEF b, KindOf, Kinds

\* Where a pass begins, by what its copy says.
LEMMA BeginCases ==
    ASSUME NEW c \in Jobs
    PROVE  /\ FirstStep(c) \in {"delete", "finalizer", "start", "workload"}
           /\ FirstStep(c) = "delete" => c.deleting
           /\ FirstStep(c) \in {"start", "workload"} => c.finalizer /\ ~c.deleting
BY DEF FirstStep, Jobs

\* The pass starts from what the cache shows.
LEMMA GetJobKeeps == ASSUME JobInv, GetJob PROVE JobInv'
<1>1. /\ jobSeen.exists /\ copy' = jobSeen /\ at' = FirstStep(jobSeen)
      /\ UNCHANGED <<job, workloads, service, jobSeen, workloadsSeen, apiErrors>>
    BY DEF GetJob, objects, caches
<1>2. /\ jobSeen \in Jobs
      /\ at' \in {"delete", "finalizer", "start", "workload"}
      /\ at' = "delete" => jobSeen.deleting
      /\ at' \in {"start", "workload"} => jobSeen.finalizer /\ ~jobSeen.deleting
    BY <1>1, BeginCases DEF JobInv, JobTypeOK
<1>3. JobTypeOK'
    BY <1>1, <1>2 DEF JobInv, JobTypeOK
<1>4. CopyExists' /\ CreatorsKeepJob' /\ CacheOfLiveJob' /\ DeletionLasts' /\ DeletionSeen'
    BY <1>1, <1>2
       DEF JobInv, CopyExists, CreatorsKeepJob, CacheOfLiveJob, DeletionLasts, DeletionSeen
<1> QED BY <1>3, <1>4 DEF JobInv

\* The pass that removes the finalizer removes the job: the cache has seen the deletion,
\* so that no later pass takes the job for a live one.
LEMMA DeleteJobKeeps == ASSUME JobInv, reconcileDelete PROVE JobInv'
<1>1. /\ at = "delete" /\ at' = "idle" /\ copy' = NoJob
      /\ job' = job \/ job' = NoJob
      /\ UNCHANGED <<workloads, service, jobSeen, workloadsSeen, apiErrors>>
    BY DEF reconcileDelete, UpdateJob, Return, caches
<1>2. NoJob \in Jobs
    BY DEF NoJob, Jobs
<1>3. JobTypeOK'
    BY <1>1, <1>2 DEF JobInv, JobTypeOK
<1>4. CopyExists' /\ CreatorsKeepJob' /\ CacheOfLiveJob' /\ DeletionLasts' /\ DeletionSeen'
    BY <1>1 DEF JobInv, CopyExists, CreatorsKeepJob, CacheOfLiveJob, DeletionLasts, DeletionSeen, NoJob
<1> QED BY <1>3, <1>4 DEF JobInv

\* reconcileWorkload writes one workload or none.
LEMMA WorkloadKeeps == ASSUME JobInv, reconcileWorkload PROVE JobInv'
<1> DEFINE k == KindOf(copy.spec)
           build == [Built(copy.spec) EXCEPT !.ready = workloadsSeen[k].ready]
<1>1. /\ at = "workload"
      /\ UNCHANGED <<job, jobSeen, workloadsSeen, copy, service>>
      /\ at' \in {"service", "degraded"}
      /\ workloads' = workloads \/ workloads' = [workloads EXCEPT ![k] = build]
      /\ \/ apiErrors' = apiErrors
         \/ apiErrors < MaxApiErrors /\ apiErrors' = apiErrors + 1
    BY DEF reconcileWorkload, caches
<1>2. copy.spec \in JobSpecs \cup {NoSpec} /\ k \in Kinds
    BY BuiltTyped DEF JobInv, JobTypeOK, Jobs
<1>3. workloadsSeen[k] \in Workloads
    BY <1>2 DEF JobInv, JobTypeOK
<1>4. build \in Workloads
    BY <1>2, <1>3, BuiltTyped DEF Workloads
<1> HIDE DEF k, build
<1>5. workloads' \in [Kinds -> Workloads]
    BY <1>1, <1>2, <1>4 DEF JobInv, JobTypeOK
<1>6. apiErrors' \in 0..MaxApiErrors
    BY <1>1, StreamJobAssumption DEF JobInv, JobTypeOK
<1>7. service' \in [exists : BOOLEAN, seen : BOOLEAN]
    BY <1>1 DEF JobInv, JobTypeOK
<1> QED BY <1>1, <1>5, <1>6, <1>7, GoOnKeeps

\* A user changes or deletes the job.
LEMMA UserKeeps == ASSUME JobInv, ChangeSpec \/ DeleteJob PROVE JobInv'
<1>1. UNCHANGED <<jobSeen, workloads, workloadsSeen, service, copy, at, apiErrors>>
    BY DEF ChangeSpec, DeleteJob
<1>2. CASE ChangeSpec
  <2>1. PICK s \in JobSpecs \ {job.spec} :
            job' = [job EXCEPT !.spec = s, !.generation = @ + 1]
      BY <1>2 DEF ChangeSpec
  <2>2. job \in Jobs /\ job.generation + 1 \in Nat
      BY DEF JobInv, JobTypeOK, Jobs
  <2>3. /\ job' \in Jobs
        /\ job'.exists = job.exists /\ job'.deleting = job.deleting /\ job'.finalizer = job.finalizer
      BY <2>1, <2>2 DEF Jobs
  <2>4. JobTypeOK'
      BY <1>1, <2>3 DEF JobInv, JobTypeOK
  <2>5. CopyExists' /\ CreatorsKeepJob' /\ CacheOfLiveJob' /\ DeletionLasts' /\ DeletionSeen'
      BY <1>1, <2>3 DEF JobInv, CopyExists, CreatorsKeepJob, CacheOfLiveJob, DeletionLasts, DeletionSeen
  <2> QED BY <2>4, <2>5 DEF JobInv
<1>3. CASE DeleteJob
  <2>1. /\ job.exists /\ ~job.deleting
        /\ job' = IF job.finalizer THEN [job EXCEPT !.deleting = TRUE] ELSE NoJob
      BY <1>3 DEF DeleteJob
  <2>2. job \in Jobs /\ NoJob \in Jobs
      BY DEF JobInv, JobTypeOK, NoJob, Jobs
  <2>3. job' \in Jobs
      BY <2>1, <2>2 DEF Jobs
  <2>4. IF job.finalizer THEN job'.exists /\ job'.deleting /\ job'.finalizer ELSE ~job'.exists
      BY <2>1, <2>2 DEF Jobs, NoJob
  <2>5. JobTypeOK'
      BY <1>1, <2>3 DEF JobInv, JobTypeOK
  <2>6. CopyExists' /\ CreatorsKeepJob' /\ CacheOfLiveJob' /\ DeletionLasts' /\ DeletionSeen'
      BY <1>1, <2>1, <2>4
         DEF JobInv, CopyExists, CreatorsKeepJob, CacheOfLiveJob, DeletionLasts, DeletionSeen
  <2> QED BY <2>5, <2>6 DEF JobInv
<1> QED BY <1>2, <1>3

\* The caches follow, the pods start and stop, the garbage collector cleans up.
LEMMA JobClusterKeeps == ASSUME JobInv, JobCluster PROVE JobInv'
<1>0. /\ workloads \in [Kinds -> Workloads] /\ workloadsSeen \in [Kinds -> Workloads]
      /\ service \in [exists : BOOLEAN, seen : BOOLEAN]
    BY DEF JobInv, JobTypeOK
<1>1. CASE CacheJob
  <2>1. jobSeen' = job /\ UNCHANGED <<job, workloads, service, workloadsSeen, copy, at, apiErrors>>
      BY <1>1 DEF CacheJob, objects
  <2>2. JobTypeOK'
      BY <2>1 DEF JobInv, JobTypeOK
  <2>3. CopyExists' /\ CreatorsKeepJob' /\ CacheOfLiveJob' /\ DeletionLasts' /\ DeletionSeen'
      BY <2>1 DEF JobInv, CopyExists, CreatorsKeepJob, CacheOfLiveJob, DeletionLasts, DeletionSeen
  <2> QED BY <2>2, <2>3 DEF JobInv
<1>2. CASE CacheService
  <2>1. service' \in [exists : BOOLEAN, seen : BOOLEAN]
      BY <1>0, <1>2 DEF CacheService
  <2> QED BY <1>0, <1>2, <2>1, ClusterKeeps DEF CacheService, caches
<1>3. ASSUME NEW k \in Kinds, CacheWorkload(k) PROVE JobInv'
  <2>1. workloadsSeen' \in [Kinds -> Workloads]
      BY <1>0, <1>3 DEF CacheWorkload
  <2> QED BY <1>0, <1>3, <2>1, ClusterKeeps DEF CacheWorkload, objects
<1>4. ASSUME NEW k \in Kinds, Pods(k) PROVE JobInv'
  <2>1. /\ workloads[k].ready # workloads[k].replicas
        /\ workloads[k] \in Workloads
      BY <1>0, <1>4 DEF Pods
  <2> DEFINE n == IF workloads[k].ready < workloads[k].replicas THEN workloads[k].ready + 1
                  ELSE workloads[k].ready - 1
             w == [workloads[k] EXCEPT !.ready = n]
  <2>2. n \in Nat
      BY <2>1 DEF Workloads
  <2>3. workloads' = [workloads EXCEPT ![k] = w]
      BY <1>0, <1>4 DEF Pods
  <2> HIDE DEF n
  <2>4. w \in Workloads
      BY <2>1, <2>2 DEF Workloads
  <2> HIDE DEF w
  <2>5. workloads' \in [Kinds -> Workloads]
      BY <1>0, <2>3, <2>4
  <2> QED BY <1>0, <1>4, <2>5, ClusterKeeps DEF Pods, caches
<1>5. ASSUME NEW k \in Kinds, GarbageCollect(k) PROVE JobInv'
  <2>1. workloads' \in [Kinds -> Workloads]
      BY <1>0, <1>5, NothingTyped DEF GarbageCollect
  <2> QED BY <1>0, <1>5, <2>1, ClusterKeeps DEF GarbageCollect, caches
<1> QED BY <1>1, <1>2, <1>3, <1>4, <1>5 DEF JobCluster

\* The invariant is inductive.
LEMMA JobInvAlways == JobSpec => []JobInv
<1>1. ASSUME JobInv, [JobNext]_jobVars PROVE JobInv'
  <2> USE <1>1
  <2>0. /\ job \in Jobs /\ copy \in Jobs /\ service \in [exists : BOOLEAN, seen : BOOLEAN]
        /\ workloads \in [Kinds -> Workloads] /\ workloadsSeen \in [Kinds -> Workloads]
        /\ apiErrors \in 0..MaxApiErrors
      BY DEF JobInv, JobTypeOK
  <2>1. CASE GetJob
      BY <2>1, GetJobKeeps
  <2>2. CASE AddFinalizer
    <3> DEFINE new == [copy EXCEPT !.finalizer = TRUE]
               next == IF copy.phase = NoPhase THEN "start" ELSE "workload"
    <3>1. at = "finalizer" /\ UpdateJob(new, next)
        BY <2>2 DEF AddFinalizer
    <3>2. copy.exists
        BY <3>1 DEF JobInv, CopyExists
    <3>3. new \in Jobs /\ new.exists /\ new.deleting = copy.deleting /\ new.finalizer
        BY <2>0, <3>2 DEF Jobs
    <3>4. next \in {"idle", "start", "workload"}
        OBVIOUS
    <3> HIDE DEF new, next
    <3> QED BY <3>1, <3>3, <3>4, UpdateKeeps
  <2>3. CASE InitStatus
    <3> DEFINE new == [copy EXCEPT !.phase = "Pending"]
    <3>1. at = "start" /\ UpdateJob(new, "workload")
        BY <2>3 DEF InitStatus
    <3>2. copy.exists
        BY <3>1 DEF JobInv, CopyExists
    <3>3. new \in Jobs /\ new.exists /\ new.deleting = copy.deleting /\ new.finalizer = copy.finalizer
        BY <2>0, <3>2 DEF Jobs
    <3> HIDE DEF new
    <3>4. CASE copy = job
      <4>1. new.finalizer
          BY <3>1, <3>3, <3>4 DEF JobInv, CreatorsKeepJob
      <4> QED BY <3>1, <3>3, <4>1, UpdateKeeps
    <3>5. CASE copy # job
        BY <2>0, <3>1, <3>5, ReturnKeeps DEF UpdateJob, caches
    <3> QED BY <3>4, <3>5
  <2>4. CASE reconcileDelete
      BY <2>4, DeleteJobKeeps
  <2>5. CASE reconcileWorkload
      BY <2>5, WorkloadKeeps
  <2>6. CASE MarkDegraded
    <3>1. /\ job' = job \/ job' = [job EXCEPT !.conditions = @ \cup {"Degraded"}]
          /\ Return /\ UNCHANGED <<workloads, service, jobSeen, workloadsSeen, apiErrors>>
        BY <2>6 DEF MarkDegraded, caches
    <3>2. /\ job' \in Jobs
          /\ job'.exists = job.exists /\ job'.deleting = job.deleting /\ job'.finalizer = job.finalizer
        BY <2>0, <3>1 DEF Jobs
    <3> QED BY <2>0, <3>1, <3>2, ReturnKeeps
  <2>7. CASE reconcileService
    <3>1. /\ at = "service" /\ UNCHANGED <<job, workloads, jobSeen, workloadsSeen, apiErrors>>
          /\ service' = service \/ service' = [service EXCEPT !.exists = TRUE]
          /\ (at' = "status" /\ UNCHANGED copy) \/ Return
        BY <2>7 DEF reconcileService, caches
    <3>2. service' \in [exists : BOOLEAN, seen : BOOLEAN]
        BY <2>0, <3>1
    <3>3. CASE at' = "status" /\ UNCHANGED copy
        BY <2>0, <3>1, <3>2, <3>3, GoOnKeeps
    <3>4. CASE Return
        BY <2>0, <3>1, <3>2, <3>4, ReturnKeeps
    <3> QED BY <3>1, <3>3, <3>4
  <2>8. CASE updateStatus
    <3> DEFINE w == workloadsSeen[KindOf(copy.spec)]
               new == IF w.exists THEN StatusOf(copy, w) ELSE copy
    <3>1. at = "status" /\ UpdateJob(new, "idle")
        BY <2>8 DEF updateStatus
    <3>2. copy.exists
        BY <3>1 DEF JobInv, CopyExists
    <3> HIDE DEF w
    <3>3. PhaseOf(copy.spec, w) \in {"Pending", "Running"} /\ ConditionOf(copy.spec, w) \in {"Ready", "Progressing"}
        BY DEF PhaseOf, ConditionOf
    <3>4. /\ StatusOf(copy, w) \in Jobs
          /\ StatusOf(copy, w).exists = copy.exists
          /\ StatusOf(copy, w).deleting = copy.deleting
          /\ StatusOf(copy, w).finalizer = copy.finalizer
        BY <2>0, <3>3 DEF StatusOf, Jobs
    <3>5. new \in Jobs /\ new.exists /\ new.deleting = copy.deleting /\ new.finalizer = copy.finalizer
        BY <2>0, <3>2, <3>4
    <3> HIDE DEF new
    <3> QED BY <3>1, <3>5, UpdateKeeps
  <2>9. CASE CallFails
    <3>1. apiErrors' \in 0..MaxApiErrors
        BY <2>0, <2>9, StreamJobAssumption DEF CallFails
    <3> QED BY <2>0, <2>9, <3>1, ReturnKeeps DEF CallFails, objects, caches
  <2>10. CASE ChangeSpec \/ DeleteJob
      BY <2>10, UserKeeps
  <2>11. CASE JobCluster
      BY <2>11, JobClusterKeeps
  <2>12. CASE UNCHANGED jobVars
      BY <2>0, <2>12, ClusterKeeps DEF jobVars
  <2> QED
      BY <2>1, <2>2, <2>3, <2>4, <2>5, <2>6, <2>7, <2>8, <2>9, <2>10, <2>11, <2>12
         DEF JobNext, Reconcile
<1> QED BY JobInitially, <1>1, PTL DEF JobSpec

\* The objects, the caches and the copy in hand are always of their types.
THEOREM JobTypeCorrect == JobSpec => []JobTypeOK
<1>1. JobInv => JobTypeOK
    BY DEF JobInv
<1> QED BY JobInvAlways, <1>1, PTL

\* No pass of Reconcile creates a workload for a job that is gone, however old the copy
\* it works on: only reconcileWorkload creates one, and it is reached only while the
\* finalizer keeps the job.
THEOREM NeverOrphans == JobSpec => NoOrphan
<1>1. ASSUME JobInv, [JobNext]_jobVars, NEW k \in Kinds, workloads'[k].exists, ~workloads[k].exists
      PROVE  job.exists
  <2> USE <1>1
  <2>0. workloads \in [Kinds -> Workloads]
      BY DEF JobInv, JobTypeOK
  <2>1. CASE at = "workload"
      BY <2>1 DEF JobInv, CreatorsKeepJob
  <2>2. ASSUME NEW j \in Kinds, Pods(j) PROVE FALSE
      BY <2>0, <2>2 DEF Pods
  <2>3. ASSUME NEW j \in Kinds, GarbageCollect(j) PROVE FALSE
      BY <2>0, <2>3 DEF GarbageCollect, NoWorkload
  <2>4. CASE workloads' = workloads
      BY <2>4
  <2>5. \/ at = "workload" \/ workloads' = workloads
        \/ \E j \in Kinds : Pods(j) \/ GarbageCollect(j)
      BY DEF JobNext, Reconcile, GetJob, AddFinalizer, InitStatus, reconcileDelete, UpdateJob,
             reconcileWorkload, MarkDegraded, reconcileService, updateStatus, CallFails, ChangeSpec,
             DeleteJob, JobCluster, CacheJob, CacheService, CacheWorkload, objects, jobVars
  <2> QED BY <2>1, <2>2, <2>3, <2>4, <2>5
<1>2. JobInv /\ [JobNext]_jobVars
        => [\A k \in Kinds : workloads'[k].exists /\ ~workloads[k].exists => job.exists]_jobVars
    BY <1>1
<1> QED BY JobInvAlways, <1>2, PTL DEF JobSpec, NoOrphan

-----------------------------------------------------------------------------
(* The StreamCluster controller, by the argument of the StreamJob.         *)

\* What a StreamCluster and a StatefulSet may be.
Clusters ==
    [exists : BOOLEAN, spec : ClusterSpecs \cup {NoClusterSpec}, generation : Nat,
     finalizer : BOOLEAN, deleting : BOOLEAN, phase : {NoClusterPhase, "Pending", "Running"}, observed : Nat,
     ready : [Parts -> Nat], conditions : SUBSET {"Degraded", "Ready", "Progressing"}]
PartSets == [exists : BOOLEAN, replicas : Nat, ready : Nat,
             image : {s.image : s \in ClusterSpecs \cup {NoClusterSpec}}]

\* The calls a pass makes; some are made for a part.
ClusterCalls ==
    {<<"idle", NoPart>>, <<"delete", NoPart>>, <<"finalizer", NoPart>>, <<"start", NoPart>>,
     <<"status", NoPart>>, <<"degraded", NoPart>>, <<"set", "jobmanager">>, <<"set", "taskmanager">>,
     <<"service", "jobmanager">>, <<"service", "taskmanager">>}

\* Types of the parts.
PartsTypeOK ==
    /\ sets \in [Parts -> PartSets] /\ setsSeen \in [Parts -> PartSets]
    /\ services \in [Parts -> {"none", "made", "seen"}]

\* Types of the cluster and of the pass.
ClusterTypeOK ==
    /\ cluster \in Clusters /\ clusterSeen \in Clusters /\ clusterCopy \in Clusters
    /\ clusterAt \in ClusterCalls

\* A pass works on a copy of a cluster that existed.
ClusterCopyExists == clusterAt[1] # "idle" => clusterCopy.exists

\* While a pass may create parts, the finalizer keeps the cluster.
CreatorsKeepCluster ==
    clusterAt[1] \in {"start", "set", "service"} => cluster.exists /\ cluster.finalizer

\* A cluster that the cache shows with its finalizer and not being deleted is still there.
CacheOfLiveCluster ==
    clusterSeen.exists /\ clusterSeen.finalizer /\ ~clusterSeen.deleting =>
        cluster.exists /\ cluster.finalizer

\* A deletion, once seen, is never taken back.
ClusterDeletionLasts ==
    clusterSeen.exists /\ clusterSeen.deleting => cluster.deleting \/ ~cluster.exists

\* The pass that removes the finalizer knows that the cache has seen the deletion.
ClusterDeletionSeen ==
    clusterAt[1] = "delete" => /\ cluster.deleting \/ ~cluster.exists
                               /\ clusterSeen.deleting \/ ~clusterSeen.exists

\* The inductive invariant of the StreamCluster controller.
ClusterInv ==
    /\ PartsTypeOK /\ ClusterTypeOK /\ ClusterCopyExists /\ CreatorsKeepCluster
    /\ CacheOfLiveCluster /\ ClusterDeletionLasts /\ ClusterDeletionSeen

\* The absent cluster and the absent set have the types of the others.
LEMMA NoClusterTyped ==
    /\ NoCluster \in Clusters /\ NoSet \in PartSets
    /\ NoClusterSpec.replicas \in [Parts -> Nat]
<1> DEFINE zeros == [p \in Parts |-> 0]
<1>1. zeros \in [Parts -> Nat]
    OBVIOUS
<1>2. NoCluster = [exists |-> FALSE, spec |-> NoClusterSpec, generation |-> 0, finalizer |-> FALSE,
                   deleting |-> FALSE, phase |-> NoClusterPhase, observed |-> 0,
                   ready |-> zeros, conditions |-> {}]
    BY DEF NoCluster
<1>3. NoClusterSpec = [image |-> NoClusterImage, replicas |-> zeros]
    BY DEF NoClusterSpec
<1> HIDE DEF zeros
<1>4. NoCluster \in Clusters
    BY <1>1, <1>2 DEF Clusters
<1>5. NoClusterSpec.replicas \in [Parts -> Nat] /\ NoClusterSpec.image = NoClusterImage
    BY <1>1, <1>3
<1>6. NoSet \in PartSets
    BY <1>5 DEF NoSet, PartSets
<1> QED BY <1>4, <1>5, <1>6

\* The set that a spec asks for.
LEMMA BuiltSetTyped ==
    ASSUME NEW s \in ClusterSpecs \cup {NoClusterSpec}, NEW p \in Parts
    PROVE  BuiltSet(s, p) \in PartSets
<1>1. s.replicas \in [Parts -> Nat]
    BY StreamClusterAssumption, NoClusterTyped
<1>2. s.replicas["jobmanager"] \in Nat /\ s.replicas["taskmanager"] \in Nat
    BY <1>1 DEF Parts
<1> QED BY <1>2 DEF BuiltSet, buildJobManagerStatefulSet, buildTaskManagerStatefulSet, PartSets

\* The calls that follow the first ones.
LEMMA NextCalls ==
    ASSUME NEW s
    PROVE  /\ FromTaskManagers(s) \in {<<"set", "taskmanager">>, <<"status", NoPart>>}
           /\ FromJobManagers(s) \in {<<"set", "jobmanager">>, <<"set", "taskmanager">>, <<"status", NoPart>>}
BY DEF FromTaskManagers, FromJobManagers

\* The reconciler starts with a new cluster and empty caches.
LEMMA ClusterInitially == ClusterInit => ClusterInv
<1> SUFFICES ASSUME ClusterInit PROVE ClusterInv
    OBVIOUS
<1>1. PICK s \in ClusterSpecs : cluster = [NoCluster EXCEPT !.exists = TRUE, !.spec = s, !.generation = 1]
    BY DEF ClusterInit
<1>2. /\ clusterSeen = NoCluster /\ clusterCopy = NoCluster /\ clusterAt = <<"idle", NoPart>>
      /\ sets = [p \in Parts |-> NoSet] /\ setsSeen = sets /\ services = [p \in Parts |-> "none"]
    BY DEF ClusterInit, ClusterReconcilerStarts
<1>3. cluster \in Clusters /\ ~clusterSeen.exists
    BY <1>1, <1>2, NoClusterTyped DEF Clusters, NoCluster
<1>4. PartsTypeOK
    BY <1>2, NoClusterTyped DEF PartsTypeOK
<1>5. ClusterTypeOK
    BY <1>2, <1>3, NoClusterTyped DEF ClusterTypeOK, NoPart, ClusterCalls
<1> QED
    BY <1>2, <1>3, <1>4, <1>5
    DEF ClusterInv, ClusterCopyExists, CreatorsKeepCluster, CacheOfLiveCluster, ClusterDeletionLasts,
        ClusterDeletionSeen

\* A step that keeps what the finalizer depends on, and leaves the caches of the cluster alone.
LEMMA ClusterPassKeeps ==
    ASSUME ClusterInv, PartsTypeOK', ClusterTypeOK', UNCHANGED clusterSeen,
           cluster'.exists = cluster.exists, cluster'.deleting = cluster.deleting,
           cluster.finalizer => cluster'.finalizer,
           clusterAt'[1] # "idle" => clusterCopy'.exists,
           clusterAt'[1] # "delete",
           clusterAt'[1] \in {"start", "set", "service"} => cluster'.exists /\ cluster'.finalizer
    PROVE  ClusterInv'
BY DEF ClusterInv, ClusterCopyExists, CreatorsKeepCluster, CacheOfLiveCluster, ClusterDeletionLasts,
       ClusterDeletionSeen

\* A write of the cluster goes through only if the copy is the cluster.
LEMMA ClusterUpdateKeeps ==
    ASSUME ClusterInv, NEW new \in Clusters, NEW next \in ClusterCalls,
           UpdateCluster(new, next),
           clusterAt[1] # "idle", next[1] # "delete",
           new.exists, new.deleting = clusterCopy.deleting,
           clusterCopy.finalizer => new.finalizer,
           next[1] # "idle" => new.finalizer
    PROVE  ClusterInv'
<1>1. /\ clusterCopy = cluster \/ cluster' = cluster
      /\ clusterCopy = cluster => cluster' = new
      /\ \/ clusterAt' = next /\ clusterCopy' = new /\ clusterCopy = cluster /\ next # <<"idle", NoPart>>
         \/ clusterAt' = <<"idle", NoPart>> /\ clusterCopy' = NoCluster
      /\ UNCHANGED <<sets, services, clusterSeen, setsSeen>>
    BY DEF UpdateCluster, ClusterReturn
<1>2. <<"idle", NoPart>> \in ClusterCalls /\ <<"idle", NoPart>>[1] = "idle"
    BY DEF NoPart, ClusterCalls
<1>3. next # <<"idle", NoPart>> => next[1] # "idle"
    BY DEF NoPart, ClusterCalls, Parts
<1>4. PartsTypeOK' /\ ClusterTypeOK'
    BY <1>1, <1>2, NoClusterTyped DEF ClusterInv, PartsTypeOK, ClusterTypeOK
<1>5. /\ cluster'.exists = cluster.exists /\ cluster'.deleting = cluster.deleting
      /\ cluster.finalizer => cluster'.finalizer
    BY <1>1 DEF ClusterInv, ClusterTypeOK, Clusters, ClusterCopyExists
<1> QED BY <1>1, <1>2, <1>3, <1>4, <1>5, ClusterPassKeeps

\* The cluster stays; the pass ends, or goes on with the same copy.
LEMMA ClusterGoOnKeeps ==
    ASSUME ClusterInv, PartsTypeOK', UNCHANGED <<cluster, clusterSeen>>, clusterAt[1] # "idle",
           \/ ClusterReturn
           \/ UNCHANGED clusterCopy /\ clusterAt' \in ClusterCalls /\ clusterAt'[1] \in {"degraded", "status"}
           \/ /\ UNCHANGED clusterCopy /\ clusterAt' \in ClusterCalls
              /\ clusterAt'[1] \in {"set", "service"} /\ clusterAt[1] \in {"set", "service"}
    PROVE  ClusterInv'
<1>1. <<"idle", NoPart>> \in ClusterCalls /\ <<"idle", NoPart>>[1] = "idle"
    BY DEF NoPart, ClusterCalls
<1>2. ClusterTypeOK'
    BY <1>1, NoClusterTyped DEF ClusterInv, ClusterTypeOK, ClusterReturn
<1>3. clusterAt'[1] # "delete" /\ (clusterAt'[1] # "idle" => clusterCopy'.exists)
    BY <1>1 DEF ClusterInv, ClusterCopyExists, ClusterReturn
<1>4. clusterAt'[1] \in {"start", "set", "service"} => cluster'.exists /\ cluster'.finalizer
    BY <1>1 DEF ClusterInv, CreatorsKeepCluster, ClusterReturn
<1> QED BY <1>2, <1>3, <1>4, ClusterPassKeeps

\* The pass starts from what the cache shows.
LEMMA GetClusterKeeps == ASSUME ClusterInv, GetCluster PROVE ClusterInv'
<1>1. /\ clusterSeen.exists /\ clusterCopy' = clusterSeen
      /\ UNCHANGED <<cluster, sets, services, clusterSeen, setsSeen>>
    BY DEF GetCluster, clusterObjects
<1>2. \/ clusterAt' = <<"delete", NoPart>> /\ clusterSeen.deleting
      \/ clusterAt' = <<"finalizer", NoPart>>
      \/ /\ clusterAt' \in {<<"start", NoPart>>, <<"set", "jobmanager">>, <<"set", "taskmanager">>,
                             <<"status", NoPart>>}
         /\ clusterSeen.finalizer /\ ~clusterSeen.deleting
    BY NextCalls DEF GetCluster
<1>3. clusterAt' \in ClusterCalls
    BY <1>2 DEF NoPart, ClusterCalls, Parts
<1>4. PartsTypeOK' /\ ClusterTypeOK'
    BY <1>1, <1>3 DEF ClusterInv, PartsTypeOK, ClusterTypeOK
<1> QED
    BY <1>1, <1>2, <1>4
    DEF ClusterInv, ClusterCopyExists, CreatorsKeepCluster, CacheOfLiveCluster, ClusterDeletionLasts,
        ClusterDeletionSeen

\* The pass that removes the finalizer removes the cluster, which the cache has seen deleted.
LEMMA DeleteClusterKeeps == ASSUME ClusterInv, reconcileClusterDelete PROVE ClusterInv'
<1>1. /\ clusterAt[1] = "delete" /\ clusterAt' = <<"idle", NoPart>> /\ clusterCopy' = NoCluster
      /\ cluster' = cluster \/ cluster' = NoCluster
      /\ UNCHANGED <<sets, services, clusterSeen, setsSeen>>
    BY DEF reconcileClusterDelete, UpdateCluster, ClusterReturn
<1>2. PartsTypeOK' /\ ClusterTypeOK'
    BY <1>1, NoClusterTyped DEF ClusterInv, PartsTypeOK, ClusterTypeOK, NoPart, ClusterCalls
<1> QED
    BY <1>1, <1>2
    DEF ClusterInv, ClusterCopyExists, CreatorsKeepCluster, CacheOfLiveCluster, ClusterDeletionLasts,
        ClusterDeletionSeen, NoCluster

\* A call for a part names the part.
LEMMA PartNamed ==
    ASSUME ClusterTypeOK, clusterAt[1] \in {"set", "service"}
    PROVE  clusterAt[2] \in Parts
BY DEF ClusterTypeOK, NoPart, ClusterCalls, Parts

\* reconcileJobManager and reconcileTaskManager write one set or none.
LEMMA SetKeeps == ASSUME ClusterInv, reconcileSet PROVE ClusterInv'
<1> DEFINE p == clusterAt[2]
           build == [BuiltSet(clusterCopy.spec, p) EXCEPT !.ready = setsSeen[p].ready]
<1>1. /\ clusterAt[1] = "set"
      /\ sets' = sets \/ sets' = [sets EXCEPT ![p] = build]
      /\ PartFailed(p) \/ (clusterAt' = <<"service", p>> /\ UNCHANGED clusterCopy)
      /\ UNCHANGED <<cluster, services, clusterSeen, setsSeen>>
    BY DEF reconcileSet
<1>2. p \in Parts /\ clusterCopy.spec \in ClusterSpecs \cup {NoClusterSpec} /\ setsSeen[p] \in PartSets
    BY <1>1, PartNamed DEF ClusterInv, ClusterTypeOK, PartsTypeOK, Clusters
<1>3. build \in PartSets
    BY <1>2, BuiltSetTyped DEF PartSets
<1> HIDE DEF build, p
<1>4. PartsTypeOK'
    BY <1>1, <1>2, <1>3 DEF ClusterInv, PartsTypeOK
<1>5. <<"service", p>> \in ClusterCalls /\ <<"degraded", NoPart>> \in ClusterCalls
    BY <1>2 DEF NoPart, ClusterCalls, Parts
<1>6. \/ ClusterReturn
      \/ UNCHANGED clusterCopy /\ (clusterAt' = <<"service", p>> \/ clusterAt' = <<"degraded", NoPart>>)
    BY <1>1 DEF PartFailed
<1> QED BY <1>1, <1>4, <1>5, <1>6, ClusterGoOnKeeps

\* The Service of a part is created or was there.
LEMMA PartServiceKeeps == ASSUME ClusterInv, reconcilePartService PROVE ClusterInv'
<1> DEFINE p == clusterAt[2]
<1>1. /\ clusterAt[1] = "service"
      /\ services' = [services EXCEPT ![p] = IF services[p] = "none" THEN BuiltService(p) ELSE services[p]]
      /\ \/ PartFailed(p)
         \/ /\ clusterAt' \in {<<"set", "taskmanager">>, <<"status", NoPart>>}
            /\ UNCHANGED clusterCopy
      /\ UNCHANGED <<cluster, sets, clusterSeen, setsSeen>>
    BY NextCalls DEF reconcilePartService
<1>2. p \in Parts
    BY <1>1, PartNamed DEF ClusterInv
<1> HIDE DEF p
<1>3. BuiltService(p) \in {"none", "made", "seen"}
    BY DEF BuiltService, buildJobManagerService, buildTaskManagerService
<1>4. PartsTypeOK'
    BY <1>1, <1>2, <1>3 DEF ClusterInv, PartsTypeOK
<1>5. {<<"set", "taskmanager">>, <<"status", NoPart>>, <<"degraded", NoPart>>} \subseteq ClusterCalls
    BY DEF NoPart, ClusterCalls, Parts
<1>6. \/ ClusterReturn
      \/ /\ UNCHANGED clusterCopy
         /\ clusterAt' \in {<<"set", "taskmanager">>, <<"status", NoPart>>, <<"degraded", NoPart>>}
    BY <1>1 DEF PartFailed
<1> QED BY <1>1, <1>4, <1>5, <1>6, ClusterGoOnKeeps

\* The counts of the status.
LEMMA ReadyTyped ==
    ASSUME PartsTypeOK, NEW c \in Clusters
    PROVE  ReadyOf(c) \in [Parts -> Nat]
<1>1. ASSUME NEW p \in Parts PROVE setsSeen[p].ready \in Nat /\ c.ready[p] \in Nat
    BY DEF PartsTypeOK, PartSets, Clusters
<1> QED BY <1>1 DEF ReadyOf

\* The writes of the finalizer and of the status.
LEMMA ClusterWritesKeep ==
    ASSUME ClusterInv, AddClusterFinalizer \/ InitClusterStatus \/ updateClusterStatus
    PROVE  ClusterInv'
<1>0. /\ clusterCopy \in Clusters /\ PartsTypeOK /\ clusterAt[1] # "idle"
      /\ <<"idle", NoPart>> \in ClusterCalls /\ <<"start", NoPart>> \in ClusterCalls
      /\ FromJobManagers(clusterCopy.spec) \in ClusterCalls
      /\ FromJobManagers(clusterCopy.spec)[1] # "delete"
    BY NextCalls
    DEF ClusterInv, ClusterTypeOK, ClusterCalls, NoPart, AddClusterFinalizer, InitClusterStatus,
        updateClusterStatus
<1>1. clusterCopy.exists
    BY <1>0 DEF ClusterInv, ClusterCopyExists
<1>2. CASE AddClusterFinalizer
  <2> DEFINE new == [clusterCopy EXCEPT !.finalizer = TRUE]
             next == IF clusterCopy.phase = NoClusterPhase THEN <<"start", NoPart>>
                     ELSE FromJobManagers(clusterCopy.spec)
  <2>1. UpdateCluster(new, next)
      BY <1>2 DEF AddClusterFinalizer
  <2>2. new \in Clusters /\ new.exists /\ new.deleting = clusterCopy.deleting /\ new.finalizer
      BY <1>0, <1>1 DEF Clusters
  <2>3. next \in ClusterCalls /\ next[1] # "delete"
      BY <1>0
  <2> HIDE DEF new, next
  <2> QED BY <1>0, <2>1, <2>2, <2>3, ClusterUpdateKeeps
<1>3. CASE InitClusterStatus
  <2> DEFINE new == [clusterCopy EXCEPT !.phase = "Pending"]
             next == FromJobManagers(clusterCopy.spec)
  <2>1. UpdateCluster(new, next) /\ clusterAt[1] = "start"
      BY <1>3 DEF InitClusterStatus
  <2>2. /\ new \in Clusters /\ new.exists /\ new.deleting = clusterCopy.deleting
        /\ new.finalizer = clusterCopy.finalizer
      BY <1>0, <1>1 DEF Clusters
  <2>3. next \in ClusterCalls /\ next[1] # "delete"
      BY <1>0
  <2>4. cluster.finalizer
      BY <2>1 DEF ClusterInv, CreatorsKeepCluster
  <2> HIDE DEF new, next
  <2>5. CASE clusterCopy = cluster
      BY <1>0, <2>1, <2>2, <2>3, <2>4, <2>5, ClusterUpdateKeeps
  <2>6. CASE clusterCopy # cluster
    <3>1. ClusterReturn /\ UNCHANGED <<cluster, sets, services, clusterSeen, setsSeen>>
        BY <2>1, <2>6 DEF UpdateCluster
    <3>2. PartsTypeOK'
        BY <1>0, <3>1 DEF PartsTypeOK
    <3> QED BY <1>0, <3>1, <3>2, ClusterGoOnKeeps
  <2> QED BY <2>5, <2>6
<1>4. CASE updateClusterStatus
  <2> DEFINE ready == ReadyOf(clusterCopy)
             all == \A p \in Parts : Has(clusterCopy.spec, p) => ready[p] = clusterCopy.spec.replicas[p]
             phase == IF all THEN "Running" ELSE "Pending"
             condition == IF all THEN "Ready" ELSE "Progressing"
             new == [clusterCopy EXCEPT
                !.ready = ready, !.phase = phase, !.conditions = @ \cup {condition},
                !.observed = clusterCopy.generation]
  <2>1. UpdateCluster(new, <<"idle", NoPart>>)
      BY <1>4 DEF updateClusterStatus
  <2>2. /\ ready \in [Parts -> Nat]
        /\ phase \in {"Pending", "Running"} /\ condition \in {"Ready", "Progressing"}
      BY <1>0, ReadyTyped
  <2> HIDE DEF ready, phase, condition
  <2>3. clusterCopy.conditions \cup {condition} \in SUBSET {"Degraded", "Ready", "Progressing"}
      BY <1>0, <2>2 DEF Clusters
  <2>4. new = [clusterCopy EXCEPT
                !.ready = ready, !.phase = phase, !.conditions = clusterCopy.conditions \cup {condition},
                !.observed = clusterCopy.generation]
      BY <1>0 DEF Clusters
  <2>5. /\ new \in Clusters /\ new.exists /\ new.deleting = clusterCopy.deleting
        /\ new.finalizer = clusterCopy.finalizer
      BY <1>0, <1>1, <2>2, <2>3, <2>4 DEF Clusters
  <2> HIDE DEF new
  <2> QED BY <1>0, <2>1, <2>5, ClusterUpdateKeeps
<1> QED BY <1>2, <1>3, <1>4

\* A call that fails, and the note of it in the status.
LEMMA ClusterFailureKeeps ==
    ASSUME ClusterInv, ClusterCallFails \/ MarkClusterDegraded
    PROVE  ClusterInv'
<1>0. /\ cluster \in Clusters /\ PartsTypeOK
      /\ <<"degraded", NoPart>> \in ClusterCalls /\ <<"idle", NoPart>> \in ClusterCalls
    BY DEF ClusterInv, ClusterTypeOK, ClusterCalls, NoPart
<1>1. CASE ClusterCallFails
  <2>1. /\ clusterAt[1] # "idle" /\ UNCHANGED <<cluster, sets, services, clusterSeen, setsSeen>>
        /\ ClusterReturn \/ (clusterAt' = <<"degraded", NoPart>> /\ UNCHANGED clusterCopy)
      BY <1>1 DEF ClusterCallFails, clusterObjects
  <2>2. PartsTypeOK'
      BY <1>0, <2>1 DEF PartsTypeOK
  <2> QED BY <1>0, <2>1, <2>2, ClusterGoOnKeeps
<1>2. CASE MarkClusterDegraded
  <2> DEFINE new == [cluster EXCEPT !.conditions = cluster.conditions \cup {"Degraded"}]
  <2>1. /\ cluster' = new \/ cluster' = cluster
        /\ ClusterReturn /\ UNCHANGED <<sets, services, clusterSeen, setsSeen>>
      BY <1>0, <1>2 DEF MarkClusterDegraded, Clusters
  <2>2. cluster.conditions \cup {"Degraded"} \in SUBSET {"Degraded", "Ready", "Progressing"}
      BY <1>0 DEF Clusters
  <2>3. /\ new \in Clusters /\ new.exists = cluster.exists /\ new.deleting = cluster.deleting
        /\ new.finalizer = cluster.finalizer
      BY <1>0, <2>2 DEF Clusters
  <2> HIDE DEF new
  <2>4. clusterAt' = <<"idle", NoPart>> /\ clusterCopy' = NoCluster
      BY <2>1 DEF ClusterReturn
  <2>5. PartsTypeOK' /\ ClusterTypeOK'
      BY <1>0, <2>1, <2>3, <2>4, NoClusterTyped DEF ClusterInv, PartsTypeOK, ClusterTypeOK
  <2>6. clusterAt'[1] = "idle"
      BY <2>4
  <2> QED BY <2>1, <2>3, <2>5, <2>6, ClusterPassKeeps
<1> QED BY <1>1, <1>2

\* A user changes or deletes the cluster.
LEMMA ClusterUserKeeps == ASSUME ClusterInv, ChangeClusterSpec \/ DeleteCluster PROVE ClusterInv'
<1>0. /\ cluster \in Clusters /\ cluster.exists /\ ~cluster.deleting
      /\ UNCHANGED <<sets, services, clusterSeen, setsSeen, clusterCopy, clusterAt>>
    BY DEF ClusterInv, ClusterTypeOK, ChangeClusterSpec, DeleteCluster
<1>1. CASE ChangeClusterSpec
  <2>1. PICK s \in ClusterSpecs : cluster' = [cluster EXCEPT !.spec = s, !.generation = @ + 1]
      BY <1>1 DEF ChangeClusterSpec
  <2>2. cluster.generation + 1 \in Nat
      BY <1>0 DEF Clusters
  <2>3. cluster' = [cluster EXCEPT !.spec = s, !.generation = cluster.generation + 1]
      BY <1>0, <2>1 DEF Clusters
  <2>4. /\ cluster' \in Clusters /\ cluster'.exists /\ ~cluster'.deleting
        /\ cluster'.finalizer = cluster.finalizer
      BY <1>0, <2>2, <2>3 DEF Clusters
  <2>5. PartsTypeOK' /\ ClusterTypeOK'
      BY <1>0, <2>4 DEF ClusterInv, PartsTypeOK, ClusterTypeOK
  <2> QED
      BY <1>0, <2>4, <2>5
      DEF ClusterInv, ClusterCopyExists, CreatorsKeepCluster, CacheOfLiveCluster,
          ClusterDeletionLasts, ClusterDeletionSeen
<1>2. CASE DeleteCluster
  <2>1. cluster' = IF cluster.finalizer THEN [cluster EXCEPT !.deleting = TRUE] ELSE NoCluster
      BY <1>2 DEF DeleteCluster
  <2>2. cluster' \in Clusters
      BY <1>0, <2>1, NoClusterTyped DEF Clusters
  <2>3. IF cluster.finalizer THEN cluster'.exists /\ cluster'.deleting /\ cluster'.finalizer
        ELSE ~cluster'.exists
      BY <1>0, <2>1 DEF Clusters, NoCluster
  <2>4. PartsTypeOK' /\ ClusterTypeOK'
      BY <1>0, <2>2 DEF ClusterInv, PartsTypeOK, ClusterTypeOK
  <2> QED
      BY <1>0, <2>3, <2>4
      DEF ClusterInv, ClusterCopyExists, CreatorsKeepCluster, CacheOfLiveCluster,
          ClusterDeletionLasts, ClusterDeletionSeen
<1> QED BY <1>1, <1>2

\* The caches follow and the pods start and stop.
LEMMA PartsKeep == ASSUME ClusterInv, NEW p \in Parts, PartCluster(p) PROVE ClusterInv'
<1>1. UNCHANGED <<cluster, clusterSeen, clusterCopy, clusterAt>>
    BY DEF PartCluster, CacheSet, CachePartService, SetPods, clusterObjects
<1>2. PartsTypeOK'
  <2>1. sets[p] \in PartSets /\ sets[p].replicas \in Nat
      BY DEF ClusterInv, PartsTypeOK, PartSets
  <2>2. CASE CacheSet(p)
      BY <2>1, <2>2 DEF CacheSet, clusterObjects, ClusterInv, PartsTypeOK
  <2>3. CASE CachePartService(p)
      BY <2>3 DEF CachePartService, ClusterInv, PartsTypeOK
  <2>4. CASE SetPods(p)
    <3> DEFINE w == [sets[p] EXCEPT !.ready = sets[p].replicas]
    <3>1. w \in PartSets
        BY <2>1 DEF PartSets
    <3>2. sets' = [sets EXCEPT ![p] = w] /\ UNCHANGED <<services, setsSeen>>
        BY <2>4 DEF SetPods
    <3> HIDE DEF w
    <3> QED BY <3>1, <3>2 DEF ClusterInv, PartsTypeOK
  <2> QED BY <2>2, <2>3, <2>4 DEF PartCluster
<1>3. ClusterTypeOK'
    BY <1>1 DEF ClusterInv, ClusterTypeOK
<1> QED
    BY <1>1, <1>2, <1>3
    DEF ClusterInv, ClusterCopyExists, CreatorsKeepCluster, CacheOfLiveCluster, ClusterDeletionLasts,
        ClusterDeletionSeen

\* Every step keeps the invariant.
LEMMA ClusterStep == ClusterInv /\ [ClusterNext]_clusterVars => ClusterInv'
<1> SUFFICES ASSUME ClusterInv, [ClusterNext]_clusterVars PROVE ClusterInv'
    OBVIOUS
<1>1. CASE CacheCluster
  <2>1. clusterSeen' = cluster
        /\ UNCHANGED <<cluster, sets, services, setsSeen, clusterCopy, clusterAt>>
      BY <1>1 DEF CacheCluster, clusterObjects
  <2>2. PartsTypeOK' /\ ClusterTypeOK'
      BY <2>1 DEF ClusterInv, PartsTypeOK, ClusterTypeOK
  <2> QED
      BY <2>1, <2>2
      DEF ClusterInv, ClusterCopyExists, CreatorsKeepCluster, CacheOfLiveCluster,
          ClusterDeletionLasts, ClusterDeletionSeen
<1>2. CASE UNCHANGED clusterVars
    BY <1>2
    DEF clusterVars, ClusterInv, PartsTypeOK, ClusterTypeOK, ClusterCopyExists, CreatorsKeepCluster,
        CacheOfLiveCluster, ClusterDeletionLasts, ClusterDeletionSeen
<1>3. CASE ClusterReconcile
    BY <1>3, GetClusterKeeps, ClusterWritesKeep, DeleteClusterKeeps, SetKeeps, PartServiceKeeps,
       ClusterFailureKeeps
    DEF ClusterReconcile
<1> QED
    BY <1>1, <1>2, <1>3, ClusterFailureKeeps, ClusterUserKeeps, PartsKeep DEF ClusterNext

\* Only a pass that is at the part creates its set or its Service.
LEMMA CreatedByPass ==
    ASSUME ClusterInv, ClusterNext, NEW p \in Parts,
           \/ ~sets[p].exists /\ sets'[p].exists
           \/ services[p] = "none" /\ services'[p] # "none"
    PROVE  clusterAt[1] \in {"set", "service"}
<1>1. CASE ClusterReconcile
    BY <1>1
    DEF ClusterReconcile, GetCluster, AddClusterFinalizer, InitClusterStatus, reconcileClusterDelete,
        reconcileSet, reconcilePartService, MarkClusterDegraded, updateClusterStatus, UpdateCluster,
        clusterObjects
<1>2. ASSUME NEW q \in Parts, PartCluster(q) PROVE clusterAt[1] \in {"set", "service"}
  <2>1. sets[q] \in PartSets /\ sets \in [Parts -> PartSets]
        /\ services \in [Parts -> {"none", "made", "seen"}]
      BY DEF ClusterInv, PartsTypeOK
  <2>2. CASE SetPods(q)
    <3>1. sets' = [sets EXCEPT ![q] = [sets[q] EXCEPT !.ready = sets[q].replicas]] /\ UNCHANGED services
        BY <2>2 DEF SetPods
    <3>2. [sets[q] EXCEPT !.ready = sets[q].replicas].exists = sets[q].exists
        BY <2>1 DEF PartSets
    <3> QED BY <2>1, <3>1, <3>2
  <2>3. CASE CacheSet(q) \/ CachePartService(q)
      BY <2>1, <2>3 DEF CacheSet, CachePartService, clusterObjects
  <2> QED BY <1>2, <2>2, <2>3 DEF PartCluster
<1>3. CASE ClusterCallFails \/ ChangeClusterSpec \/ DeleteCluster \/ CacheCluster
    BY <1>3 DEF ClusterCallFails, ChangeClusterSpec, DeleteCluster, CacheCluster, clusterObjects
<1> QED BY <1>1, <1>2, <1>3 DEF ClusterNext

(* A StatefulSet or a Service of the StreamCluster controller is created only while the cluster
   exists with its finalizer, for every set of specs and however far the caches lag. *)
THEOREM PartsNeverOrphaned == ClusterBehaviour => PartsOfCluster
<1>1. ClusterInv /\ [ClusterNext]_clusterVars =>
        [\A p \in Parts :
            \/ ~sets[p].exists /\ sets'[p].exists
            \/ services[p] = "none" /\ services'[p] # "none"
            => cluster.exists /\ cluster.finalizer]_clusterVars
    BY CreatedByPass DEF ClusterInv, CreatorsKeepCluster
<1> QED
    BY <1>1, ClusterInitially, ClusterStep, PTL DEF ClusterBehaviour, PartsOfCluster

-----------------------------------------------------------------------------
(* The Checkpoint controller.                                              *)

CpPhases == {NewPhase, "Pending", "InProgress", "Completed", "Failed", "Expired"}
Cps == [exists : BOOLEAN, finalizer : BOOLEAN, deleting : BOOLEAN, phase : CpPhases,
        start : Nat, completion : Nat, expiry : Nat]

\* The types of what the proof needs.
CpTyped ==
    /\ cps \in [Checkpoints -> Cps]
    /\ seen \in [Checkpoints -> Cps]
    /\ held \in Cps
    /\ cpAt # "idle" => self \in Checkpoints
    /\ namesUsed \subseteq Checkpoints
    /\ triggers \in [Checkpoints -> Nat]
    /\ clock \in Nat

\* A name is given once.
NamesOnce == \A c \in Checkpoints : cps[c].exists => c \in namesUsed

\* A pass holds a copy of a resource that existed, in the phase its next call is for.
PassInPhase ==
    /\ cpAt # "idle" => held.exists
    /\ cpAt = "start" => held.phase = NewPhase
    /\ cpAt = "Pending" => held.phase = "Pending"
    /\ cpAt = "InProgress" => held.phase = "InProgress"

\* The resource is gone for good, or past the phase in which a checkpoint is triggered.
PastPending(c) == c \in namesUsed /\ (cps[c].exists => Rank(cps[c].phase) >= 2)

\* A checkpoint that was triggered, or is about to be, is past that phase.
TriggeredOnce ==
    /\ \A c \in Checkpoints : triggers[c] = 0 \/ (triggers[c] = 1 /\ PastPending(c))
    /\ cpAt = "trigger" => triggers[self] = 0 /\ PastPending(self)

\* The inductive invariant of the Checkpoint controller.
CpInv == CpTyped /\ NamesOnce /\ PassInPhase /\ TriggeredOnce

\* What may happen to a resource: it appears under a new name, it goes, or it stays and
\* moves forward.
MovesOn(c) ==
    /\ cps'[c].exists => cps[c].exists \/ c \notin namesUsed
    /\ cps[c].exists /\ cps'[c].exists =>
         /\ Rank(cps'[c].phase) >= Rank(cps[c].phase)
         /\ cps[c].phase = "Completed" => cps'[c].completion = cps[c].completion

\* The order of the phases.
LEMMA Ranks ==
    /\ NewPhase \notin {"Pending", "InProgress", "Completed", "Failed", "Expired"}
    /\ Rank(NewPhase) = 0 /\ Rank("Pending") = 1 /\ Rank("InProgress") = 2
    /\ Rank("Completed") = 3 /\ Rank("Failed") = 3 /\ Rank("Expired") = 4
    /\ \A p \in CpPhases : Rank(p) \in 0..4
<1>1. NewPhase \notin {"Pending", "InProgress", "Completed", "Failed", "Expired"}
    BY Zenon DEF NewPhase
<1>2. Rank(NewPhase) = 0
    BY <1>1 DEF Rank
<1>3. /\ Rank("Pending") = 1 /\ Rank("InProgress") = 2
      /\ Rank("Completed") = 3 /\ Rank("Failed") = 3 /\ Rank("Expired") = 4
    BY <1>1 DEF Rank
<1>4. \A p \in CpPhases : Rank(p) \in 0..4
    BY <1>2, <1>3 DEF CpPhases
<1> QED BY <1>1, <1>2, <1>3, <1>4

\* The absent resource.
LEMMA NoCpTyped == NoCp \in Cps /\ ~NoCp.exists
<1>1. Never \in Nat
    BY CheckpointOperatorAssumption DEF Never
<1> QED BY <1>1 DEF NoCp, Cps, CpPhases

\* Deleting marks a resource or removes it.
LEMMA DeletedTyped ==
    ASSUME NEW o \in Cps
    PROVE  /\ Deleted(o) \in Cps
           /\ Deleted(o).exists => /\ o.finalizer /\ Deleted(o).phase = o.phase
                                   /\ Deleted(o).completion = o.completion
                                   /\ Deleted(o).exists = o.exists
<1>1. CASE o.finalizer
  <2>1. Deleted(o) = [o EXCEPT !.deleting = TRUE]
      BY <1>1 DEF Deleted
  <2> QED BY <1>1, <2>1 DEF Cps
<1>2. CASE ~o.finalizer
  <2>1. Deleted(o) = NoCp
      BY <1>2 DEF Deleted
  <2> QED BY <2>1, NoCpTyped
<1> QED BY <1>1, <1>2

\* There is nothing before the first savepoint.
LEMMA CpInitially == CpInit => CpInv
BY NoCpTyped DEF CpInit, CpInv, CpTyped, NamesOnce, PassInPhase, TriggeredOnce

\* Steps that move resources on keep what is known of the past.
LEMMA MovesKeep ==
    ASSUME CpInv, cps' \in [Checkpoints -> Cps], \A c \in Checkpoints : MovesOn(c),
           namesUsed \subseteq namesUsed',
           NEW c \in Checkpoints, PastPending(c)
    PROVE  PastPending(c)'
<1>1. c \in namesUsed /\ c \in namesUsed'
    BY DEF PastPending
<1>2. CASE ~cps'[c].exists
    BY <1>1, <1>2 DEF PastPending
<1>3. CASE cps'[c].exists
  <2> DEFINE r == Rank(cps[c].phase)
             s == Rank(cps'[c].phase)
  <2>1. cps[c].exists /\ s >= r
      BY <1>1, <1>3 DEF MovesOn
  <2>2. r >= 2
      BY <2>1 DEF PastPending
  <2>3. r \in Nat /\ s \in Nat
      BY Ranks DEF CpInv, CpTyped, Cps
  <2> HIDE DEF r, s
  <2>4. s >= 2
      BY <2>1, <2>2, <2>3
  <2> QED BY <1>1, <2>4 DEF PastPending, s
<1> QED BY <1>2, <1>3

\* Every step but a trigger: the pass ends, goes on or waits, and resources move on.
LEMMA PassKeeps ==
    ASSUME CpInv,
           cps' \in [Checkpoints -> Cps], \A c \in Checkpoints : MovesOn(c),
           seen' \in [Checkpoints -> Cps], held' \in Cps, clock' \in Nat,
           cpAt' # "idle" => self' \in Checkpoints,
           namesUsed \subseteq namesUsed', namesUsed' \subseteq Checkpoints,
           \A c \in Checkpoints : cps'[c].exists => c \in namesUsed',
           triggers' = triggers,
           PassInPhase',
           cpAt' = "trigger" => /\ triggers[self'] = 0 /\ self' \in namesUsed'
                                /\ cps'[self'].exists => Rank(cps'[self'].phase) >= 2
    PROVE  CpInv'
<1>1. CpTyped' /\ NamesOnce'
    BY DEF CpInv, CpTyped, NamesOnce
<1>2. \A c \in Checkpoints : PastPending(c) => PastPending(c)'
    BY MovesKeep
<1>3. \A c \in Checkpoints : triggers'[c] = 0 \/ (triggers'[c] = 1 /\ PastPending(c)')
    BY <1>2 DEF CpInv, TriggeredOnce
<1>4. cpAt' = "trigger" => triggers'[self'] = 0 /\ PastPending(self)'
    BY DEF PastPending
<1>5. TriggeredOnce'
    BY <1>3, <1>4 DEF TriggeredOnce
<1> QED BY <1>1, <1>5 DEF CpInv

\* Nothing happens to the resources.
LEMMA StandStill ==
    ASSUME CpInv, cps' = cps
    PROVE  /\ cps' \in [Checkpoints -> Cps]
           /\ \A c \in Checkpoints : MovesOn(c)
           /\ \A c \in Checkpoints : cps'[c].exists => c \in namesUsed
<1>1. \A c \in Checkpoints : Rank(cps[c].phase) \in Nat
    BY Ranks DEF CpInv, CpTyped, Cps
<1> QED BY <1>1 DEF CpInv, CpTyped, MovesOn, NamesOnce

\* The pass ends.
LEMMA ReturnPass ==
    ASSUME CpReturn
    PROVE  /\ held' \in Cps /\ PassInPhase' /\ cpAt' = "idle"
BY NoCpTyped DEF CpReturn, PassInPhase

\* A write of the resource: accepted on the newest copy only.
LEMMA UpdateCpKeeps ==
    ASSUME CpInv, cpAt # "idle", NEW new \in Cps, NEW next, UpdateCp(new, next),
           UNCHANGED <<seen, triggers, cpOther>>,
           new.exists => /\ Rank(new.phase) >= Rank(held.phase)
                         /\ held.phase = "Completed" => new.completion = held.completion,
           next # "idle" => new.exists,
           next = "start" => new.phase = NewPhase,
           next = "Pending" => new.phase = "Pending",
           next = "InProgress" => new.phase = "InProgress",
           next = "trigger" => held.phase = "Pending" /\ new.phase = "InProgress"
    PROVE  CpInv' /\ \A c \in Checkpoints : MovesOn(c)
<1>1. /\ held # cps[self] => cps' = cps /\ CpReturn
      /\ held = cps[self] => cps' = [cps EXCEPT ![self] = new]
      /\ \/ held = cps[self] /\ next # "idle" /\ held' = new /\ cpAt' = next /\ self' = self
         \/ CpReturn
      /\ UNCHANGED <<seen, triggers, namesUsed, clock>>
    BY DEF UpdateCp, cpOther
<1>2. self \in Checkpoints /\ held.exists /\ held \in Cps
    BY DEF CpInv, CpTyped, PassInPhase
<1>3. /\ cps' \in [Checkpoints -> Cps]
      /\ \A c \in Checkpoints : MovesOn(c)
      /\ \A c \in Checkpoints : cps'[c].exists => c \in namesUsed
  <2>1. CASE held # cps[self]
      BY <1>1, <2>1, StandStill
  <2>2. CASE held = cps[self]
    <3>1. cps' = [cps EXCEPT ![self] = new] /\ cps \in [Checkpoints -> Cps]
        BY <1>1, <2>2 DEF CpInv, CpTyped
    <3>2. cps' \in [Checkpoints -> Cps] /\ cps'[self] = new
        BY <1>2, <3>1
    <3>3. ASSUME NEW c \in Checkpoints, c # self PROVE cps'[c] = cps[c]
        BY <3>1, <3>3
    <3>4. \A c \in Checkpoints : Rank(cps[c].phase) \in Nat
        BY Ranks DEF CpInv, CpTyped, Cps
    <3>5. MovesOn(self)
        BY <1>2, <2>2, <3>2 DEF MovesOn
    <3>6. ASSUME NEW c \in Checkpoints, c # self PROVE MovesOn(c)
        BY <3>3, <3>4, <3>6 DEF MovesOn
    <3>7. \A c \in Checkpoints : cps'[c].exists => c \in namesUsed
        BY <1>2, <2>2, <3>3 DEF CpInv, NamesOnce
    <3> QED BY <3>2, <3>5, <3>6, <3>7
  <2> QED BY <2>1, <2>2
<1>4. CASE CpReturn
    BY <1>1, <1>3, <1>4, ReturnPass, PassKeeps DEF CpInv, CpTyped
<1>5. CASE held = cps[self] /\ next # "idle" /\ held' = new /\ cpAt' = next /\ self' = self
  <2>1. PassInPhase'
      BY <1>5 DEF PassInPhase
  <2>2. ASSUME cpAt' = "trigger"
        PROVE  /\ triggers[self'] = 0 /\ self' \in namesUsed'
               /\ cps'[self'].exists => Rank(cps'[self'].phase) >= 2
    <3>1. held.phase = "Pending" /\ new.phase = "InProgress"
        BY <1>5, <2>2
    <3>2. ~PastPending(self) /\ self \in namesUsed
        BY <1>2, <1>5, <3>1, Ranks DEF PastPending, CpInv, NamesOnce
    <3>3. triggers[self] = 0
        BY <1>2, <3>2 DEF CpInv, TriggeredOnce
    <3>4. cps'[self] = new
        BY <1>1, <1>2, <1>5 DEF CpInv, CpTyped
    <3>5. Rank(cps'[self].phase) = 2
        BY <3>1, <3>4, Ranks
    <3>6. Rank(cps'[self].phase) >= 2
        BY <3>5
    <3> QED BY <1>1, <1>5, <3>2, <3>3, <3>6
  <2> QED BY <1>1, <1>2, <1>3, <1>5, <2>1, <2>2, PassKeeps DEF CpInv, CpTyped
<1> QED BY <1>1, <1>3, <1>4, <1>5

\* Deleting some resources, at the end of a pass or beside it.
LEMMA DeletionsMoveOn ==
    ASSUME CpInv, NEW gone \in SUBSET Checkpoints,
           cps' = [c \in Checkpoints |-> IF c \in gone /\ cps[c].exists THEN Deleted(cps[c]) ELSE cps[c]]
    PROVE  /\ cps' \in [Checkpoints -> Cps]
           /\ \A c \in Checkpoints : MovesOn(c)
           /\ \A c \in Checkpoints : cps'[c].exists => c \in namesUsed
<1>1. \A c \in Checkpoints : cps[c] \in Cps /\ Rank(cps[c].phase) \in Nat
    BY Ranks DEF CpInv, CpTyped, Cps
<1>2. cps' \in [Checkpoints -> Cps]
    BY <1>1, DeletedTyped
<1>3. ASSUME NEW c \in Checkpoints
      PROVE  /\ cps'[c].exists => cps[c].exists /\ cps'[c].phase = cps[c].phase
                                 /\ cps'[c].completion = cps[c].completion
    BY <1>1, DeletedTyped
<1>4. ASSUME NEW c \in Checkpoints PROVE MovesOn(c)
    BY <1>1, <1>3 DEF MovesOn
<1>5. \A c \in Checkpoints : cps'[c].exists => c \in namesUsed
    BY <1>3 DEF CpInv, NamesOnce
<1> QED BY <1>2, <1>4, <1>5

\* The retention and the clean-up delete some of the completed resources.
LEMMA RemoveMovesOn ==
    ASSUME CpInv, NEW limit, RemoveExcess(limit)
    PROVE  /\ cps' \in [Checkpoints -> Cps]
           /\ \A c \in Checkpoints : MovesOn(c)
           /\ \A c \in Checkpoints : cps'[c].exists => c \in namesUsed
<1> DEFINE completed == {c \in Checkpoints : seen[c].exists /\ seen[c].phase = "Completed"}
           excess == IF Cardinality(completed) > limit THEN Cardinality(completed) - limit ELSE 0
<1>1. PICK gone \in kSubset(excess, completed) :
        cps' = [c \in Checkpoints |-> IF c \in gone /\ cps[c].exists THEN Deleted(cps[c]) ELSE cps[c]]
    BY DEF RemoveExcess
<1>2. gone \in SUBSET Checkpoints
    BY DEF kSubset
<1> HIDE DEF completed, excess
<1> QED BY <1>1, <1>2, DeletionsMoveOn

\* A new resource has a name that was not used before.
LEMMA NewNameIsNew == ASSUME CpInv, namesUsed # Checkpoints PROVE NewName \in Checkpoints \ namesUsed
<1>1. \E c \in Checkpoints : c \notin namesUsed
    BY DEF CpInv, CpTyped
<1> QED BY <1>1 DEF NewName

\* What the controller does to the resource it reconciles.
LEMMA ReconcileCpKeeps ==
    ASSUME CpInv, CpReconcile
    PROVE  CpInv' /\ \A c \in Checkpoints : MovesOn(c)
<1> USE CheckpointOperatorAssumption
<1>0. /\ held \in Cps /\ clock \in Nat /\ seen \in [Checkpoints -> Cps] /\ namesUsed \subseteq Checkpoints
      /\ Rank(held.phase) \in Nat
    BY Ranks DEF CpInv, CpTyped, Cps
<1>1. ASSUME NEW c \in Checkpoints, GetCp(c) PROVE CpInv' /\ \A d \in Checkpoints : MovesOn(d)
  <2>1. /\ seen[c].exists /\ self' = c /\ held' = seen[c] /\ cpAt' = CpBegin(seen[c])
        /\ UNCHANGED <<cps, seen, triggers, namesUsed, clock>>
      BY <1>1 DEF GetCp, cpOther
  <2>2. /\ seen[c] \in Cps
        /\ cpAt' \in {"delete", "finalizer", "start", "expire", "Pending", "InProgress", "Completed",
                      "Failed", "Expired"}
        /\ cpAt' = "start" => seen[c].phase = NewPhase
        /\ cpAt' = "Pending" => seen[c].phase = "Pending"
        /\ cpAt' = "InProgress" => seen[c].phase = "InProgress"
      BY <1>0, <2>1 DEF CpBegin, Cps, CpPhases
  <2>3. PassInPhase'
      BY <2>1, <2>2 DEF PassInPhase
  <2>4. cpAt' # "trigger"
      BY <2>2
  <2> QED BY <1>0, <2>1, <2>2, <2>3, <2>4, StandStill, PassKeeps
<1>2. CASE AddCpFinalizer
  <2> DEFINE new == [held EXCEPT !.finalizer = TRUE]
             next == IF held.phase = NewPhase THEN "start" ELSE held.phase
  <2>1. cpAt = "finalizer" /\ UpdateCp(new, next) /\ UNCHANGED <<seen, triggers, cpOther>>
      BY <1>2 DEF AddCpFinalizer
  <2>2. held.exists
      BY <2>1 DEF CpInv, PassInPhase
  <2>3. new \in Cps /\ new.exists /\ new.phase = held.phase /\ new.completion = held.completion
      BY <1>0, <2>2 DEF Cps
  <2>4. /\ next = "start" => held.phase = NewPhase
        /\ next = "Pending" => held.phase = "Pending"
        /\ next = "InProgress" => held.phase = "InProgress"
        /\ next # "trigger"
      BY <1>0 DEF Cps, CpPhases
  <2> HIDE DEF new, next
  <2> QED BY <1>0, <2>1, <2>3, <2>4, UpdateCpKeeps
<1>3. CASE InitCpStatus
  <2> DEFINE new == [held EXCEPT !.phase = "Pending", !.start = clock]
  <2>1. cpAt = "start" /\ UpdateCp(new, "Pending") /\ UNCHANGED <<seen, triggers, cpOther>>
      BY <1>3 DEF InitCpStatus
  <2>2. held.exists /\ held.phase = NewPhase
      BY <2>1 DEF CpInv, PassInPhase
  <2>3. new \in Cps /\ new.exists /\ new.phase = "Pending" /\ new.completion = held.completion
      BY <1>0, <2>2 DEF Cps, CpPhases
  <2> HIDE DEF new
  <2>4. Rank(new.phase) >= Rank(held.phase)
      BY <2>2, <2>3, Ranks
  <2> QED BY <2>1, <2>3, <2>4, UpdateCpKeeps
<1>4. CASE reconcileCpDelete
  <2> DEFINE new == IF held.finalizer THEN NoCp ELSE held
  <2>1. cpAt = "delete" /\ UpdateCp(new, "idle") /\ UNCHANGED <<seen, triggers, cpOther>>
      BY <1>4 DEF reconcileCpDelete
  <2>2. new \in Cps /\ (new.exists => new = held)
      BY <1>0, NoCpTyped
  <2> HIDE DEF new
  <2> QED BY <1>0, <2>1, <2>2, UpdateCpKeeps
<1>5. CASE reconcilePending
  <2> DEFINE new == [held EXCEPT !.phase = IF jobExists THEN "InProgress" ELSE "Failed"]
             next == IF jobExists THEN "trigger" ELSE "idle"
  <2>1. cpAt = "Pending" /\ UpdateCp(new, next) /\ UNCHANGED <<seen, triggers, cpOther>>
      BY <1>5 DEF reconcilePending
  <2>2. held.exists /\ held.phase = "Pending"
      BY <2>1 DEF CpInv, PassInPhase
  <2>3. /\ new \in Cps /\ new.exists /\ new.completion = held.completion
        /\ new.phase = IF jobExists THEN "InProgress" ELSE "Failed"
      BY <1>0, <2>2 DEF Cps, CpPhases
  <2>4. next = IF jobExists THEN "trigger" ELSE "idle"
      OBVIOUS
  <2> HIDE DEF new, next
  <2>5. Rank(new.phase) >= Rank(held.phase)
      BY <2>2, <2>3, Ranks
  <2>6. /\ next \notin {"start", "Pending", "InProgress"}
        /\ next = "trigger" => new.phase = "InProgress"
      BY <2>3, <2>4
  <2> QED BY <2>1, <2>2, <2>3, <2>5, <2>6, UpdateCpKeeps
<1>6. CASE triggerCheckpoint
  <2>1. /\ cpAt = "trigger" /\ triggers' = [triggers EXCEPT ![self] = @ + 1]
        /\ CpReturn /\ UNCHANGED <<cps, seen, namesUsed, clock>>
      BY <1>6 DEF triggerCheckpoint, cpOther
  <2>2. self \in Checkpoints /\ triggers \in [Checkpoints -> Nat] /\ triggers[self] = 0 /\ PastPending(self)
      BY <2>1 DEF CpInv, CpTyped, TriggeredOnce
  <2>3. CpTyped' /\ NamesOnce' /\ PassInPhase' /\ cpAt' = "idle"
      BY <2>1, <2>2, ReturnPass DEF CpInv, CpTyped, NamesOnce
  <2>4. \A c \in Checkpoints : PastPending(c)' <=> PastPending(c)
      BY <2>1 DEF PastPending
  <2>5. \A c \in Checkpoints : triggers'[c] = IF c = self THEN 1 ELSE triggers[c]
      BY <2>1, <2>2
  <2>6. \A c \in Checkpoints : triggers'[c] = 0 \/ (triggers'[c] = 1 /\ PastPending(c)')
      BY <2>2, <2>4, <2>5 DEF CpInv, TriggeredOnce
  <2>7. TriggeredOnce'
      BY <2>3, <2>6 DEF TriggeredOnce
  <2> QED BY <2>1, <2>3, <2>7, StandStill DEF CpInv
<1>7. CASE reconcileInProgress
  <2> DEFINE new == [held EXCEPT !.phase = "Completed", !.completion = clock, !.expiry = clock + MaxAge]
  <2>1. /\ cpAt = "InProgress" /\ UNCHANGED <<seen, triggers, cpOther>>
        /\ UpdateCp(new, "idle") \/ (CpReturn /\ UNCHANGED cps)
      BY <1>7 DEF reconcileInProgress
  <2>2. held.exists /\ held.phase = "InProgress"
      BY <2>1 DEF CpInv, PassInPhase
  <2>3. new \in Cps /\ new.phase = "Completed"
    <3>1. clock + MaxAge \in Nat /\ "Completed" \in CpPhases
        BY <1>0 DEF CpPhases
    <3> QED BY <1>0, <3>1 DEF Cps
  <2> HIDE DEF new
  <2>4. Rank(new.phase) >= Rank(held.phase)
      BY <2>2, <2>3, Ranks
  <2>5. CASE UpdateCp(new, "idle")
      BY <2>1, <2>2, <2>3, <2>4, <2>5, UpdateCpKeeps
  <2>6. CASE CpReturn /\ UNCHANGED cps
      BY <1>0, <2>1, <2>6, StandStill, ReturnPass, PassKeeps DEF cpOther
  <2> QED BY <2>1, <2>5, <2>6
<1>8. CASE applyRetentionPolicy
  <2>1. CpReturn /\ UNCHANGED <<seen, triggers, namesUsed, clock>> /\ (RemoveExcess(MaxCount) \/ UNCHANGED cps)
      BY <1>8 DEF applyRetentionPolicy, cpOther
  <2>2. /\ cps' \in [Checkpoints -> Cps]
        /\ \A c \in Checkpoints : MovesOn(c)
        /\ \A c \in Checkpoints : cps'[c].exists => c \in namesUsed
      BY <2>1, RemoveMovesOn, StandStill
  <2> QED BY <1>0, <2>1, <2>2, ReturnPass, PassKeeps
<1>9. CASE reconcileFailed
  <2>1. /\ cpAt = "Failed" /\ CpReturn /\ UNCHANGED <<seen, triggers, namesUsed, clock>>
        /\ cps' = cps \/ (cps[self].exists /\ cps' = [cps EXCEPT ![self] = Deleted(@)])
      BY <1>9 DEF reconcileFailed, cpOther
  <2>2. self \in Checkpoints /\ cps \in [Checkpoints -> Cps]
      BY <2>1 DEF CpInv, CpTyped
  <2>3. \/ cps' = cps
        \/ cps' = [c \in Checkpoints |-> IF c \in {self} /\ cps[c].exists THEN Deleted(cps[c]) ELSE cps[c]]
      BY <2>1, <2>2
  <2>4. /\ cps' \in [Checkpoints -> Cps]
        /\ \A c \in Checkpoints : MovesOn(c)
        /\ \A c \in Checkpoints : cps'[c].exists => c \in namesUsed
    <3>1. CASE cps' = cps
        BY <3>1, StandStill
    <3>2. CASE cps' = [c \in Checkpoints |-> IF c \in {self} /\ cps[c].exists THEN Deleted(cps[c]) ELSE cps[c]]
      <4>1. {self} \in SUBSET Checkpoints
          BY <2>2
      <4> QED BY <3>2, <4>1, DeletionsMoveOn
    <3> QED BY <2>3, <3>1, <3>2
  <2> QED BY <1>0, <2>1, <2>4, ReturnPass, PassKeeps
<1>10. CASE expireCheckpoint
  <2> DEFINE new == [held EXCEPT !.phase = "Expired"]
  <2>1. cpAt = "expire" /\ UpdateCp(new, "remove") /\ UNCHANGED <<seen, triggers, cpOther>>
      BY <1>10 DEF expireCheckpoint
  <2>2. held.exists
      BY <2>1 DEF CpInv, PassInPhase
  <2>3. new \in Cps /\ new.exists /\ new.phase = "Expired" /\ new.completion = held.completion
      BY <1>0, <2>2 DEF Cps, CpPhases
  <2> HIDE DEF new
  <2>4. Rank(held.phase) \in 0..4
      BY <1>0, Ranks DEF Cps
  <2>5. Rank(new.phase) >= Rank(held.phase)
      BY <2>3, <2>4, Ranks
  <2> QED BY <2>1, <2>3, <2>5, UpdateCpKeeps
<1>11. CASE DeleteExpired
  <2>1. /\ cpAt = "remove" /\ CpReturn /\ UNCHANGED <<seen, triggers, namesUsed, clock>>
        /\ cps' = [cps EXCEPT ![self] = IF @.exists THEN Deleted(@) ELSE @]
      BY <1>11 DEF DeleteExpired, cpOther
  <2>2. self \in Checkpoints /\ cps \in [Checkpoints -> Cps]
      BY <2>1 DEF CpInv, CpTyped
  <2>3. cps' = [c \in Checkpoints |-> IF c \in {self} /\ cps[c].exists THEN Deleted(cps[c]) ELSE cps[c]]
      BY <2>1, <2>2
  <2>4. /\ cps' \in [Checkpoints -> Cps]
        /\ \A c \in Checkpoints : MovesOn(c)
        /\ \A c \in Checkpoints : cps'[c].exists => c \in namesUsed
    <3>1. {self} \in SUBSET Checkpoints
        BY <2>2
    <3> QED BY <2>3, <3>1, DeletionsMoveOn
  <2> QED BY <1>0, <2>1, <2>4, ReturnPass, PassKeeps
<1> QED
    BY <1>1, <1>2, <1>3, <1>4, <1>5, <1>6, <1>7, <1>8, <1>9, <1>10, <1>11 DEF CpReconcile

\* The savepoint manager, the caches, a crash and the clock.
LEMMA CpOthersKeep ==
    ASSUME CpInv,
           \/ SavepointManager \/ JobDeleted \/ OperatorCrash \/ CpTick \/ UNCHANGED cpVars
           \/ \E c \in Checkpoints : CacheCp(c)
    PROVE  CpInv' /\ \A c \in Checkpoints : MovesOn(c)
<1>0. /\ held \in Cps /\ clock \in Nat /\ seen \in [Checkpoints -> Cps] /\ namesUsed \subseteq Checkpoints
      /\ cps \in [Checkpoints -> Cps] /\ PassInPhase /\ (cpAt # "idle" => self \in Checkpoints)
    BY DEF CpInv, CpTyped
<1>1. ASSUME UNCHANGED <<self, held, cpAt, triggers>>,
             /\ cps' \in [Checkpoints -> Cps]
             /\ \A c \in Checkpoints : MovesOn(c)
             /\ \A c \in Checkpoints : cps'[c].exists => c \in namesUsed',
             seen' \in [Checkpoints -> Cps], clock' \in Nat,
             namesUsed \subseteq namesUsed', namesUsed' \subseteq Checkpoints
      PROVE  CpInv'
  <2>1. PassInPhase'
      BY <1>0, <1>1 DEF PassInPhase
  <2>2. cpAt' = "trigger" => self \in Checkpoints /\ triggers[self] = 0 /\ PastPending(self)
      BY <1>0, <1>1 DEF CpInv, TriggeredOnce
  <2>3. \A c \in Checkpoints : PastPending(c) => PastPending(c)'
      BY <1>1, MovesKeep
  <2>4. cpAt' = "trigger" => /\ triggers[self'] = 0 /\ self' \in namesUsed'
                             /\ cps'[self'].exists => Rank(cps'[self'].phase) >= 2
      BY <1>1, <2>2, <2>3 DEF PastPending
  <2> QED BY <1>0, <1>1, <2>1, <2>4, PassKeeps
<1>2. CASE CleanupOldSavepoints
  <2>1. RemoveExcess(MaxCount) /\ UNCHANGED <<seen, self, held, cpAt, triggers, namesUsed, clock>>
      BY <1>2 DEF CleanupOldSavepoints
  <2> QED BY <1>0, <1>1, <2>1, RemoveMovesOn
<1>3. CASE TriggerSavepoint
  <2> DEFINE n == NewName
             o == [NoCp EXCEPT !.exists = TRUE]
  <2>1. /\ namesUsed # Checkpoints /\ namesUsed' = namesUsed \cup {n} /\ cps' = [cps EXCEPT ![n] = o]
        /\ UNCHANGED <<seen, self, held, cpAt, triggers, clock>>
      BY <1>3 DEF TriggerSavepoint
  <2>2. n \in Checkpoints \ namesUsed
      BY <2>1, NewNameIsNew
  <2>3. o \in Cps
      BY NoCpTyped DEF Cps
  <2>4. ~cps[n].exists
      BY <2>2 DEF CpInv, NamesOnce
  <2> HIDE DEF n, o
  <2>5. \A c \in Checkpoints : cps'[c] = IF c = n THEN o ELSE cps[c]
      BY <1>0, <2>1
  <2>6. \A c \in Checkpoints : Rank(cps[c].phase) \in Nat
      BY Ranks DEF CpInv, CpTyped, Cps
  <2>7. \A c \in Checkpoints : MovesOn(c)
      BY <2>2, <2>4, <2>5, <2>6 DEF MovesOn
  <2>8. cps' \in [Checkpoints -> Cps] /\ \A c \in Checkpoints : cps'[c].exists => c \in namesUsed'
      BY <1>0, <2>1, <2>3, <2>5 DEF CpInv, NamesOnce
  <2> QED BY <1>0, <1>1, <2>1, <2>2, <2>7, <2>8
<1>4. CASE WaitForSavepoint \/ RestoreFromSavepoint \/ JobDeleted \/ CpTick \/ UNCHANGED cpVars
  <2>1. cps' = cps /\ UNCHANGED <<seen, self, held, cpAt, triggers, namesUsed>> /\ clock' \in Nat
      BY <1>0, <1>4 DEF WaitForSavepoint, RestoreFromSavepoint, JobDeleted, CpTick, cpVars
  <2> QED BY <1>0, <1>1, <2>1, StandStill
<1>5. ASSUME NEW c \in Checkpoints, CacheCp(c) PROVE CpInv' /\ \A d \in Checkpoints : MovesOn(d)
  <2>1. cps' = cps /\ UNCHANGED <<self, held, cpAt, triggers, namesUsed, clock>>
        /\ seen' = [seen EXCEPT ![c] = cps[c]]
      BY <1>5 DEF CacheCp, cpOther
  <2>2. seen' \in [Checkpoints -> Cps]
      BY <1>0, <2>1
  <2> QED BY <1>0, <1>1, <2>1, <2>2, StandStill
<1>6. CASE OperatorCrash
    BY <1>0, <1>6, StandStill, ReturnPass, PassKeeps DEF OperatorCrash, cpOther
<1> QED BY <1>2, <1>3, <1>4, <1>5, <1>6 DEF SavepointManager

\* Every step keeps the invariant and moves every resource on.
LEMMA CpStep ==
    ASSUME CpInv, [CpNext]_cpVars
    PROVE  CpInv' /\ \A c \in Checkpoints : MovesOn(c)
BY ReconcileCpKeeps, CpOthersKeep DEF CpNext

\* The invariant is inductive.
LEMMA CpInvAlways == CpSpec => []CpInv
BY CpInitially, CpStep, PTL DEF CpSpec

\* A Checkpoint goes through its phases in order and is triggered at most once, although
\* checkpoint_controller.go works on cached copies and may stop between any two calls.
THEOREM PhasesOnlyForward == CpSpec => PhasesForward
<1>1. ASSUME CpInv, [CpNext]_cpVars, NEW c \in Checkpoints
      PROVE  /\ triggers'[c] <= 1
             /\ cps[c].exists /\ cps'[c].exists =>
                  /\ Rank(cps'[c].phase) >= Rank(cps[c].phase)
                  /\ cps[c].phase = "Completed" => cps'[c].completion = cps[c].completion
  <2>1. CpInv' /\ MovesOn(c)
      BY <1>1, CpStep
  <2>2. triggers'[c] = 0 \/ triggers'[c] = 1
      BY <2>1 DEF CpInv, TriggeredOnce
  <2> QED BY <2>1, <2>2 DEF MovesOn
<1>2. CpInv /\ [CpNext]_cpVars =>
        [\A c \in Checkpoints :
          /\ triggers'[c] <= 1
          /\ cps[c].exists /\ cps'[c].exists =>
               /\ Rank(cps'[c].phase) >= Rank(cps[c].phase)
               /\ cps[c].phase = "Completed" => cps'[c].completion = cps[c].completion]_cpVars
    BY <1>1
<1> QED BY CpInvAlways, <1>2, PTL DEF CpSpec, PhasesForward

-----------------------------------------------------------------------------
(* The checkpoint manager.                                                 *)

\* The part of TypeOK that the argument needs.
Typed ==
    /\ position \in Nat /\ provider \in Nat /\ backend \in Nat
    /\ draft \in Drafts
    /\ files \in [Ids -> Files]

\* The checkpoint in the making: before GetState its offsets are behind the
\* provider, afterwards behind the state it holds.
DraftSound ==
    /\ step = "providers" => draft.offsets <= provider
    /\ step \in {"backends", "write", "writing", "written"} => draft.offsets <= draft.provider

\* So do those of a file.
FilesSound == \A id \in Ids : files[id].offsets <= files[id].provider

\* NoEffectLost, and between a crash and the recovery too.
CaughtUp == provider >= position

\* The inductive invariant for NoEffectLost.
IInv == Typed /\ DraftSound /\ FilesSound /\ CaughtUp

(* A nonempty set of checkpoints has a newest one: what LoadLatestCheckpoint takes. *)
LEMMA NewestExists ==
    ASSUME NEW S \in SUBSET Ids, S # {}
    PROVE  Max(S) \in S /\ \A id \in S : id <= Max(S)
<1> DEFINE Ages == {a \in Nat : \E id \in S : a = MaxCreated - id}
<1>0. \A id \in S : id \in Nat /\ MaxCreated - id \in Nat
    BY CheckpointAssumption DEF Ids
<1>1. Ages \in SUBSET Nat /\ Ages # {}
    BY <1>0
<1>2. PICK a \in Ages : \A b \in Ages : ~(<<b, a>> \in OpToRel(<, Nat))
    BY <1>1, NatLessThanWellFounded, WFMin
<1>3. \A b \in Ages : a <= b
  <2> SUFFICES ASSUME NEW b \in Ages PROVE a <= b
      OBVIOUS
  <2>1. ~(b < a)
      BY <1>1, <1>2 DEF OpToRel
  <2> QED
      BY <1>1, <2>1
<1>4. PICK newest \in S : a = MaxCreated - newest
    OBVIOUS
<1>5. \A id \in S : id <= newest
    BY <1>0, <1>3, <1>4, CheckpointAssumption
<1> QED
    BY <1>4, <1>5 DEF Max

(* The files that WriteFile and OpenFile leave are files. *)
LEMMA WrittenFile ==
    ASSUME Typed
    PROVE  /\ Written \in Files
           /\ Written.offsets = draft.offsets
           /\ Written.provider = draft.provider
           /\ File("torn", NoDraft) \in Files
           /\ NoFile \in Files
BY DEF Typed, Written, File, NoDraft, NoFile, Nothing, InFile, Files, Drafts, Bytes

\* Every step keeps the types.
LEMMA TypedStep == IInv /\ [Next]_vars => Typed'
<1> SUFFICES ASSUME IInv, [Next]_vars PROVE Typed'
    OBVIOUS
<1> USE DEF Typed, pipeline, disk, memory
<1>0. Typed
    BY DEF IInv
<1>1. CASE Process
    BY <1>0, <1>1 DEF Process
<1>2. CASE Begin
    BY <1>0, <1>2 DEF Begin, NoDraft, Nothing, Drafts, Bytes
<1>3. CASE GetState
    BY <1>0, <1>3 DEF GetState, Drafts
<1>4. CASE CollectFails \/ WriteFails
    BY <1>0, <1>4 DEF CollectFails, WriteFails
<1>5. CASE Snapshot
    BY <1>0, <1>5 DEF Snapshot, SnapshotBytes, Drafts, Bytes
<1>6. CASE OpenFile
    BY <1>0, <1>6, WrittenFile DEF OpenFile
<1>7. CASE WriteFile
    BY <1>0, <1>7, WrittenFile DEF WriteFile
<1>8. CASE Finish
    BY <1>0, <1>8, WrittenFile DEF Finish
<1>9. CASE Crash
    BY <1>0, <1>9 DEF Crash, NoDraft, Nothing, Drafts, Bytes
<1>10. CASE StartFresh \/ LoadFails \/ RestoreFails
    BY <1>0, <1>10 DEF StartFresh, LoadFails, RestoreFails
<1>11. CASE RestoreFromCheckpoint
  <2>1. Latest \in Ids
      BY <1>11, NewestExists DEF RestoreFromCheckpoint, Latest, OnDisk
  <2>2. files[Latest] \in Files
      BY <1>0, <2>1
  <2>3. files[Latest].provider \in Nat /\ files[Latest].offsets \in Nat
          /\ files[Latest].backend.state \in Nat
      BY <2>2 DEF Files, Bytes
  <2> QED
      BY <1>0, <1>11, <2>3 DEF RestoreFromCheckpoint
<1>12. CASE UNCHANGED vars
    BY <1>0, <1>12 DEF vars
<1> QED
    BY <1>1, <1>2, <1>3, <1>4, <1>5, <1>6, <1>7, <1>8, <1>9, <1>10, <1>11, <1>12
    DEF Next, CreateCheckpoint, Recover

\* Every step of CreateCheckpoint and of the recovery keeps the offsets at or behind the state.
LEMMA SoundStep == IInv /\ [Next]_vars => (DraftSound /\ FilesSound /\ CaughtUp)'
<1> SUFFICES ASSUME IInv, [Next]_vars PROVE (DraftSound /\ FilesSound /\ CaughtUp)'
    OBVIOUS
<1> USE DEF DraftSound, FilesSound, CaughtUp, pipeline, disk, memory
<1>0. Typed /\ DraftSound /\ FilesSound /\ CaughtUp
    BY DEF IInv
<1>t. /\ position \in Nat /\ provider \in Nat
      /\ draft \in Drafts /\ draft.offsets \in Nat /\ draft.provider \in Nat
      /\ files \in [Ids -> Files]
    BY <1>0 DEF Typed, Drafts
<1>1. CASE Process
    BY <1>0, <1>t, <1>1 DEF Process
<1>2. CASE Begin
    BY <1>0, <1>t, <1>2 DEF Begin, NoDraft
<1>3. CASE GetState
    BY <1>0, <1>t, <1>3 DEF GetState, Drafts
<1>4. CASE CollectFails \/ WriteFails
    BY <1>0, <1>4 DEF CollectFails, WriteFails
<1>5. CASE Snapshot
    BY <1>0, <1>t, <1>5 DEF Snapshot, Drafts
<1>6. CASE OpenFile
  <2>1. File("torn", NoDraft).offsets = 0 /\ File("torn", NoDraft).provider = 0
      BY DEF File, NoDraft
  <2> QED
      BY <1>0, <1>t, <1>6, <2>1 DEF OpenFile
<1>7. CASE WriteFile
    BY <1>0, <1>t, <1>7, WrittenFile DEF WriteFile
<1>8. CASE Finish
  <2>1. NoFile.offsets = 0 /\ NoFile.provider = 0
      BY DEF NoFile, File, NoDraft
  <2> QED
      BY <1>0, <1>t, <1>8, <2>1 DEF Finish
<1>9. CASE Crash
    BY <1>0, <1>9 DEF Crash
<1>10. CASE StartFresh
    BY <1>0, <1>10 DEF StartFresh
<1>11. CASE LoadFails \/ RestoreFails
    BY <1>0, <1>11 DEF LoadFails, RestoreFails
<1>12. CASE RestoreFromCheckpoint
  <2>1. Latest \in Ids
      BY <1>12, NewestExists DEF RestoreFromCheckpoint, Latest, OnDisk
  <2>2. files[Latest].offsets <= files[Latest].provider
      BY <1>0, <2>1
  <2>3. files[Latest] \in Files
      BY <1>t, <2>1
  <2>4. files[Latest].offsets \in Nat /\ files[Latest].provider \in Nat
      BY <2>3 DEF Files
  <2>5. provider' = files[Latest].provider /\ position' \in {0, files[Latest].offsets}
      BY <1>12 DEF RestoreFromCheckpoint
  <2>6. CaughtUp'
      BY <2>2, <2>4, <2>5
  <2>7. step' \in {"down", "idle"} /\ files' = files
      BY <1>12 DEF RestoreFromCheckpoint
  <2> QED
      BY <1>0, <2>6, <2>7
<1>13. CASE UNCHANGED vars
    BY <1>0, <1>13 DEF vars
<1> QED
    BY <1>1, <1>2, <1>3, <1>4, <1>5, <1>6, <1>7, <1>8, <1>9, <1>10, <1>11, <1>12, <1>13
    DEF Next, CreateCheckpoint, Recover

\* The invariant holds before the first start.
LEMMA InitIInv == Init => IInv
BY DEF Init, IInv, Typed, DraftSound, FilesSound, CaughtUp, NoDraft, NoFile, File,
       Nothing, Drafts, Files, Bytes, Ids

(* The offsets of a checkpoint never run ahead of the state in it, whatever crashes or
   fails while CreateCheckpoint collects and writes it. *)
THEOREM Inductive == Spec => []IInv
<1>1. IInv /\ [Next]_vars => IInv'
    BY TypedStep, SoundStep DEF IInv
<1> QED
    BY InitIInv, <1>1, PTL DEF Spec

(* A running pipeline, recovered or not, has the effect of every event before its
   offset. *)
THEOREM EffectsKept == Spec => []NoEffectLost
<1>1. IInv => NoEffectLost
    BY DEF IInv, CaughtUp, NoEffectLost
<1> QED
    BY Inductive, <1>1, PTL

-----------------------------------------------------------------------------
(***************************************************************************)
(* No restart goes back behind a completed checkpoint that was not given   *)
(* up.  Recovery takes the newest file, so of those a newer file must have *)
(* higher offsets; and a checkpoint in the making must stay between them   *)
(* and the pipeline.                                                       *)
(***************************************************************************)
Collecting == step \in {"providers", "backends", "write", "writing"}

\* Of the files that stand, a newer one has offsets at least as high.
NewestLast ==
    /\ created \in Nat /\ abandoned \in Nat
    /\ \A id \in OnDisk : id <= created
    /\ \A i, j \in Standing : i <= j => files[i].offsets <= files[j].offsets

\* A checkpoint in the making lies between the files that stand and the position of the pipeline.
DraftBetween ==
    Collecting => /\ draft.offsets <= position
                  /\ \A id \in Standing : files[id].offsets <= draft.offsets

\* The inductive invariant for NoRollback.
OrderInv == NewestLast /\ DraftBetween /\ NoRollback

(* A step that leaves the files and the pipeline alone, or only moves the pipeline
   forward, keeps the order. *)
LEMMA OrderStep == IInv /\ OrderInv /\ [Next]_vars => OrderInv'
<1> SUFFICES ASSUME IInv, OrderInv, [Next]_vars PROVE OrderInv'
    OBVIOUS
<1> USE DEF OrderInv, NewestLast, DraftBetween, NoRollback, Collecting, Running,
            Standing, Complete, OnDisk, pipeline, disk, memory
<1>t. /\ position \in Nat
      /\ draft \in Drafts /\ draft.offsets \in Nat
      /\ files \in [Ids -> Files]
      /\ \A id \in Ids : files[id].offsets \in Nat
    BY DEF IInv, Typed, Drafts, Files
<1>1. CASE Process
    BY <1>t, <1>1 DEF Process
<1>2. CASE Begin
    BY <1>t, <1>2 DEF Begin, NoDraft
<1>3. CASE GetState
    BY <1>t, <1>3 DEF GetState, Drafts
<1>4. CASE CollectFails \/ WriteFails
    BY <1>4 DEF CollectFails, WriteFails
<1>5. CASE Snapshot
    BY <1>t, <1>5 DEF Snapshot, Drafts
<1>6. CASE OpenFile
  <2>1. File("torn", NoDraft).kind = "torn"
      BY DEF File
  <2>2. /\ created' = created + 1 /\ position' = position /\ draft' = draft /\ abandoned' = abandoned
        /\ step = "write" /\ step' = "writing"
        /\ files' = [files EXCEPT ![created + 1] = File("torn", NoDraft)]
      BY <1>6 DEF OpenFile
  <2>3. \A id \in Standing' : id \in Standing /\ files'[id] = files[id]
    <3> SUFFICES ASSUME NEW id \in Ids, files'[id].kind \in {"full", "incremental"}
                 PROVE  id \in Complete /\ files'[id] = files[id]
        BY <2>2
    <3>1. id # created + 1
        BY <1>t, <2>1, <2>2
    <3>2. files'[id] = files[id]
        BY <1>t, <2>2, <3>1
    <3> QED
        BY <3>2
  <2>4. \A id \in OnDisk' : id <= created'
    <3> SUFFICES ASSUME NEW id \in Ids, files'[id].kind # "none"
                 PROVE  id <= created'
        OBVIOUS
    <3>0. id \in Nat /\ created \in Nat
        BY CheckpointAssumption DEF Ids
    <3>1. CASE id = created + 1
        BY <2>2, <3>0, <3>1
    <3>2. CASE id # created + 1
      <4>1. files'[id] = files[id]
          BY <1>t, <2>2, <3>2
      <4>2. id <= created
          BY <4>1
      <4> QED
          BY <2>2, <3>0, <4>2
    <3> QED
        BY <3>1, <3>2
  <2>5. created' \in Nat
      BY <2>2
  <2>6. NewestLast'
    <3>1. \A i, j \in Standing' : i <= j => files'[i].offsets <= files'[j].offsets
        BY <2>3
    <3> QED
        BY <2>2, <2>4, <2>5, <3>1
  <2>7. DraftBetween'
      BY <2>2, <2>3
  <2>8. NoRollback'
      BY <2>2, <2>3
  <2> QED
      BY <2>6, <2>7, <2>8
<1>7. CASE WriteFile
  <2>1. Typed
      BY DEF IInv
  <2>2. Written.offsets = draft.offsets
      BY <2>1, WrittenFile
  <2>3. /\ created' = created /\ position' = position /\ draft' = draft /\ abandoned' = abandoned
        /\ step = "writing" /\ step' = "written"
        /\ files' = [files EXCEPT ![created] = Written]
      BY <1>7 DEF WriteFile
  <2>4. \A id \in Standing' : files'[id].offsets <= draft.offsets
      BY <1>t, <2>2, <2>3
  <2>5. \A i, j \in Standing' : i <= j => files'[i].offsets <= files'[j].offsets
    <3> SUFFICES ASSUME NEW i \in Standing', NEW j \in Standing', i <= j
                 PROVE  files'[i].offsets <= files'[j].offsets
        OBVIOUS
    <3>1. CASE j = created
        BY <1>t, <2>2, <2>3, <2>4, <3>1
    <3>2. CASE j # created
        BY <1>t, <2>2, <2>3, <3>2, CheckpointAssumption DEF Ids
    <3> QED
        BY <3>1, <3>2
  <2>6. \A id \in OnDisk' : id <= created'
      BY <1>t, <2>3, CheckpointAssumption DEF Ids
  <2>7. NewestLast'
      BY <2>3, <2>5, <2>6
  <2>8. DraftBetween'
      BY <2>3
  <2>9. draft.offsets <= position
      BY <2>3
  <2>10. NoRollback'
    <3> SUFFICES ASSUME NEW id \in Standing' PROVE files'[id].offsets <= position
        BY <2>3
    <3>1. files'[id].offsets \in Nat
      <4>1. CASE id = created
          BY <1>t, <2>2, <2>3, <4>1
      <4>2. CASE id # created
          BY <1>t, <2>3, <4>2
      <4> QED
          BY <4>1, <4>2
    <3>2. files'[id].offsets <= draft.offsets
        BY <2>4
    <3> QED
        BY <1>t, <2>9, <3>1, <3>2
  <2> QED
      BY <2>7, <2>8, <2>10
<1>8. CASE Finish
  <2>1. NoFile.kind = "none"
      BY DEF NoFile, File
  <2>2. \A id \in Ids : files'[id] = files[id] \/ files'[id].kind = "none"
      BY <1>t, <1>8, <2>1 DEF Finish
  <2>3. created' = created /\ position' = position /\ abandoned' = abandoned /\ step' = "idle" /\ step = "written"
      BY <1>8 DEF Finish
  <2>4. \A id \in Standing' : id \in Standing /\ files'[id] = files[id]
      BY <2>2, <2>3
  <2>5. \A id \in OnDisk' : id \in OnDisk
      BY <2>2
  <2> QED
      BY <2>3, <2>4, <2>5
<1>9. CASE Crash
    BY <1>t, <1>9 DEF Crash
<1>10. CASE StartFresh
    BY <1>10 DEF StartFresh
<1>13. ASSUME abandoned' = created, UNCHANGED <<files, created>>, step' = "idle" PROVE OrderInv'
  <2>1. \A id \in Ids : id \in Nat
      BY CheckpointAssumption DEF Ids
  <2>2. Standing' = {}
      BY <1>13, <2>1
  <2> QED
      BY <1>13, <2>2
<1>14. CASE LoadFails \/ RestoreFails
    BY <1>13, <1>14 DEF LoadFails, RestoreFails
<1>11. CASE RestoreFromCheckpoint
  <2>1. Latest \in OnDisk /\ \A id \in OnDisk : id <= Latest
      BY <1>11, NewestExists DEF RestoreFromCheckpoint, Latest
  <2>2. Latest \in Complete
    <3>1. files[Latest].kind \in {"none", "torn", "full", "incremental"}
        BY <1>t, <2>1 DEF Files
    <3>2. files[Latest].kind # "torn"
        BY <1>11 DEF RestoreFromCheckpoint
    <3> QED
        BY <2>1, <3>1, <3>2
  <2>3. \A id \in Standing : files[id].offsets <= files[Latest].offsets
    <3> SUFFICES ASSUME NEW id \in Standing PROVE files[id].offsets <= files[Latest].offsets
        OBVIOUS
    <3>1. id <= Latest /\ id > abandoned /\ id \in Nat /\ Latest \in Nat
        BY <2>1, CheckpointAssumption DEF Ids
    <3> QED
        BY <2>2, <3>1
  <2>4. /\ files' = files /\ created' = created /\ step' = "idle"
        /\ abandoned' = created \/ (abandoned' = abandoned /\ position' = files[Latest].offsets)
      BY <1>11 DEF RestoreFromCheckpoint
  <2> QED
      BY <1>13, <2>3, <2>4
<1>12. CASE UNCHANGED vars
    BY <1>12 DEF vars
<1> QED
    BY <1>1, <1>2, <1>3, <1>4, <1>5, <1>6, <1>7, <1>8, <1>9, <1>10, <1>11, <1>12, <1>14
    DEF Next, CreateCheckpoint, Recover

\* It holds before the first start.
LEMMA InitOrderInv == Init => OrderInv
BY DEF Init, OrderInv, NewestLast, DraftBetween, NoRollback, Collecting, Running,
       Standing, Complete, OnDisk, NoFile, File

(* A restart goes back behind a checkpoint that was completed, in this or in an earlier
   process, only by giving it up after an error: LoadLatestCheckpoint's choice by age is
   the right one, and a start that gave up spoils no later one. *)
THEOREM RestartsAhead == Spec => []NoRollback
<1>1. IInv /\ OrderInv /\ [Next]_vars => OrderInv'
    BY OrderStep
<1>2. OrderInv => NoRollback
    BY DEF OrderInv
<1> QED
    BY InitOrderInv, Inductive, <1>1, <1>2, PTL DEF Spec

-----------------------------------------------------------------------------
(***************************************************************************)
(* What cleanupOldCheckpoints may remove.  It goes by the list of this     *)
(* process, so the list must be in the order of creation and end with the  *)
(* checkpoint just written; then the newest complete file is one it keeps. *)
(***************************************************************************)

\* The file a call of CreateCheckpoint works on is one of the bounded number of files.
RoomForFile ==
    /\ step \in {"providers", "backends", "write"} => created + 1 \in Ids
    /\ step \in {"writing", "written"} => created \in Ids

\* The list is of checkpoints created before the one in the making.
ListBehind ==
    \A i \in 1..Len(list) : list[i] <= created /\ (step \in {"writing", "written"} => list[i] < created)

\* A checkpoint that was written is complete until it is listed.
WrittenComplete == step = "written" => created \in Complete

\* The inductive invariant for TypeOK and ListedOnDisk.
ListInv == TypeOK /\ RoomForFile /\ ListBehind /\ WrittenComplete /\ ListedOnDisk

\* The numbers of the assumption and of the type invariant.
LEMMA ManagerNumbers ==
    ASSUME ListInv
    PROVE  /\ MaxCheckpoints \in Nat /\ MaxCheckpoints >= 1
           /\ MaxCreated \in Nat /\ MaxCrashes \in Nat /\ MaxFailures \in Nat
           /\ created \in 0..MaxCreated /\ crashes \in 0..MaxCrashes /\ failures \in 0..MaxFailures
           /\ abandoned \in 0..MaxCreated
           /\ files \in [Ids -> Files] /\ list \in Seq(Ids) /\ Len(list) \in Nat
<1>1. /\ MaxCheckpoints \in Nat \ {0}
      /\ MaxCreated \in Nat /\ MaxCrashes \in Nat /\ MaxFailures \in Nat
    BY CheckpointAssumption, Zenon
<1>2. /\ created \in 0..MaxCreated /\ crashes \in 0..MaxCrashes /\ failures \in 0..MaxFailures
      /\ abandoned \in 0..MaxCreated
      /\ files \in [Ids -> Files] /\ list \in Seq(Ids)
    BY Zenon DEF ListInv, TypeOK
<1> QED
    BY <1>1, <1>2

(* cleanupOldCheckpoints keeps an end of the list, of at most MaxCheckpoints and with the
   newest entry in it. *)
LEMMA KeptIsAnEnd ==
    ASSUME NEW all \in Seq(Ids), Len(all) >= 1
    PROVE  /\ Kept(all) \in Seq(Ids)
           /\ Len(Kept(all)) \in 1..MaxCheckpoints
           /\ Len(Kept(all)) <= Len(all)
           /\ \A i \in 1..Len(Kept(all)) : Kept(all)[i] = all[i + (Len(all) - Len(Kept(all)))]
<1>0. Len(all) \in Nat /\ MaxCheckpoints \in Nat /\ MaxCheckpoints >= 1
    BY CheckpointAssumption
<1>1. CASE Len(all) <= MaxCheckpoints
    BY <1>0, <1>1 DEF Kept
<1>2. CASE ~(Len(all) <= MaxCheckpoints)
  <2> DEFINE first == Len(all) - MaxCheckpoints + 1
  <2>1. Kept(all) = SubSeq(all, first, Len(all))
      BY <1>2 DEF Kept
  <2>2. first \in 1..Len(all) + 1 /\ Len(all) - first + 1 = MaxCheckpoints
      BY <1>0, <1>2
  <2>3. /\ SubSeq(all, first, Len(all)) \in Seq(Ids)
        /\ Len(SubSeq(all, first, Len(all))) = MaxCheckpoints
        /\ \A i \in 1..MaxCheckpoints :
             SubSeq(all, first, Len(all))[i] = all[i + (Len(all) - MaxCheckpoints)]
      BY <1>0, <1>2, <2>2
  <2> QED
      BY <1>0, <1>2, <2>1, <2>3
<1> QED
    BY <1>1, <1>2

(* What the last step of CreateCheckpoint leaves: a list in order whose files were all
   kept, and which ends with the checkpoint just written. *)
LEMMA FinishLeaves ==
    ASSUME ListInv, Finish
    PROVE  /\ list' \in Seq(Ids)
           /\ Len(list') \in 1..MaxCheckpoints
           /\ \A i \in 1..Len(list') : list'[i] \in Complete' /\ list'[i] <= created
           /\ \A i, j \in 1..Len(list') : i < j => list'[i] < list'[j]
           /\ created \in Complete'
<1> DEFINE all == Append(list, created)
           n == Len(list)
           k == Len(Kept(all))
           removed == {all[i] : i \in 1..Len(all)} \ {Kept(all)[i] : i \in 1..k}
<1>0. /\ list \in Seq(Ids) /\ n \in Nat /\ created \in Ids /\ created \in Complete
      /\ files \in [Ids -> Files]
      /\ \A i \in 1..n : list[i] \in Complete /\ list[i] < created
      /\ \A i, j \in 1..n : i < j => list[i] < list[j]
    BY ManagerNumbers DEF ListInv, RoomForFile, ListBehind, WrittenComplete, ListedOnDisk, Finish
<1>1. /\ all \in Seq(Ids) /\ Len(all) = n + 1 /\ all[n + 1] = created
      /\ \A i \in 1..n : all[i] = list[i]
    BY <1>0
<1>2. \A i \in 1..(n + 1) : all[i] \in Complete /\ all[i] <= created
    BY <1>0, <1>1, CheckpointAssumption DEF Ids
<1>3. \A i, j \in 1..(n + 1) : i < j => all[i] < all[j]
  <2> SUFFICES ASSUME NEW i \in 1..(n + 1), NEW j \in 1..(n + 1), i < j PROVE all[i] < all[j]
      OBVIOUS
  <2>1. i \in 1..n
      BY <1>0
  <2>2. CASE j = n + 1
      BY <1>0, <1>1, <2>1, <2>2
  <2>3. CASE j # n + 1
      BY <1>0, <1>1, <2>1, <2>3
  <2> QED
      BY <2>2, <2>3
<1>4. /\ Kept(all) \in Seq(Ids) /\ k \in 1..MaxCheckpoints /\ k <= n + 1
      /\ \A i \in 1..k : Kept(all)[i] = all[i + ((n + 1) - k)]
  <2>1. all \in Seq(Ids) /\ Len(all) >= 1
      BY <1>0, <1>1
  <2> HIDE DEF all
  <2>2. /\ Kept(all) \in Seq(Ids) /\ Len(Kept(all)) \in 1..MaxCheckpoints
        /\ Len(Kept(all)) <= Len(all)
        /\ \A i \in 1..Len(Kept(all)) : Kept(all)[i] = all[i + (Len(all) - Len(Kept(all)))]
      BY <2>1, KeptIsAnEnd
  <2> QED
      BY <1>1, <2>2
<1>5. \A i \in 1..k : i + ((n + 1) - k) \in 1..(n + 1)
    BY <1>0, <1>4, CheckpointAssumption
<1>6. Kept(all)[k] = created
    BY <1>0, <1>1, <1>4, CheckpointAssumption
<1>7. list' = Kept(all)
    BY DEF Finish
<1>8. \A id \in Ids \ removed : files'[id] = files[id]
    BY DEF Finish
<1>9. \A i \in 1..k : Kept(all)[i] \in Complete' /\ Kept(all)[i] <= created
  <2> SUFFICES ASSUME NEW i \in 1..k
               PROVE  Kept(all)[i] \in Complete' /\ Kept(all)[i] <= created
      OBVIOUS
  <2>1. Kept(all)[i] \in Complete /\ Kept(all)[i] <= created
      BY <1>2, <1>4, <1>5
  <2>2. Kept(all)[i] \in Ids \ removed
      BY <2>1 DEF Complete
  <2> QED
      BY <1>8, <2>1, <2>2 DEF Complete
<1>10. \A i, j \in 1..k : i < j => Kept(all)[i] < Kept(all)[j]
  <2> SUFFICES ASSUME NEW i \in 1..k, NEW j \in 1..k, i < j PROVE Kept(all)[i] < Kept(all)[j]
      OBVIOUS
  <2>1. i + ((n + 1) - k) < j + ((n + 1) - k)
      BY <1>0, <1>4, CheckpointAssumption
  <2> HIDE DEF all
  <2> QED
      BY <1>3, <1>4, <1>5, <2>1
<1>11. created \in Complete'
    BY <1>4, <1>6, <1>9, CheckpointAssumption
<1> QED
    BY <1>4, <1>7, <1>9, <1>10, <1>11

\* A step that leaves list, files and their number alone keeps the list behind them.
LEMMA ListStays ==
    ASSUME ListInv, TypeOK', RoomForFile', UNCHANGED <<list, disk>>, step' \notin {"writing", "written"}
    PROVE  ListInv'
BY DEF ListInv, ListBehind, WrittenComplete, ListedOnDisk, Complete, disk

\* Every step keeps the list in order and on disk.
LEMMA ListStep == IInv /\ IInv' /\ ListInv /\ [Next]_vars => ListInv'
<1> SUFFICES ASSUME IInv, IInv', ListInv, [Next]_vars PROVE ListInv'
    OBVIOUS
<1> USE DEF pipeline, disk, memory
<1>0. /\ TypeOK /\ RoomForFile /\ ListBehind /\ WrittenComplete /\ ListedOnDisk
      /\ Typed'
      /\ created \in Nat /\ MaxCreated \in Nat /\ list \in Seq(Ids) /\ Len(list) \in Nat
      /\ files \in [Ids -> Files]
    BY ManagerNumbers DEF ListInv, IInv
<1>1. CASE Process
  <2>1. TypeOK' /\ RoomForFile'
      BY <1>0, <1>1 DEF Process, TypeOK, Typed, RoomForFile
  <2> QED
      BY <1>0, <1>1, <2>1 DEF Process, ListInv, ListBehind, WrittenComplete, ListedOnDisk, Complete
<1>2. CASE Begin
  <2>1. TypeOK' /\ RoomForFile'
    <3>1. created + 1 \in Ids
        BY <1>2, ManagerNumbers DEF Begin, Ids
    <3> QED
        BY <1>0, <1>2, <3>1 DEF Begin, TypeOK, Typed, RoomForFile
  <2> QED
      BY <1>2, <2>1, ListStays DEF Begin
<1>3. CASE GetState \/ Snapshot
  <2>1. TypeOK' /\ RoomForFile'
      BY <1>0, <1>3 DEF GetState, Snapshot, TypeOK, Typed, RoomForFile
  <2> QED
      BY <1>3, <2>1, ListStays DEF GetState, Snapshot
<1>4. CASE CollectFails \/ WriteFails
  <2>1. failures' \in 0..MaxFailures
      BY <1>4, ManagerNumbers DEF CollectFails, WriteFails
  <2>2. TypeOK' /\ RoomForFile'
      BY <1>0, <1>4, <2>1 DEF CollectFails, WriteFails, TypeOK, Typed, RoomForFile
  <2> QED
      BY <1>4, <2>2, ListStays DEF CollectFails, WriteFails
<1>5. CASE OpenFile
  <2>1. /\ created' = created + 1 /\ list' = list /\ created + 1 \in Ids
        /\ files' = [files EXCEPT ![created + 1] = File("torn", NoDraft)]
        /\ step' = "writing"
      BY <1>0, <1>5 DEF OpenFile, RoomForFile
  <2>2. created' \in 0..MaxCreated
      BY <1>0, <2>1 DEF Ids
  <2>3. TypeOK' /\ RoomForFile'
      BY <1>0, <1>5, <2>1, <2>2 DEF OpenFile, TypeOK, Typed, RoomForFile
  <2>4. \A i \in 1..Len(list) : list[i] \in Nat /\ list[i] < created + 1
      BY <1>0, CheckpointAssumption DEF ListBehind, Ids
  <2>5. \A i \in 1..Len(list) : list[i] \in Complete'
      BY <1>0, <2>1, <2>4 DEF ListedOnDisk, Complete
  <2> QED
      BY <1>0, <2>1, <2>3, <2>4, <2>5 DEF ListInv, ListBehind, WrittenComplete, ListedOnDisk
<1>6. CASE WriteFile
  <2>1. /\ created' = created /\ list' = list /\ created \in Ids
        /\ files' = [files EXCEPT ![created] = Written]
        /\ step = "writing" /\ step' = "written"
      BY <1>0, <1>6 DEF WriteFile, RoomForFile
  <2>2. TypeOK' /\ RoomForFile'
      BY <1>0, <1>6, <2>1 DEF WriteFile, TypeOK, Typed, RoomForFile
  <2>3. Written.kind \in {"full", "incremental"}
      BY DEF Written, File
  <2>4. created \in Complete'
      BY <1>0, <2>1, <2>3 DEF Complete
  <2>5. \A i \in 1..Len(list) : list[i] \in Nat /\ list[i] < created
      BY <1>0, <2>1, CheckpointAssumption DEF ListBehind, Ids
  <2>6. \A i \in 1..Len(list) : list[i] \in Complete'
      BY <1>0, <2>1, <2>5 DEF ListedOnDisk, Complete
  <2> QED
      BY <1>0, <2>1, <2>2, <2>4, <2>5, <2>6 DEF ListInv, ListBehind, WrittenComplete, ListedOnDisk
<1>7. CASE Finish
  <2>1. /\ list' \in Seq(Ids) /\ Len(list') \in 1..MaxCheckpoints
        /\ \A i \in 1..Len(list') : list'[i] \in Complete' /\ list'[i] <= created
        /\ \A i, j \in 1..Len(list') : i < j => list'[i] < list'[j]
      BY <1>7, FinishLeaves
  <2>2. /\ created' = created /\ step' = "idle" /\ recovery' = recovery /\ crashes' = crashes
        /\ abandoned' = abandoned
        /\ failures' = failures \/ (failures < MaxFailures /\ failures' = failures + 1)
        /\ lastData' \in BOOLEAN
      BY <1>7 DEF Finish
  <2>3. failures' \in 0..MaxFailures
      BY <2>2, ManagerNumbers
  <2>4. Len(list') <= MaxCheckpoints
      BY <2>1, CheckpointAssumption
  <2>5. TypeOK' /\ RoomForFile'
      BY <1>0, <2>1, <2>2, <2>3, <2>4 DEF TypeOK, Typed, RoomForFile
  <2> QED
      BY <2>1, <2>2, <2>5 DEF ListInv, ListBehind, WrittenComplete, ListedOnDisk
<1>8. CASE Crash
  <2>1. crashes' \in 0..MaxCrashes
      BY <1>8, ManagerNumbers DEF Crash
  <2>2. list' = <<>> /\ step' = "down" /\ recovery' = "none" /\ lastData' = FALSE
        /\ created' = created /\ failures' = failures /\ abandoned' = abandoned
      BY <1>8 DEF Crash
  <2>3. list' \in Seq(Ids) /\ Len(list') = 0
      BY <2>2
  <2>4. TypeOK' /\ RoomForFile'
    <3>1. Len(list') <= MaxCheckpoints
        BY <2>3, ManagerNumbers
    <3> QED
        BY <1>0, <2>1, <2>2, <2>3, <3>1 DEF TypeOK, Typed, RoomForFile
  <2> QED
      BY <2>2, <2>3, <2>4 DEF ListInv, ListBehind, WrittenComplete, ListedOnDisk
<1>9. CASE Recover
  <2>1. /\ list' = list /\ created' = created /\ files' = files /\ lastData' = lastData
        /\ crashes' = crashes /\ step' = "idle"
        /\ failures' = failures \/ (failures < MaxFailures /\ failures' = failures + 1)
        /\ abandoned' \in {abandoned, created}
        /\ recovery' \in {"fresh", "load error", "restore error", "restored"}
      BY <1>9 DEF Recover, StartFresh, LoadFails, RestoreFromCheckpoint, RestoreFails
  <2>3. failures' \in 0..MaxFailures /\ abandoned' \in 0..MaxCreated
    <3>1. /\ MaxFailures \in Nat /\ failures \in 0..MaxFailures
          /\ abandoned \in 0..MaxCreated /\ created \in 0..MaxCreated
        BY ManagerNumbers
    <3>2. failures' \in 0..MaxFailures
      <4>1. CASE failures' = failures
          BY <3>1, <4>1
      <4>2. CASE failures < MaxFailures /\ failures' = failures + 1
          BY <3>1, <4>2
      <4> QED
          BY <2>1, <4>1, <4>2
    <3>3. abandoned' \in 0..MaxCreated
        BY <2>1, <3>1
    <3> QED
        BY <3>2, <3>3
  <2>2. TypeOK' /\ RoomForFile'
      BY <1>0, <2>1, <2>3 DEF TypeOK, Typed, RoomForFile
  <2> QED
      BY <2>1, <2>2, ListStays
<1>10. CASE UNCHANGED vars
    BY <1>0, <1>10
    DEF vars, ListInv, TypeOK, RoomForFile, ListBehind, WrittenComplete, ListedOnDisk, Complete
<1> QED
    BY <1>1, <1>2, <1>3, <1>4, <1>5, <1>6, <1>7, <1>8, <1>9, <1>10 DEF Next, CreateCheckpoint

\* It holds before the first start.
LEMMA InitListInv == Init => ListInv
<1> SUFFICES ASSUME Init PROVE ListInv
    OBVIOUS
<1>1. list = <<>> /\ list \in Seq(Ids) /\ Len(list) = 0 /\ created = 0 /\ step = "down"
    BY DEF Init
<1>2. IInv
    BY InitIInv
<1>3. TypeOK
  <2>1. /\ 0 \in 0..MaxCreated /\ 0 \in 0..MaxCrashes /\ 0 \in 0..MaxFailures
        /\ Len(list) <= MaxCheckpoints
    <3>1. /\ MaxCheckpoints \in Nat
          /\ MaxCreated \in Nat /\ MaxCrashes \in Nat /\ MaxFailures \in Nat
        BY CheckpointAssumption, Zenon
    <3> QED
        BY <1>1, <3>1
  <2> QED
      BY <1>1, <1>2, <2>1 DEF Init, IInv, Typed, TypeOK
<1> QED
    BY <1>1, <1>3 DEF ListInv, RoomForFile, ListBehind, WrittenComplete, ListedOnDisk

\* The invariant of the list, always.
LEMMA ListInvAlways == Spec => []ListInv
<1>1. IInv /\ IInv' /\ ListInv /\ [Next]_vars => ListInv'
    BY ListStep
<1> QED
    BY InitListInv, Inductive, <1>1, PTL DEF Spec

(* The types of the manager's state, with the list never longer than maxCheckpoints. *)
THEOREM ManagerTypeCorrect == Spec => []TypeOK
<1>1. ListInv => TypeOK
    BY DEF ListInv
<1> QED
    BY ListInvAlways, <1>1, PTL

(* GetCheckpoints lists, in the order of creation, only checkpoints whose file is there
   and complete, whatever crashes or fails to be written or removed. *)
THEOREM ListAlwaysOnDisk == Spec => []ListedOnDisk
<1>1. ListInv => ListedOnDisk
    BY DEF ListInv
<1> QED
    BY ListInvAlways, <1>1, PTL

\* Where a complete file at least as new as the newest is there after a step, the newest survived it.
LEMMA NewerSuffices ==
    ASSUME Complete # {}, NEW id \in Complete', id >= Max(Complete)
    PROVE  Complete' # {} /\ Max(Complete') >= Max(Complete)
<1>1. Complete \in SUBSET Ids /\ Complete' \in SUBSET Ids
    BY DEF Complete
<1>2. Max(Complete) \in Ids
    BY <1>1, NewestExists
<1>3. Max(Complete') \in Ids /\ id <= Max(Complete')
    BY <1>1, NewestExists
<1> QED
    BY <1>1, <1>2, <1>3, CheckpointAssumption DEF Ids

(* The newest complete checkpoint is never removed or overwritten: neither by the retention of
   a process whose list does not know the files of earlier ones, nor by the next checkpoint. *)
THEOREM NewestNeverRemoved == Spec => NewestSurvives
<1>1. ASSUME IInv, OrderInv, ListInv, [Next]_vars, Complete # {}
      PROVE  Complete' # {} /\ Max(Complete') >= Max(Complete)
  <2> DEFINE newest == Max(Complete)
  <2>0. /\ newest \in Complete /\ newest \in Ids /\ newest \in Nat /\ newest <= created
        /\ created \in Nat /\ files \in [Ids -> Files]
    <3>1. Complete \in SUBSET Ids /\ Complete \subseteq OnDisk
        BY DEF Complete, OnDisk
    <3>2. newest \in Complete
        BY <1>1, <3>1, NewestExists
    <3> QED
      <4>1. created \in Nat /\ newest <= created
          BY <1>1, <3>1, <3>2 DEF OrderInv, NewestLast
      <4>2. newest \in Ids /\ files \in [Ids -> Files] /\ MaxCreated \in Nat
          BY <1>1, <3>1, <3>2, ManagerNumbers
      <4>3. newest \in Nat
          BY <4>2 DEF Ids
      <4> QED
          BY <3>2, <4>1, <4>2, <4>3
  <2>1. CASE files' = files
    <3>1. newest \in Complete'
        BY <2>0, <2>1 DEF Complete
    <3> QED
        BY <1>1, <2>0, <3>1, NewerSuffices
  <2>2. CASE OpenFile
    <3>1. files' = [files EXCEPT ![created + 1] = File("torn", NoDraft)]
        BY <2>2 DEF OpenFile
    <3>2. newest # created + 1
        BY <2>0
    <3>3. newest \in Complete'
        BY <2>0, <3>1, <3>2 DEF Complete
    <3> QED
        BY <1>1, <2>0, <3>3, NewerSuffices
  <2>3. CASE WriteFile
    <3>1. files' = [files EXCEPT ![created] = Written] /\ created \in Ids
        BY <1>1, <2>3 DEF WriteFile, ListInv, RoomForFile
    <3>2. Written.kind \in {"full", "incremental"}
        BY DEF Written, File
    <3>3. created \in Complete'
        BY <2>0, <3>1, <3>2 DEF Complete
    <3> QED
        BY <1>1, <2>0, <3>3, NewerSuffices
  <2>4. CASE Finish
    <3>1. created \in Complete'
        BY <1>1, <2>4, FinishLeaves
    <3> QED
        BY <1>1, <2>0, <3>1, NewerSuffices
  <2>5. OpenFile \/ WriteFile \/ Finish \/ files' = files
      BY <1>1
      DEF Next, CreateCheckpoint, Process, Begin, GetState, CollectFails, Snapshot, WriteFails, Crash,
          Recover, StartFresh, LoadFails, RestoreFromCheckpoint, RestoreFails, vars, disk
  <2> QED
      BY <2>1, <2>2, <2>3, <2>4, <2>5
<1>2. IInv /\ OrderInv /\ ListInv /\ [Next]_vars =>
        [Complete # {} => Complete' # {} /\ Max(Complete') >= Max(Complete)]_vars
    BY <1>1
<1>3. IInv /\ OrderInv /\ [Next]_vars => OrderInv'
    BY OrderStep
<1> QED
    BY Inductive, InitOrderInv, ListInvAlways, <1>2, <1>3, PTL DEF Spec, NewestSurvives
=============================================================================
