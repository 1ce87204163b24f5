------------------------ MODULE StreamClusterOperator -----------------------
(***************************************************************************)
(* operator/controllers/streamcluster_controller.go: the reconciler of a   *)
(* StreamCluster, its job managers and task managers.  Calls, caches and   *)
(* refused writes are as in StreamJobOperator.                             *)
(***************************************************************************)
EXTENDS Naturals

CONSTANTS ClusterSpecs,         \* specs a user may give: image, and replicas of each part
          MaxClusterGeneration, \* bound: generations of the spec
          MaxClusterErrors      \* bound: calls that fail for other reasons

Parts == {"jobmanager", "taskmanager"}

ASSUME StreamClusterAssumption ==
    /\ ClusterSpecs \subseteq [image : STRING, replicas : [Parts -> Nat]]
    /\ MaxClusterGeneration \in Nat \ {0} /\ MaxClusterErrors \in Nat

VARIABLES
    cluster, clusterSeen, \* the StreamCluster and the cache of it
    sets, setsSeen,       \* the StatefulSets of the parts
    services,             \* the Services: none, made, seen in the cache
    clusterCopy,          \* the StreamCluster Reconcile works on
    clusterAt,            \* the call Reconcile makes next, and for which part
    clusterErrors

clusterObjects == <<cluster, sets, services>>
clusterVars == <<cluster, clusterSeen, sets, setsSeen, services, clusterCopy, clusterAt, clusterErrors>>

NoPart == "none"      \* the call is not made for one of the parts
NoClusterImage == ""
NoClusterPhase == ""  \* the status has not been written yet

\* Zero replicas: the spec has no such part.
NoClusterSpec == [image |-> NoClusterImage, replicas |-> [p \in Parts |-> 0]]
NoCluster == [exists |-> FALSE, spec |-> NoClusterSpec, generation |-> 0, finalizer |-> FALSE,
              deleting |-> FALSE, phase |-> NoClusterPhase, observed |-> 0,
              ready |-> [p \in Parts |-> 0], conditions |-> {}]
NoSet == [exists |-> FALSE, replicas |-> 0, image |-> NoClusterImage, ready |-> 0]

\* The image, or the one the version names.
buildJobManagerStatefulSet(spec) == [exists |-> TRUE, replicas |-> spec.replicas["jobmanager"],
                                     image |-> spec.image, ready |-> 0]
buildTaskManagerStatefulSet(spec) == [exists |-> TRUE, replicas |-> spec.replicas["taskmanager"],
                                      image |-> spec.image, ready |-> 0]
BuiltSet(spec, p) == IF p = "jobmanager" THEN buildJobManagerStatefulSet(spec)
                     ELSE buildTaskManagerStatefulSet(spec)

\* The Services differ in their ports; that of the task managers is headless.
buildJobManagerService == "made"
buildTaskManagerService == "made"
BuiltService(p) == IF p = "jobmanager" THEN buildJobManagerService ELSE buildTaskManagerService

\* The calls after the status is initialised, for the parts the spec has.
Has(spec, p) == spec.replicas[p] > 0
FromTaskManagers(spec) == IF Has(spec, "taskmanager") THEN <<"set", "taskmanager">> ELSE <<"status", NoPart>>
FromJobManagers(spec) == IF Has(spec, "jobmanager") THEN <<"set", "jobmanager">> ELSE FromTaskManagers(spec)

ClusterReconcilerStarts ==
    /\ clusterSeen = NoCluster
    /\ sets = [p \in Parts |-> NoSet]
    /\ setsSeen = sets
    /\ services = [p \in Parts |-> "none"]
    /\ clusterCopy = NoCluster
    /\ clusterAt = <<"idle", NoPart>>
    /\ clusterErrors = 0

ClusterInit ==
    /\ \E s \in ClusterSpecs :
        cluster = [NoCluster EXCEPT !.exists = TRUE, !.spec = s, !.generation = 1]
    /\ ClusterReconcilerStarts

\* No user has created a cluster.
NoClusterInit == cluster = NoCluster /\ ClusterReconcilerStarts

-----------------------------------------------------------------------------
ClusterReturn == clusterAt' = <<"idle", NoPart>> /\ clusterCopy' = NoCluster

ClusterCallFails ==
    /\ clusterAt[1] \notin {"idle", "degraded"}
    /\ clusterErrors < MaxClusterErrors
    /\ clusterErrors' = clusterErrors + 1
    /\ IF clusterAt[2] = "jobmanager"
       THEN clusterAt' = <<"degraded", NoPart>> /\ UNCHANGED clusterCopy
       ELSE ClusterReturn
    /\ UNCHANGED <<clusterObjects, clusterSeen, setsSeen>>

UpdateCluster(new, next) ==
    /\ cluster' = IF clusterCopy = cluster THEN new ELSE cluster
    /\ IF clusterCopy = cluster /\ next # <<"idle", NoPart>>
       THEN clusterCopy' = new /\ clusterAt' = next
       ELSE ClusterReturn
    /\ UNCHANGED <<sets, services, clusterSeen, setsSeen, clusterErrors>>

GetCluster ==
    /\ clusterAt[1] = "idle"
    /\ clusterSeen.exists
    /\ clusterCopy' = clusterSeen
    /\ clusterAt' = IF clusterSeen.deleting THEN <<"delete", NoPart>>
                    ELSE IF ~clusterSeen.finalizer THEN <<"finalizer", NoPart>>
                    ELSE IF clusterSeen.phase = NoClusterPhase THEN <<"start", NoPart>>
                    ELSE FromJobManagers(clusterSeen.spec)
    /\ UNCHANGED <<clusterObjects, clusterSeen, setsSeen, clusterErrors>>

AddClusterFinalizer ==
    /\ clusterAt[1] = "finalizer"
    /\ UpdateCluster([clusterCopy EXCEPT !.finalizer = TRUE],
                     IF clusterCopy.phase = NoClusterPhase THEN <<"start", NoPart>>
                     ELSE FromJobManagers(clusterCopy.spec))

InitClusterStatus ==
    /\ clusterAt[1] = "start"
    /\ UpdateCluster([clusterCopy EXCEPT !.phase = "Pending"], FromJobManagers(clusterCopy.spec))

reconcileClusterDelete ==
    /\ clusterAt[1] = "delete"
    /\ UpdateCluster(IF clusterCopy.finalizer THEN NoCluster ELSE clusterCopy, <<"idle", NoPart>>)

\* An error for the job managers is noted in the status, one for the task managers
\* is only returned.
PartFailed(p) ==
    IF p = "jobmanager" THEN clusterAt' = <<"degraded", NoPart>> /\ UNCHANGED clusterCopy
    ELSE ClusterReturn

\* The faulty form that only scales up.
setDueUp(w, built) == w.replicas < built.replicas

\* The replicas alone decide; the template is replaced with them.
setDue(w, built) == w.replicas # built.replicas

reconcileSet ==
    LET p == clusterAt[2]
        w == setsSeen[p]
        built == [BuiltSet(clusterCopy.spec, p) EXCEPT !.ready = w.ready]
        due == ~w.exists \/ setDue(w, built)
    IN  /\ clusterAt[1] = "set"
        /\ sets' = IF due /\ w = sets[p] THEN [sets EXCEPT ![p] = built] ELSE sets
        /\ IF due /\ w # sets[p] THEN PartFailed(p)
           ELSE clusterAt' = <<"service", p>> /\ UNCHANGED clusterCopy
        /\ UNCHANGED <<cluster, services, clusterSeen, setsSeen, clusterErrors>>

reconcilePartService ==
    LET p == clusterAt[2]
        next == IF p = "jobmanager" THEN FromTaskManagers(clusterCopy.spec) ELSE <<"status", NoPart>>
    IN  /\ clusterAt[1] = "service"
        /\ services' = [services EXCEPT ![p] = IF @ = "none" THEN BuiltService(p) ELSE @]
        /\ IF services[p] = "made" THEN PartFailed(p)
           ELSE clusterAt' = next /\ UNCHANGED clusterCopy
        /\ UNCHANGED <<cluster, sets, clusterSeen, setsSeen, clusterErrors>>

MarkClusterDegraded ==
    /\ clusterAt[1] = "degraded"
    /\ cluster' = IF clusterCopy = cluster
                  THEN [cluster EXCEPT !.conditions = @ \cup {"Degraded"}] ELSE cluster
    /\ ClusterReturn
    /\ UNCHANGED <<sets, services, clusterSeen, setsSeen, clusterErrors>>

\* A part whose set the cache has not seen keeps the count it had.
ReadyOf(c) == [p \in Parts |-> IF Has(c.spec, p) /\ setsSeen[p].exists THEN setsSeen[p].ready
                               ELSE c.ready[p]]

updateClusterStatus ==
    LET ready == ReadyOf(clusterCopy)
        all == \A p \in Parts : Has(clusterCopy.spec, p) => ready[p] = clusterCopy.spec.replicas[p]
    IN  /\ clusterAt[1] = "status"
        /\ UpdateCluster([clusterCopy EXCEPT
                !.ready = ready, !.phase = IF all THEN "Running" ELSE "Pending",
                !.conditions = @ \cup {IF all THEN "Ready" ELSE "Progressing"},
                !.observed = clusterCopy.generation], <<"idle", NoPart>>)

ClusterReconcile ==
    \/ GetCluster \/ AddClusterFinalizer \/ InitClusterStatus \/ reconcileClusterDelete
    \/ reconcileSet \/ reconcilePartService \/ MarkClusterDegraded \/ updateClusterStatus

-----------------------------------------------------------------------------
(* Users and the cluster.                                                  *)

ChangeClusterSpec ==
    /\ cluster.exists /\ ~cluster.deleting /\ cluster.generation < MaxClusterGeneration
    /\ \E s \in ClusterSpecs \ {cluster.spec} :
        cluster' = [cluster EXCEPT !.spec = s, !.generation = @ + 1]
    /\ UNCHANGED <<sets, services, clusterSeen, setsSeen, clusterCopy, clusterAt, clusterErrors>>

DeleteCluster ==
    /\ cluster.exists /\ ~cluster.deleting
    /\ cluster' = IF cluster.finalizer THEN [cluster EXCEPT !.deleting = TRUE] ELSE NoCluster
    /\ UNCHANGED <<sets, services, clusterSeen, setsSeen, clusterCopy, clusterAt, clusterErrors>>

CacheCluster ==
    /\ clusterSeen # cluster
    /\ clusterSeen' = cluster
    /\ UNCHANGED <<clusterObjects, setsSeen, clusterCopy, clusterAt, clusterErrors>>

CacheSet(p) ==
    /\ setsSeen[p] # sets[p]
    /\ setsSeen' = [setsSeen EXCEPT ![p] = sets[p]]
    /\ UNCHANGED <<clusterObjects, clusterSeen, clusterCopy, clusterAt, clusterErrors>>

CachePartService(p) ==
    /\ services[p] = "made"
    /\ services' = [services EXCEPT ![p] = "seen"]
    /\ UNCHANGED <<cluster, sets, clusterSeen, setsSeen, clusterCopy, clusterAt, clusterErrors>>

SetPods(p) ==
    /\ sets[p].ready # sets[p].replicas
    /\ sets' = [sets EXCEPT ![p].ready = sets[p].replicas]
    /\ UNCHANGED <<cluster, services, clusterSeen, setsSeen, clusterCopy, clusterAt, clusterErrors>>

PartCluster(p) == CacheSet(p) \/ CachePartService(p) \/ SetPods(p)

ClusterNext ==
    \/ ClusterReconcile \/ ClusterCallFails \/ ChangeClusterSpec \/ DeleteCluster \/ CacheCluster
    \/ \E p \in Parts : PartCluster(p)

ClusterBehaviour == ClusterInit /\ [][ClusterNext]_clusterVars

ClusterFairness ==
    /\ WF_clusterVars(ClusterReconcile) /\ WF_clusterVars(CacheCluster)
    /\ \A p \in Parts : /\ WF_clusterVars(CacheSet(p)) /\ WF_clusterVars(SetPods(p))
                        /\ WF_clusterVars(CachePartService(p))

-----------------------------------------------------------------------------
(* In the end the cluster is gone, or every part of its last spec has the replicas it
   asks for and the status says Running for that generation. *)
ClusterConverges ==
    <>[](\/ ~cluster.exists
         \/ /\ \A p \in Parts : Has(cluster.spec, p) => sets[p].replicas = cluster.spec.replicas[p]
            /\ cluster.phase = "Running" /\ cluster.observed = cluster.generation)

(* A StatefulSet or a Service is only created while its cluster exists, with the finalizer that
   keeps it until the pass is over, whatever the caches of it and of its parts show. *)
PartsOfCluster ==
    [][\A p \in Parts :
        \/ ~sets[p].exists /\ sets'[p].exists
        \/ services[p] = "none" /\ services'[p] # "none"
        => cluster.exists /\ cluster.finalizer]_clusterVars

(* "Version of the gress image to use": once the status has observed a
   generation and is Running, the pods have that generation's image.  The code compares
   the replicas only, so this does not hold. *)
ClusterImageApplied ==
    cluster.exists /\ cluster.observed = cluster.generation /\ cluster.phase = "Running" =>
        \A p \in Parts : Has(cluster.spec, p) => sets[p].image = cluster.spec.image
=============================================================================
