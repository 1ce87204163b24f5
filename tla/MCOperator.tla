----------------------------- MODULE MCOperator -----------------------------
(***************************************************************************)
(* The controllers of jobs and clusters of the Kubernetes operator.  They  *)
(* share no object, so each is checked by itself: only the one that        *)
(* reconciled names takes steps, the other has nothing to do.              *)
(***************************************************************************)
EXTENDS StreamJobOperator, StreamClusterOperator

VARIABLE reconciled

BaseJob == [image |-> "v1", parallelism |-> 1, backend |-> "memory"]
MCJobSpecs == {BaseJob, [BaseJob EXCEPT !.image = "v2"],
               [BaseJob EXCEPT !.parallelism = 2, !.backend = "rocksdb"]}

MCClusterSpec(image, jm, tm) ==
    [image |-> image, replicas |-> [p \in Parts |-> IF p = "jobmanager" THEN jm ELSE tm]]
MCClusterSpecs == {MCClusterSpec("v1", 0, 2), MCClusterSpec("v2", 1, 1),
                   MCClusterSpec("v2", 0, 2)}

\* The first spec of each is given, to keep the instance small; the second is any other.
OperatorInit ==
    \/ reconciled = "job" /\ JobInit /\ NoClusterInit /\ job.spec = BaseJob
    \/ reconciled = "cluster" /\ NoJobInit /\ ClusterInit /\ cluster.spec.image = "v1"

OperatorNext ==
    \/ reconciled = "job" /\ JobNext /\ UNCHANGED <<reconciled, clusterVars>>
    \/ reconciled = "cluster" /\ ClusterNext /\ UNCHANGED <<reconciled, jobVars>>

OperatorSpec ==
    /\ OperatorInit
    /\ [][OperatorNext]_<<reconciled, jobVars, clusterVars>>
    /\ JobFairness
    /\ ClusterFairness
=============================================================================
