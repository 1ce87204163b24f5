----------------------------- MODULE MCCheckpoint ---------------------------
(***************************************************************************)
(* Checkpoints on both sides: the manager in the engine that takes them    *)
(* and recovers from them, and the operator's Checkpoint resources.  The   *)
(* operator never reaches the manager, so each is checked by itself: only  *)
(* the one that side names takes steps.                                    *)
(***************************************************************************)
EXTENDS CheckpointManager, CheckpointOperator

VARIABLE side

CheckpointInit == side \in {"engine", "operator"} /\ Init /\ CpInit

CheckpointNext ==
    \/ side = "engine" /\ Next /\ UNCHANGED <<side, cpVars>>
    \/ side = "operator" /\ CpNext /\ UNCHANGED <<side, vars>>

CheckpointSpec == CheckpointInit /\ [][CheckpointNext]_<<side, vars, cpVars>>
=============================================================================
