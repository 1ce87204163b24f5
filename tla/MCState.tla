------------------------------- MODULE MCState ------------------------------
(***************************************************************************)
(* The two state backends.  They share nothing, so each is checked by      *)
(* itself: only the one that part names takes steps.                       *)
(***************************************************************************)
EXTENDS MemoryState, RocksDBState, TLC

VARIABLE part

StateInit ==
    /\ part \in {"memory", "rocksdb"}
    /\ MemInit
    /\ Init
    /\ part = "memory" => ~ttlEnabled

StateNext ==
    \/ part = "memory" /\ MemNext /\ UNCHANGED <<part, vars>>
    \/ part = "rocksdb" /\ Next /\ UNCHANGED <<part, memVars>>

\* A value whose first 8 bytes read as a time in the past from the second second on,
\* and one whose second 8 bytes do.
MCBlocks == ("counter" :> <<1>>) @@ ("text" :> <<9, 1>>)

SymmetricKeys == Permutations(Keys)

StateSpec == StateInit /\ [][StateNext]_<<part, memVars, vars>>
=============================================================================
