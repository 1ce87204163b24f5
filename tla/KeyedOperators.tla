--------------------------- MODULE KeyedOperators ---------------------------
(***************************************************************************)
(* pkg/stream/operators.go: a pipeline of the stateless operators (map,    *)
(* filter, key-by) followed by an aggregate or a reduce, whose map nothing *)
(* protects although the engine's workers use it at the same time, and a   *)
(* branch operator with its bounded output channels.  Go detects some      *)
(* concurrent uses of a map and then stops the process.                    *)
(* An accumulator is the set of the events it was made from: that an event *)
(* delivered twice is counted twice is not told apart.                     *)
(***************************************************************************)
EXTENDS Naturals, FiniteSets

CONSTANTS KeyedEvents,  \* events: an id, the key the selector gives, what the functions answer
          BranchSize    \* capacity of a branch's channel

ASSUME KeyedAssumption ==
    /\ \A e \in KeyedEvents : e.key \in STRING /\ e.does \in {"pass", "filtered", "fails"}
    /\ BranchSize \in Nat \ {0}

VARIABLES
    keyedKind,    \* "aggregate" or "reduce"
    accumulators, \* key -> accumulator
    step,         \* where each event is
    readValue,    \* the accumulator its Process has read
    overlapped,   \* history: events processed while another of their key was
    branch,       \* the channel of the branch operator
    skipped,      \* events the full channel had no room for
    snapshotted,  \* what GetState answered last
    unsaved,      \* history: events stored since then
    cutOff,       \* history: events a restart took out of the accumulators for good
    life          \* "running", "faulted" or "closed"

keyedVars == <<keyedKind, accumulators, step, readValue, overlapped, branch, skipped, snapshotted,
               unsaved, cutOff, life>>

\* The key-by operator, and the key both stateful operators use.
KeyBy(e) == e.key
StateKey(e) == IF KeyBy(e) = "" THEN "default" ELSE KeyBy(e)
StateKeys == {StateKey(e) : e \in KeyedEvents}
NoAccumulators == [k \in StateKeys |-> {}]

KeyedInit ==
    /\ keyedKind \in {"aggregate", "reduce"}
    /\ accumulators = NoAccumulators
    /\ step = [e \in KeyedEvents |-> "new"]
    /\ readValue = [e \in KeyedEvents |-> {}]
    /\ overlapped = {}
    /\ branch = {}
    /\ skipped = {}
    /\ snapshotted = NoAccumulators
    /\ unsaved = {}
    /\ cutOff = {}
    /\ life = "running"

InProcess == {e \in KeyedEvents : step[e] \in {"read", "store"}}

\* Map, filter and flat-map: an event goes on, is dropped without an error, or fails.
Stateless(e) ==
    /\ life = "running"
    /\ step[e] = "new"
    /\ step' = [step EXCEPT ![e] = IF e.does = "filtered" THEN "filtered" ELSE "branch"]
    /\ UNCHANGED <<keyedKind, accumulators, readValue, overlapped, branch, skipped, snapshotted,
                   unsaved, cutOff, life>>

\* A full channel is skipped; the event goes on in the main stream in any case.
BranchProcess(e) ==
    /\ life = "running"
    /\ step[e] = "branch"
    /\ step' = [step EXCEPT ![e] = "read"]
    /\ IF Cardinality(branch) < BranchSize
       THEN branch' = branch \cup {e} /\ UNCHANGED skipped
       ELSE skipped' = skipped \cup {e} /\ UNCHANGED branch
    /\ UNCHANGED <<keyedKind, accumulators, readValue, overlapped, snapshotted, unsaved, cutOff, life>>

BranchConsumer ==
    /\ \E e \in branch : branch' = branch \ {e}
    /\ UNCHANGED <<keyedKind, accumulators, step, readValue, overlapped, skipped, snapshotted,
                   unsaved, cutOff, life>>

ReadAccumulator(e) ==
    LET others == {d \in InProcess : step[d] = "store" /\ StateKey(d) = StateKey(e)} IN
    /\ life = "running"
    /\ step[e] = "read"
    /\ readValue' = [readValue EXCEPT ![e] = accumulators[StateKey(e)]]
    /\ overlapped' = IF others = {} THEN overlapped ELSE overlapped \cup others \cup {e}
    /\ step' = [step EXCEPT ![e] = "store"]
    /\ UNCHANGED <<keyedKind, accumulators, branch, skipped, snapshotted, unsaved, cutOff, life>>

\* The faulty form that forgets the value a reduce has so far.
CombinedFresh(e) == IF keyedKind = "reduce" THEN {e} ELSE readValue[e] \cup {e}

Combined(e) == readValue[e] \cup {e}

\* A reduce stores its first value as it is: the function that may fail is not called.
FunctionFails(e) == e.does = "fails" /\ ~(keyedKind = "reduce" /\ readValue[e] = {})

StoreAccumulator(e) ==
    /\ life = "running"
    /\ step[e] = "store"
    /\ \/ /\ FunctionFails(e)
          /\ step' = [step EXCEPT ![e] = "failed"]
          /\ UNCHANGED <<accumulators, unsaved>>
       \/ /\ ~FunctionFails(e)
          /\ accumulators' = [accumulators EXCEPT ![StateKey(e)] = Combined(e)]
          /\ unsaved' = unsaved \cup {e}
          /\ step' = [step EXCEPT ![e] = "done"]
    /\ readValue' = [readValue EXCEPT ![e] = {}]
    /\ UNCHANGED <<keyedKind, overlapped, branch, skipped, snapshotted, cutOff, life>>

\* "concurrent map read and map write"
MapFault ==
    /\ life = "running"
    /\ \E d \in InProcess : step[d] = "store" /\ Cardinality(InProcess) > 1
    /\ life' = "faulted"
    /\ UNCHANGED <<keyedKind, accumulators, step, readValue, overlapped, branch, skipped, snapshotted,
                   unsaved, cutOff>>

\* Only the aggregate operator has GetState and RestoreState.
KeyedGetState ==
    /\ life = "running" /\ keyedKind = "aggregate"
    /\ snapshotted' = accumulators
    /\ unsaved' = {}
    /\ UNCHANGED <<keyedKind, accumulators, step, readValue, overlapped, branch, skipped, cutOff, life>>

\* A new process.  The engine's own checkpoints hold no operator's state, so whoever starts
\* it calls RestoreState with the last answer of GetState or not at all, and the source
\* delivers again whatever its committed offset has not passed: any of the events.
KeyedRestart(restores, again) ==
    /\ life = "faulted"
    /\ restores => keyedKind = "aggregate"
    /\ accumulators' = IF restores THEN snapshotted ELSE NoAccumulators
    /\ snapshotted' = accumulators'
    /\ step' = [e \in KeyedEvents |->
                  IF e \in again THEN "new"
                  ELSE IF step[e] \in {"branch", "read", "store"} THEN "gone" ELSE step[e]]
    /\ readValue' = [e \in KeyedEvents |-> {}]
    /\ overlapped' = overlapped \ again
    /\ cutOff' = (cutOff \cup {e \in KeyedEvents : step[e] = "done" /\ (restores => e \in unsaved)}) \ again
    /\ unsaved' = {}
    /\ branch' = {}
    /\ life' = "running"
    /\ UNCHANGED <<keyedKind, skipped>>

KeyedClose ==
    /\ life = "running"
    /\ \A e \in KeyedEvents : step[e] \in {"filtered", "done", "failed", "gone"}
    /\ life' = "closed"
    /\ accumulators' = NoAccumulators
    /\ UNCHANGED <<keyedKind, step, readValue, overlapped, branch, skipped, snapshotted, unsaved, cutOff>>

KeyedNext ==
    \/ \E e \in KeyedEvents :
         Stateless(e) \/ BranchProcess(e) \/ ReadAccumulator(e) \/ StoreAccumulator(e)
    \/ BranchConsumer \/ MapFault \/ KeyedGetState \/ KeyedClose
    \/ \E restores \in BOOLEAN, again \in SUBSET KeyedEvents : KeyedRestart(restores, again)

KeyedSpec == KeyedInit /\ [][KeyedNext]_keyedVars

-----------------------------------------------------------------------------
(* An event that was processed is only missing from its key's accumulator if another event
   of the same key was processed at the same time, or if it was stored after the snapshot
   a restart went back to and the source has not delivered it again since: events that
   fail, keys that share the map, first values, snapshots taken between a read and its
   store, and repeated restarts lose nothing else. *)
LossHasCause ==
    life = "running" => \A e \in KeyedEvents :
        step[e] = "done" => e \in accumulators[StateKey(e)] \cup overlapped \cup cutOff

(* "performs stateful aggregation": every event that was processed is counted. *)
EveryEventCounted ==
    life = "running" => \A e \in KeyedEvents :
        step[e] = "done" => e \in accumulators[StateKey(e)]

(* "routes events to appropriate branches" *)
NothingSkipped == skipped = {}

(* The process survives two workers in one operator. *)
NoMapFault == life # "faulted"
=============================================================================
