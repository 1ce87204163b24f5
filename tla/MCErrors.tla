------------------------------ MODULE MCErrors ------------------------------
(***************************************************************************)
(* What happens to events that fail: the resilient sink, the dead letter   *)
(* queue behind its manager, and the error handling operator with its side *)
(* outputs.  Each is checked by itself: only the one that failing names    *)
(* takes steps, the others stay as they start.                             *)
(***************************************************************************)
EXTENDS ResilientSink, DeadLetterQueue, ErrorHandler

VARIABLE failing

MCEngineConfigs == {[retries |-> 1, dlq |-> "memory", side |-> TRUE],
                    [retries |-> -1, dlq |-> "file", side |-> TRUE],
                    [retries |-> 0, dlq |-> "null", side |-> FALSE]}
MCOperatorErrors == {Errno("ECONNRESET"), {"classified fatal", "says connection"}}

ErrorsInit ==
    /\ ResilientInit /\ QueueInit /\ ErrorHandlerInit
    /\ failing \in {"sink", "queue", "operator"}
    /\ failing # "operator" => engineConfig.retries = 1

ErrorsNext ==
    \/ failing = "sink" /\ ResilientNext /\ UNCHANGED <<failing, queueVars, handlerVars>>
    \/ failing = "queue" /\ QueueNext /\ UNCHANGED <<failing, allVars, handlerVars>>
    \/ failing = "operator" /\ ErrorHandlerNext /\ UNCHANGED <<failing, allVars, queueVars>>

ErrorsSpec ==
    /\ ErrorsInit
    /\ [][ErrorsNext]_<<failing, allVars, queueVars, handlerVars>>
    /\ ResilientFairness
    /\ ErrorHandlerFairness
=============================================================================
