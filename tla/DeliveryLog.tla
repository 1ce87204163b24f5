----------------------------- MODULE DeliveryLog -----------------------------
(***************************************************************************)
(* pkg/stream/types.go: what a Source that can be read again and the Sinks *)
(* see of the engine between them, whatever goroutines, channels and       *)
(* workers there are inside.  The offsets are read in order; each one that *)
(* was read is open until it is written, given up with an error or a       *)
(* filter, or, once the engine is closing, dropped if it was the last.  A  *)
(* restart forgets what is open and reads again from the offset that was   *)
(* acknowledged: that is how an offset is written more than once, and also *)
(* how one is skipped, because nothing ties the acknowledged offset to     *)
(* what is still open.                                                     *)
(***************************************************************************)
EXTENDS Naturals

CONSTANT Size           \* offsets in the topic

VARIABLES
    from, upTo,         \* this run of the engine has read from + 1 to upTo
    acknowledged,       \* where the next one will begin
    open,               \* offsets that were read and are not finished
    written,            \* how often each offset was written to the sink
    refused,            \* offsets that were given up
    closing,            \* the engine was told to stop
    restarts

deliveryVars == <<from, upTo, acknowledged, open, written, refused, closing, restarts>>

DeliveryInit ==
    /\ from = 0 /\ upTo = 0 /\ acknowledged = 0 /\ restarts = 0
    /\ open = {} /\ refused = {}
    /\ written = [e \in 1..Size |-> 0]
    /\ closing = FALSE

Read ==
    /\ upTo < Size
    /\ upTo' = upTo + 1
    /\ open' = open \cup {upTo + 1}
    /\ UNCHANGED <<from, acknowledged, written, refused, closing, restarts>>

Write(e) ==
    /\ e \in open
    /\ open' = open \ {e}
    /\ written' = [written EXCEPT ![e] = @ + 1]
    /\ UNCHANGED <<from, upTo, acknowledged, refused, closing, restarts>>

GiveUp(e) ==
    /\ e \in open
    /\ open' = open \ {e}
    /\ refused' = refused \cup {e}
    /\ UNCHANGED <<from, upTo, acknowledged, written, closing, restarts>>

Drop ==
    /\ closing /\ upTo \in open
    /\ open' = open \ {upTo}
    /\ UNCHANGED <<from, upTo, acknowledged, written, refused, closing, restarts>>

Close ==
    /\ closing' = TRUE
    /\ UNCHANGED <<from, upTo, acknowledged, open, written, refused, restarts>>

Acknowledge ==
    /\ acknowledged' = upTo
    /\ UNCHANGED <<from, upTo, open, written, refused, closing, restarts>>

Restart ==
    /\ from' = acknowledged /\ upTo' = acknowledged
    /\ open' = {} /\ closing' = FALSE
    /\ restarts' = restarts + 1
    /\ UNCHANGED <<acknowledged, written, refused>>

DeliveryNext ==
    \/ Read \/ Drop \/ Close \/ Acknowledge \/ Restart
    \/ \E e \in 1..Size : Write(e) \/ GiveUp(e)

DeliverySpec == DeliveryInit /\ [][DeliveryNext]_deliveryVars
=============================================================================
