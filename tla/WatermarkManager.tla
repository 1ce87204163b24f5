-------------------------- MODULE WatermarkManager --------------------------
(***************************************************************************)
(* pkg/watermark/manager.go: per-partition watermarks, the periodic        *)
(* generation with its idle-partition rule, the bounded output channel     *)
(* with its non-blocking send, and the consumer, Engine.handleWatermark.   *)
(*                                                                         *)
(* Times are natural numbers; 0 is the zero time.Time and, in the two maps,*)
(* a partition without an entry.  The wall clock starts late enough for    *)
(* every watermark to be a later time than that.                           *)
(***************************************************************************)
EXTENDS Naturals, Sequences, SequencesExt

CONSTANTS Partitions,
          EventTimes,    \* the event times that may arrive
          Tolerance,     \* 5 seconds in the code
          IdleTimeout,   \* 30 seconds in the code
          StartTime,     \* the wall clock when the manager is created
          MaxTime,       \* bound: the wall clock stops here
          ChannelSize    \* capacity of watermarkChan, 100 in the engine

ASSUME WatermarkAssumption ==
    /\ IsFiniteSet(Partitions)
    /\ EventTimes \subseteq Nat
    /\ Tolerance \in Nat
    /\ IdleTimeout \in Nat
    /\ StartTime \in Nat
    /\ MaxTime \in Nat
    /\ \A t \in EventTimes : t > Tolerance
    /\ StartTime > IdleTimeout
    /\ ChannelSize \in Nat \ {0}

ZeroTime == 0

VARIABLES
    partitionMarks,    \* m.partitionMarks
    lastEventTime,     \* m.lastEventTime
    globalWatermark,   \* m.globalWatermark
    watermarkChan,     \* output: watermarks emitted and not yet received
    progress,          \* the engine's per-partition watermark gauge
    now,               \* the wall clock
    newest             \* history: the latest event time seen per partition

vars == <<partitionMarks, lastEventTime, globalWatermark, watermarkChan, progress, now, newest>>

Exists(p) == partitionMarks[p] # ZeroTime
Known == {p \in Partitions : Exists(p)}

-----------------------------------------------------------------------------
Init ==
    /\ partitionMarks = [p \in Partitions |-> ZeroTime]
    /\ lastEventTime = [p \in Partitions |-> ZeroTime]
    /\ globalWatermark = ZeroTime
    /\ watermarkChan = <<>>
    /\ progress = [p \in Partitions |-> ZeroTime]
    /\ now = StartTime
    /\ newest = [p \in Partitions |-> ZeroTime]

\* The faulty form that forgets the tolerance for out-of-order events.
UpdateEventTimeEager(p, t) ==
    /\ lastEventTime' = [lastEventTime EXCEPT ![p] = t]
    /\ partitionMarks' = [partitionMarks EXCEPT ![p] = IF ~Exists(p) \/ t > @ THEN t ELSE @]
    /\ newest' = [newest EXCEPT ![p] = IF t > @ THEN t ELSE @]
    /\ UNCHANGED <<globalWatermark, watermarkChan, progress, now>>

\* lastEventTime takes any event, the mark only a later one.
UpdateEventTime(p, t) ==
    /\ lastEventTime' = [lastEventTime EXCEPT ![p] = t]
    /\ partitionMarks' = [partitionMarks EXCEPT ![p] =
                             IF ~Exists(p) \/ t - Tolerance > @ THEN t - Tolerance ELSE @]
    /\ newest' = [newest EXCEPT ![p] = IF t > @ THEN t ELSE @]
    /\ UNCHANGED <<globalWatermark, watermarkChan, progress, now>>

(***************************************************************************)
(* generateWatermarks, one tick under m.mu.                                *)
(***************************************************************************)
\* now.Sub(lastEvent) > m.idleTimeout: event time against the wall clock.
Idle(p) == now > lastEventTime[p] + IdleTimeout

\* The marks after the idle rule, which assigns without comparing.
Refreshed ==
    [p \in Partitions |-> IF Exists(p) /\ Idle(p) THEN now - IdleTimeout
                                                  ELSE partitionMarks[p]]

\* The map is visited in any order.
Emission(order) == [i \in 1..Len(order) |-> [timestamp |-> Refreshed[order[i]],
                                             partition |-> order[i]]]

\* The faulty form that sends only the watermarks that advanced in this tick.
SentIfAdvanced(order) ==
    LET news == SelectSeq(order, LAMBDA p : Refreshed[p] > partitionMarks[p])
        all == watermarkChan \o Emission(news)
    IN  SubSeq(all, 1, IF Len(all) < ChannelSize THEN Len(all) ELSE ChannelSize)

\* A full channel skips the send.
Sent(order) ==
    LET all == watermarkChan \o Emission(order)
    IN  SubSeq(all, 1, IF Len(all) < ChannelSize THEN Len(all) ELSE ChannelSize)

AdvanceGlobal ==
    LET lowest == Min({Refreshed[p] : p \in Known})
    IN  globalWatermark' = IF Known # {} /\ (globalWatermark = ZeroTime
                                             \/ lowest > globalWatermark)
                           THEN lowest ELSE globalWatermark

generateWatermarks(order) ==
    /\ partitionMarks' = Refreshed
    /\ watermarkChan' = Sent(order)
    /\ AdvanceGlobal
    /\ UNCHANGED <<lastEventTime, progress, now, newest>>

\* Engine.handleWatermark records the timestamp under the partition's label.
handleWatermark ==
    /\ watermarkChan # <<>>
    /\ progress' = [progress EXCEPT ![Head(watermarkChan).partition] =
                                        Head(watermarkChan).timestamp]
    /\ watermarkChan' = Tail(watermarkChan)
    /\ UNCHANGED <<partitionMarks, lastEventTime, globalWatermark, now, newest>>

Tick ==
    /\ now < MaxTime
    /\ now' = now + 1
    /\ UNCHANGED <<partitionMarks, lastEventTime, globalWatermark, watermarkChan, progress,
                   newest>>

Next ==
    \/ \E p \in Partitions, t \in EventTimes : UpdateEventTime(p, t)
    \/ \E order \in SetToSeqs(Known) : generateWatermarks(order)
    \/ handleWatermark
    \/ Tick

\* The ticker fires and the processing loop receives.  Go visits a map in random
\* order, so each partition is first again and again while there is room.
Fairness ==
    /\ WF_vars(handleWatermark)
    /\ WF_vars(Tick)
    /\ \A p \in Partitions :
          SF_vars(/\ Len(watermarkChan) < ChannelSize
                  /\ \E order \in SetToSeqs(Known) :
                        order # <<>> /\ order[1] = p /\ generateWatermarks(order))

Spec == Init /\ [][Next]_vars
FairSpec == Spec /\ Fairness

-----------------------------------------------------------------------------
Watermarks == [timestamp : Nat, partition : Partitions]

(* Type invariant: the maps of the Manager and the channel of watermarks. *)
TypeOK ==
    /\ partitionMarks \in [Partitions -> Nat]
    /\ lastEventTime \in [Partitions -> Nat]
    /\ globalWatermark \in Nat
    /\ watermarkChan \in Seq(Watermarks)
    /\ Len(watermarkChan) <= ChannelSize
    /\ progress \in [Partitions -> Nat]
    /\ now \in Nat
    /\ newest \in [Partitions -> Nat]

Justified(p, m) == m + Tolerance <= newest[p] \/ m + IdleTimeout <= now

\* A partition that joins late is not held against the mark announced before.
GlobalJustified == globalWatermark = ZeroTime \/ \E p \in Partitions : Justified(p, globalWatermark)

(* No watermark runs ahead of its justification: a mark, wherever it is (in the map,
   in the channel, in the gauge), is at least Tolerance behind the newest event of
   its partition or at least IdleTimeout behind the wall clock, and so is the global
   one for some partition. *)
MarksJustified ==
    /\ \A p \in Partitions : /\ Justified(p, partitionMarks[p]) \/ ~Exists(p)
                             /\ Justified(p, progress[p]) \/ progress[p] = ZeroTime
    /\ \A i \in 1..Len(watermarkChan) :
          Justified(watermarkChan[i].partition, watermarkChan[i].timestamp)
    /\ GlobalJustified

(* A watermark that was skipped on a full channel is not lost for ever: when a
   partition's mark settles, the engine comes to see it. *)
MarkReachesEngine ==
    \A p \in Partitions : \A m \in 1..MaxTime :
        <>[](partitionMarks[p] = m) => <>[](progress[p] = m)

(* "Advance idle partition watermark": the mark of a partition never goes back. *)
MarksMonotone == [][\A p \in Partitions : partitionMarks'[p] >= partitionMarks[p]]_vars

(* "Global (minimum) watermark": when it has been generated, no partition is behind
   the global watermark. *)
GlobalIsMinimum ==
    [][(\E order \in SetToSeqs(Known) : generateWatermarks(order)) =>
          \A p \in Known : globalWatermark' <= partitionMarks'[p]]_vars
=============================================================================
