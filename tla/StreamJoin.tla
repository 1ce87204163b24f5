----------------------------- MODULE StreamJoin -----------------------------
(***************************************************************************)
(* pkg/join/join.go, state.go and interval_join.go: the operator that      *)
(* joins two streams, run by DualStreamJoinOperator with one goroutine per *)
(* stream.  Both goroutines hold the operator's lock for reading only:     *)
(* storing an event and looking for partners are two steps.  Expiry        *)
(* compares the wall clock with event times.                               *)
(***************************************************************************)
EXTENDS Integers, FiniteSets, Functions, Sublists

CONSTANTS JoinEvents,     \* records: id, side, key, time
          JoinKinds,      \* "hash" (sort-merge is the same code), "nested", "interval"
          JoinTypes,      \* "INNER", "LEFT_OUTER", "RIGHT_OUTER", "FULL_OUTER"
          TimeWindow,     \* 0 for none
          LowerBound, UpperBound,   \* of the interval
          AllowedLateness, StateRetention,
          MaxStateSize,   \* events per key and side, 0 for no limit
          OutputSize,     \* capacity of the output channel
          MaxNow          \* bound: the last tick of the wall clock

Sides == {"left", "right"}
Other(s) == IF s = "left" THEN "right" ELSE "left"

ASSUME JoinAssumption ==
    /\ \A e \in JoinEvents : e.side \in Sides /\ e.time \in Nat
    /\ JoinKinds \subseteq {"hash", "nested", "interval"}
    /\ JoinTypes \subseteq {"INNER", "LEFT_OUTER", "RIGHT_OUTER", "FULL_OUTER"}
    /\ TimeWindow \in Nat /\ LowerBound \in Int /\ UpperBound \in Int
    /\ AllowedLateness \in Nat /\ StateRetention \in Nat /\ MaxStateSize \in Nat
    /\ OutputSize \in Nat \ {0} /\ MaxNow \in Nat

VARIABLES
    joinKind, joinType,
    joinState,   \* side -> the stored events, oldest first
    joinAt,      \* side -> what its goroutine does next
    current,     \* side -> the event it works on
    todoKeys,    \* side -> the keys it has not looked at yet
    found,       \* event -> the partners its Process found
    rows,        \* side -> results it still has to send
    output,      \* results in the output channel
    removed,     \* events that expired or were crowded out
    nulls,       \* events emitted without a partner
    joinLife,    \* "running", "cancelled", "closed"
    joinNow      \* the wall clock at the last cleanup

joinVars == <<joinKind, joinType, joinState, joinAt, current, todoKeys, found, rows, output,
              removed, nulls, joinLife, joinNow>>

NoEvent == [id |-> 0, side |-> "none", key |-> "", time |-> 0]
KeysIn(s) == {joinState[s][i].key : i \in DOMAIN joinState[s]}

\* matchesCondition, and the interval of IntervalJoinOperator; the nested loop is for
\* conditions other than equal keys.
WithinWindow(l, r) == TimeWindow = 0 \/ (r.time - l.time <= TimeWindow /\ l.time - r.time <= TimeWindow)
isWithinInterval(l, r) == l.time + LowerBound <= r.time /\ r.time <= l.time + UpperBound
Matches(l, r) ==
    CASE joinKind = "hash" -> l.key = r.key /\ WithinWindow(l, r)
      [] joinKind = "nested" -> WithinWindow(l, r)
      [] joinKind = "interval" -> l.key = r.key /\ isWithinInterval(l, r)
MatchFor(e, other) == IF e.side = "left" THEN Matches(e, other) ELSE Matches(other, e)

ExpiresAt(e) ==
    IF joinKind = "interval" /\ e.side = "left" THEN e.time + UpperBound + AllowedLateness
    ELSE e.time + StateRetention

JoinInit ==
    /\ joinKind \in JoinKinds
    /\ joinType \in JoinTypes
    /\ joinState = [s \in Sides |-> <<>>]
    /\ joinAt = [s \in Sides |-> "receive"]
    /\ current = [s \in Sides |-> NoEvent]
    /\ todoKeys = [s \in Sides |-> {}]
    /\ found = [e \in JoinEvents |-> {}]
    /\ rows = [s \in Sides |-> 0]
    /\ output = 0
    /\ removed = {}
    /\ nulls = {}
    /\ joinLife = "running"
    /\ joinNow = 0

\* A join that has been stopped before it received anything.
NoJoinInit ==
    /\ joinKind = "hash"
    /\ joinType = "INNER"
    /\ joinState = [s \in Sides |-> <<>>]
    /\ joinAt = [s \in Sides |-> "exited"]
    /\ current = [s \in Sides |-> NoEvent]
    /\ todoKeys = [s \in Sides |-> {}]
    /\ found = [e \in JoinEvents |-> {}]
    /\ rows = [s \in Sides |-> 0]
    /\ output = 0
    /\ removed = {}
    /\ nulls = {}
    /\ joinLife = "closed"
    /\ joinNow = 0

-----------------------------------------------------------------------------
(* The goroutine of one side.                                              *)

Received == {current[s] : s \in Sides} \cup removed
            \cup UNION {Range(joinState[s]) : s \in Sides}

\* The input channel gives the events of a side in any order the model chooses.
Receive(s) ==
    /\ joinAt[s] = "receive"
    /\ \E e \in JoinEvents \ Received :
        e.side = s /\ current' = [current EXCEPT ![s] = e]
    /\ joinAt' = [joinAt EXCEPT ![s] = "store"]
    /\ UNCHANGED <<joinKind, joinType, joinState, todoKeys, found, rows, output, removed, nulls, joinLife, joinNow>>

\* enforceMaxStateSize: the oldest of the key goes.
Stored(s, e) ==
    LET all == Append(joinState[s], e)
        same == Only(all, {x \in Range(all) : x.key = e.key})
    IN  IF MaxStateSize > 0 /\ Len(same) > MaxStateSize
        THEN Only(all, Range(all) \ {Head(same)}) ELSE all

\* Add...Event, then the keys the lookup goes through.
AddEvent(s) ==
    LET e == current[s] IN
    /\ joinAt[s] = "store"
    /\ joinState' = [joinState EXCEPT ![s] = Stored(s, e)]
    /\ removed' = removed \cup (Range(Append(joinState[s], e)) \ Range(Stored(s, e)))
    /\ joinAt' = [joinAt EXCEPT ![s] = "look"]
    /\ todoKeys' = [todoKeys EXCEPT ![s] = IF joinKind = "nested" THEN KeysIn(Other(s)) ELSE {e.key}]
    /\ UNCHANGED <<joinKind, joinType, current, found, rows, output, nulls, joinLife, joinNow>>

\* The faulty form that leaves an event the other side works on to the other side.
LookUpSettled(s) ==
    LET e == current[s] IN
    /\ joinAt[s] = "look"
    /\ \E k \in todoKeys[s] :
        LET partners == {p \in Range(joinState[Other(s)]) :
                           p.key = k /\ MatchFor(e, p) /\ p # current[Other(s)]} IN
        /\ found' = [found EXCEPT ![e] = @ \cup partners]
        /\ rows' = [rows EXCEPT ![s] = @ + Cardinality(partners)]
        /\ todoKeys' = [todoKeys EXCEPT ![s] = @ \ {k}]
    /\ UNCHANGED <<joinKind, joinType, joinState, joinAt, current, output, removed, nulls, joinLife, joinNow>>

\* The partners under one key; the match counts only reach the log.
LookUp(s) ==
    LET e == current[s] IN
    /\ joinAt[s] = "look"
    /\ \E k \in todoKeys[s] :
        LET partners == {p \in Range(joinState[Other(s)]) : p.key = k /\ MatchFor(e, p)} IN
        /\ found' = [found EXCEPT ![e] = @ \cup partners]
        /\ rows' = [rows EXCEPT ![s] = @ + Cardinality(partners)]
        /\ todoKeys' = [todoKeys EXCEPT ![s] = @ \ {k}]
    /\ UNCHANGED <<joinKind, joinType, joinState, joinAt, current, output, removed, nulls, joinLife, joinNow>>

\* An interval join leaves the unmatched left events to the cleanup.
OuterRow(e) ==
    /\ found[e] = {}
    /\ \/ e.side = "left" /\ joinType \in {"LEFT_OUTER", "FULL_OUTER"} /\ joinKind # "interval"
       \/ e.side = "right" /\ joinType \in {"RIGHT_OUTER", "FULL_OUTER"}

LookedUp(s) ==
    LET e == current[s] IN
    /\ joinAt[s] = "look" /\ todoKeys[s] = {}
    /\ IF OuterRow(e)
       THEN rows' = [rows EXCEPT ![s] = 1] /\ nulls' = nulls \cup {e}
       ELSE UNCHANGED <<rows, nulls>>
    /\ joinAt' = [joinAt EXCEPT ![s] = "send"]
    /\ UNCHANGED <<joinKind, joinType, joinState, current, todoKeys, found, output, removed, joinLife, joinNow>>

\* The faulty form that does not look at the context while the channel is full.
SendBlocking(s) ==
    /\ joinAt[s] = "send"
    /\ \/ rows[s] > 0 /\ output < OutputSize
          /\ output' = output + 1 /\ rows' = [rows EXCEPT ![s] = @ - 1] /\ UNCHANGED joinAt
       \/ rows[s] = 0 /\ joinAt' = [joinAt EXCEPT ![s] = "receive"] /\ UNCHANGED <<rows, output>>
    /\ UNCHANGED <<joinKind, joinType, joinState, current, todoKeys, found, removed, nulls, joinLife, joinNow>>

Send(s) ==
    /\ joinAt[s] = "send"
    /\ \/ rows[s] > 0 /\ output < OutputSize
          /\ output' = output + 1 /\ rows' = [rows EXCEPT ![s] = @ - 1] /\ UNCHANGED joinAt
       \/ rows[s] = 0 /\ joinAt' = [joinAt EXCEPT ![s] = "receive"] /\ UNCHANGED <<rows, output>>
       \/ rows[s] > 0 /\ joinLife = "cancelled"
          /\ joinAt' = [joinAt EXCEPT ![s] = "exited"] /\ UNCHANGED <<rows, output>>
    /\ UNCHANGED <<joinKind, joinType, joinState, current, todoKeys, found, removed, nulls, joinLife, joinNow>>

ContextDone(s) ==
    /\ joinAt[s] = "receive" /\ joinLife = "cancelled"
    /\ joinAt' = [joinAt EXCEPT ![s] = "exited"]
    /\ UNCHANGED <<joinKind, joinType, joinState, current, todoKeys, found, rows, output, removed, nulls, joinLife, joinNow>>

SideGoroutine(s) ==
    Receive(s) \/ AddEvent(s) \/ LookUp(s) \/ LookedUp(s) \/ Send(s) \/ ContextDone(s)

-----------------------------------------------------------------------------
\* RemoveExpiredEvents on both sides, whenever the ticker fires; the unmatched ones
\* are logged.
Cleanup(at) ==
    LET kept == [s \in Sides |->
                   Only(joinState[s], {e \in Range(joinState[s]) : ~(at > ExpiresAt(e))})] IN
    /\ joinLife # "closed"
    /\ at >= joinNow /\ joinNow' = at
    /\ kept # joinState
    /\ joinState' = kept
    /\ removed' = removed \cup UNION {Range(joinState[s]) \ Range(kept[s]) : s \in Sides}
    /\ UNCHANGED <<joinKind, joinType, joinAt, current, todoKeys, found, rows, output, nulls, joinLife>>

JoinConsumer ==
    /\ output > 0
    /\ output' = output - 1
    /\ UNCHANGED <<joinKind, joinType, joinState, joinAt, current, todoKeys, found, rows, removed, nulls, joinLife, joinNow>>

StopJoin ==
    /\ joinLife = "running"
    /\ joinLife' = "cancelled"
    /\ UNCHANGED <<joinKind, joinType, joinState, joinAt, current, todoKeys, found, rows, output, removed, nulls, joinNow>>

\* wg.Wait has returned: the output is closed and the state cleared.
FinishStop ==
    /\ joinLife = "cancelled"
    /\ \A s \in Sides : joinAt[s] = "exited"
    /\ joinLife' = "closed"
    /\ joinState' = [s \in Sides |-> <<>>]
    /\ removed' = removed \cup UNION {Range(joinState[s]) : s \in Sides}
    /\ UNCHANGED <<joinKind, joinType, joinAt, current, todoKeys, found, rows, output, nulls, joinNow>>

JoinNext ==
    \/ \E s \in Sides : SideGoroutine(s)
    \/ \E at \in 0 .. MaxNow : Cleanup(at)
    \/ JoinConsumer \/ StopJoin \/ FinishStop

\* The goroutines run; nobody need read the output.
JoinFairness == (\A s \in Sides : WF_joinVars(SideGoroutine(s))) /\ WF_joinVars(FinishStop)

JoinSpec == JoinInit /\ [][JoinNext]_joinVars /\ JoinFairness

-----------------------------------------------------------------------------
Processed(e) == \E s \in Sides : e \in Range(joinState[s]) \cup removed
                    /\ (e = current[s] => joinAt[s] \in {"send", "receive", "exited"})
                    /\ e.side = s

(* Two events that belong together and have both been processed were joined by one side
   or the other, unless one was removed from the state: although both sides work at the
   same time, neither can pass the other unseen. *)
NoPairMissed ==
    \A l, r \in JoinEvents :
        l.side = "left" /\ r.side = "right" /\ Processed(l) /\ Processed(r) /\ Matches(l, r) =>
            r \in found[l] \/ l \in found[r] \/ {l, r} \cap removed # {}

(* Stop returns, with a consumer that reads nothing and results still to be sent. *)
JoinStops == joinLife = "cancelled" ~> joinLife = "closed"

(* A pair is emitted once.  Both sides may have stored before either looks. *)
PairOnce == \A l, r \in JoinEvents : ~(r \in found[l] /\ l \in found[r])

(* A row without a partner is for an event that has none. *)
NullMeansUnmatched == \A e \in nulls : \A d \in JoinEvents : e \notin found[d]

(* "removes expired events and emits unmatched outer join results" *)
UnmatchedEmitted ==
    joinKind = "interval" /\ joinType = "LEFT_OUTER" => \A e \in removed :
        e.side = "left" /\ found[e] = {} /\ (\A d \in JoinEvents : e \notin found[d]) => e \in nulls
=============================================================================
