--------------------------- MODULE PipelineProofs ---------------------------
(***************************************************************************)
(* The operators and sinks between the sources and the outside, for any    *)
(* events, keys, workers and schemas: an aggregate loses an event only to  *)
(* an overlap or a restart; two events that join never pass unseen; the    *)
(* temporal join looks up the right version; the Timescale sink with one   *)
(* caller stores an event once, lost answers of the database apart; and a  *)
(* Kafka topic is read as it was written.                                  *)
(***************************************************************************)
EXTENDS KeyedOperators, StreamJoin, TemporalJoin, TimescaleSink, KafkaTopic,
        SublistProofs, FiniteSetTheorems, SequenceTheorems, WellFoundedInduction, TLAPS

-----------------------------------------------------------------------------
(* The keyed operators.                                                    *)

\* Where an event may be.
Steps == {"new", "branch", "read", "store", "filtered", "done", "failed", "gone"}

\* Type invariant of the stateful operators.
KeyedTypeOK ==
    /\ accumulators \in [StateKeys -> SUBSET KeyedEvents]
    /\ step \in [KeyedEvents -> Steps]
    /\ readValue \in [KeyedEvents -> SUBSET KeyedEvents]
    /\ overlapped \subseteq KeyedEvents
    /\ snapshotted \in [StateKeys -> SUBSET KeyedEvents]
    /\ unsaved \subseteq KeyedEvents
    /\ cutOff \subseteq KeyedEvents
    /\ life \in {"running", "faulted", "closed"}

\* Two events of one key between their read and their store are both marked.
OverlapsMarked ==
    \A d, e \in KeyedEvents :
        d # e /\ step[d] = "store" /\ step[e] = "store" /\ StateKey(d) = StateKey(e)
            => d \in overlapped /\ e \in overlapped

\* What is done, was alone and was not cut off is in the accumulator.
DoneCounted ==
    life # "closed" => \A e \in KeyedEvents :
        step[e] = "done" => e \in accumulators[StateKey(e)] \cup overlapped \cup cutOff

\* It is also in every value read that is still to be stored back.
DoneRead ==
    life # "closed" => \A d, e \in KeyedEvents :
        step[d] = "store" /\ step[e] = "done" /\ StateKey(d) = StateKey(e)
            => e \in readValue[d] \cup overlapped \cup cutOff

\* Unless it was stored after the last snapshot, it is in that snapshot too.
DoneSaved ==
    \A e \in KeyedEvents :
        step[e] = "done" /\ e \notin unsaved => e \in snapshotted[StateKey(e)] \cup overlapped \cup cutOff

\* The inductive invariant.
KeyedInv == KeyedTypeOK /\ OverlapsMarked /\ DoneCounted /\ DoneRead /\ DoneSaved

\* Every event has one of the keys.
LEMMA KeyExists == \A e \in KeyedEvents : StateKey(e) \in StateKeys
BY DEF StateKeys

\* The invariant holds before the first event.
LEMMA KeyedInitially == KeyedInit => KeyedInv
<1> SUFFICES ASSUME KeyedInit PROVE KeyedInv
    OBVIOUS
<1>1. KeyedTypeOK
    BY DEF KeyedInit, KeyedTypeOK, NoAccumulators, Steps
<1> QED
    BY <1>1, KeyExists DEF KeyedInit, KeyedInv, OverlapsMarked, DoneCounted, DoneRead, DoneSaved,
                NoAccumulators

\* The stateless operators and the branch move an event on its way to the read.
LEMMA StatelessKeeps ==
    ASSUME KeyedInv, NEW e \in KeyedEvents, Stateless(e) \/ BranchProcess(e)
    PROVE  KeyedInv'
<1>1. PICK s \in {"filtered", "branch", "read"} :
        /\ step' = [step EXCEPT ![e] = s]
        /\ step[e] \in {"new", "branch"}
        /\ UNCHANGED <<accumulators, readValue, overlapped, snapshotted, unsaved, cutOff, life>>
    BY DEF Stateless, BranchProcess
<1>2. KeyedTypeOK'
    BY <1>1 DEF KeyedInv, KeyedTypeOK, Steps
<1> QED
    BY <1>1, <1>2 DEF KeyedInv, KeyedTypeOK, OverlapsMarked, DoneCounted, DoneRead, DoneSaved

\* A read sees every event that is done and alone, and marks the overlaps.
LEMMA ReadKeeps ==
    ASSUME KeyedInv, NEW e \in KeyedEvents, ReadAccumulator(e)
    PROVE  KeyedInv'
<1> DEFINE others == {d \in InProcess : step[d] = "store" /\ StateKey(d) = StateKey(e)}
<1>1. /\ step[e] = "read" /\ step' = [step EXCEPT ![e] = "store"]
      /\ readValue' = [readValue EXCEPT ![e] = accumulators[StateKey(e)]]
      /\ overlapped' = IF others = {} THEN overlapped ELSE overlapped \cup others \cup {e}
      /\ UNCHANGED <<accumulators, snapshotted, unsaved, cutOff, life>>
    BY DEF ReadAccumulator
<1>2. others = {d \in KeyedEvents : step[d] = "store" /\ StateKey(d) = StateKey(e)}
    BY DEF InProcess
<1> HIDE DEF others
<1>3. KeyedTypeOK'
    BY <1>1, <1>2, KeyExists DEF KeyedInv, KeyedTypeOK, Steps
<1>4. overlapped \subseteq overlapped'
    BY <1>1
<1>5. OverlapsMarked'
    BY <1>1, <1>2, <1>4 DEF KeyedInv, KeyedTypeOK, OverlapsMarked
<1>6. DoneCounted' /\ DoneRead'
    BY <1>1, <1>4 DEF KeyedInv, KeyedTypeOK, DoneCounted, DoneRead
<1>7. DoneSaved'
    BY <1>1, <1>4 DEF KeyedInv, KeyedTypeOK, DoneSaved
<1> QED BY <1>3, <1>5, <1>6, <1>7 DEF KeyedInv

\* A store puts back what was read, with every event that is done and was alone; a function
\* that fails leaves the accumulator alone.
LEMMA StoreKeeps ==
    ASSUME KeyedInv, NEW e \in KeyedEvents, StoreAccumulator(e)
    PROVE  KeyedInv'
<1>1. /\ step[e] = "store" /\ life = "running"
      /\ readValue' = [readValue EXCEPT ![e] = {}]
      /\ UNCHANGED <<overlapped, snapshotted, cutOff, life>>
    BY DEF StoreAccumulator
<1>2. CASE FunctionFails(e)
  <2>1. step' = [step EXCEPT ![e] = "failed"] /\ accumulators' = accumulators /\ unsaved' = unsaved
      BY <1>2 DEF StoreAccumulator
  <2>2. KeyedTypeOK'
      BY <1>1, <2>1 DEF KeyedInv, KeyedTypeOK, Steps
  <2> QED
      BY <1>1, <2>1, <2>2 DEF KeyedInv, KeyedTypeOK, OverlapsMarked, DoneCounted, DoneRead, DoneSaved
<1>3. CASE ~FunctionFails(e)
  <2>1. /\ step' = [step EXCEPT ![e] = "done"]
        /\ accumulators' = [accumulators EXCEPT ![StateKey(e)] = readValue[e] \cup {e}]
        /\ unsaved' = unsaved \cup {e}
      BY <1>3 DEF StoreAccumulator, Combined
  <2>2. KeyedTypeOK'
    <3>1. accumulators' \in [StateKeys -> SUBSET KeyedEvents]
        BY <2>1, ZenonT(30) DEF KeyedInv, KeyedTypeOK
    <3> QED BY <1>1, <2>1, <3>1 DEF KeyedInv, KeyedTypeOK, Steps
  <2>3. OverlapsMarked'
      BY <1>1, <2>1 DEF KeyedInv, KeyedTypeOK, OverlapsMarked
  <2>4. DoneCounted'
      BY <1>1, <2>1, KeyExists DEF KeyedInv, KeyedTypeOK, DoneCounted, DoneRead
  <2>5. DoneRead'
      BY <1>1, <2>1 DEF KeyedInv, KeyedTypeOK, DoneRead, OverlapsMarked
  <2>6. DoneSaved'
      BY <1>1, <2>1 DEF KeyedInv, KeyedTypeOK, DoneSaved
  <2> QED BY <2>2, <2>3, <2>4, <2>5, <2>6 DEF KeyedInv
<1> QED BY <1>2, <1>3

\* After a restart what the snapshot does not hold is new again or cut off.
LEMMA RestartKeeps ==
    ASSUME KeyedInv, NEW restores \in BOOLEAN, NEW again \in SUBSET KeyedEvents,
           KeyedRestart(restores, again)
    PROVE  KeyedInv'
<1>1. /\ accumulators' = IF restores THEN snapshotted ELSE NoAccumulators
      /\ snapshotted' = accumulators'
      /\ step' = [e \in KeyedEvents |->
                    IF e \in again THEN "new"
                    ELSE IF step[e] \in {"branch", "read", "store"} THEN "gone" ELSE step[e]]
      /\ readValue' = [e \in KeyedEvents |-> {}]
      /\ overlapped' = overlapped \ again
      /\ cutOff' = (cutOff \cup {e \in KeyedEvents : step[e] = "done" /\ (restores => e \in unsaved)}) \ again
      /\ unsaved' = {} /\ life' = "running"
    BY DEF KeyedRestart
<1>2. accumulators' \in [StateKeys -> SUBSET KeyedEvents]
    BY <1>1 DEF KeyedInv, KeyedTypeOK, NoAccumulators
<1>3. KeyedTypeOK'
    BY <1>1, <1>2 DEF KeyedInv, KeyedTypeOK, Steps
<1>4. \A e \in KeyedEvents : step'[e] # "store" /\ (step'[e] = "done" => e \notin again /\ step[e] = "done")
    BY <1>1 DEF KeyedInv, KeyedTypeOK, Steps
<1>5. \A e \in KeyedEvents :
        step'[e] = "done" => e \in accumulators'[StateKey(e)] \cup overlapped' \cup cutOff'
    BY <1>1, <1>4 DEF KeyedInv, DoneSaved
<1> QED
    BY <1>1, <1>3, <1>4, <1>5 DEF KeyedInv, OverlapsMarked, DoneCounted, DoneRead, DoneSaved

\* A snapshot, the fault of the map, Close and a reader of the branch.
LEMMA OthersKeep ==
    ASSUME KeyedInv, BranchConsumer \/ MapFault \/ KeyedGetState \/ KeyedClose
    PROVE  KeyedInv'
<1>1. CASE BranchConsumer
    BY <1>1 DEF BranchConsumer, KeyedInv, KeyedTypeOK, OverlapsMarked, DoneCounted, DoneRead, DoneSaved
<1>2. CASE MapFault
    BY <1>2 DEF MapFault, KeyedInv, KeyedTypeOK, OverlapsMarked, DoneCounted, DoneRead, DoneSaved
<1>3. CASE KeyedGetState
    BY <1>3 DEF KeyedGetState, KeyedInv, KeyedTypeOK, OverlapsMarked, DoneCounted, DoneRead, DoneSaved
<1>4. CASE KeyedClose
    BY <1>4, KeyExists DEF KeyedClose, KeyedInv, KeyedTypeOK, OverlapsMarked, DoneCounted, DoneRead,
                DoneSaved, NoAccumulators
<1> QED BY <1>1, <1>2, <1>3, <1>4

\* The invariant is inductive.
LEMMA KeyedInvAlways == KeyedSpec => []KeyedInv
<1>1. KeyedInv /\ [KeyedNext]_keyedVars => KeyedInv'
  <2>1. ASSUME KeyedInv, UNCHANGED keyedVars PROVE KeyedInv'
      BY <2>1 DEF keyedVars, KeyedInv, KeyedTypeOK, OverlapsMarked, DoneCounted, DoneRead, DoneSaved
  <2> QED BY <2>1, StatelessKeeps, ReadKeeps, StoreKeeps, RestartKeeps, OthersKeep DEF KeyedNext
<1> QED BY KeyedInitially, <1>1, PTL DEF KeyedSpec

\* Aggregate and Reduce (operators.go:123) lose an event only to another one of its key
\* whose read and store overlap with its own, or to a restart from a snapshot older than
\* it without a second delivery; whatever fails, and whatever is delivered again.
THEOREM LossAlwaysHasCause == KeyedSpec => []LossHasCause
<1>1. KeyedInv => LossHasCause
    BY DEF KeyedInv, DoneCounted, LossHasCause
<1> QED BY KeyedInvAlways, <1>1, PTL

-----------------------------------------------------------------------------
(* The stream join.                                                        *)

\* Where the goroutine of a side may be.
JoinSteps == {"receive", "store", "look", "send", "exited"}

\* Type invariant of the join.
JoinTypeOK ==
    /\ joinKind \in JoinKinds
    /\ joinState \in [Sides -> Seq(JoinEvents)]
    /\ joinAt \in [Sides -> JoinSteps]
    /\ DOMAIN current = Sides
    /\ DOMAIN todoKeys = Sides
    /\ found \in [JoinEvents -> SUBSET JoinEvents]

\* The event a goroutine works on is one of its side.
AtWork ==
    \A s \in Sides : joinAt[s] \in {"store", "look"} => current[s] \in JoinEvents /\ current[s].side = s

\* The goroutine of side s is about to look for events of key k to join e with.
Pending(s, e, k) == current[s] = e /\ joinAt[s] = "look" /\ k \in todoKeys[s]

\* Of two events that are stored and belong together one has found the other, or is
\* about to look.
OneLooks ==
    \A l \in Range(joinState["left"]), r \in Range(joinState["right"]) :
        Matches(l, r) => \/ r \in found[l] \/ l \in found[r]
                         \/ Pending("left", l, r.key) \/ Pending("right", r, l.key)

\* The inductive invariant of the join.
JoinInv == JoinTypeOK /\ AtWork /\ OneLooks

\* The members of a list.
LEMMA RangeOfList ==
    ASSUME NEW D, NEW s \in Seq(D)
    PROVE  /\ Range(s) \subseteq D
           /\ \A x : x \in Range(s) <=> \E i \in 1 .. Len(s) : s[i] = x
BY LenProperties, ElementOfSeq DEF Range

\* The members of what Only keeps.
LEMMA RangeOfOnly ==
    ASSUME NEW D, NEW s \in Seq(D), NEW S
    PROVE  Only(s, S) \in Seq(D) /\ Range(Only(s, S)) = Range(s) \cap S
<1>1. Only(s, S) \in Seq(D)
  BY OnlyProperties
<1>2. \A x : x \in Range(Only(s, S)) <=> \E i \in 1 .. Len(Only(s, S)) : Only(s, S)[i] = x
  BY <1>1, RangeOfList
<1>3. \A x : (\E i \in 1 .. Len(Only(s, S)) : Only(s, S)[i] = x)
                 <=> x \in S /\ \E i \in 1 .. Len(s) : s[i] = x
  BY OnlyProperties
<1>4. \A x : x \in Range(s) <=> \E i \in 1 .. Len(s) : s[i] = x
  BY RangeOfList
<1>. QED
  BY <1>1, <1>2, <1>3, <1>4

\* The members of a list with one more.
LEMMA RangeOfAppend ==
    ASSUME NEW D, NEW s \in Seq(D), NEW e \in D
    PROVE  Append(s, e) \in Seq(D) /\ Range(Append(s, e)) = Range(s) \cup {e}
<1>1. /\ Append(s, e) \in Seq(D) /\ Len(s) \in Nat /\ Len(Append(s, e)) = Len(s) + 1
      /\ \A i \in 1 .. Len(s) : Append(s, e)[i] = s[i]
      /\ Append(s, e)[Len(s) + 1] = e
  BY AppendProperties, LenProperties
<1>2. \A i \in 1 .. Len(s) + 1 : i \in 1 .. Len(s) \/ i = Len(s) + 1
  BY <1>1
<1>3. \A x : x \in Range(s) <=> \E i \in 1 .. Len(s) : s[i] = x
  BY RangeOfList
<1>4. \A x : x \in Range(Append(s, e)) <=> \E i \in 1 .. Len(Append(s, e)) : Append(s, e)[i] = x
  BY <1>1, RangeOfList
<1>. QED
  BY <1>1, <1>2, <1>3, <1>4

\* What is stored is typed.
LEMMA StoredIs ==
    ASSUME JoinTypeOK, NEW s \in Sides, NEW e \in JoinEvents
    PROVE  /\ Stored(s, e) \in Seq(JoinEvents)
           /\ Range(Stored(s, e)) \subseteq Range(joinState[s]) \cup {e}
<1>. DEFINE all == Append(joinState[s], e)
            same == Only(all, {x \in Range(all) : x.key = e.key})
<1>1. all \in Seq(JoinEvents) /\ Range(all) = Range(joinState[s]) \cup {e}
  BY RangeOfAppend DEF JoinTypeOK
<1>2. Stored(s, e) = all \/ Stored(s, e) = Only(all, Range(all) \ {Head(same)})
  BY DEF Stored
<1>. HIDE DEF all, same
<1>3. /\ Only(all, Range(all) \ {Head(same)}) \in Seq(JoinEvents)
      /\ Range(Only(all, Range(all) \ {Head(same)})) \subseteq Range(all)
  BY <1>1, RangeOfOnly
<1>. QED
  BY <1>1, <1>2, <1>3

\* The invariant holds at the start.
LEMMA JoinStarts == JoinInit => JoinInv
<1>. SUFFICES ASSUME JoinInit PROVE JoinInv
  OBVIOUS
<1>1. JoinTypeOK
  BY EmptySeq DEF JoinInit, JoinTypeOK, JoinSteps
<1>2. AtWork
  BY DEF JoinInit, AtWork
<1>3. \A s \in Sides : Range(joinState[s]) = {}
  BY DEF JoinInit, Range
<1>4. OneLooks
  BY <1>3 DEF OneLooks, Sides
<1>. QED BY <1>1, <1>2, <1>4 DEF JoinInv

\* Events that join have the keys and times the join compares.
LEMMA MatchesNeed ==
    ASSUME JoinTypeOK, NEW l, NEW r, Matches(l, r), joinKind # "nested"
    PROVE  l.key = r.key
BY JoinAssumption DEF JoinTypeOK, Matches

\* Whether two events join does not change.
LEMMA MatchesSame == ASSUME NEW l, NEW r, joinKind' = joinKind PROVE Matches(l, r)' = Matches(l, r)
BY DEF Matches

\* Less in the state, and as much found: nothing changes for the rest.
LEMMA LessStored ==
    ASSUME JoinInv, joinKind' = joinKind, joinState' \in [Sides -> Seq(JoinEvents)],
           \A s \in Sides : Range(joinState'[s]) \subseteq Range(joinState[s]),
           UNCHANGED <<joinAt, current, todoKeys, found>>
    PROVE  JoinInv'
<1>1. JoinTypeOK'
  BY DEF JoinInv, JoinTypeOK
<1>2. AtWork'
  BY DEF JoinInv, AtWork
<1>3. OneLooks'
  BY MatchesSame DEF JoinInv, OneLooks, Pending, Sides
<1>. QED BY <1>1, <1>2, <1>3 DEF JoinInv

\* A goroutine that takes its next event keeps the invariant.
LEMMA ReceiveKeeps == ASSUME JoinInv, NEW s \in Sides, Receive(s) PROVE JoinInv'
<1>1. PICK e \in JoinEvents : e.side = s /\ current' = [current EXCEPT ![s] = e]
  BY DEF Receive
<1>2. /\ joinAt[s] = "receive" /\ joinAt' = [joinAt EXCEPT ![s] = "store"]
      /\ joinKind' = joinKind /\ joinState' = joinState /\ todoKeys' = todoKeys /\ found' = found
  BY DEF Receive
<1>3. JoinTypeOK'
  BY <1>1, <1>2 DEF JoinInv, JoinTypeOK, JoinSteps
<1>4. AtWork'
  BY <1>1, <1>2 DEF JoinInv, AtWork, JoinTypeOK
<1>5. \A p \in Sides : \A e1, k : Pending(p, e1, k) => Pending(p, e1, k)'
  BY <1>1, <1>2 DEF Pending, JoinInv, JoinTypeOK
<1>6. OneLooks'
  BY <1>2, <1>5, MatchesSame DEF JoinInv, OneLooks, Sides
<1>. QED BY <1>3, <1>4, <1>6 DEF JoinInv

\* An event that is stored is about to look.
LEMMA AddEventKeeps == ASSUME JoinInv, NEW s \in Sides, AddEvent(s) PROVE JoinInv'
<1>. DEFINE e == current[s]
<1>1. /\ joinAt[s] = "store" /\ joinAt' = [joinAt EXCEPT ![s] = "look"]
      /\ joinState' = [joinState EXCEPT ![s] = Stored(s, e)]
      /\ todoKeys' = [todoKeys EXCEPT ![s] = IF joinKind = "nested" THEN KeysIn(Other(s)) ELSE {e.key}]
      /\ joinKind' = joinKind /\ current' = current /\ found' = found
  BY DEF AddEvent
<1>2. e \in JoinEvents /\ e.side = s
  BY <1>1 DEF JoinInv, AtWork
<1>3. /\ Stored(s, e) \in Seq(JoinEvents)
      /\ Range(Stored(s, e)) \subseteq Range(joinState[s]) \cup {e}
  BY <1>2, StoredIs DEF JoinInv
<1>4. JoinTypeOK'
  BY <1>1, <1>3 DEF JoinInv, JoinTypeOK, JoinSteps
<1>5. AtWork'
  BY <1>1, <1>2 DEF JoinInv, AtWork, JoinTypeOK
<1>6. \A p \in Sides : \A e1, k : Pending(p, e1, k) => Pending(p, e1, k)'
  BY <1>1 DEF Pending, JoinInv, JoinTypeOK
<1>7. Other(s) \in Sides /\ Other(s) # s /\ joinState'[Other(s)] = joinState[Other(s)]
  BY <1>1 DEF Other, Sides, JoinInv, JoinTypeOK
<1>8. \A p \in Range(joinState[Other(s)]) : p.key \in KeysIn(Other(s))
  BY DEF Range, KeysIn
<1>9. ASSUME NEW p \in Range(joinState[Other(s)]), Matches(e, p) \/ Matches(p, e)
      PROVE  Pending(s, e, p.key)'
  <2>1. joinKind # "nested" => p.key = e.key
    BY <1>9, MatchesNeed DEF JoinInv
  <2>2. p.key \in todoKeys'[s]
    BY <1>1, <1>8, <2>1 DEF JoinInv, JoinTypeOK
  <2>. QED BY <1>1, <2>2 DEF Pending, JoinInv, JoinTypeOK
<1>10. joinState'[s] = Stored(s, e)
  BY <1>1 DEF JoinInv, JoinTypeOK
<1>11. OneLooks'
  <2>. SUFFICES ASSUME NEW l \in Range(joinState'["left"]), NEW r \in Range(joinState'["right"]),
                       Matches(l, r)
                PROVE  \/ r \in found'[l] \/ l \in found'[r]
                       \/ Pending("left", l, r.key)' \/ Pending("right", r, l.key)'
    BY <1>1, MatchesSame DEF OneLooks
  <2>1. CASE s = "left"
    <3>1. r \in Range(joinState["right"]) /\ (l \in Range(joinState["left"]) \/ l = e)
      BY <1>3, <1>7, <1>10, <2>1 DEF Other
    <3>. QED
      BY <1>1, <1>6, <1>7, <1>9, <2>1, <3>1 DEF JoinInv, OneLooks, Sides, Other
  <2>2. CASE s = "right"
    <3>1. l \in Range(joinState["left"]) /\ (r \in Range(joinState["right"]) \/ r = e)
      BY <1>3, <1>7, <1>10, <2>2 DEF Other
    <3>. QED
      BY <1>1, <1>6, <1>7, <1>9, <2>2, <3>1 DEF JoinInv, OneLooks, Sides, Other
  <2>. QED BY <2>1, <2>2 DEF Sides
<1>. QED BY <1>4, <1>5, <1>11 DEF JoinInv

\* An event that looks finds all that are stored by then.
LEMMA LookUpKeeps == ASSUME JoinInv, NEW s \in Sides, LookUp(s) PROVE JoinInv'
<1>. DEFINE e == current[s]
            Partners(k) == {p \in Range(joinState[Other(s)]) : p.key = k /\ MatchFor(e, p)}
<1>1. /\ joinAt[s] = "look" /\ joinAt' = joinAt
      /\ joinState' = joinState
      /\ joinKind' = joinKind /\ current' = current
  BY DEF LookUp
<1>2. PICK k \in todoKeys[s] : /\ found' = [found EXCEPT ![e] = @ \cup Partners(k)]
                               /\ todoKeys' = [todoKeys EXCEPT ![s] = @ \ {k}]
  BY DEF LookUp
<1>3. e \in JoinEvents /\ e.side = s
  BY <1>1 DEF JoinInv, AtWork
<1>4. Other(s) \in Sides /\ Partners(k) \subseteq JoinEvents
  BY RangeOfList DEF JoinInv, JoinTypeOK, Other, Sides
<1>5. JoinTypeOK'
  BY <1>1, <1>2, <1>3, <1>4 DEF JoinInv, JoinTypeOK
<1>6. AtWork'
  BY <1>1 DEF JoinInv, AtWork
<1>7. \A d \in JoinEvents : found[d] \subseteq found'[d]
  BY <1>2, <1>3 DEF JoinInv, JoinTypeOK
<1>8. Partners(k) \subseteq found'[e]
  BY <1>2, <1>3 DEF JoinInv, JoinTypeOK
<1>9. \A p \in Sides : \A d, key : Pending(p, d, key) => Pending(p, d, key)' \/ (p = s /\ d = e /\ key = k)
  BY <1>1, <1>2 DEF Pending, JoinInv, JoinTypeOK
<1>10. OneLooks'
  <2>. SUFFICES ASSUME NEW l \in Range(joinState["left"]), NEW r \in Range(joinState["right"]),
                       Matches(l, r)
                PROVE  \/ r \in found'[l] \/ l \in found'[r]
                       \/ Pending("left", l, r.key)' \/ Pending("right", r, l.key)'
    BY <1>1, MatchesSame DEF OneLooks
  <2>0. l \in JoinEvents /\ r \in JoinEvents
    BY RangeOfList DEF JoinInv, JoinTypeOK, Sides
  <2>1. \/ r \in found[l] \/ l \in found[r]
        \/ Pending("left", l, r.key) \/ Pending("right", r, l.key)
    BY DEF JoinInv, OneLooks
  <2>2. s = "left" /\ l = e /\ r.key = k => r \in Partners(k)
    BY <1>3 DEF Other, MatchFor
  <2>3. s = "right" /\ r = e /\ l.key = k => l \in Partners(k)
    BY <1>3 DEF Other, MatchFor
  <2>. HIDE DEF Partners, e
  <2>. QED
    BY <1>7, <1>8, <1>9, <2>0, <2>1, <2>2, <2>3 DEF Sides
<1>. QED BY <1>5, <1>6, <1>10 DEF JoinInv

\* A goroutine goes on, with nothing more to look at or before it has anything.
LEMMA GoesOnKeeps ==
    ASSUME JoinInv, NEW s \in Sides, NEW to \in JoinSteps \ {"store", "look"},
           joinAt[s] = "look" => todoKeys[s] = {},
           joinAt' = [joinAt EXCEPT ![s] = to],
           UNCHANGED <<joinKind, joinState, current, todoKeys, found>>
    PROVE  JoinInv'
<1>1. JoinTypeOK'
  BY DEF JoinInv, JoinTypeOK
<1>2. AtWork'
  BY DEF JoinInv, AtWork, JoinTypeOK
<1>3. \A p \in Sides : \A e, k : Pending(p, e, k) => Pending(p, e, k)'
  BY DEF Pending, JoinInv, JoinTypeOK
<1>4. OneLooks'
  BY <1>3, MatchesSame DEF JoinInv, OneLooks, Sides
<1>. QED BY <1>1, <1>2, <1>4 DEF JoinInv

\* No step of a side breaks the invariant.
LEMMA SideKeeps == ASSUME JoinInv, NEW s \in Sides, SideGoroutine(s) PROVE JoinInv'
<1>1. CASE Receive(s)
  BY <1>1, ReceiveKeeps
<1>2. CASE AddEvent(s)
  BY <1>2, AddEventKeeps
<1>3. CASE LookUp(s)
  BY <1>3, LookUpKeeps
<1>4. CASE LookedUp(s)
  <2>1. /\ todoKeys[s] = {} /\ joinAt' = [joinAt EXCEPT ![s] = "send"]
        /\ UNCHANGED <<joinKind, joinState, current, todoKeys, found>>
        /\ "send" \in JoinSteps \ {"store", "look"}
    BY <1>4 DEF LookedUp, JoinSteps
  <2>. QED BY <2>1, GoesOnKeeps
<1>5. CASE Send(s)
  <2>1. UNCHANGED <<joinKind, joinState, current, todoKeys, found>> /\ joinAt[s] = "send"
    BY <1>5 DEF Send
  <2>2. CASE UNCHANGED joinAt
    <3>1. joinState' \in [Sides -> Seq(JoinEvents)] /\ \A p \in Sides : Range(joinState'[p]) \subseteq Range(joinState[p])
      BY <2>1 DEF JoinInv, JoinTypeOK
    <3>. QED BY <2>1, <2>2, <3>1, LessStored
  <2>3. CASE joinAt' = [joinAt EXCEPT ![s] = "receive"]
    BY <2>1, <2>3, GoesOnKeeps DEF JoinSteps
  <2>4. CASE joinAt' = [joinAt EXCEPT ![s] = "exited"]
    BY <2>1, <2>4, GoesOnKeeps DEF JoinSteps
  <2>. QED BY <1>5, <2>2, <2>3, <2>4 DEF Send
<1>6. CASE ContextDone(s)
  <2>1. /\ joinAt[s] = "receive" /\ joinAt' = [joinAt EXCEPT ![s] = "exited"]
        /\ UNCHANGED <<joinKind, joinState, current, todoKeys, found>>
        /\ "exited" \in JoinSteps \ {"store", "look"}
    BY <1>6 DEF ContextDone, JoinSteps
  <2>. QED BY <2>1, GoesOnKeeps
<1>. QED BY <1>1, <1>2, <1>3, <1>4, <1>5, <1>6 DEF SideGoroutine

\* Cleanup only forgets.
LEMMA CleanupKeeps == ASSUME JoinInv, NEW at, Cleanup(at) PROVE JoinInv'
<1>. DEFINE keep(s) == {e \in Range(joinState[s]) : ~(at > ExpiresAt(e))}
<1>1. /\ joinState' = [s \in Sides |-> Only(joinState[s], keep(s))]
      /\ UNCHANGED <<joinKind, joinAt, current, todoKeys, found>>
  BY DEF Cleanup
<1>. HIDE DEF keep
<1>2. \A s \in Sides : /\ Only(joinState[s], keep(s)) \in Seq(JoinEvents)
                       /\ Range(Only(joinState[s], keep(s))) \subseteq Range(joinState[s])
  BY RangeOfOnly DEF JoinInv, JoinTypeOK
<1>3. joinState' \in [Sides -> Seq(JoinEvents)]
  BY <1>1, <1>2
<1>4. \A s \in Sides : Range(joinState'[s]) \subseteq Range(joinState[s])
  BY <1>1, <1>2
<1>. QED BY <1>1, <1>3, <1>4, LessStored

\* Stop only ends the goroutines.
LEMMA FinishStopKeeps == ASSUME JoinInv, FinishStop PROVE JoinInv'
<1>1. /\ joinState' = [s \in Sides |-> <<>>]
      /\ UNCHANGED <<joinKind, joinAt, current, todoKeys, found>>
  BY DEF FinishStop
<1>2. joinState' \in [Sides -> Seq(JoinEvents)] /\ \A s \in Sides : Range(joinState'[s]) = {}
  BY <1>1, EmptySeq DEF Range
<1>. QED BY <1>1, <1>2, LessStored

\* The invariant holds in every state.
LEMMA JoinInvAlways == JoinSpec => []JoinInv
<1>1. JoinInv /\ [JoinNext]_joinVars => JoinInv'
  <2>. SUFFICES ASSUME JoinInv, [JoinNext]_joinVars PROVE JoinInv'
    OBVIOUS
  <2>0. joinState \in [Sides -> Seq(JoinEvents)] /\ \A s \in Sides : Range(joinState[s]) \subseteq Range(joinState[s])
    BY DEF JoinInv, JoinTypeOK
  <2>1. CASE \E s \in Sides : SideGoroutine(s)
    BY <2>1, SideKeeps
  <2>2. CASE \E at \in 0 .. MaxNow : Cleanup(at)
    BY <2>2, CleanupKeeps
  <2>3. CASE JoinConsumer
    BY <2>0, <2>3, LessStored DEF JoinConsumer
  <2>4. CASE StopJoin
    BY <2>0, <2>4, LessStored DEF StopJoin
  <2>5. CASE FinishStop
    BY <2>5, FinishStopKeeps
  <2>6. CASE UNCHANGED joinVars
    BY <2>0, <2>6, LessStored DEF joinVars
  <2>. QED BY <2>1, <2>2, <2>3, <2>4, <2>5, <2>6 DEF JoinNext
<1>. QED BY <1>1, JoinStarts, PTL DEF JoinSpec

\* processLeft and processRight: whatever way the goroutines of the two sides interleave
\* storing and looking, of two events that join and are both stored one finds the other.
THEOREM NeverPassUnseen == JoinSpec => []NoPairMissed
<1>1. JoinInv => NoPairMissed
  <2>. SUFFICES ASSUME JoinInv, NEW l \in JoinEvents, NEW r \in JoinEvents,
                       l.side = "left", r.side = "right", Processed(l), Processed(r), Matches(l, r),
                       l \notin removed, r \notin removed
                PROVE  r \in found[l] \/ l \in found[r]
    BY DEF NoPairMissed
  <2>1. l \in Range(joinState["left"]) /\ ~Pending("left", l, r.key)
    BY DEF Processed, Pending
  <2>2. r \in Range(joinState["right"]) /\ ~Pending("right", r, l.key)
    BY DEF Processed, Pending
  <2>. QED BY <2>1, <2>2 DEF JoinInv, OneLooks
<1>. QED BY <1>1, JoinInvAlways, PTL

-----------------------------------------------------------------------------
(* The temporal join.                                                      *)

\* The versions of a reference row.
Versions == [id : Nat, from : Nat, to : Nat]

\* The versions and the updates they came from.
RefTypeOK ==
    /\ updates \in Seq(RefTimes)
    /\ refVersions \in Seq(Versions)

\* A version starts with its update and ends where the next one starts.
FromUpdates ==
    \A p \in 1 .. Len(refVersions) :
        /\ refVersions[p].id \in 1 .. Len(updates)
        /\ refVersions[p].from = updates[refVersions[p].id]
        /\ refVersions[p].to = IF refVersions[p].id = Len(updates) THEN 0
                               ELSE updates[refVersions[p].id + 1]

\* The latest version is the last one of the list, and only that.
LatestLast ==
    /\ Len(updates) > 0 => Len(refVersions) > 0
    /\ \A p \in 1 .. Len(refVersions) :
         refVersions[p].id = Len(updates) <=> p = Len(refVersions)

\* A version that is missing has been dropped.
MissingDropped ==
    \A i \in 1 .. Len(updates) :
        i \in dropped \/ \E p \in 1 .. Len(refVersions) : refVersions[p].id = i

\* The inductive invariant of the reference table.
RefInv == RefTypeOK /\ FromUpdates /\ LatestLast /\ MissingDropped

\* Only of the versions, by the numbers of those it keeps.
LEMMA OnlyOfIndices ==
    ASSUME NEW n \in Nat, NEW S \in SUBSET (1 .. n), n > 0 => n \in S,
           NEW id \in Seq(1 .. n), Len(id) = n, \A i \in 1 .. n : id[i] = i
    PROVE  /\ Only(id, S) \in Seq(1 .. n)
           /\ \A x : (\E i \in 1 .. Len(Only(id, S)) : Only(id, S)[i] = x) <=> x \in S
           /\ n > 0 => /\ Len(Only(id, S)) > 0 /\ Only(id, S)[Len(Only(id, S))] = n
                       /\ \A i \in 1 .. Len(Only(id, S)) - 1 : Only(id, S)[i] \in 1 .. n - 1
<1>1. /\ Only(id, S) \in Seq(1 .. n)
      /\ \A x : (\E i \in 1 .. Len(Only(id, S)) : Only(id, S)[i] = x)
                        <=> x \in S /\ \E i \in 1 .. Len(id) : id[i] = x
      /\ Len(id) > 0 /\ id[Len(id)] \in S =>
                /\ Len(Only(id, S)) > 0
                /\ Only(id, S)[Len(Only(id, S))] = id[Len(id)]
                /\ \A i \in 1 .. Len(Only(id, S)) - 1 :
                     \E j \in 1 .. Len(id) - 1 : id[j] = Only(id, S)[i]
  BY OnlyProperties
<1>2. n > 0 => id[n] = n
  OBVIOUS
<1>3. \A j \in 1 .. n - 1 : id[j] = j
  OBVIOUS
<1>4. \A x \in S : \E i \in 1 .. Len(id) : id[i] = x
  OBVIOUS
<1>. DEFINE kept == Only(id, S)
<1>5. \A x : (\E i \in 1 .. Len(kept) : kept[i] = x) <=> x \in S
  BY <1>1, <1>4
<1>6. n > 0 => /\ Len(kept) > 0 /\ kept[Len(kept)] = n
               /\ \A i \in 1 .. Len(kept) - 1 : \E j \in 1 .. n - 1 : id[j] = kept[i]
  BY <1>1, <1>2
<1>. HIDE DEF kept
<1>7. n > 0 => \A i \in 1 .. Len(kept) - 1 : kept[i] \in 1 .. n - 1
  BY <1>3, <1>6
<1>. QED BY <1>1, <1>5, <1>6, <1>7 DEF kept

\* The invariant holds at the start.
LEMMA RefStarts == TemporalInit => RefInv
BY EmptySeq DEF TemporalInit, RefInv, RefTypeOK, FromUpdates, LatestLast, MissingDropped

\* The types of the parts.
LEMMA RefFacts ==
    ASSUME RefTypeOK
    PROVE  /\ Len(updates) \in Nat /\ Len(refVersions) \in Nat
           /\ \A i \in 1 .. Len(updates) : updates[i] \in Nat \ {0}
           /\ \A p \in 1 .. Len(refVersions) : refVersions[p] \in Versions
           /\ updates \in Seq(Nat)
<1>1. RefTimes \subseteq Nat \ {0}
  BY TemporalAssumption
<1>2. \A i \in 1 .. Len(updates) : updates[i] \in RefTimes
  BY ElementOfSeq DEF RefTypeOK
<1>3. \A p \in 1 .. Len(refVersions) : refVersions[p] \in Versions
  BY ElementOfSeq DEF RefTypeOK
<1>4. Len(updates) \in Nat /\ Len(refVersions) \in Nat
  BY LenProperties DEF RefTypeOK
<1>5. updates \in Seq(Nat)
  BY <1>1, SeqMonotonic DEF RefTypeOK
<1>. QED BY <1>1, <1>2, <1>3, <1>4, <1>5

\* An update ends the version before it and adds one that is valid from then on.
LEMMA UpdateKeeps == ASSUME RefInv, NEW t \in RefTimes, UpdateReference(t) PROVE RefInv'
<1>. DEFINE n == Len(refVersions)
            m == Len(updates)
            closed == [i \in 1 .. n |-> IF i = n THEN [refVersions[i] EXCEPT !.to = t] ELSE refVersions[i]]
            new == [id |-> m + 1, from |-> t, to |-> 0]
<1>1. updates' = Append(updates, t) /\ refVersions' = Append(closed, new) /\ dropped' = dropped
  BY DEF UpdateReference
<1>2. /\ n \in Nat /\ m \in Nat /\ t \in Nat \ {0} /\ updates \in Seq(RefTimes)
      /\ \A i \in 1 .. m : updates[i] \in Nat \ {0}
      /\ \A p \in 1 .. n : refVersions[p] \in Versions
  BY RefFacts, TemporalAssumption DEF RefInv, RefTypeOK
<1>3. /\ \A i \in 1 .. n : closed[i] \in Versions
      /\ new \in Versions
  BY <1>2 DEF Versions
<1>4. closed \in Seq(Versions) /\ Len(closed) = n
  <2>1. closed \in [1 .. n -> Versions]
    BY <1>3
  <2>. HIDE DEF closed, n
  <2>. QED BY <1>2, <2>1
<1>5. \A i \in 1 .. n : /\ closed[i].id = refVersions[i].id
                        /\ closed[i].from = refVersions[i].from
                        /\ closed[i].to = IF i = n THEN t ELSE refVersions[i].to
  BY <1>2 DEF Versions
<1>6. new.id = m + 1 /\ new.from = t /\ new.to = 0
  OBVIOUS
<1>. HIDE DEF closed, new
<1>7. /\ Len(refVersions') = n + 1 /\ refVersions' \in Seq(Versions)
      /\ \A i \in 1 .. n : refVersions'[i] = closed[i]
      /\ refVersions'[n + 1] = new
  BY <1>1, <1>3, <1>4, AppendProperties
<1>8. /\ Len(updates') = m + 1 /\ updates' \in Seq(RefTimes)
      /\ \A i \in 1 .. m : updates'[i] = updates[i]
      /\ updates'[m + 1] = t
  BY <1>1, <1>2, AppendProperties
<1>9. /\ \A p \in 1 .. n + 1 : p \in 1 .. n \/ p = n + 1
      /\ \A i \in 1 .. m + 1 : i \in 1 .. m \/ i = m + 1
      /\ n + 1 \in 1 .. n + 1
      /\ \A p \in 1 .. n : p \in 1 .. n + 1
  BY <1>2
<1>10. /\ \A p \in 1 .. n : /\ refVersions[p].id \in 1 .. m
                            /\ refVersions[p].from = updates[refVersions[p].id]
                            /\ refVersions[p].to = IF refVersions[p].id = m THEN 0
                                                   ELSE updates[refVersions[p].id + 1]
                            /\ refVersions[p].id = m <=> p = n
  BY DEF RefInv, FromUpdates, LatestLast
<1>11. \A i \in 1 .. m : i \in dropped \/ \E p \in 1 .. n : refVersions[p].id = i
  BY DEF RefInv, MissingDropped
<1>. HIDE DEF n, m
<1>12. \A p \in 1 .. n : /\ refVersions'[p].id = refVersions[p].id
                         /\ refVersions'[p].from = refVersions[p].from
                         /\ refVersions'[p].to = IF p = n THEN t ELSE refVersions[p].to
  BY <1>5, <1>7
<1>13. FromUpdates'
  <2>1. ASSUME NEW p \in 1 .. n
        PROVE  /\ refVersions'[p].id \in 1 .. m + 1
               /\ refVersions'[p].from = updates'[refVersions'[p].id]
               /\ refVersions'[p].to = IF refVersions'[p].id = m + 1 THEN 0
                                       ELSE updates'[refVersions'[p].id + 1]
    <3>1. /\ refVersions[p].id \in 1 .. m /\ refVersions[p].id # m + 1
          /\ refVersions[p].id # m => refVersions[p].id + 1 \in 1 .. m
      BY <1>2, <1>10
    <3>2. updates'[refVersions[p].id] = updates[refVersions[p].id]
      BY <1>8, <3>1
    <3>3. CASE p = n
      <4>1. refVersions[p].id = m /\ refVersions'[p].id = m /\ refVersions'[p].to = t
        BY <1>10, <1>12, <3>3
      <4>. QED BY <1>2, <1>8, <1>10, <1>12, <3>1, <3>2, <4>1
    <3>4. CASE p # n
      <4>1. refVersions[p].id # m /\ refVersions'[p].to = updates[refVersions[p].id + 1]
        BY <1>10, <1>12, <3>4
      <4>2. updates'[refVersions[p].id + 1] = updates[refVersions[p].id + 1]
        BY <1>8, <3>1, <4>1
      <4>3. refVersions'[p].id = refVersions[p].id /\ refVersions'[p].from = updates[refVersions[p].id]
        BY <1>10, <1>12
      <4>4. refVersions[p].id \in 1 .. m + 1
        BY <1>2, <3>1
      <4>. QED BY <3>1, <3>2, <4>1, <4>2, <4>3, <4>4
    <3>. QED BY <3>3, <3>4
  <2>2. /\ refVersions'[n + 1].id = m + 1 /\ refVersions'[n + 1].from = t /\ refVersions'[n + 1].to = 0
    BY <1>6, <1>7
  <2>. QED BY <1>2, <1>7, <1>8, <1>9, <2>1, <2>2 DEF FromUpdates
<1>14. LatestLast'
  <2>1. \A p \in 1 .. n : refVersions'[p].id # m + 1 /\ p # n + 1
    BY <1>2, <1>10, <1>12
  <2>2. refVersions'[n + 1].id = m + 1
    BY <1>6, <1>7
  <2>. QED BY <1>2, <1>7, <1>8, <1>9, <2>1, <2>2 DEF LatestLast
<1>15. MissingDropped'
  <2>1. refVersions'[n + 1].id = m + 1
    BY <1>6, <1>7
  <2>. QED BY <1>1, <1>7, <1>8, <1>9, <1>11, <1>12, <2>1, SMTT(30) DEF MissingDropped
<1>. QED BY <1>7, <1>8, <1>13, <1>14, <1>15 DEF RefInv, RefTypeOK

\* Cleanup drops versions that ended before the retention.
LEMMA CleanupKeepsRef == ASSUME RefInv, NEW at, RefCleanup(at) PROVE RefInv'
<1>. DEFINE n == Len(refVersions)
            Kept(i) == i = n \/ refVersions[i].to = 0 \/ refVersions[i].to > at - RefRetention
            S == {i \in 1 .. n : Kept(i)}
            id == [i \in 1 .. n |-> i]
            keep == Only(id, S)
<1>1. /\ refVersions' = [i \in DOMAIN keep |-> refVersions[keep[i]]]
      /\ dropped' = dropped \cup {refVersions[i].id : i \in {j \in 1 .. n : ~Kept(j)}}
      /\ updates' = updates
      /\ Len(keep) < n
  BY DEF RefCleanup
<1>2. /\ n \in Nat /\ Len(updates) \in Nat
      /\ \A p \in 1 .. n : refVersions[p] \in Versions
  BY RefFacts DEF RefInv
<1>3. \A j \in 1 .. n : j \in S \/ refVersions[j].id \in dropped'
  BY <1>1
<1>4. S \subseteq 1 .. n /\ (n > 0 => n \in S)
  BY <1>2
<1>. HIDE DEF S, Kept
<1>5. id \in Seq(1 .. n) /\ Len(id) = n /\ \A i \in 1 .. n : id[i] = i
  <2>. HIDE DEF n
  <2>. QED BY <1>2
<1>. HIDE DEF id
<1>6. /\ keep \in Seq(1 .. n)
      /\ \A x : (\E i \in 1 .. Len(keep) : keep[i] = x) <=> x \in S
      /\ n > 0 => /\ Len(keep) > 0 /\ keep[Len(keep)] = n
                  /\ \A i \in 1 .. Len(keep) - 1 : keep[i] \in 1 .. n - 1
  <2>. HIDE DEF n
  <2>. QED BY <1>2, <1>4, <1>5, OnlyOfIndices
<1>. HIDE DEF keep
<1>. DEFINE k == Len(keep)
<1>7. /\ k \in Nat /\ DOMAIN keep = 1 .. k /\ \A i \in 1 .. k : keep[i] \in 1 .. n
  BY <1>6, LenProperties, ElementOfSeq
<1>8. \A j \in S : \E i \in 1 .. k : keep[i] = j
  BY <1>4, <1>5, <1>6
<1>9. /\ n > 0 => k > 0 /\ keep[k] = n
      /\ \A i \in 1 .. k : keep[i] = n <=> i = k
  <2>1. ASSUME NEW i \in 1 .. k PROVE n > 0 /\ (keep[i] = n <=> i = k)
    <3>0. n > 0
      BY <1>2, <1>7
    <3>1. n > 0 /\ keep[k] = n
      BY <1>6, <3>0
    <3>2. i # k => i \in 1 .. k - 1
      <4>. HIDE DEF k
      <4>. QED BY <1>7
    <3>3. \A j \in 1 .. n - 1 : j # n
      BY <1>2
    <3>. QED BY <1>6, <3>1, <3>2, <3>3
  <2>. QED BY <1>6, <2>1
<1>10. /\ refVersions' \in [1 .. k -> Versions]
       /\ \A i \in 1 .. k : refVersions'[i] = refVersions[keep[i]]
  BY <1>1, <1>2, <1>7
<1>11. refVersions' \in Seq(Versions) /\ Len(refVersions') = k
  <2>. HIDE DEF k
  <2>. QED BY <1>7, <1>10
<1>12. RefTypeOK'
  BY <1>1, <1>11 DEF RefInv, RefTypeOK
<1>13. FromUpdates'
  BY <1>1, <1>7, <1>10, <1>11 DEF RefInv, FromUpdates
<1>14. LatestLast'
  <2>1. ASSUME NEW p \in 1 .. k PROVE refVersions'[p].id = Len(updates) <=> p = k
    BY <1>7, <1>9, <1>10 DEF RefInv, LatestLast
  <2>2. Len(updates) > 0 => k > 0
    BY <1>9 DEF RefInv, LatestLast
  <2>. QED BY <1>1, <1>11, <2>1, <2>2 DEF LatestLast
<1>15. MissingDropped'
  <2>. SUFFICES ASSUME NEW i \in 1 .. Len(updates), i \notin dropped'
                PROVE  \E p \in 1 .. k : refVersions'[p].id = i
    BY <1>1, <1>11 DEF MissingDropped
  <2>1. i \notin dropped
    BY <1>1
  <2>2. PICK p \in 1 .. n : refVersions[p].id = i
    BY <2>1 DEF RefInv, MissingDropped
  <2>3. p \in S
    BY <1>3, <2>2
  <2>. QED BY <1>8, <1>10, <2>2, <2>3
<1>. QED BY <1>12, <1>13, <1>14, <1>15 DEF RefInv

\* The invariant holds in every state.
LEMMA RefInvAlways == TemporalSpec => []RefInv
<1>1. RefInv /\ [TemporalNext]_refVars => RefInv'
  <2>. SUFFICES ASSUME RefInv, [TemporalNext]_refVars PROVE RefInv'
    OBVIOUS
  <2>1. CASE \E t \in RefTimes : UpdateReference(t)
    BY <2>1, UpdateKeeps
  <2>2. CASE \E at \in RefTimes : RefCleanup(at)
    BY <2>2, CleanupKeepsRef
  <2>3. CASE UNCHANGED refVars
    BY <2>3 DEF refVars, RefInv, RefTypeOK, FromUpdates, LatestLast, MissingDropped
  <2>. QED BY <2>1, <2>2, <2>3 DEF TemporalNext
<1>. QED BY <1>1, RefStarts, PTL DEF TemporalSpec


-----------------------------------------------------------------------------

\* The intervals the binary search may stand at.
Places == (1 .. Len(refVersions) + 1) \X (0 .. Len(refVersions))

\* The middle of an interval.
Mid(p) == (p[1] + p[2]) \div 2

\* The length of an interval.
Between(p) == p[2] - p[1] + 1

\* One turn of the binary search's loop.
SearchStep(f, p, t) ==
    LET mid == (p[1] + p[2]) \div 2 IN
            IF p[1] > p[2] THEN NoVersion
            ELSE IF Valid(refVersions[mid], t) THEN mid
            ELSE IF t < refVersions[mid].from THEN f[<<p[1], mid - 1>>]
            ELSE f[<<mid + 1, p[2]>>]

\* Both halves of an interval are intervals, and shorter.
LEMMA HalvesAreSmaller ==
    ASSUME Len(refVersions) \in Nat, NEW p \in Places
    PROVE  /\ Between(p) \in Int /\ Between(p) <= Len(refVersions)
           /\ p[1] > p[2] <=> Between(p) <= 0
           /\ p[1] <= p[2] =>
                /\ Mid(p) \in 1 .. Len(refVersions)
                /\ <<p[1], Mid(p) - 1>> \in Places /\ Between(<<p[1], Mid(p) - 1>>) < Between(p)
                /\ <<Mid(p) + 1, p[2]>> \in Places /\ Between(<<Mid(p) + 1, p[2]>>) < Between(p)
<1>1. p[1] \in 1 .. Len(refVersions) + 1 /\ p[2] \in 0 .. Len(refVersions)
  BY DEF Places
<1>. DEFINE a == p[1]
            b == p[2]
            n == Len(refVersions)
            c == (a + b) \div 2
<1>2. a \in 1 .. n + 1 /\ b \in 0 .. n /\ n \in Nat
  BY <1>1
<1>3. /\ <<a, c - 1>>[1] = a /\ <<a, c - 1>>[2] = c - 1
      /\ <<c + 1, b>>[1] = c + 1 /\ <<c + 1, b>>[2] = b
  OBVIOUS
<1>. HIDE DEF a, b, n
<1>4. a <= b => c \in Nat /\ a <= c /\ c <= b
  BY <1>2
<1>. HIDE DEF c
<1>5. /\ b - a + 1 \in Int /\ b - a + 1 <= n
      /\ a > b <=> b - a + 1 <= 0
      /\ a <= b => /\ c \in 1 .. n /\ c - 1 \in 0 .. n /\ c + 1 \in 1 .. n + 1
                   /\ (c - 1) - a + 1 < b - a + 1
                   /\ b - (c + 1) + 1 < b - a + 1
  BY <1>2, <1>4, SMTT(30)
<1>6. Mid(p) = c /\ Between(p) = b - a + 1
  BY DEF Mid, Between, a, b, c
<1>7. Between(<<a, c - 1>>) = (c - 1) - a + 1 /\ Between(<<c + 1, b>>) = b - (c + 1) + 1
  BY <1>3 DEF Between
<1>8. a <= b => <<a, c - 1>> \in Places /\ <<c + 1, b>> \in Places
  BY <1>2, <1>5 DEF Places, n
<1>. QED BY <1>5, <1>6, <1>7, <1>8 DEF a, b, n

\* A step of the search depends on smaller intervals only.
LEMMA StepLocal ==
    ASSUME Len(refVersions) \in Nat, NEW t, NEW p \in Places, NEW f, NEW g,
           \A q \in Places : Between(q) < Between(p) => f[q] = g[q]
    PROVE  SearchStep(f, p, t) = SearchStep(g, p, t)
<1>1. CASE p[1] > p[2]
  BY <1>1 DEF SearchStep
<1>2. CASE ~(p[1] > p[2])
  <2>0. p[1] <= p[2]
    BY <1>2 DEF Places
  <2>1. /\ f[<<p[1], Mid(p) - 1>>] = g[<<p[1], Mid(p) - 1>>]
        /\ f[<<Mid(p) + 1, p[2]>>] = g[<<Mid(p) + 1, p[2]>>]
    BY <2>0, HalvesAreSmaller
  <2>. QED BY <1>2, <2>1 DEF SearchStep, Mid
<1>. QED BY <1>1, <1>2

\* What a search may answer: no version, or one that is valid at t.
Found(t) == {NoVersion} \cup {i \in 1 .. Len(refVersions) : Valid(refVersions[i], t)}

\* A turn of the loop answers rightly when the next one does.
LEMMA StepFinds ==
    ASSUME Len(refVersions) \in Nat, NEW t, NEW p \in Places, NEW f,
           \A q \in Places : Between(q) < Between(p) => f[q] \in Found(t)
    PROVE  SearchStep(f, p, t) \in Found(t)
<1>1. CASE p[1] > p[2]
  BY <1>1 DEF SearchStep, Found
<1>2. CASE ~(p[1] > p[2])
  <2>0. p[1] <= p[2]
    BY <1>2 DEF Places
  <2>1. /\ f[<<p[1], Mid(p) - 1>>] \in Found(t) /\ f[<<Mid(p) + 1, p[2]>>] \in Found(t)
        /\ Mid(p) \in 1 .. Len(refVersions)
    BY <2>0, HalvesAreSmaller
  <2>2. Valid(refVersions[Mid(p)], t) => Mid(p) \in Found(t)
    BY <2>1 DEF Found
  <2>. QED BY <1>2, <2>1, <2>2 DEF SearchStep, Mid
<1>. QED BY <1>1, <1>2

\* The recursion of the binary search has a solution.
LEMMA SearchDefined ==
    ASSUME Len(refVersions) \in Nat, NEW t
    PROVE  \E f : f = [p \in Places |-> SearchStep(f, p, t)]
<1>. DEFINE Solves(g, m) == \A p \in Places : Between(p) <= m => g[p] = SearchStep(g, p, t)
            P(m) == \E g \in [Places -> Found(t)] : Solves(g, m)
            T == {m \in Nat : P(m)}
<1>1. P(0)
  <2>. DEFINE g == [p \in Places |-> NoVersion]
  <2>1. g \in [Places -> Found(t)]
    BY DEF Found
  <2>2. \A p \in Places : Between(p) <= 0 => p[1] > p[2] /\ g[p] = NoVersion
    BY HalvesAreSmaller
  <2>. HIDE DEF g
  <2>3. Solves(g, 0)
    BY <2>2 DEF SearchStep
  <2>. QED BY <2>1, <2>3
<1>2. ASSUME NEW m \in Nat, P(m) PROVE P(m + 1)
  <2>1. PICK g \in [Places -> Found(t)] : Solves(g, m)
    BY <1>2
  <2>. DEFINE h == [p \in Places |-> IF Between(p) <= m THEN g[p] ELSE SearchStep(g, p, t)]
  <2>2. h \in [Places -> Found(t)]
    <3>1. \A p \in Places : SearchStep(g, p, t) \in Found(t)
      BY <2>1, StepFinds
    <3>. QED BY <2>1, <3>1
  <2>3. \A p \in Places : h[p] = IF Between(p) <= m THEN g[p] ELSE SearchStep(g, p, t)
    OBVIOUS
  <2>. HIDE DEF h
  <2>4. Solves(h, m + 1)
    <3>. SUFFICES ASSUME NEW p \in Places, Between(p) <= m + 1 PROVE h[p] = SearchStep(h, p, t)
      OBVIOUS
    <3>1. \A q \in Places : Between(q) < Between(p) => g[q] = h[q]
      <4>1. \A q \in Places : Between(q) \in Int
        BY HalvesAreSmaller
      <4>2. \A q \in Places : Between(q) < Between(p) => Between(q) <= m
        BY <4>1
      <4>. QED BY <2>3, <4>2
    <3>2. SearchStep(g, p, t) = SearchStep(h, p, t)
      BY <3>1, StepLocal
    <3>3. h[p] = SearchStep(g, p, t)
      BY <2>1, <2>3
    <3>. QED BY <3>2, <3>3
  <2>. HIDE DEF Solves
  <2>. QED BY <2>2, <2>4
<1>3. P(Len(refVersions))
  <2>1. T \in SUBSET Nat /\ 0 \in T
    BY <1>1
  <2>2. \A n \in T : n + 1 \in T
    <3>. HIDE DEF P
    <3>. QED BY <1>2
  <2>3. T = Nat
    <3>. HIDE DEF T
    <3>. QED BY <2>1, <2>2, SetInduction
  <2>. HIDE DEF P
  <2>. QED BY <2>3
<1>4. PICK g \in [Places -> Found(t)] : Solves(g, Len(refVersions))
  BY <1>3
<1>5. \A p \in Places : g[p] = SearchStep(g, p, t)
  BY <1>4, HalvesAreSmaller
<1>6. g = [p \in Places |-> SearchStep(g, p, t)]
  BY <1>4, <1>5
<1>. QED BY <1>6

\* What the binary search finds is valid.
LEMMA SearchSound ==
    ASSUME Len(refVersions) \in Nat, NEW t
    PROVE  BinarySearch(t) \in Found(t)
<1>. DEFINE F == CHOOSE f : f = [p \in Places |-> SearchStep(f, p, t)]
<1>1. F = [p \in Places |-> SearchStep(F, p, t)]
  BY SearchDefined, Zenon
<1>2. BinarySearch(t) = F[<<1, Len(refVersions)>>]
  BY DEF BinarySearch, SearchStep, Places
<1>. HIDE DEF F
<1>3. \A p \in Places : F[p] = SearchStep(F, p, t)
  BY <1>1
<1>. DEFINE P(m) == \A p \in Places : Between(p) <= m => F[p] \in Found(t)
            T == {m \in Nat : P(m)}
<1>4. P(0)
  BY <1>3, HalvesAreSmaller DEF SearchStep, Found
<1>5. ASSUME NEW m \in Nat, P(m) PROVE P(m + 1)
  <2>. SUFFICES ASSUME NEW p \in Places, Between(p) <= m + 1 PROVE F[p] \in Found(t)
    OBVIOUS
  <2>1. \A q \in Places : Between(q) < Between(p) => F[q] \in Found(t)
    <3>1. \A q \in Places : Between(q) \in Int
      BY HalvesAreSmaller
    <3>2. \A q \in Places : Between(q) < Between(p) => Between(q) <= m
      BY <3>1
    <3>. QED BY <1>5, <3>2
  <2>. QED BY <1>3, <2>1, StepFinds
<1>6. P(Len(refVersions))
  <2>1. T \in SUBSET Nat /\ 0 \in T
    BY <1>4
  <2>2. \A n \in T : n + 1 \in T
    <3>. HIDE DEF P
    <3>. QED BY <1>5
  <2>3. T = Nat
    <3>. HIDE DEF T
    <3>. QED BY <2>1, <2>2, SetInduction
  <2>. HIDE DEF P
  <2>. QED BY <2>3
<1>7. <<1, Len(refVersions)>> \in Places
  BY DEF Places
<1>. QED BY <1>2, <1>6, <1>7, HalvesAreSmaller

\* lookupVersion: the binary search finds the version valid at the time of an event, and
\* none only where cleanup dropped it or there never was one, whatever updates and cleanups came.
THEOREM LookupAlwaysRight == TemporalSpec => []LookupRight
<1>1. RefInv => LookupRight
  <2>. SUFFICES ASSUME RefInv, InOrder, NEW t \in RefTimes \cup {0}
                PROVE  \/ lookupVersion(t) = RightVersion(t)
                       \/ lookupVersion(t) = NoVersion /\ RightVersion(t) \in dropped
    BY DEF LookupRight
  <2>. DEFINE n == Len(refVersions)
              m == Len(updates)
              begun == {i \in DOMAIN updates : updates[i] <= t}
              hits == {i \in 1 .. n : Valid(refVersions[i], t)}
              first == IF hits = {} THEN NoVersion ELSE CHOOSE i \in hits : \A j \in hits : i <= j
              b == BinarySearch(t)
              i0 == IF b # NoVersion THEN b ELSE first
  <2>1. /\ n \in Nat /\ m \in Nat /\ t \in Nat /\ updates \in Seq(Nat) /\ DOMAIN updates = 1 .. m
        /\ \A i \in 1 .. m : updates[i] \in Nat \ {0}
        /\ \A p \in 1 .. n : refVersions[p] \in Versions
    BY RefFacts, TemporalAssumption, LenProperties DEF RefInv, RefTypeOK
  <2>2. lookupVersion(t) = IF i0 = NoVersion THEN NoVersion ELSE refVersions[i0].id
    BY DEF lookupVersion
  <2>3. b \in {NoVersion} \cup hits
    BY <2>1, SearchSound DEF Found
  <2>4. hits # {} => first \in hits
    <3>1. hits \in SUBSET Nat
      BY <2>1
    <3>. HIDE DEF hits
    <3>. QED BY <3>1, LeastOfSet
  <2>5. 0 \notin hits
    BY <2>1
  <2>6. IF hits = {} THEN i0 = NoVersion ELSE i0 \in hits
    <3>. HIDE DEF b, hits
    <3>1. hits = {} => first = NoVersion
      OBVIOUS
    <3>. HIDE DEF first
    <3>. QED BY <2>3, <2>4, <2>5, <3>1 DEF NoVersion
  <2>7. (lookupVersion(t) = NoVersion /\ hits = {}) \/ \E p \in hits : lookupVersion(t) = refVersions[p].id
    <3>. HIDE DEF i0, hits
    <3>. QED BY <2>2, <2>5, <2>6 DEF NoVersion
  <2>8. \A i, j \in 1 .. m : i <= j => updates[i] <= updates[j]
    BY <2>1, SortedList DEF InOrder
  <2>9. \A p \in 1 .. n : /\ refVersions[p].id \in 1 .. m
                          /\ refVersions[p].from = updates[refVersions[p].id]
                          /\ refVersions[p].to = IF refVersions[p].id = m THEN 0
                                                 ELSE updates[refVersions[p].id + 1]
    BY DEF RefInv, FromUpdates
  <2>10. CASE begun = {}
    <3>1. hits = {}
      BY <2>1, <2>9, <2>10 DEF Valid
    <3>2. RightVersion(t) = NoVersion
      BY <2>10 DEF RightVersion
    <3>. QED BY <2>7, <3>1, <3>2
  <2>11. CASE begun # {}
    <3>1. begun \in SUBSET (0 .. m)
      BY <2>1
    <3>2. PICK g \in begun : \A i \in begun : i <= g
      <4>. HIDE DEF begun
      <4>. QED BY <2>1, <2>11, <3>1, GreatestOfSet
    <3>3. g \in 1 .. m /\ updates[g] <= t /\ \A i \in 1 .. m : updates[i] <= t <=> i \in begun
      BY <2>1, <3>2
    <3>4. RightVersion(t) = g
      <4>. DEFINE Last(i) == \A j \in begun : updates[j] < updates[i] \/ (updates[j] = updates[i] /\ j <= i)
      <4>1. RightVersion(t) = CHOOSE i \in begun : Last(i)
        BY <2>11 DEF RightVersion
      <4>2. \A j \in begun : j \in 1 .. m /\ updates[j] \in Nat
        BY <2>1
      <4>. HIDE DEF begun
      <4>3. Last(g)
        BY <2>1, <2>8, <3>2, <3>3, <4>2
      <4>4. \A i \in begun : Last(i) => i = g
        BY <2>1, <2>8, <3>2, <3>3, <4>2
      <4>. HIDE DEF Last
      <4>. QED BY <3>2, <4>1, <4>3, <4>4
    <3>. HIDE DEF begun
    <3>5. \A p \in 1 .. n : p \in hits <=> refVersions[p].id = g
      <4>. SUFFICES ASSUME NEW p \in 1 .. n PROVE Valid(refVersions[p], t) <=> refVersions[p].id = g
        OBVIOUS
      <4>. DEFINE i == refVersions[p].id
      <4>1. i \in 1 .. m /\ (i # m => i + 1 \in 1 .. m)
        BY <2>1, <2>9
      <4>2. ASSUME Valid(refVersions[p], t) PROVE i = g
        <5>1. updates[i] <= t
          BY <2>9, <4>2 DEF Valid
        <5>2. i <= g
          BY <3>2, <3>3, <4>1, <5>1
        <5>3. i # m => updates[i + 1] # 0 /\ t < updates[i + 1]
          BY <2>1, <2>9, <4>1, <4>2 DEF Valid
        <5>4. i < g => i + 1 <= g /\ i # m
          BY <2>1, <3>3, <4>1
        <5>. QED BY <2>1, <2>8, <3>3, <4>1, <5>2, <5>3, <5>4
      <4>3. ASSUME i = g PROVE Valid(refVersions[p], t)
        <5>0. i + 1 \in begun => i + 1 <= i
          BY <3>2, <4>3
        <5>1. i # m => ~(updates[i + 1] <= t) /\ updates[i + 1] \in Nat
          <6>1. i + 1 \notin begun
            BY <2>1, <4>1, <5>0
          <6>2. i # m => i + 1 \in 1 .. m
            BY <4>1
          <6>. HIDE DEF i
          <6>. QED BY <2>1, <3>3, <6>1, <6>2
        <5>2. refVersions[p].from <= t
          BY <2>9, <3>3, <4>3
        <5>3. refVersions[p].to = 0 \/ t < refVersions[p].to
          <6>1. CASE i = m
            BY <2>9, <6>1
          <6>2. CASE i # m
            <7>1. refVersions[p].to = updates[i + 1]
              BY <2>9, <6>2
            <7>. QED BY <2>1, <5>1, <6>2, <7>1
          <6>. QED BY <6>1, <6>2
        <5>. QED BY <5>2, <5>3 DEF Valid
      <4>. QED BY <4>2, <4>3
    <3>6. hits # {} \/ g \in dropped
      <4>1. g \in dropped \/ \E p \in 1 .. n : refVersions[p].id = g
        BY <3>3 DEF RefInv, MissingDropped
      <4>. QED BY <3>5, <4>1
    <3>7. \A p \in hits : refVersions[p].id = g
      BY <3>5
    <3>. HIDE DEF hits
    <3>. QED BY <2>7, <3>4, <3>6, <3>7
  <2>. QED BY <2>10, <2>11
<1>. QED BY <1>1, RefInvAlways, PTL

-----------------------------------------------------------------------------
(* The Timescale sink.                                                     *)

\* A list without repetition.
Distinct(s) == \A i, j \in 1 .. Len(s) : s[i] = s[j] => i = j

\* Nothing is taken for written or batched before it was handed to Write.
NotBefore ==
    /\ \A e \in Events : In(batch, e) => e <= taken
    /\ \A e \in Events : e > taken => table[e] = 0 /\ doubtful[e] = 0 /\ answer[e] = "none"

\* What was handed over is in the batch or has its row, but for the event on its way there.
Kept(w) ==
    \A e \in Events : e <= taken =>
        In(batch, e) \/ table[e] = doubtful[e] + 1 \/ Skipped(e) \/ (At(w, "store") /\ caller[w].event = e)

\* Rows that were reported are of events that are in the batch no more, until it is truncated.
RowsOnce(w) ==
    /\ \A e \in Events : table[e] = doubtful[e] \/ table[e] = doubtful[e] + 1
    /\ \A e \in Events : In(batch, e) =>
         IF At(w, "truncate") THEN table[e] = doubtful[e] + 1 \/ Skipped(e) ELSE table[e] = doubtful[e]

\* The writer's own copy of the slice is the current one.
CopyCurrent(w) ==
    /\ caller[w].pc \in {"store", "commit", "truncate"} => caller[w].loaded = batch
    /\ At(w, "store") => /\ caller[w].event = taken /\ taken \in Events
                         /\ Len(batch) < taken
                         /\ ~In(batch, taken) /\ table[taken] = doubtful[taken] /\ answer[taken] = "none"

\* The event of a call is one that was handed over.
Started(w) == caller[w].event <= taken

\* The inductive invariant, for the only worker.
StoreInv(w) ==
    /\ TypeOK /\ Distinct(batch) /\ NotBefore
    /\ Kept(w) /\ RowsOnce(w) /\ CopyCurrent(w) /\ Started(w)

\* Where a call of the sink may be.
Pcs == {"idle", "store", "check", "flush", "commit", "truncate"}

\* The calls of the sink.
Calls == [pc : Pcs, event : 0 .. NumEvents, loaded : Seq(Events)]

\* An event is at most once in a list without repetition.
LEMMA CopiesOfDistinct ==
    ASSUME NEW s \in Seq(Events), Distinct(s), NEW e
    PROVE  Copies(s, e) = IF In(s, e) THEN 1 ELSE 0
<1>1. CASE In(s, e)
  <2>1. PICK k \in 1 .. Len(s) : s[k] = e
    BY <1>1 DEF In
  <2>2. {i \in 1 .. Len(s) : s[i] = e} = {k}
    BY <2>1 DEF Distinct
  <2>. QED BY <1>1, <2>2, FS_Singleton DEF Copies
<1>2. CASE ~In(s, e)
  <2>1. {i \in 1 .. Len(s) : s[i] = e} = {}
    BY <1>2 DEF In
  <2>. QED BY <1>2, <2>1, FS_EmptySet DEF Copies
<1>. QED BY <1>1, <1>2

\* A list without repetition, and one more that is not in it.
LEMMA AppendDistinct ==
    ASSUME NEW s \in Seq(Events), Distinct(s), NEW e \in Events, ~In(s, e)
    PROVE  /\ Append(s, e) \in Seq(Events) /\ Len(Append(s, e)) = Len(s) + 1
           /\ Distinct(Append(s, e))
           /\ \A d : In(Append(s, e), d) <=> In(s, d) \/ d = e
<1>1. /\ Append(s, e) \in Seq(Events) /\ Len(s) \in Nat /\ Len(Append(s, e)) = Len(s) + 1
      /\ \A i \in 1 .. Len(s) : Append(s, e)[i] = s[i]
      /\ Append(s, e)[Len(s) + 1] = e
  BY AppendProperties, LenProperties
<1>2. \A i \in 1 .. Len(s) + 1 : i \in 1 .. Len(s) \/ i = Len(s) + 1
  BY <1>1
<1>3. \A i \in 1 .. Len(s) : s[i] # e
  BY DEF In
<1>4. Distinct(Append(s, e))
  BY <1>1, <1>2, <1>3 DEF Distinct
<1>5. \A d : In(Append(s, e), d) <=> In(s, d) \/ d = e
  BY <1>1, <1>2 DEF In
<1>. QED BY <1>1, <1>4, <1>5

\* The empty batch.
LEMMA EmptyBatch == <<>> \in Seq(Events) /\ Len(<<>>) = 0 /\ Distinct(<<>>) /\ \A e : ~In(<<>>, e)
BY EmptySeq DEF Distinct, In

\* The invariant holds at the start.
LEMMA StoreStarts == ASSUME NEW w, Workers = {w}, Init PROVE StoreInv(w)
<1>1. TypeOK
  <2>1. Idle \in Calls
    BY EmptyBatch, TimescaleAssumption DEF Idle, Calls, Pcs
  <2>2. caller \in [Workers -> Calls]
    BY <2>1 DEF Init
  <2>3. batch \in Seq(Events) /\ Len(batch) <= taken
    BY EmptyBatch DEF Init
  <2>4. taken \in 0 .. NumEvents /\ failures \in 0 .. MaxFailures
    BY TimescaleAssumption DEF Init
  <2>. QED BY <2>2, <2>3, <2>4 DEF Init, TypeOK, Calls, Pcs
<1>2. caller[w] = Idle /\ caller[w].pc = "idle"
  BY DEF Init, Idle
<1>3. Distinct(batch) /\ NotBefore /\ \A e : ~In(batch, e)
  BY EmptyBatch, TimescaleAssumption DEF Init, NotBefore, Events
<1>4. Kept(w)
  BY TimescaleAssumption DEF Init, Kept, Events
<1>5. RowsOnce(w) /\ CopyCurrent(w)
  BY <1>2, <1>3 DEF Init, RowsOnce, CopyCurrent, At
<1>6. Started(w)
  BY <1>2 DEF Init, Started, Idle
<1>. QED BY <1>1, <1>3, <1>4, <1>5, <1>6 DEF StoreInv

\* The type of the worker's call.
LEMMA CallIs ==
    ASSUME NEW w, Workers = {w}, TypeOK
    PROVE  /\ caller[w] \in Calls /\ caller \in [Workers -> Calls] /\ w \in Workers
           /\ taken \in Nat /\ NumEvents \in Nat /\ Len(batch) \in Nat
BY LenProperties, TimescaleAssumption DEF TypeOK, Calls, Pcs

\* Events are numbered.
LEMMA EventsAreNumbers ==
    ASSUME TypeOK
    PROVE  taken \in Nat /\ \A e \in Events : e \in Nat /\ (e > taken <=> ~(e <= taken))
<1>1. taken \in Nat
  BY TimescaleAssumption DEF TypeOK
<1>2. \A e \in Events : e \in Nat
  BY TimescaleAssumption DEF Events
<1>. QED BY <1>1, <1>2

\* What a call does to its own record.
LEMMA CallerStep ==
    ASSUME NEW w, Workers = {w}, TypeOK, NEW c \in Calls, caller' = [caller EXCEPT ![w] = c]
    PROVE  caller'[w] = c /\ caller' \in [Workers -> Calls]
BY CallIs DEF Calls

\* A step that leaves batch, table and the events taken alone, and answers for an event
\* that was taken.
LEMMA QuietKeeps ==
    ASSUME NEW w, Workers = {w}, StoreInv(w), ~At(w, "store"), NEW c \in Calls,
           caller' = [caller EXCEPT ![w] = c],
           c.pc # "store", c.pc = "truncate" => At(w, "truncate"),
           c.pc \in {"commit", "truncate"} => c.loaded = batch,
           At(w, "truncate") => c.pc = "truncate", c.event <= taken,
           answer' = answer \/ \E e \in Events, a \in {"ok", "error"} : e <= taken /\ answer' = [answer EXCEPT ![e] = a],
           UNCHANGED <<batch, taken, table, doubtful>>, stopped' \in BOOLEAN, failures' \in 0 .. MaxFailures
    PROVE  StoreInv(w)'
<1>1. caller'[w] = c /\ caller' \in [Workers -> Calls]
  BY CallerStep DEF StoreInv
<1>0. taken \in Nat /\ \A e \in Events : e \in Nat /\ (e > taken <=> ~(e <= taken))
  BY EventsAreNumbers DEF StoreInv
<1>2. answer' \in [Events -> {"none", "ok", "error"}] /\ \A e \in Events : e > taken => answer'[e] = answer[e]
  BY <1>0 DEF StoreInv, TypeOK
<1>3. TypeOK'
  BY <1>1, <1>2 DEF StoreInv, TypeOK, Calls, Pcs
<1>4. Distinct(batch)' /\ NotBefore'
  BY <1>2 DEF StoreInv, Distinct, NotBefore, In
<1>5. Kept(w)'
  BY <1>1 DEF StoreInv, Kept, At, In, Skipped
<1>6. RowsOnce(w)'
  BY <1>1 DEF StoreInv, RowsOnce, At, In, Skipped
<1>7. CopyCurrent(w)'
  BY <1>1 DEF StoreInv, CopyCurrent, At, In
<1>8. Started(w)'
  BY <1>1 DEF Started
<1>. QED BY <1>3, <1>4, <1>5, <1>6, <1>7, <1>8 DEF StoreInv

\* Write reads the batch.
LEMMA LoadKeeps == ASSUME NEW w, Workers = {w}, StoreInv(w), LoadBatch(w) PROVE StoreInv(w)'
<1>. DEFINE c == [pc |-> "store", event |-> taken + 1, loaded |-> batch]
<1>1. /\ At(w, "idle") /\ taken < NumEvents /\ taken' = taken + 1
      /\ caller' = [caller EXCEPT ![w] = c]
      /\ UNCHANGED <<batch, table, doubtful, answer, stopped, failures>>
  BY DEF LoadBatch
<1>2. taken \in Nat /\ NumEvents \in Nat /\ taken + 1 \in Events /\ taken + 1 \in 0 .. NumEvents /\ ~(taken + 1 <= taken)
  BY <1>1, CallIs DEF StoreInv, Events
<1>3. c \in Calls /\ c.pc = "store" /\ c.event = taken + 1 /\ c.loaded = batch
  BY <1>2 DEF StoreInv, TypeOK, Calls, Pcs
<1>. HIDE DEF c
<1>4. caller'[w] = c /\ caller' \in [Workers -> Calls]
  BY <1>1, <1>3, CallerStep DEF StoreInv
<1>5. TypeOK'
  BY <1>1, <1>2, <1>4, CallIs DEF StoreInv, TypeOK, Calls, Pcs
<1>6. Distinct(batch)'
  BY <1>1 DEF StoreInv, Distinct
<1>7. \A e \in Events : e \in Nat
  BY DEF Events
<1>8. ~In(batch, taken + 1) /\ table[taken + 1] = doubtful[taken + 1] /\ answer[taken + 1] = "none"
  BY <1>2 DEF StoreInv, NotBefore
<1>9. NotBefore'
  BY <1>1, <1>2, <1>7 DEF StoreInv, NotBefore, In
<1>10. Kept(w)'
  BY <1>1, <1>2, <1>3, <1>4, <1>7 DEF StoreInv, Kept, At, In, Skipped
<1>11. RowsOnce(w)'
  BY <1>1, <1>3, <1>4 DEF StoreInv, RowsOnce, At, In, Skipped
<1>12. CopyCurrent(w)'
  <2>1. Len(batch) < taken + 1
    BY <1>2, CallIs DEF StoreInv, TypeOK
  <2>. QED BY <1>1, <1>2, <1>3, <1>4, <1>8, <2>1 DEF CopyCurrent, At, In
<1>13. Started(w)'
  BY <1>1, <1>2, <1>3, <1>4 DEF Started
<1>. QED BY <1>5, <1>6, <1>9, <1>10, <1>11, <1>12, <1>13 DEF StoreInv

\* Write stores the batch with the event.
LEMMA RowStoreKeeps == ASSUME NEW w, Workers = {w}, StoreInv(w), StoreBatch(w) PROVE StoreInv(w)'
<1>. DEFINE c == [caller[w] EXCEPT !.pc = "check"]
<1>1. /\ At(w, "store") /\ batch' = Append(caller[w].loaded, caller[w].event)
      /\ caller' = [caller EXCEPT ![w] = c]
      /\ UNCHANGED <<taken, table, doubtful, answer, stopped, failures>>
  BY DEF StoreBatch, Goes
<1>2. c \in Calls /\ c.pc = "check" /\ c.event = caller[w].event
  BY CallIs DEF StoreInv, Calls, Pcs
<1>. HIDE DEF c
<1>3. /\ caller[w].loaded = batch /\ caller[w].event = taken /\ taken \in Events
      /\ ~In(batch, taken) /\ table[taken] = doubtful[taken]
      /\ batch \in Seq(Events) /\ Distinct(batch) /\ Len(batch) <= taken
  BY <1>1 DEF StoreInv, CopyCurrent, TypeOK, At
<1>4. caller'[w] = c /\ caller' \in [Workers -> Calls]
  BY <1>1, <1>2, CallerStep DEF StoreInv
<1>5. /\ batch' \in Seq(Events) /\ Len(batch') = Len(batch) + 1 /\ Distinct(batch')
      /\ \A d : In(batch', d) <=> In(batch, d) \/ d = taken
  BY <1>1, <1>3, AppendDistinct
<1>6. Len(batch) < taken /\ Len(batch) \in Nat /\ taken \in Nat
  BY <1>1, CallIs DEF StoreInv, CopyCurrent
<1>7. Len(batch') <= taken'
  BY <1>1, <1>5, <1>6
<1>8. TypeOK'
  BY <1>1, <1>4, <1>5, <1>7 DEF StoreInv, TypeOK, Calls, Pcs
<1>9. Distinct(batch)'
  BY <1>5 DEF Distinct
<1>10. NotBefore'
  BY <1>1, <1>5, <1>6 DEF StoreInv, NotBefore
<1>11. Kept(w)'
  BY <1>1, <1>2, <1>3, <1>4, <1>5 DEF StoreInv, Kept, At, Skipped
<1>12. RowsOnce(w)'
  BY <1>1, <1>2, <1>3, <1>4, <1>5 DEF StoreInv, RowsOnce, At, Skipped
<1>13. CopyCurrent(w)'
  BY <1>2, <1>4 DEF CopyCurrent, At
<1>14. Started(w)'
  BY <1>1, <1>2, <1>4 DEF StoreInv, Started
<1>. QED BY <1>8, <1>9, <1>10, <1>11, <1>12, <1>13, <1>14 DEF StoreInv

\* A call that returns answers for its event.
LEMMA ReturnsIs ==
    ASSUME NEW w, Workers = {w}, StoreInv(w), NEW a, Returns(w, a), ~At(w, "store")
    PROVE  /\ caller' = [caller EXCEPT ![w] = Idle]
           /\ Idle \in Calls /\ Idle.pc = "idle" /\ Idle.event <= taken
           /\ answer' = answer \/ \E e \in Events : e <= taken /\ answer' = [answer EXCEPT ![e] = a]
<1>1. Idle \in Calls /\ Idle.pc = "idle"
  BY EmptyBatch, CallIs DEF StoreInv, Idle, Calls, Pcs
<1>2. caller[w].event # 0 => caller[w].event \in Events
  BY CallIs DEF StoreInv, Calls, Events
<1>3. caller[w].event <= taken
  BY DEF StoreInv, Started
<1>4. Idle.event <= taken
  <2>1. taken \in Nat
    BY CallIs DEF StoreInv
  <2>. QED BY <2>1 DEF Idle
<1>. QED BY <1>1, <1>2, <1>3, <1>4 DEF Returns

\* Write compares the length of the batch with BatchSize.
LEMMA CheckLengthKeeps == ASSUME NEW w, Workers = {w}, StoreInv(w), CheckLength(w) PROVE StoreInv(w)'
<1>1. At(w, "check") /\ UNCHANGED <<batch, taken, table, doubtful, stopped, failures>>
      /\ ~At(w, "store") /\ ~At(w, "truncate") /\ stopped' \in BOOLEAN /\ failures' \in 0 .. MaxFailures
  BY DEF CheckLength, At, StoreInv, TypeOK
<1>2. CASE Goes(w, "flush") /\ UNCHANGED answer
  <2>. DEFINE c == [caller[w] EXCEPT !.pc = "flush"]
  <2>1. caller' = [caller EXCEPT ![w] = c] /\ c \in Calls /\ c.pc = "flush" /\ c.event <= taken
    BY <1>2, CallIs DEF Goes, Calls, Pcs, StoreInv, Started
  <2>. HIDE DEF c
  <2>. QED BY <1>1, <1>2, <2>1, QuietKeeps
<1>3. CASE Returns(w, "ok")
  BY <1>1, <1>3, ReturnsIs, QuietKeeps
<1>. QED BY <1>2, <1>3 DEF CheckLength

\* Flush of an empty batch.
LEMMA FlushEmptyKeeps == ASSUME NEW w, Workers = {w}, StoreInv(w), FlushEmpty(w) PROVE StoreInv(w)'
<1>1. At(w, "flush") /\ UNCHANGED <<batch, taken, table, doubtful, stopped, failures>> /\ Returns(w, "ok")
      /\ ~At(w, "store") /\ ~At(w, "truncate") /\ stopped' \in BOOLEAN /\ failures' \in 0 .. MaxFailures
  BY DEF FlushEmpty, At, StoreInv, TypeOK
<1>. QED BY <1>1, ReturnsIs, QuietKeeps

\* Flush begins a transaction.
LEMMA BeginTxKeeps == ASSUME NEW w, Workers = {w}, StoreInv(w), BeginTx(w) PROVE StoreInv(w)'
<1>. DEFINE c == [caller[w] EXCEPT !.pc = "commit", !.loaded = batch]
<1>1. At(w, "flush") /\ UNCHANGED <<batch, taken, table, doubtful, answer, stopped, failures>>
      /\ ~At(w, "store") /\ ~At(w, "truncate") /\ stopped' \in BOOLEAN /\ failures' \in 0 .. MaxFailures
  BY DEF BeginTx, At, StoreInv, TypeOK
<1>2. caller' = [caller EXCEPT ![w] = c]
  BY CallIs DEF BeginTx, StoreInv
<1>3. c \in Calls /\ c.pc = "commit" /\ c.loaded = batch /\ c.event = caller[w].event
  BY CallIs DEF Calls, Pcs, StoreInv, TypeOK
<1>. HIDE DEF c
<1>4. c.event <= taken
  BY <1>3 DEF StoreInv, Started
<1>. QED BY <1>1, <1>2, <1>3, <1>4, QuietKeeps

\* A transaction that fails leaves the batch.
LEMMA FailsKeeps == ASSUME NEW w, Workers = {w}, StoreInv(w), FlushFails(w) PROVE StoreInv(w)'
<1>1. UNCHANGED <<batch, taken, table, doubtful, stopped>> /\ Returns(w, "error")
      /\ ~At(w, "store") /\ ~At(w, "truncate") /\ stopped' \in BOOLEAN
  BY DEF FlushFails, At, StoreInv, TypeOK
<1>2. failures' \in 0 .. MaxFailures
  <2>1. failures \in 0 .. MaxFailures /\ MaxFailures \in Nat
    BY TimescaleAssumption DEF StoreInv, TypeOK
  <2>2. (stopped \/ failures < MaxFailures) /\ failures' = IF stopped THEN failures ELSE failures + 1
    BY DEF FlushFails
  <2>. QED BY <2>1, <2>2
<1>. QED BY <1>1, <1>2, ReturnsIs, QuietKeeps

\* A commit whose answer is lost adds the same rows to both counts.
LEMMA UnansweredKeeps == ASSUME NEW w, Workers = {w}, StoreInv(w), CommitUnanswered(w) PROVE StoreInv(w)'
<1>1. /\ At(w, "commit") /\ ~At(w, "store") /\ ~At(w, "truncate") /\ Returns(w, "error")
      /\ failures < MaxFailures /\ failures' = failures + 1
      /\ table' = Committed(w)
      /\ doubtful' = [e \in Events |-> doubtful[e] + Rows(caller[w].loaded, e)]
      /\ UNCHANGED <<batch, taken, stopped>>
  BY DEF CommitUnanswered, At
<1>2. /\ caller' = [caller EXCEPT ![w] = Idle] /\ Idle \in Calls /\ Idle.pc = "idle" /\ Idle.event <= taken
      /\ answer' = answer \/ \E e \in Events : e <= taken /\ answer' = [answer EXCEPT ![e] = "error"]
  BY <1>1, ReturnsIs
<1>3. caller'[w] = Idle /\ caller' \in [Workers -> Calls]
  BY <1>2, CallerStep DEF StoreInv
<1>4. answer' \in [Events -> {"none", "ok", "error"}] /\ \A e \in Events : e > taken => answer'[e] = answer[e]
  <2>1. taken \in Nat /\ \A e \in Events : e \in Nat /\ (e > taken <=> ~(e <= taken))
    BY EventsAreNumbers DEF StoreInv
  <2>. QED BY <1>2, <2>1 DEF StoreInv, TypeOK
<1>5. caller[w].loaded = batch /\ batch \in Seq(Events) /\ Distinct(batch)
  BY <1>1 DEF StoreInv, CopyCurrent, TypeOK, At
<1>6. \A e \in Events : Rows(batch, e) = IF Skipped(e) THEN 0 ELSE IF In(batch, e) THEN 1 ELSE 0
  BY <1>5, CopiesOfDistinct DEF Rows, Skipped
<1>7. \A e \in Events : /\ Rows(batch, e) \in Nat /\ table[e] \in Nat /\ doubtful[e] \in Nat
                          /\ table'[e] = table[e] + Rows(batch, e)
                          /\ doubtful'[e] = doubtful[e] + Rows(batch, e)
  <2>1. /\ table' = [e \in Events |-> table[e] + Rows(batch, e)]
        /\ doubtful' = [e \in Events |-> doubtful[e] + Rows(batch, e)]
    BY <1>1, <1>5 DEF Committed
  <2>2. \A e \in Events : table[e] \in Nat /\ doubtful[e] \in Nat
    BY DEF StoreInv, TypeOK
  <2>3. \A e \in Events : Rows(batch, e) \in Nat
    BY <1>6
  <2>. QED BY <2>1, <2>2, <2>3
<1>8. /\ \A e \in Events : table[e] = doubtful[e] => table'[e] = doubtful'[e]
      /\ \A e \in Events : table[e] = doubtful[e] + 1 => table'[e] = doubtful'[e] + 1
  <2>. SUFFICES ASSUME NEW e \in Events
                PROVE  /\ table[e] = doubtful[e] => table'[e] = doubtful'[e]
                       /\ table[e] = doubtful[e] + 1 => table'[e] = doubtful'[e] + 1
    OBVIOUS
  <2>1. PICK n \in Nat : table'[e] = table[e] + n /\ doubtful'[e] = doubtful[e] + n
    BY <1>7
  <2>2. table[e] \in Nat /\ doubtful[e] \in Nat
    BY <1>7
  <2>. QED BY <2>1, <2>2
<1>9. table' \in [Events -> Nat] /\ doubtful' \in [Events -> Nat]
  <2>0. \A e \in Events : table'[e] \in Nat
    BY <1>7
  <2>1. table' \in [Events -> Nat]
    BY <1>1, <2>0 DEF Committed
  <2>2. \A e \in Events : doubtful'[e] \in Nat
    BY <1>7
  <2>3. doubtful' \in [Events -> Nat]
    BY <1>1, <2>2
  <2>. QED BY <2>1, <2>3
<1>10. failures' \in 0 .. MaxFailures
  <2>1. failures \in 0 .. MaxFailures /\ MaxFailures \in Nat
    BY TimescaleAssumption DEF StoreInv, TypeOK
  <2>. QED BY <1>1, <2>1
<1>11. TypeOK'
  BY <1>1, <1>3, <1>4, <1>9, <1>10 DEF StoreInv, TypeOK, Calls, Pcs
<1>12. Distinct(batch)' /\ NotBefore'
  <2>1. \A e \in Events : e > taken => ~In(batch, e)
    BY EventsAreNumbers DEF StoreInv, NotBefore
  <2>2. \A e \in Events : e > taken => table'[e] = 0 /\ doubtful'[e] = 0
    BY <1>6, <1>7, <2>1 DEF StoreInv, NotBefore
  <2>. QED BY <1>1, <1>4, <2>2 DEF StoreInv, Distinct, NotBefore, In
<1>13. Kept(w)' /\ RowsOnce(w)'
  <2>2. Kept(w)'
    BY <1>1, <1>2, <1>3, <1>8 DEF StoreInv, Kept, At, In, Skipped
  <2>3. RowsOnce(w)'
    BY <1>1, <1>2, <1>3, <1>8 DEF StoreInv, RowsOnce, At, In, Skipped
  <2>. QED BY <2>2, <2>3
<1>14. CopyCurrent(w)' /\ Started(w)'
  BY <1>1, <1>2, <1>3 DEF CopyCurrent, Started, At
<1>. QED BY <1>11, <1>12, <1>13, <1>14 DEF StoreInv

\* Flush is called from outside of Write.
LEMMA CallFlushKeeps == ASSUME NEW w, Workers = {w}, StoreInv(w), CallFlush(w) PROVE StoreInv(w)'
<1>. DEFINE c == [caller[w] EXCEPT !.pc = "flush"]
<1>1. At(w, "idle") /\ UNCHANGED <<batch, taken, table, doubtful, answer, stopped, failures>>
      /\ ~At(w, "store") /\ ~At(w, "truncate") /\ stopped' \in BOOLEAN /\ failures' \in 0 .. MaxFailures
  BY DEF CallFlush, At, StoreInv, TypeOK
<1>2. caller' = [caller EXCEPT ![w] = c] /\ c \in Calls /\ c.pc = "flush" /\ c.event = caller[w].event
  BY CallIs DEF CallFlush, Goes, Calls, Pcs, StoreInv
<1>. HIDE DEF c
<1>3. c.event <= taken
  BY <1>2 DEF StoreInv, Started
<1>. QED BY <1>1, <1>2, <1>3, QuietKeeps

\* The rows of the batch are committed.
LEMMA CommitKeeps == ASSUME NEW w, Workers = {w}, StoreInv(w), Commit(w) PROVE StoreInv(w)'
<1>. DEFINE c == [caller[w] EXCEPT !.pc = "truncate"]
<1>1. /\ At(w, "commit") /\ caller' = [caller EXCEPT ![w] = c]
      /\ table' = Committed(w)
      /\ UNCHANGED <<batch, taken, doubtful, answer, stopped, failures>>
  BY DEF Commit, Goes
<1>2. c \in Calls /\ c.pc = "truncate" /\ c.loaded = caller[w].loaded /\ c.event = caller[w].event
  BY CallIs DEF StoreInv, Calls, Pcs
<1>. HIDE DEF c
<1>3. caller'[w] = c /\ caller' \in [Workers -> Calls]
  BY <1>1, <1>2, CallerStep DEF StoreInv
<1>4. caller[w].loaded = batch /\ batch \in Seq(Events) /\ Distinct(batch)
  BY <1>1 DEF StoreInv, CopyCurrent, TypeOK, At
<1>5. \A e \in Events : Rows(batch, e) = IF Skipped(e) THEN 0 ELSE IF In(batch, e) THEN 1 ELSE 0
  BY <1>4, CopiesOfDistinct DEF Rows, Skipped
<1>7. \A e \in Events : table[e] \in Nat /\ doubtful[e] \in Nat
  BY DEF StoreInv, TypeOK
<1>6. \A e \in Events : table'[e] = IF In(batch, e) /\ ~Skipped(e) THEN doubtful[e] + 1 ELSE table[e]
  <2>1. \A e \in Events : In(batch, e) => table[e] = doubtful[e]
    BY <1>1 DEF StoreInv, RowsOnce, At
  <2>2. \A e \in Events : table'[e] = table[e] + Rows(batch, e)
    BY <1>1, <1>4 DEF Committed
  <2>. QED BY <1>5, <1>7, <2>1, <2>2
<1>8. table' \in [Events -> Nat]
  <2>1. \A e \in Events : table'[e] \in Nat
    BY <1>6, <1>7
  <2>. QED BY <1>1, <2>1 DEF Committed
<1>9. TypeOK'
  BY <1>1, <1>3, <1>8 DEF StoreInv, TypeOK, Calls, Pcs
<1>10. Distinct(batch)' /\ NotBefore'
  <2>1. \A e \in Events : e > taken => ~In(batch, e)
    BY EventsAreNumbers DEF StoreInv, NotBefore
  <2>. QED BY <1>1, <1>6, <2>1 DEF StoreInv, Distinct, NotBefore, In
<1>11. Kept(w)'
  BY <1>1, <1>2, <1>3, <1>6, <1>7 DEF StoreInv, Kept, At, In, Skipped
<1>12. RowsOnce(w)'
  BY <1>1, <1>2, <1>3, <1>6, <1>7 DEF StoreInv, RowsOnce, At, In, Skipped
<1>13. CopyCurrent(w)'
  BY <1>1, <1>2, <1>3, <1>4 DEF CopyCurrent, At
<1>14. Started(w)'
  BY <1>1, <1>2, <1>3 DEF StoreInv, Started
<1>. QED BY <1>9, <1>10, <1>11, <1>12, <1>13, <1>14 DEF StoreInv

\* The batch is emptied.
LEMMA TruncateKeeps == ASSUME NEW w, Workers = {w}, StoreInv(w), Truncate(w) PROVE StoreInv(w)'
<1>1. /\ At(w, "truncate") /\ batch' = <<>> /\ Returns(w, "ok")
      /\ UNCHANGED <<taken, table, doubtful, stopped, failures>> /\ ~At(w, "store")
  BY DEF Truncate, At
<1>2. /\ caller' = [caller EXCEPT ![w] = Idle] /\ Idle \in Calls /\ Idle.pc = "idle"
      /\ answer' = answer \/ \E e \in Events : e <= taken /\ answer' = [answer EXCEPT ![e] = "ok"]
  BY <1>1, ReturnsIs
<1>3. caller'[w] = Idle /\ caller' \in [Workers -> Calls]
  BY <1>2, CallerStep DEF StoreInv
<1>4. answer' \in [Events -> {"none", "ok", "error"}] /\ \A e \in Events : e > taken => answer'[e] = answer[e]
  <2>1. taken \in Nat /\ \A e \in Events : e \in Nat /\ (e > taken <=> ~(e <= taken))
    BY EventsAreNumbers DEF StoreInv
  <2>. QED BY <1>2, <2>1 DEF StoreInv, TypeOK
<1>5. TypeOK'
  BY <1>1, <1>3, <1>4, EmptyBatch, CallIs DEF StoreInv, TypeOK, Calls, Pcs
<1>6. /\ Distinct(batch)' /\ \A e : ~In(batch', e)
  BY <1>1, EmptyBatch DEF Distinct
<1>7. NotBefore'
  BY <1>1, <1>4, <1>6 DEF StoreInv, NotBefore
<1>8. Kept(w)'
  BY <1>1 DEF StoreInv, Kept, RowsOnce, At, Skipped
<1>9. RowsOnce(w)' /\ CopyCurrent(w)'
  BY <1>1, <1>2, <1>3, <1>6 DEF StoreInv, RowsOnce, CopyCurrent, At
<1>10. Started(w)'
  BY <1>1, <1>3, CallIs DEF StoreInv, Started, Idle
<1>. QED BY <1>5, <1>6, <1>7, <1>8, <1>9, <1>10 DEF StoreInv

\* One writer at a time: the engine with MaxConcurrency 1.
SingleWriter == \E w : Workers = {w}

\* Write and Flush of the Timescale sink: with one caller, an event in the batch has the rows
\* of the commits whose answer was lost, and an event that has left it has one more.
THEOREM SingleWriterStoresOnce == SingleWriter => (Spec => []StoredOnce)
<1>. SUFFICES ASSUME NEW w, Workers = {w} PROVE Spec => []StoredOnce
  BY DEF SingleWriter
<1>1. Init => StoreInv(w)
  BY StoreStarts
<1>2. StoreInv(w) /\ [Next]_vars => StoreInv(w)'
  <2>. SUFFICES ASSUME StoreInv(w), [Next]_vars PROVE StoreInv(w)'
    OBVIOUS
  <2>1. CASE Write(w)
    BY <2>1, LoadKeeps, RowStoreKeeps, CheckLengthKeeps DEF Write
  <2>2. CASE Flush(w)
    BY <2>2, FlushEmptyKeeps, BeginTxKeeps, FailsKeeps, UnansweredKeeps, CommitKeeps, TruncateKeeps DEF Flush
  <2>3. CASE CallFlush(w)
    BY <2>3, CallFlushKeeps
  <2>4. CASE Stop
    BY <2>4 DEF Stop, StoreInv, TypeOK, Distinct, NotBefore, Kept, RowsOnce, CopyCurrent, Started, At, In, Skipped
  <2>5. CASE UNCHANGED vars
    BY <2>5 DEF vars, StoreInv, TypeOK, Distinct, NotBefore, Kept, RowsOnce, CopyCurrent, Started, At, In, Skipped
  <2>. QED BY <2>1, <2>2, <2>3, <2>4, <2>5 DEF Next
<1>3. StoreInv(w) => StoredOnce
  <2>. SUFFICES ASSUME StoreInv(w), NEW e \in Events \ Unmarshalable
                PROVE  /\ Batched(e) => table[e] = doubtful[e] + (IF Truncating(e) THEN 1 ELSE 0)
                       /\ ~Batched(e) /\ answer[e] # "none" => table[e] = doubtful[e] + 1
    BY DEF StoredOnce
  <2>1. doubtful[e] \in Nat /\ e \in Nat /\ taken \in Nat /\ (e > taken <=> ~(e <= taken)) /\ ~Skipped(e)
    BY EventsAreNumbers DEF StoreInv, TypeOK, Skipped
  <2>2. ~Batched(e) /\ answer[e] # "none" => table[e] = doubtful[e] + 1
    BY <2>1 DEF StoreInv, Kept, NotBefore, CopyCurrent, Batched, At
  <2>3. Batched(e) => (Truncating(e) <=> At(w, "truncate"))
    BY DEF StoreInv, CopyCurrent, Batched, Truncating, At
  <2>4. Batched(e) => table[e] = IF At(w, "truncate") THEN doubtful[e] + 1 ELSE doubtful[e]
    BY <2>1 DEF StoreInv, RowsOnce, Batched
  <2>. QED BY <2>1, <2>2, <2>3, <2>4
<1>. QED BY <1>1, <1>2, <1>3, PTL DEF Spec

-----------------------------------------------------------------------------
(* The schema registry, and the Kafka topic.                               *)

\* The variables of the topic with the registry.
AllTopicVars == <<schemaVars, topicVars>>

\* A check of RegisterSchema: the schema and how many versions there were.
Checks == [schema : Schemas, seen : Nat]

\* Type invariant of the registry.
RegistryTypeOK ==
    /\ versions \in Seq(Schemas)
    /\ registrar \in [Registrars -> Checks \cup {NotChecked}]
    /\ overlappedRegistration \in BOOLEAN

\* A schema that was found compatible is so with the newest version, unless there are
\* more versions since or one was deleted.
CheckedStill ==
    Compatibility # "NONE" /\ deleted = {} /\ versions # <<>> =>
        \A r \in Registrars : registrar[r] # NotChecked /\ registrar[r].seen = Len(versions) =>
            Compatible(registrar[r].schema, versions[Len(versions)])

\* A check saw versions that are still there.
SeenBefore == \A r \in Registrars : registrar[r] # NotChecked => registrar[r].seen <= Len(versions)

\* The inductive invariant of the registry.
RegistryInv == RegistryTypeOK /\ SeenBefore /\ CheckedStill /\ CompatibleUnlessOverlap

\* The greatest of the numbers up to n.
LEMMA MaxUpTo == ASSUME NEW n \in Nat, n # 0 PROVE Max(1 .. n) = n
<1>1. n \in 1 .. n /\ \A y \in 1 .. n : n >= y
  OBVIOUS
<1>2. \E x \in 1 .. n : \A y \in 1 .. n : x >= y
  BY <1>1
<1>3. Max(1 .. n) \in 1 .. n /\ \A y \in 1 .. n : Max(1 .. n) >= y
  BY <1>2 DEF Max
<1>. QED BY <1>1, <1>3

\* A caller that has checked nothing is told from one that has.
LEMMA NoCheckIs == NotChecked \notin Checks
<1>1. NotChecked.schema = NoSchema /\ NoSchema.type = "none"
  BY DEF NotChecked, NoSchema
<1>. QED BY <1>1, SchemaAssumption DEF Checks

\* What RegisterSchema's check leaves.
LEMMA CheckKeeps ==
    ASSUME RegistryInv, NEW r \in Registrars, NEW s \in Schemas, CheckSchema(r, s) PROVE RegistryInv'
<1>. DEFINE c == [schema |-> s, seen |-> Len(versions)]
<1>1. /\ Compatibility # "NONE" => ValidateCompatibility(s)
      /\ registrar' = [registrar EXCEPT ![r] = c]
      /\ UNCHANGED <<versions, deleted, overlappedRegistration>>
  BY DEF CheckSchema
<1>2. Len(versions) \in Nat /\ DOMAIN versions = 1 .. Len(versions)
  BY LenProperties DEF RegistryInv, RegistryTypeOK
<1>3. c \in Checks /\ c.schema = s /\ c.seen = Len(versions)
  BY <1>2 DEF Checks
<1>. HIDE DEF c
<1>4. registrar'[r] = c /\ \A q \in Registrars : q # r => registrar'[q] = registrar[q]
  BY <1>1 DEF RegistryInv, RegistryTypeOK
<1>5. RegistryTypeOK'
  BY <1>1, <1>3 DEF RegistryInv, RegistryTypeOK
<1>6. SeenBefore'
  BY <1>1, <1>2, <1>3, <1>4 DEF RegistryInv, SeenBefore
<1>7. ASSUME Compatibility # "NONE", deleted = {}, versions # <<>> PROVE Compatible(s, versions[Len(versions)])
  <2>1. Len(versions) # 0
    BY <1>7, EmptySeq DEF RegistryInv, RegistryTypeOK
  <2>2. Live = 1 .. Len(versions)
    BY <1>2, <1>7 DEF Live
  <2>3. Len(versions) \in 1 .. Len(versions)
    BY <1>2, <2>1
  <2>4. Max(Live) = Len(versions)
    BY <1>2, <2>1, <2>2, MaxUpTo
  <2>0. Compatibility \in LatestModes \cup TransitiveModes
    BY <1>1, <1>7, <2>2, <2>3 DEF ValidateCompatibility
  <2>5. versionsToCheck(Live) \in {{Max(Live)}, Live}
    BY <1>7, <2>0 DEF versionsToCheck, LatestModes, TransitiveModes
  <2>6. Len(versions) \in versionsToCheck(Live)
    BY <2>2, <2>3, <2>4, <2>5
  <2>. QED BY <1>1, <1>7, <2>2, <2>3, <2>6 DEF ValidateCompatibility
<1>8. CheckedStill'
  BY <1>1, <1>3, <1>4, <1>7 DEF RegistryInv, CheckedStill
<1>9. CompatibleUnlessOverlap'
  BY <1>1 DEF RegistryInv, CompatibleUnlessOverlap
<1>. QED BY <1>5, <1>6, <1>8, <1>9 DEF RegistryInv

\* What the service's registration leaves.
LEMMA RegisterKeeps == ASSUME RegistryInv, NEW r \in Registrars, Register(r) PROVE RegistryInv'
<1>. DEFINE s == registrar[r].schema
            n == Len(versions)
<1>1. /\ registrar[r] # NotChecked
      /\ registrar' = [registrar EXCEPT ![r] = NotChecked]
      /\ deleted' = deleted
      /\ versions' = versions \/ versions' = Append(versions, s)
      /\ versions' = versions => overlappedRegistration' \in BOOLEAN /\ (~overlappedRegistration' => ~overlappedRegistration)
      /\ versions' # versions => overlappedRegistration' = (overlappedRegistration \/ registrar[r].seen # n)
  <2>1. \/ UNCHANGED <<versions, overlappedRegistration>>
        \/ /\ versions' = versions \/ versions' = Append(versions, s)
           /\ overlappedRegistration' = (overlappedRegistration \/ registrar[r].seen # n)
    BY DEF Register
  <2>2. overlappedRegistration \in BOOLEAN
    BY DEF RegistryInv, RegistryTypeOK
  <2>3. (overlappedRegistration \/ registrar[r].seen # n) \in BOOLEAN
    OBVIOUS
  <2>4. registrar[r] # NotChecked /\ registrar' = [registrar EXCEPT ![r] = NotChecked] /\ deleted' = deleted
    BY DEF Register
  <2>5. CASE UNCHANGED <<versions, overlappedRegistration>>
    <3>1. versions' = versions /\ overlappedRegistration' = overlappedRegistration
      BY <2>5
    <3>. QED BY <2>2, <2>4, <3>1
  <2>6. CASE /\ versions' = versions \/ versions' = Append(versions, s)
             /\ overlappedRegistration' = (overlappedRegistration \/ registrar[r].seen # n)
    <3>1. overlappedRegistration' \in BOOLEAN
      BY <2>3, <2>6, Zenon
    <3>2. ~overlappedRegistration' => ~overlappedRegistration
      BY <2>6, Zenon
    <3>. QED BY <2>4, <2>6, <3>1, <3>2, Zenon
  <2>. QED BY <2>1, <2>5, <2>6, Zenon
<1>2. versions \in Seq(Schemas) /\ n \in Nat /\ registrar[r] \in Checks
  BY <1>1, LenProperties DEF RegistryInv, RegistryTypeOK
<1>3. s \in Schemas /\ registrar[r].seen \in Nat
  BY <1>2 DEF Checks
<1>4. registrar'[r] = NotChecked /\ \A q \in Registrars : q # r => registrar'[q] = registrar[q]
  BY <1>1 DEF RegistryInv, RegistryTypeOK
<1>5. CASE versions' = versions
  <2>1. RegistryTypeOK'
    BY <1>1, <1>5 DEF RegistryInv, RegistryTypeOK
  <2>2. SeenBefore' /\ CheckedStill'
    BY <1>1, <1>4, <1>5 DEF RegistryInv, SeenBefore, CheckedStill
  <2>3. CompatibleUnlessOverlap'
    BY <1>1, <1>5 DEF RegistryInv, CompatibleUnlessOverlap
  <2>. QED BY <2>1, <2>2, <2>3 DEF RegistryInv
<1>6. CASE versions' # versions
  <2>. HIDE DEF s
  <2>1. /\ versions' \in Seq(Schemas) /\ Len(versions') = n + 1
        /\ versions'[n + 1] = s /\ \A i \in 1 .. n : versions'[i] = versions[i]
    BY <1>1, <1>2, <1>3, <1>6, AppendProperties, SMTT(30)
  <2>2. overlappedRegistration' \in BOOLEAN
    BY <1>1, <1>6, Zenon
  <2>3. ~overlappedRegistration' => ~overlappedRegistration /\ registrar[r].seen = n
    BY <1>1, <1>6, Zenon
  <2>4. RegistryTypeOK'
    BY <1>1, <2>1, <2>2 DEF RegistryInv, RegistryTypeOK
  <2>5. \A q \in Registrars : registrar'[q] # NotChecked => registrar'[q].seen <= n /\ registrar'[q].seen \in Nat
    BY <1>1, <1>4 DEF RegistryInv, RegistryTypeOK, SeenBefore, Checks
  <2>6. SeenBefore' /\ CheckedStill'
    <3>1. \A q \in Registrars : registrar'[q] # NotChecked => registrar'[q].seen <= n + 1 /\ registrar'[q].seen # n + 1
      BY <1>2, <2>5
    <3>. QED BY <2>1, <3>1 DEF SeenBefore, CheckedStill
  <2>7. ASSUME Compatibility # "NONE", ~overlappedRegistration', deleted = {}, NEW i \in 1 .. (Len(versions') - 1)
        PROVE  Compatible(versions'[i + 1], versions'[i])
    <3>1. i \in 1 .. n
      BY <1>2, <2>1
    <3>2. CASE i = n
      <4>1. n # 0 /\ versions # <<>>
        BY <1>2, <3>1, <3>2, EmptySeq
      <4>2. Compatible(s, versions[n])
        BY <1>1, <2>3, <2>7, <4>1 DEF RegistryInv, CheckedStill, s
      <4>. QED BY <2>1, <3>1, <3>2, <4>2
    <3>3. CASE i # n
      <4>1. i \in 1 .. (n - 1) /\ i + 1 \in 1 .. n
        BY <1>2, <3>1, <3>3
      <4>2. Compatible(versions[i + 1], versions[i])
        BY <2>3, <2>7, <4>1 DEF RegistryInv, CompatibleUnlessOverlap
      <4>. QED BY <2>1, <3>1, <4>1, <4>2
    <3>. QED BY <3>2, <3>3
  <2>8. CompatibleUnlessOverlap'
    BY <1>1, <2>7 DEF CompatibleUnlessOverlap
  <2>. QED BY <2>4, <2>6, <2>8 DEF RegistryInv
<1>. QED BY <1>5, <1>6

\* The steps that leave the service's versions and the callers of RegisterSchema alone.
LEMMA RegistryElseKeeps ==
    ASSUME RegistryInv, UNCHANGED <<versions, registrar, overlappedRegistration>>, deleted' = {} => deleted = {}
    PROVE  RegistryInv'
BY DEF RegistryInv, RegistryTypeOK, SeenBefore, CheckedStill, CompatibleUnlessOverlap

\* The invariant holds at the start.
LEMMA RegistryStarts == ASSUME SchemaInit PROVE RegistryInv
<1>1. versions = <<>> /\ registrar = [r \in Registrars |-> NotChecked] /\ overlappedRegistration = FALSE
  BY DEF SchemaInit
<1>2. versions \in Seq(Schemas) /\ Len(versions) = 0
  BY <1>1, EmptySeq
<1>3. \A r \in Registrars : registrar[r] = NotChecked
  BY <1>1
<1>4. \A i \in 1 .. (Len(versions) - 1) : FALSE
  BY <1>2
<1>5. RegistryTypeOK
  BY <1>1, <1>2 DEF RegistryTypeOK
<1>6. SeenBefore /\ CheckedStill
  BY <1>1, <1>3 DEF SeenBefore, CheckedStill
<1>7. CompatibleUnlessOverlap
  BY <1>4 DEF CompatibleUnlessOverlap
<1>. QED BY <1>5, <1>6, <1>7 DEF RegistryInv

\* The invariant holds in every state.
LEMMA RegistryInvAlways == TopicSpec => []RegistryInv
<1>1. TopicInit => RegistryInv
  BY RegistryStarts DEF TopicInit
<1>2. RegistryInv /\ [TopicNext]_AllTopicVars => RegistryInv'
  <2>. SUFFICES ASSUME RegistryInv, [TopicNext]_AllTopicVars PROVE RegistryInv'
    OBVIOUS
  <2>1. ASSUME NEW v \in Values, SinkWrite(v) PROVE RegistryInv'
    BY <2>1, RegistryElseKeeps DEF SinkWrite, SchemaFrame
  <2>2. CASE Deliver \/ SinkFlush \/ SinkClose
    BY <2>2, RegistryElseKeeps DEF Deliver, SinkFlush, SinkClose, schemaVars
  <2>3. CASE messageToEvent
    BY <2>3, RegistryElseKeeps DEF messageToEvent, SchemaFrame
  <2>4. CASE SchemaNext
    <3>1. ASSUME NEW r \in Registrars, Register(r) PROVE RegistryInv'
      BY <3>1, RegisterKeeps
    <3>2. ASSUME NEW r \in Registrars, NEW s \in Schemas, CheckSchema(r, s) PROVE RegistryInv'
      BY <3>2, CheckKeeps
    <3>3. ASSUME NEW i \in DOMAIN versions, DeleteVersion(i) PROVE RegistryInv'
      BY <3>3, RegistryElseKeeps DEF DeleteVersion
    <3>4. CASE cleanupCache \/ ClearCache
      BY <3>4, RegistryElseKeeps DEF cleanupCache, ClearCache, SchemaFrame
    <3>5. CASE SchemaClock \/ RegistryFails
      BY <3>5, RegistryElseKeeps DEF SchemaClock, RegistryFails
    <3>. QED BY <2>4, <3>1, <3>2, <3>3, <3>4, <3>5 DEF SchemaNext
  <2>5. CASE UNCHANGED AllTopicVars
    BY <2>5, RegistryElseKeeps DEF AllTopicVars, schemaVars
  <2>. QED BY <2>1, <2>2, <2>3, <2>4, <2>5 DEF TopicNext
<1>. QED BY <1>1, <1>2, PTL DEF TopicSpec, AllTopicVars

\* RegisterSchema of the codec manager: the versions stay compatible, each with the one before,
\* unless somebody registered between a check and its registration or a version was deleted.
THEOREM VersionsStayCompatible == TopicSpec => []CompatibleUnlessOverlap
<1>1. RegistryInv => CompatibleUnlessOverlap
  BY DEF RegistryInv
<1>. QED BY <1>1, RegistryInvAlways, PTL

\* A message on the wire, and what the producer and the topic hold.
Wire == [id : Nat, writer : Nat, payload : Values \cup {Nil}]

\* The entries of the queue and the topic.
Entries == [event : Nat, message : Wire]

\* What the source may read.
ReadValues == Values \cup {Nil, RawBytes}

\* Type invariant of the topic.
TopicTypeOK ==
    /\ versions \in Seq(Schemas)
    /\ schemaCache \in [0 .. MaxVersions -> Nat]
    /\ writes \in Seq(Values)
    /\ producer \in Seq(Entries)
    /\ topic \in Seq(Entries)
    /\ received \in Seq(ReadValues)
    /\ Len(received) <= Len(topic)

\* The schemas the codec manager remembers are registered.
CacheKnown == \A i \in 0 .. MaxVersions : schemaCache[i] <= Len(versions)

\* A message without an id, or one that carries the id it was encoded with and, unless
\* the codec drops it, the value.
Carries(vs, m, v) ==
    \/ m.id = 0
    \/ /\ m.id \in 1 .. Len(vs) /\ m.writer = m.id
       /\ vs[m.id].type # "PROTOBUF" => m.payload = v

\* An entry's message carries the value of the write it is of.
Faithful(ws, vs, x) == x.event \in 1 .. Len(ws) /\ Carries(vs, x.message, ws[x.event])

\* All entries do.
AllFaithful ==
    /\ \A i \in 1 .. Len(producer) : Faithful(writes, versions, producer[i])
    /\ \A i \in 1 .. Len(topic) : Faithful(writes, versions, topic[i])

\* What was read is what was written, or no value, or the bytes.
ReadFaithfully ==
    \A i \in 1 .. Len(received) : received[i] \in {writes[topic[i].event], Nil, RawBytes}

\* The inductive invariant of the topic.
TopicInv == TopicTypeOK /\ CacheKnown /\ AllFaithful /\ ReadFaithfully

\* The id of the newest schema is registered.
LEMMA FetchKnown ==
    ASSUME TopicInv, NEW version PROVE Fetch(version) \in 0 .. Len(versions)
<1>1. Len(versions) \in Nat /\ DOMAIN versions = 1 .. Len(versions)
  BY LenProperties DEF TopicInv, TopicTypeOK
<1>2. Live \in SUBSET (0 .. Len(versions)) /\ \A i \in Live : i \in 0 .. Len(versions) /\ i \in Int
  BY <1>1 DEF Live
<1>3. ASSUME Live # {} PROVE Max(Live) \in Live
  <2>1. \E n \in Live : \A m \in Live : m <= n
    BY <1>1, <1>2, <1>3, GreatestOfSet
  <2>2. \E n \in Live : \A m \in Live : n >= m
    BY <1>2, <2>1
  <2>. QED BY <2>2 DEF Max
<1>4. Latest \in 0 .. Len(versions)
  <2>1. 0 \in 0 .. Len(versions)
    BY <1>1
  <2>2. Live # {} => Max(Live) \in 0 .. Len(versions)
    BY <1>2, <1>3
  <2>. QED BY <2>1, <2>2, Zenon DEF Latest
<1>5. 0 \in 0 .. Len(versions)
  BY <1>1
<1>6. version \in Live => version \in 0 .. Len(versions)
  BY <1>2, Zenon
<1>. QED BY <1>4, <1>5, <1>6, Zenon DEF Fetch

\* What SinkWrite hands to the producer.
LEMMA SinkMessageCarries ==
    ASSUME TopicInv, NEW v \in Values
    PROVE  /\ SinkMessage(v) \in Wire /\ Carries(versions, SinkMessage(v), v)
           /\ getSchemaMetadata(SinkVersion) \in 0 .. Len(versions)
<1>. DEFINE i == getSchemaMetadata(SinkVersion)
            payload == getCodecEncode(versions[i], v)
<1>1. Len(versions) \in Nat /\ SinkVersion \in 0 .. MaxVersions
  BY LenProperties, TopicAssumption DEF TopicInv, TopicTypeOK
<1>2. schemaCache[SinkVersion] \in 0 .. Len(versions)
  BY <1>1 DEF TopicInv, TopicTypeOK, CacheKnown
<1>3. i \in 0 .. Len(versions)
  BY <1>2, FetchKnown DEF getSchemaMetadata
<1>4. Encode(v, SinkVersion) = IF i = 0 THEN NoMessage ELSE IF payload = Refused THEN NoMessage
                               ELSE [id |-> i, writer |-> i, payload |-> payload]
  BY DEF Encode
<1>. HIDE DEF i
<1>5. CASE SinkMessage(v) = Plain(v)
  <2>1. Plain(v) \in Wire /\ Plain(v).id = 0
    BY DEF Plain, Wire
  <2>. QED BY <1>3, <1>5, <2>1 DEF Carries, i
<1>6. CASE SinkMessage(v) # Plain(v)
  <2>1. /\ i # 0 /\ payload # Refused
        /\ SinkMessage(v) = [id |-> i, writer |-> i, payload |-> payload]
    BY <1>4, <1>6 DEF SinkMessage
  <2>2. i \in 1 .. Len(versions) /\ i \in Nat
    BY <1>1, <1>3, <2>1
  <2>3. versions[i] \in Schemas
    BY <2>2, ElementOfSeq DEF TopicInv, TopicTypeOK
  <2>4. versions[i].type \in {"AVRO", "JSON", "PROTOBUF"}
    BY <2>3, SchemaAssumption
  <2>5. payload = IF versions[i].type = "PROTOBUF" THEN Nil ELSE IF v \in versions[i].accepts THEN v ELSE Refused
    BY <2>4 DEF getCodecEncode, avroEncode, jsonEncode, protobufEncode
  <2>. HIDE DEF payload
  <2>6. payload \in Values \cup {Nil} /\ (versions[i].type # "PROTOBUF" => payload = v)
    BY <2>1, <2>5
  <2>7. SinkMessage(v) \in Wire
    BY <2>1, <2>2, <2>6 DEF Wire
  <2>. QED BY <1>3, <2>1, <2>2, <2>6, <2>7 DEF Carries, i
<1>. QED BY <1>5, <1>6

\* What messageToEvent makes of such a message.
LEMMA ReadIs ==
    ASSUME TopicInv, NEW m \in Wire, NEW v, Carries(versions, m, v)
    PROVE  EventValue(m) \in ReadValues /\ EventValue(m) \in {v, Nil, RawBytes}
<1>1. CASE m.id = 0
  <2>1. Decode(m) = Refused
    BY <1>1 DEF Decode
  <2>2. EventValue(m) = Nil
    BY <1>1, <2>1 DEF EventValue
  <2>. QED BY <2>2 DEF ReadValues
<1>2. CASE m.id # 0
  <2>1. /\ m.id \in 1 .. Len(versions) /\ m.writer = m.id
        /\ versions[m.id].type # "PROTOBUF" => m.payload = v
    BY <1>2 DEF Carries
  <2>2. versions[m.id] \in Schemas
    BY <2>1, ElementOfSeq DEF TopicInv, TopicTypeOK
  <2>3. versions[m.id].type \in {"AVRO", "JSON", "PROTOBUF"}
    BY <2>2, SchemaAssumption
  <2>4. GetSchema(m.id) \in {0, m.id}
    BY DEF GetSchema
  <2>5. Decode(m) = Refused \/ Decode(m) = Nil \/ (Decode(m) = m.payload /\ versions[m.id].type # "PROTOBUF")
    BY <1>2, <2>1, <2>3, <2>4 DEF Decode, avroDecode, jsonDecode, protobufDecode
  <2>6. EventValue(m) = IF Decode(m) # Refused THEN Decode(m) ELSE RawBytes
    BY <1>2 DEF EventValue
  <2>7. m.payload \in Values \cup {Nil}
    BY DEF Wire
  <2>. QED BY <2>1, <2>5, <2>6, <2>7 DEF ReadValues
<1>. QED BY <1>1, <1>2

\* More versions and more writes take nothing from a message.
LEMMA StaysFaithful ==
    ASSUME NEW V, NEW S, NEW ws \in Seq(V), NEW wt \in Seq(V), NEW vs \in Seq(S), NEW vt \in Seq(S), NEW x,
           Len(ws) <= Len(wt), \A i \in 1 .. Len(ws) : wt[i] = ws[i],
           Len(vs) <= Len(vt), \A i \in 1 .. Len(vs) : vt[i] = vs[i],
           Faithful(ws, vs, x)
    PROVE  Faithful(wt, vt, x)
<1>1. Len(ws) \in Nat /\ Len(wt) \in Nat /\ Len(vs) \in Nat /\ Len(vt) \in Nat
  BY LenProperties
<1>2. x.event \in 1 .. Len(wt) /\ wt[x.event] = ws[x.event]
  BY <1>1 DEF Faithful
<1>3. x.message.id \in 1 .. Len(vs) => x.message.id \in 1 .. Len(vt) /\ vt[x.message.id] = vs[x.message.id]
  BY <1>1
<1>. QED BY <1>2, <1>3 DEF Faithful, Carries

\* Another entry in a list, or one less at its head.
LEMMA EntriesKeep ==
    ASSUME NEW s \in Seq(Entries), NEW ws, NEW vs, \A i \in 1 .. Len(s) : Faithful(ws, vs, s[i])
    PROVE  /\ \A x \in Entries : Faithful(ws, vs, x) =>
                /\ Append(s, x) \in Seq(Entries) /\ Len(Append(s, x)) = Len(s) + 1
                /\ \A i \in 1 .. Len(s) : Append(s, x)[i] = s[i]
                /\ \A i \in 1 .. Len(Append(s, x)) : Faithful(ws, vs, Append(s, x)[i])
           /\ s # <<>> => /\ Head(s) \in Entries /\ Faithful(ws, vs, Head(s))
                          /\ Tail(s) \in Seq(Entries)
                          /\ \A i \in 1 .. Len(Tail(s)) : Faithful(ws, vs, Tail(s)[i])
<1>1. Len(s) \in Nat
  BY LenProperties
<1>2. ASSUME NEW x \in Entries, Faithful(ws, vs, x)
      PROVE  /\ Append(s, x) \in Seq(Entries) /\ Len(Append(s, x)) = Len(s) + 1
             /\ \A i \in 1 .. Len(s) : Append(s, x)[i] = s[i]
             /\ \A i \in 1 .. Len(Append(s, x)) : Faithful(ws, vs, Append(s, x)[i])
  <2>1. /\ Append(s, x) \in Seq(Entries) /\ Len(Append(s, x)) = Len(s) + 1
        /\ Append(s, x)[Len(s) + 1] = x /\ \A i \in 1 .. Len(s) : Append(s, x)[i] = s[i]
    BY AppendProperties
  <2>2. \A i \in 1 .. Len(s) + 1 : i \in 1 .. Len(s) \/ i = Len(s) + 1
    BY <1>1
  <2>. QED BY <1>2, <2>1, <2>2
<1>3. ASSUME s # <<>>
      PROVE  /\ Head(s) \in Entries /\ Faithful(ws, vs, Head(s))
             /\ Tail(s) \in Seq(Entries)
             /\ \A i \in 1 .. Len(Tail(s)) : Faithful(ws, vs, Tail(s)[i])
  <2>1. /\ Head(s) \in Entries /\ Tail(s) \in Seq(Entries) /\ Len(s) # 0 /\ Len(Tail(s)) = Len(s) - 1
        /\ \A i \in 1 .. Len(Tail(s)) : Tail(s)[i] = s[i + 1]
    BY <1>3, HeadTailProperties, EmptySeq
  <2>2. Head(s) = s[1] /\ 1 \in 1 .. Len(s) /\ \A i \in 1 .. Len(Tail(s)) : i + 1 \in 1 .. Len(s)
    BY <1>1, <2>1
  <2>. QED BY <2>1, <2>2
<1>. QED BY <1>2, <1>3

\* The invariant holds at the start.
LEMMA TopicStarts == ASSUME TopicInit PROVE TopicInv
<1>1. /\ versions = <<>> /\ writes = <<>> /\ producer = <<>> /\ topic = <<>> /\ received = <<>>
      /\ schemaCache = [i \in 0 .. MaxVersions |-> 0]
  BY DEF TopicInit, SchemaInit
<1>2. /\ <<>> \in Seq(Schemas) /\ <<>> \in Seq(Values) /\ <<>> \in Seq(Entries) /\ <<>> \in Seq(ReadValues)
      /\ Len(<<>>) = 0
  BY EmptySeq
<1>. QED BY <1>1, <1>2 DEF TopicInv, TopicTypeOK, CacheKnown, AllFaithful, ReadFaithfully

\* A step that writes nothing and reads nothing, and moves entries from the queue to the topic.
LEMMA MovesKeep ==
    ASSUME TopicInv, UNCHANGED <<versions, writes, received>>,
           schemaCache' \in [0 .. MaxVersions -> Nat], \A i \in 0 .. MaxVersions : schemaCache'[i] <= Len(versions),
           producer' \in Seq(Entries), \A i \in 1 .. Len(producer') : Faithful(writes, versions, producer'[i]),
           \/ topic' = topic
           \/ \E x \in Entries : topic' = Append(topic, x) /\ Faithful(writes, versions, x)
    PROVE  TopicInv'
<1>1. /\ topic' \in Seq(Entries) /\ Len(topic) <= Len(topic')
      /\ \A i \in 1 .. Len(topic) : topic'[i] = topic[i]
      /\ \A i \in 1 .. Len(topic') : Faithful(writes, versions, topic'[i])
  <2>0. Len(topic) \in Nat
    BY LenProperties DEF TopicInv, TopicTypeOK
  <2>1. CASE topic' = topic
    BY <2>0, <2>1 DEF TopicInv, TopicTypeOK, AllFaithful
  <2>2. ASSUME NEW x \in Entries, topic' = Append(topic, x), Faithful(writes, versions, x)
        PROVE  /\ topic' \in Seq(Entries) /\ Len(topic) <= Len(topic')
               /\ \A i \in 1 .. Len(topic) : topic'[i] = topic[i]
               /\ \A i \in 1 .. Len(topic') : Faithful(writes, versions, topic'[i])
    <3>1. topic \in Seq(Entries) /\ \A i \in 1 .. Len(topic) : Faithful(writes, versions, topic[i])
      BY DEF TopicInv, TopicTypeOK, AllFaithful
    <3>2. /\ Append(topic, x) \in Seq(Entries) /\ Len(Append(topic, x)) = Len(topic) + 1
          /\ \A i \in 1 .. Len(topic) : Append(topic, x)[i] = topic[i]
          /\ \A i \in 1 .. Len(Append(topic, x)) : Faithful(writes, versions, Append(topic, x)[i])
      BY <2>2, <3>1, EntriesKeep
    <3>. QED BY <2>0, <2>2, <3>2
  <2>. QED BY <2>1, <2>2
<1>2. Len(topic) \in Nat /\ Len(received) \in Nat /\ Len(received) <= Len(topic) /\ Len(topic') \in Nat
  BY <1>1, LenProperties DEF TopicInv, TopicTypeOK
<1>3. TopicTypeOK'
  BY <1>1, <1>2 DEF TopicInv, TopicTypeOK
<1>4. CacheKnown' /\ AllFaithful'
  BY <1>1 DEF CacheKnown, AllFaithful
<1>5. \A i \in 1 .. Len(received) : topic'[i] = topic[i]
  BY <1>1, <1>2
<1>6. ReadFaithfully'
  BY <1>5 DEF TopicInv, ReadFaithfully
<1>. QED BY <1>3, <1>4, <1>6 DEF TopicInv

\* A write puts a message into the producer's queue, or is refused.
LEMMA WriteKeeps == ASSUME TopicInv, NEW v \in Values, SinkWrite(v) PROVE TopicInv'
<1>. DEFINE n == Len(writes) + 1
            x == [event |-> n, message |-> SinkMessage(v)]
<1>1. /\ writes' = Append(writes, v) /\ UNCHANGED <<versions, topic, received>>
      /\ schemaCache' = [schemaCache EXCEPT ![SinkVersion] = getSchemaMetadata(SinkVersion)]
      /\ producer' = producer \/ producer' = Append(producer, x)
  BY DEF SinkWrite, SchemaFrame, Cached
<1>2. /\ Len(writes) \in Nat /\ Len(versions) \in Nat /\ versions \in Seq(Schemas) /\ writes \in Seq(Values)
      /\ producer \in Seq(Entries) /\ topic \in Seq(Entries)
      /\ Len(producer) \in Nat /\ Len(received) \in Nat /\ Len(topic) \in Nat /\ Len(received) <= Len(topic)
  BY LenProperties DEF TopicInv, TopicTypeOK
<1>3. /\ writes' \in Seq(Values) /\ Len(writes') = Len(writes) + 1
      /\ writes'[n] = v /\ \A i \in 1 .. Len(writes) : writes'[i] = writes[i]
  BY <1>1, <1>2, AppendProperties
<1>4. /\ SinkMessage(v) \in Wire /\ Carries(versions, SinkMessage(v), v)
      /\ getSchemaMetadata(SinkVersion) \in 0 .. Len(versions)
  BY SinkMessageCarries
<1>5. \A y : Faithful(writes, versions, y) => Faithful(writes', versions, y)
  <2>. SUFFICES ASSUME NEW y, Faithful(writes, versions, y) PROVE Faithful(writes', versions, y)
    OBVIOUS
  <2>1. Len(writes) <= Len(writes') /\ Len(versions) <= Len(versions)
    BY <1>2, <1>3
  <2>. QED BY <1>2, <1>3, <2>1, StaysFaithful
<1>6. x \in Entries /\ Faithful(writes', versions, x)
  <2>1. x \in Entries /\ x.event = n /\ x.message = SinkMessage(v)
    BY <1>2, <1>4 DEF Entries
  <2>2. n \in 1 .. Len(writes')
    BY <1>2, <1>3
  <2>. HIDE DEF x, n
  <2>. QED BY <1>3, <1>4, <2>1, <2>2 DEF Faithful
<1>. HIDE DEF x
<1>7. \A i \in 1 .. Len(producer) : Faithful(writes', versions, producer[i])
  BY <1>5 DEF TopicInv, AllFaithful
<1>8. producer' \in Seq(Entries) /\ \A i \in 1 .. Len(producer') : Faithful(writes', versions, producer'[i])
  <2>1. CASE producer' = producer
    BY <1>2, <1>7, <2>1
  <2>2. CASE producer' = Append(producer, x)
    <3>1. /\ Append(producer, x) \in Seq(Entries)
          /\ \A i \in 1 .. Len(Append(producer, x)) : Faithful(writes', versions, Append(producer, x)[i])
      BY <1>2, <1>6, <1>7, EntriesKeep
    <3>. QED BY <2>2, <3>1
  <2>. QED BY <1>1, <2>1, <2>2
<1>9. schemaCache' \in [0 .. MaxVersions -> Nat] /\ \A i \in 0 .. MaxVersions : schemaCache'[i] <= Len(versions)
  <2>1. getSchemaMetadata(SinkVersion) \in Nat /\ getSchemaMetadata(SinkVersion) <= Len(versions)
    BY <1>2, <1>4
  <2>. QED BY <1>1, <2>1 DEF TopicInv, TopicTypeOK, CacheKnown
<1>10. TopicTypeOK'
  BY <1>1, <1>2, <1>3, <1>8, <1>9 DEF TopicInv, TopicTypeOK
<1>11. CacheKnown' /\ AllFaithful'
  BY <1>1, <1>5, <1>8, <1>9 DEF TopicInv, CacheKnown, AllFaithful
<1>12. ReadFaithfully'
  <2>1. \A i \in 1 .. Len(received) : topic[i].event \in 1 .. Len(writes)
    BY <1>2 DEF TopicInv, AllFaithful, Faithful
  <2>. QED BY <1>1, <1>3, <2>1 DEF TopicInv, ReadFaithfully
<1>. QED BY <1>10, <1>11, <1>12 DEF TopicInv

\* The source reads the next message of the topic.
LEMMA TopicReadKeeps == ASSUME TopicInv, messageToEvent PROVE TopicInv'
<1>. DEFINE n == Len(received) + 1
            m == topic[n].message
            v == writes[topic[n].event]
<1>1. /\ Len(received) < Len(topic) /\ received' = Append(received, EventValue(m))
      /\ UNCHANGED <<versions, schemaCache, writes, producer, topic>>
  BY DEF messageToEvent, SchemaFrame
<1>2. Len(received) \in Nat /\ Len(topic) \in Nat /\ received \in Seq(ReadValues) /\ topic \in Seq(Entries)
  BY LenProperties DEF TopicInv, TopicTypeOK
<1>3. n \in 1 .. Len(topic)
  BY <1>1, <1>2
<1>4. m \in Wire /\ Carries(versions, m, v)
  <2>1. topic[n] \in Entries
    BY <1>2, <1>3, ElementOfSeq
  <2>2. Faithful(writes, versions, topic[n])
    BY <1>3 DEF TopicInv, AllFaithful
  <2>. QED BY <2>1, <2>2 DEF Entries, Faithful
<1>5. EventValue(m) \in ReadValues /\ EventValue(m) \in {v, Nil, RawBytes}
  BY <1>4, ReadIs
<1>. HIDE DEF m
<1>6. /\ received' \in Seq(ReadValues) /\ Len(received') = Len(received) + 1
      /\ received'[n] = EventValue(m) /\ \A i \in 1 .. Len(received) : received'[i] = received[i]
  BY <1>1, <1>2, <1>5, AppendProperties
<1>7. TopicTypeOK'
  BY <1>1, <1>2, <1>6 DEF TopicInv, TopicTypeOK
<1>8. CacheKnown' /\ AllFaithful'
  BY <1>1 DEF TopicInv, CacheKnown, AllFaithful
<1>9. ReadFaithfully'
  <2>1. \A i \in 1 .. Len(received') : i \in 1 .. Len(received) \/ i = n
    BY <1>2, <1>6
  <2>2. \A i \in 1 .. Len(received) : received'[i] \in {writes[topic[i].event], Nil, RawBytes}
    BY <1>6 DEF TopicInv, ReadFaithfully
  <2>3. received'[n] \in {writes[topic[n].event], Nil, RawBytes}
    BY <1>5, <1>6
  <2>. HIDE DEF n
  <2>. QED BY <1>1, <2>1, <2>2, <2>3 DEF ReadFaithfully
<1>. QED BY <1>7, <1>8, <1>9 DEF TopicInv

\* What happens at the registry leaves the versions there are alone.
LEMMA RegistryStepKeeps ==
    ASSUME TopicInv, RegistryInv, SchemaNext, UNCHANGED topicVars PROVE TopicInv'
<1>1. UNCHANGED <<writes, producer, topic, received>>
  BY DEF topicVars
<1>2. /\ versions' = versions \/ \E s \in Schemas : versions' = Append(versions, s)
      /\ schemaCache' = schemaCache \/ schemaCache' = [i \in DOMAIN schemaCache |-> 0]
  <2>1. ASSUME NEW r \in Registrars, Register(r)
        PROVE  (versions' = versions \/ \E s \in Schemas : versions' = Append(versions, s)) /\ schemaCache' = schemaCache
    <3>1. registrar[r] \in Checks
      BY <2>1 DEF Register, RegistryInv, RegistryTypeOK
    <3>2. registrar[r].schema \in Schemas
      BY <3>1 DEF Checks
    <3>3. /\ versions' = versions \/ versions' = Append(versions, registrar[r].schema)
          /\ schemaCache' = schemaCache
      BY <2>1 DEF Register
    <3>. QED BY <3>2, <3>3
  <2>2. ASSUME NEW r \in Registrars, NEW s \in Schemas, CheckSchema(r, s) PROVE UNCHANGED <<versions, schemaCache>>
    BY <2>2 DEF CheckSchema
  <2>3. ASSUME NEW i \in DOMAIN versions, DeleteVersion(i) PROVE UNCHANGED <<versions, schemaCache>>
    BY <2>3 DEF DeleteVersion
  <2>4. CASE cleanupCache
    BY <2>4 DEF cleanupCache, SchemaFrame
  <2>5. CASE ClearCache
    BY <2>5 DEF ClearCache, SchemaFrame
  <2>6. CASE SchemaClock \/ RegistryFails
    BY <2>6 DEF SchemaClock, RegistryFails
  <2>. QED BY <2>1, <2>2, <2>3, <2>4, <2>5, <2>6 DEF SchemaNext
<1>3. versions \in Seq(Schemas) /\ writes \in Seq(Values) /\ Len(versions) \in Nat /\ Len(writes) \in Nat
  BY LenProperties DEF TopicInv, TopicTypeOK
<1>4. /\ versions' \in Seq(Schemas) /\ Len(versions) <= Len(versions') /\ Len(versions') \in Nat
      /\ \A i \in 1 .. Len(versions) : versions'[i] = versions[i]
  <2>1. CASE versions' = versions
    BY <1>3, <2>1
  <2>2. ASSUME NEW s \in Schemas, versions' = Append(versions, s)
        PROVE  /\ versions' \in Seq(Schemas) /\ Len(versions') = Len(versions) + 1
               /\ \A i \in 1 .. Len(versions) : versions'[i] = versions[i]
    BY <1>3, <2>2, AppendProperties
  <2>. QED BY <1>2, <1>3, <2>1, <2>2
<1>5. \A y : Faithful(writes, versions, y) => Faithful(writes, versions', y)
  <2>. SUFFICES ASSUME NEW y, Faithful(writes, versions, y) PROVE Faithful(writes, versions', y)
    OBVIOUS
  <2>1. Len(writes) <= Len(writes)
    BY <1>3
  <2>. QED BY <1>3, <1>4, <2>1, StaysFaithful
<1>6. schemaCache' \in [0 .. MaxVersions -> Nat] /\ \A i \in 0 .. MaxVersions : schemaCache'[i] <= Len(versions')
  <2>1. \A i \in 0 .. MaxVersions : schemaCache[i] \in Nat /\ schemaCache[i] <= Len(versions)
    BY DEF TopicInv, TopicTypeOK, CacheKnown
  <2>2. schemaCache \in [0 .. MaxVersions -> Nat]
    BY DEF TopicInv, TopicTypeOK
  <2>3. CASE schemaCache' = schemaCache
    BY <1>3, <1>4, <2>1, <2>2, <2>3
  <2>4. CASE schemaCache' = [i \in DOMAIN schemaCache |-> 0]
    BY <1>4, <2>2, <2>4
  <2>. QED BY <1>2, <2>3, <2>4
<1>. QED
  BY <1>1, <1>4, <1>5, <1>6 DEF TopicInv, TopicTypeOK, CacheKnown, AllFaithful, ReadFaithfully

\* The invariant holds in every state.
LEMMA TopicInvAlways == TopicSpec => []TopicInv
<1>1. TopicInit => TopicInv
  BY TopicStarts
<1>2. TopicInv /\ RegistryInv /\ [TopicNext]_AllTopicVars => TopicInv'
  <2>. SUFFICES ASSUME TopicInv, RegistryInv, [TopicNext]_AllTopicVars PROVE TopicInv'
    OBVIOUS
  <2>0. /\ schemaCache \in [0 .. MaxVersions -> Nat] /\ \A i \in 0 .. MaxVersions : schemaCache[i] <= Len(versions)
        /\ producer \in Seq(Entries) /\ \A i \in 1 .. Len(producer) : Faithful(writes, versions, producer[i])
    BY DEF TopicInv, TopicTypeOK, CacheKnown, AllFaithful
  <2>1. CASE \E v \in Values : SinkWrite(v)
    BY <2>1, WriteKeeps
  <2>2. CASE Deliver
    <3>1. /\ producer # <<>> /\ producer' = Tail(producer)
          /\ topic' = topic \/ topic' = Append(topic, Head(producer))
          /\ UNCHANGED <<versions, schemaCache, writes, received>>
      BY <2>2 DEF Deliver, schemaVars
    <3>2. /\ Head(producer) \in Entries /\ Faithful(writes, versions, Head(producer))
          /\ Tail(producer) \in Seq(Entries)
          /\ \A i \in 1 .. Len(Tail(producer)) : Faithful(writes, versions, Tail(producer)[i])
      BY <2>0, <3>1, EntriesKeep
    <3>. QED BY <2>0, <3>1, <3>2, MovesKeep
  <2>3. CASE SinkFlush
    BY <2>0, <2>3, MovesKeep DEF SinkFlush, schemaVars
  <2>4. CASE SinkClose
    <3>1. producer' = <<>> /\ UNCHANGED <<versions, schemaCache, writes, received, topic>>
      BY <2>4 DEF SinkClose, schemaVars
    <3>2. <<>> \in Seq(Entries) /\ Len(<<>>) = 0
      BY EmptySeq
    <3>3. \A i \in 1 .. Len(producer') : FALSE
      BY <3>1, <3>2
    <3>. QED BY <2>0, <3>1, <3>2, <3>3, MovesKeep
  <2>5. CASE messageToEvent
    BY <2>5, TopicReadKeeps
  <2>6. CASE SchemaNext /\ UNCHANGED topicVars
    BY <2>6, RegistryStepKeeps
  <2>7. CASE UNCHANGED AllTopicVars
    BY <2>0, <2>7, MovesKeep DEF AllTopicVars, schemaVars, topicVars
  <2>. QED BY <2>1, <2>2, <2>3, <2>4, <2>5, <2>6, <2>7 DEF TopicNext
<1>. QED BY <1>1, <1>2, RegistryInvAlways, PTL DEF TopicSpec, AllTopicVars

\* KafkaSink.Write and messageToEvent: whatever happens to the registry and the caches in between,
\* what is read is the value written, or no value, or the undecoded bytes.
THEOREM AlwaysReadAsWritten == TopicSpec => []ReadAsWritten
<1>1. TopicInv => ReadAsWritten
  <2>. SUFFICES ASSUME TopicInv PROVE ReadAsWritten
    OBVIOUS
  <2>1. DOMAIN received = 1 .. Len(received)
    BY LenProperties DEF TopicInv, TopicTypeOK
  <2>. QED BY <2>1 DEF TopicInv, ReadFaithfully, ReadAsWritten
<1>. QED BY <1>1, TopicInvAlways, PTL
=============================================================================
