---------------------------- MODULE TemporalJoin ----------------------------
(***************************************************************************)
(* pkg/join/temporal_join.go: a table of versions per key, updated by the  *)
(* reference stream, in which an event finds the version that was valid at *)
(* its time.  Every method holds the lock for all it does.                 *)
(***************************************************************************)
EXTENDS Integers, Sublists

CONSTANTS RefTimes,     \* times the versions of one key may start at
          RefRetention, \* StateRetention
          MaxRefUpdates \* bound: updates

ASSUME TemporalAssumption ==
    RefTimes \subseteq Nat \ {0} /\ RefRetention \in Nat /\ MaxRefUpdates \in Nat

VARIABLES
    refVersions,   \* the versions of the key: id, from, to (0 while open)
    updates,    \* history: the start times in the order they arrived
    dropped,    \* history: ids of versions cleanup removed
    refNow

refVars == <<refVersions, updates, dropped, refNow>>

NoVersion == 0
TemporalInit == refVersions = <<>> /\ updates = <<>> /\ dropped = {} /\ refNow = 0

\* The version that came last ends where the new one begins, whichever is later.
UpdateReference(t) ==
    LET n == Len(refVersions)
        closed == [i \in 1 .. n |-> IF i = n THEN [refVersions[i] EXCEPT !.to = t] ELSE refVersions[i]]
    IN  /\ Len(updates) < MaxRefUpdates
        /\ updates' = Append(updates, t)
        /\ refVersions' = Append(closed, [id |-> Len(updates) + 1, from |-> t, to |-> 0])
        /\ UNCHANGED <<dropped, refNow>>

\* The latest is kept, and what was valid within the retention.
RefCleanup(at) ==
    LET n == Len(refVersions)
        Kept(i) == i = n \/ refVersions[i].to = 0 \/ refVersions[i].to > at - RefRetention
        keep == Only([i \in 1 .. n |-> i], {i \in 1 .. n : Kept(i)})
    IN  /\ at >= refNow
        /\ refNow' = at
        /\ Len(keep) < n
        /\ refVersions' = [i \in DOMAIN keep |-> refVersions[keep[i]]]
        /\ dropped' = dropped \cup {refVersions[i].id : i \in {j \in 1 .. n : ~Kept(j)}}
        /\ UNCHANGED updates

TemporalNext ==
    \/ \E t \in RefTimes : UpdateReference(t)
    \/ \E at \in RefTimes : RefCleanup(at)

TemporalSpec == TemporalInit /\ [][TemporalNext]_refVars

-----------------------------------------------------------------------------
(* lookupVersion.                                                          *)

\* The faulty form that still takes a version at the instant it ends.
ValidUntilEnd(v, t) == v.from <= t /\ (v.to = 0 \/ t <= v.to)

Valid(v, t) == v.from <= t /\ (v.to = 0 \/ t < v.to)

\* The binary search, over what lies between two places.
BinarySearch(t) ==
    LET n == Len(refVersions)
        search[p \in (1 .. n + 1) \X (0 .. n)] ==
            LET mid == (p[1] + p[2]) \div 2 IN
            IF p[1] > p[2] THEN NoVersion
            ELSE IF Valid(refVersions[mid], t) THEN mid
            ELSE IF t < refVersions[mid].from THEN search[<<p[1], mid - 1>>]
            ELSE search[<<mid + 1, p[2]>>]
    IN  search[<<1, n>>]

\* The binary search, then the linear one.
lookupVersion(t) ==
    LET hits == {i \in 1 .. Len(refVersions) : Valid(refVersions[i], t)}
        first == IF hits = {} THEN NoVersion ELSE CHOOSE i \in hits : \A j \in hits : i <= j
        i == IF BinarySearch(t) # NoVersion THEN BinarySearch(t) ELSE first
    IN  IF i = NoVersion THEN NoVersion ELSE refVersions[i].id

\* By definition: of the versions that had begun, the one that began last, and of
\* those the one that arrived last.
RightVersion(t) ==
    LET begun == {i \in DOMAIN updates : updates[i] <= t}
    IN  IF begun = {} THEN NoVersion
        ELSE CHOOSE i \in begun : \A j \in begun :
               updates[j] < updates[i] \/ (updates[j] = updates[i] /\ j <= i)

InOrder == \A i \in 1 .. Len(updates) - 1 : updates[i] <= updates[i + 1]

(* While the reference stream is in order, every event time finds the version that was
   valid then, or nothing if that version was too old to be kept: the removal of
   versions in the middle does not lead the binary search to a wrong one. *)
LookupRight ==
    InOrder => \A t \in RefTimes \cup {0} :
        \/ lookupVersion(t) = RightVersion(t)
        \/ lookupVersion(t) = NoVersion /\ RightVersion(t) \in dropped

(* "looks up the version valid at event time", with the updates in any order. *)
LookupRightUnordered ==
    \A t \in RefTimes \cup {0} :
        \/ lookupVersion(t) = RightVersion(t)
        \/ lookupVersion(t) = NoVersion /\ RightVersion(t) \in dropped
=============================================================================
