----------------------------- MODULE MemoryState -----------------------------
(***************************************************************************)
(* pkg/state/memory.go: the in-memory state backend with time-to-live.     *)
(* Every operation is one critical section of m.mu, except that a Get      *)
(* which meets an expired entry leaves the deletion to a goroutine.        *)
(*                                                                         *)
(* A stored value is a member of Values; the operation counters reported   *)
(* by GetMetrics are left out.  Put on a closed backend writes to a nil    *)
(* map and panics: callers are assumed not to.                             *)
(***************************************************************************)
EXTENDS Naturals, FiniteSets

CONSTANTS MemKeys, MemValues,
          MemNil,      \* Get's nil
          TTLEnabled,   \* config.TTLEnabled
          MemTTLs,         \* the ttl arguments callers use; 0 is no expiry
          MaxMemTime,      \* bound: the wall clock stops here
          MaxDeletions    \* bound: deletions of one key under way

ASSUME MemoryStateAssumption ==
    /\ MemNil \notin MemValues
    /\ TTLEnabled \in BOOLEAN
    /\ MemTTLs \subseteq Nat
    /\ MaxMemTime \in Nat
    /\ MaxDeletions \in Nat

Never == 0      \* the zero time.Time: no expiry
Entries == [value : MemValues, expiry : Nat]
NoEntry == [value |-> MemNil, expiry |-> Never]

VARIABLES
    data,          \* m.data
    open,          \* m.data is not nil
    deletions,     \* per key, the goroutines of Get that are about to delete it
    memSaved,      \* the snapshot a caller holds: values without expiry times
    memNow,        \* the wall clock
    memWritten,    \* history: per key, what was put last, with the time it is good for
    memSavedAs,    \* history: written when the snapshot was taken
    memOvertaken   \* history: keys whose last put was removed by a late deletion

stored == <<data, open>>
memHistory == <<memWritten, memSavedAs, memOvertaken>>
memVars == <<stored, deletions, memSaved, memNow, memHistory>>

Empty == [k \in MemKeys |-> NoEntry]
After(expiry) == expiry # Never /\ memNow > expiry

\* What Get answers: an entry past its expiry is no longer there.
MemExpired(k) == TTLEnabled /\ After(data[k].expiry)
MemRead(k) == IF MemExpired(k) THEN MemNil ELSE data[k].value

-----------------------------------------------------------------------------
MemInit ==
    /\ data = Empty
    /\ open = TRUE
    /\ deletions = [k \in MemKeys |-> 0]
    /\ memSaved = [k \in MemKeys |-> MemNil]
    /\ memNow = 1
    /\ memWritten = Empty
    /\ memSavedAs = Empty
    /\ memOvertaken = {}

\* The only Get that changes anything: go m.Delete(key).
MemGetExpired(k) ==
    /\ MemExpired(k)
    /\ deletions[k] < MaxDeletions
    /\ deletions' = [deletions EXCEPT ![k] = @ + 1]
    /\ UNCHANGED <<stored, memSaved, memNow, memHistory>>

MemPutWithTTL(k, v, ttl) ==
    LET entry == [value |-> v, expiry |-> IF TTLEnabled /\ ttl > 0 THEN memNow + ttl ELSE Never]
    IN  /\ open
        /\ data' = [data EXCEPT ![k] = entry]
        /\ memWritten' = [memWritten EXCEPT ![k] = entry]
        /\ memOvertaken' = memOvertaken \ {k}
        /\ UNCHANGED <<open, deletions, memSaved, memNow, memSavedAs>>

MemDelete(k) ==
    /\ data' = [data EXCEPT ![k] = NoEntry]
    /\ memWritten' = [memWritten EXCEPT ![k] = NoEntry]
    /\ memOvertaken' = memOvertaken \ {k}
    /\ UNCHANGED <<open, deletions, memSaved, memNow, memSavedAs>>

\* The goroutine of an earlier Get gets the lock: whatever is there now is removed.
MemLateDelete(k) ==
    /\ deletions[k] > 0
    /\ deletions' = [deletions EXCEPT ![k] = @ - 1]
    /\ data' = [data EXCEPT ![k] = NoEntry]
    /\ memOvertaken' = memOvertaken \cup {k}
    /\ UNCHANGED <<open, memSaved, memNow, memWritten, memSavedAs>>

\* One tick of the cleanup goroutine.
cleanupExpired ==
    /\ TTLEnabled
    /\ data' = [k \in MemKeys |-> IF After(data[k].expiry) THEN NoEntry ELSE data[k]]
    /\ UNCHANGED <<open, deletions, memSaved, memNow, memHistory>>

MemSnapshot ==
    /\ memSaved' = [k \in MemKeys |-> MemRead(k)]
    /\ memSavedAs' = memWritten
    /\ UNCHANGED <<stored, deletions, memNow, memWritten, memOvertaken>>

\* The faulty form that restores on top of what is there.
MemRestoreOver ==
    /\ open' = TRUE
    /\ data' = [k \in MemKeys |-> IF memSaved[k] = MemNil THEN data[k]
                               ELSE [value |-> memSaved[k], expiry |-> Never]]
    /\ memWritten' = [k \in MemKeys |-> IF memSaved[k] = MemNil THEN NoEntry ELSE memSavedAs[k]]
    /\ memOvertaken' = {}
    /\ UNCHANGED <<deletions, memSaved, memNow, memSavedAs>>

\* Everything is replaced; the entries come back without an expiry time.
MemRestore ==
    /\ open' = TRUE
    /\ data' = [k \in MemKeys |-> [value |-> memSaved[k], expiry |-> Never]]
    /\ memWritten' = [k \in MemKeys |-> IF memSaved[k] = MemNil THEN NoEntry ELSE memSavedAs[k]]
    /\ memOvertaken' = {}
    /\ UNCHANGED <<deletions, memSaved, memNow, memSavedAs>>

Clear ==
    /\ open' = TRUE
    /\ data' = Empty
    /\ memWritten' = Empty
    /\ memOvertaken' = {}
    /\ UNCHANGED <<deletions, memSaved, memNow, memSavedAs>>

\* m.data = nil: reads find nothing; the cleanup goroutine goes on.
Close ==
    /\ open' = FALSE
    /\ data' = Empty
    /\ memWritten' = Empty
    /\ memOvertaken' = {}
    /\ UNCHANGED <<deletions, memSaved, memNow, memSavedAs>>

MemTick ==
    /\ memNow < MaxMemTime
    /\ memNow' = memNow + 1
    /\ UNCHANGED <<stored, deletions, memSaved, memHistory>>

MemNext ==
    \/ \E k \in MemKeys : MemGetExpired(k) \/ MemDelete(k) \/ MemLateDelete(k)
    \/ \E k \in MemKeys, v \in MemValues, ttl \in MemTTLs : MemPutWithTTL(k, v, ttl)
    \/ cleanupExpired
    \/ MemSnapshot
    \/ MemRestore
    \/ Clear
    \/ Close
    \/ MemTick

\* The ticker of the cleanup goroutine fires for ever.
MemFairSpec == MemInit /\ [][MemNext]_memVars /\ WF_memVars(cleanupExpired)

MemSpec == MemInit /\ [][MemNext]_memVars

-----------------------------------------------------------------------------
Contents == [MemKeys -> Entries \cup {NoEntry}]

(* Type invariant: the map of the backend, a snapshot and the histories. *)
MemTypeOK ==
    /\ data \in Contents
    /\ open \in BOOLEAN
    /\ deletions \in [MemKeys -> 0..MaxDeletions]
    /\ memSaved \in [MemKeys -> MemValues \cup {MemNil}]
    /\ memNow \in Nat
    /\ memWritten \in Contents
    /\ memSavedAs \in Contents
    /\ memOvertaken \subseteq MemKeys
    /\ ~open => data = Empty

(* Get never answers a value other than the one put last, or brought back by the
   last Restore: nothing deleted, cleared or replaced shows up again, whatever
   deletions are under way. *)
ReadsCurrent == \A k \in MemKeys : MemRead(k) # MemNil => MemRead(k) = memWritten[k].value

Backend == INSTANCE StateBackend
           WITH BackendKeys <- MemKeys, BackendValues <- MemValues, Nil <- MemNil,
                latest <- [k \in MemKeys |-> memWritten[k].value],
                shown <- [k \in MemKeys |-> MemRead(k)],
                copy <- memSaved,
                mortal <- {k \in MemKeys : data[k].expiry # Never \/ deletions[k] > 0}

(* The backend keeps the interface's promise.  In particular a value goes away by itself
   only from a key that holds a value with a time-to-live or for which a deletion is under
   way; cleanup, expiry and late deletions are invisible to the other keys; and Restore
   brings back what the snapshot showed, no more and no less. *)
KeepsPromise == Backend!BackendSpec

(* A value that is still good is missing only if a deletion started for an older,
   expired value of its key has overtaken it. *)
MemLossExplained ==
    \A k \in MemKeys : /\ memWritten[k] # NoEntry
                    /\ ~After(memWritten[k].expiry)
                    /\ k \notin memOvertaken
                    => MemRead(k) = memWritten[k].value

(* An expired entry is removed from the map although nobody reads it again. *)
Reclaimed == \A k \in MemKeys : (After(data[k].expiry)) ~> ~After(data[k].expiry)

(* "Automatic expiration of state entries based on time-to-live": no value is read
   after the time-to-live it was put with. *)
MemExpiresOnTime == \A k \in MemKeys : MemRead(k) # MemNil => ~After(memWritten[k].expiry)

(* "expiration ... based on time-to-live": a value that nobody deletes stays for its
   whole time-to-live. *)
StaysUntilExpiry ==
    \A k \in MemKeys : memWritten[k] # NoEntry /\ ~After(memWritten[k].expiry)
                       => MemRead(k) = memWritten[k].value
=============================================================================
