---------------------------- MODULE RocksDBState ----------------------------
(***************************************************************************)
(* pkg/state/rocksdb.go: the persistent state backend, its eight-byte      *)
(* time-to-live prefix, batches, snapshots and the deletion of expired     *)
(* keys by a goroutine of Get.  Every operation is one critical section of *)
(* r.mu; the lock itself, and Close, are module RocksDBLock.               *)
(*                                                                         *)
(* Of the bytes of a value only its full blocks of 8 are kept, as the      *)
(* numbers they read as: Get and Snapshot look at no others.  Bytes are a  *)
(* value with a number of its first blocks cut off, and where PutWithTTL   *)
(* put one, a prefix before it.  The database is external: a map that a    *)
(* write batch changes atomically and that survives the process.           *)
(***************************************************************************)
EXTENDS Integers, Sequences

CONSTANTS Keys,
          Values,          \* the values that callers put
          Blocks,          \* per value, the numbers its full 8-byte blocks read as
          TTLs,            \* the ttl arguments callers use, in ticks; 0 is none
          TicksPerSecond,  \* expiry times are kept in whole seconds
          MaxTime,         \* bound: the wall clock stops here
          MaxPending,      \* bound: deletions of one key under way
          MaxRestores      \* bound: calls of Restore

ASSUME RocksDBStateAssumption ==
    /\ "nil" \notin Values
    /\ Blocks \in [Values -> Seq(Int)]
    /\ TTLs \subseteq Nat
    /\ TicksPerSecond \in Nat \ {0}
    /\ MaxTime \in Nat
    /\ MaxPending \in Nat
    /\ MaxRestores \in Nat

NoValue == "nil"
Bodies == [of : Values, cut : Nat]
Whole(v) == [of |-> v, cut |-> 0]
NoBody == Whole(NoValue)
NoPrefix == 0                     \* the bytes begin with the value itself
Absent == [prefix |-> NoPrefix, body |-> NoBody]
Stored == [prefix : Nat, body : Bodies]

VARIABLES
    ttlEnabled, \* r.ttlEnabled, from the configuration
    db,         \* the database
    pending,    \* per key, the goroutines of Get that are about to delete it
    saved,      \* the snapshot a caller holds
    now,        \* the wall clock, in ticks
    restores,
    written,    \* history: per key, the value put last and the tick it is good for
    savedAs,    \* history: written when the snapshot was taken
    overtaken,  \* history: keys whose last put was removed by a late deletion
    bare        \* history: keys last written without the prefix that Get expects

history == <<written, savedAs, overtaken, bare>>
vars == <<ttlEnabled, db, pending, saved, now, restores, history>>

Unix(t) == t \div TicksPerSecond

\* len(data) >= 8
Long(s) ==
    s.prefix # NoPrefix \/ (s.body # NoBody /\ s.body.cut < Len(Blocks[s.body.of]))

\* The first 8 bytes, a prefix or not, read as a number.
First(s) == IF s.prefix # NoPrefix THEN s.prefix ELSE Blocks[s.body.of][s.body.cut + 1]

LooksExpired(s) == First(s) > 0 /\ Unix(now) > First(s)

\* The first 8 bytes are removed, whether or not they are a prefix.
Stripped(s) == IF s.prefix # NoPrefix THEN s.body ELSE [s.body EXCEPT !.cut = @ + 1]

Expired(k) == ttlEnabled /\ Long(db[k]) /\ LooksExpired(db[k])

\* What Get and BatchGet answer for a key.
Read(k) ==
    IF Expired(k) THEN NoBody
    ELSE IF ttlEnabled /\ Long(db[k]) THEN Stripped(db[k]) ELSE db[k].body

\* The faulty form that counts the time-to-live from the second that has begun.
EncodedEarly(v, ttl) ==
    [prefix |-> IF ttlEnabled /\ ttl > 0 THEN Unix(now) + Unix(ttl) ELSE NoPrefix,
     body |-> Whole(v)]

\* The faulty form that rounds the expiry time up to the next second.
EncodedLate(v, ttl) ==
    [prefix |-> IF ttlEnabled /\ ttl > 0 THEN Unix(now + ttl) + 1 ELSE NoPrefix,
     body |-> Whole(v)]

\* The faulty form that writes no prefix.
EncodedBare(v, ttl) == [prefix |-> NoPrefix, body |-> Whole(v)]

\* The bytes that PutWithTTL writes.
Encoded(v, ttl) ==
    [prefix |-> IF ttlEnabled /\ ttl > 0 THEN Unix(now + ttl) ELSE NoPrefix,
     body |-> Whole(v)]

Nothing == [value |-> NoValue, until |-> 0]
Written(v, ttl) ==
    [value |-> v, until |-> IF ttlEnabled /\ ttl > 0 THEN now + ttl ELSE 0]
Over(k) == written[k].until # 0 /\ now > written[k].until

-----------------------------------------------------------------------------
Init ==
    /\ ttlEnabled \in BOOLEAN
    /\ db = [k \in Keys |-> Absent]
    /\ pending = [k \in Keys |-> 0]
    /\ saved = [k \in Keys |-> NoBody]
    /\ now = TicksPerSecond
    /\ restores = 0
    /\ written = [k \in Keys |-> Nothing]
    /\ savedAs = [k \in Keys |-> Nothing]
    /\ overtaken = {}
    /\ bare = {}

\* A Get that changes something: go r.Delete(key).
GetExpired(k) ==
    /\ Expired(k)
    /\ pending[k] < MaxPending
    /\ pending' = [pending EXCEPT ![k] = @ + 1]
    /\ UNCHANGED <<ttlEnabled, db, saved, now, restores, history>>

\* BatchGet does the same for every expired key it is asked for.
BatchGet(keys) ==
    /\ \E k \in keys : Expired(k)
    /\ \A k \in keys : Expired(k) => pending[k] < MaxPending
    /\ pending' = [k \in Keys |-> IF k \in keys /\ Expired(k) THEN pending[k] + 1
                                                              ELSE pending[k]]
    /\ UNCHANGED <<ttlEnabled, db, saved, now, restores, history>>

PutWithTTL(k, v, ttl) ==
    /\ db' = [db EXCEPT ![k] = Encoded(v, ttl)]
    /\ written' = [written EXCEPT ![k] = Written(v, ttl)]
    /\ overtaken' = overtaken \ {k}
    /\ bare' = IF ttlEnabled /\ ttl = 0 THEN bare \cup {k} ELSE bare \ {k}
    /\ UNCHANGED <<ttlEnabled, pending, saved, now, restores, savedAs>>

BatchPutWithTTL(keys, v, ttl) ==
    /\ db' = [k \in Keys |-> IF k \in keys THEN Encoded(v, ttl) ELSE db[k]]
    /\ written' = [k \in Keys |-> IF k \in keys THEN Written(v, ttl) ELSE written[k]]
    /\ overtaken' = overtaken \ keys
    /\ bare' = IF ttlEnabled /\ ttl = 0 THEN bare \cup keys ELSE bare \ keys
    /\ UNCHANGED <<ttlEnabled, pending, saved, now, restores, savedAs>>

Delete(k) ==
    /\ db' = [db EXCEPT ![k] = Absent]
    /\ written' = [written EXCEPT ![k] = Nothing]
    /\ overtaken' = overtaken \ {k}
    /\ bare' = bare \ {k}
    /\ UNCHANGED <<ttlEnabled, pending, saved, now, restores, savedAs>>

BatchDelete(keys) ==
    /\ db' = [k \in Keys |-> IF k \in keys THEN Absent ELSE db[k]]
    /\ written' = [k \in Keys |-> IF k \in keys THEN Nothing ELSE written[k]]
    /\ overtaken' = overtaken \ keys
    /\ bare' = bare \ keys
    /\ UNCHANGED <<ttlEnabled, pending, saved, now, restores, savedAs>>

\* The goroutine of an earlier Get gets the lock: whatever is there now is removed.
LateDelete(k) ==
    /\ pending[k] > 0
    /\ pending' = [pending EXCEPT ![k] = @ - 1]
    /\ db' = [db EXCEPT ![k] = Absent]
    /\ overtaken' = overtaken \cup {k}
    /\ UNCHANGED <<ttlEnabled, saved, now, restores, written, savedAs, bare>>

\* Every key, the expired ones too, without its first 8 bytes.  No snapshot is taken
\* after the last Restore that the bound allows.
Snapshot ==
    /\ restores < MaxRestores
    /\ saved' = [k \in Keys |-> IF ttlEnabled /\ Long(db[k]) THEN Stripped(db[k])
                                                             ELSE db[k].body]
    /\ savedAs' = written
    /\ UNCHANGED <<ttlEnabled, db, pending, now, restores, written, overtaken, bare>>

\* One batch of plain puts, without prefixes, over what is there.
Restore ==
    /\ restores < MaxRestores
    /\ restores' = restores + 1
    /\ db' = [k \in Keys |-> IF saved[k] = NoBody THEN db[k]
                             ELSE [prefix |-> NoPrefix, body |-> saved[k]]]
    /\ written' = [k \in Keys |-> IF saved[k] = NoBody THEN written[k] ELSE savedAs[k]]
    /\ overtaken' = {k \in overtaken : saved[k] = NoBody}
    /\ bare' = bare \cup {k \in Keys : ttlEnabled /\ saved[k] # NoBody}
    /\ UNCHANGED <<ttlEnabled, pending, saved, now, savedAs>>

\* The process dies and opens the database again: the deletions are forgotten.
Crash ==
    /\ pending' = [k \in Keys |-> 0]
    /\ UNCHANGED <<ttlEnabled, db, saved, now, restores, history>>

Tick ==
    /\ now < MaxTime
    /\ now' = now + 1
    /\ UNCHANGED <<ttlEnabled, db, pending, saved, restores, history>>

Next ==
    \/ \E k \in Keys : GetExpired(k) \/ Delete(k) \/ LateDelete(k)
    \/ \E keys \in SUBSET Keys : BatchGet(keys) \/ BatchDelete(keys)
    \/ \E k \in Keys, v \in Values, ttl \in TTLs : PutWithTTL(k, v, ttl)
    \/ \E keys \in SUBSET Keys, v \in Values, ttl \in TTLs : BatchPutWithTTL(keys, v, ttl)
    \/ Snapshot
    \/ Restore
    \/ Crash
    \/ Tick

Spec == Init /\ [][Next]_vars

-----------------------------------------------------------------------------
(* Type invariant: the database, a snapshot and the histories. *)
TypeOK ==
    /\ ttlEnabled \in BOOLEAN
    /\ db \in [Keys -> Stored \cup {Absent}]
    /\ pending \in [Keys -> 0..MaxPending]
    /\ saved \in [Keys -> Bodies \cup {NoBody}]
    /\ now \in Nat
    /\ restores \in 0..MaxRestores
    /\ written \in [Keys -> [value : Values, until : Nat] \cup {Nothing}]
    /\ savedAs \in [Keys -> [value : Values, until : Nat] \cup {Nothing}]
    /\ overtaken \subseteq Keys
    /\ bare \subseteq Keys

(* A value comes back as it was put: what Get answers for a key is the value put last,
   with the bytes it was put with, or nothing.  Only a value written without a prefix
   into a backend that expects one, by Restore or a put without a time-to-live, may
   come back without its first bytes. *)
ValueIntact ==
    \A k \in Keys : Read(k) # NoBody => /\ Read(k).of = written[k].value
                                        /\ Read(k).cut = 0 \/ k \in bare

(* A value that is still good is missing only if a deletion started for an earlier Get
   of its key has overtaken it, or it was written without a prefix and Get takes the
   first 8 bytes that are left of the value itself for a time in the past. *)
LossExplained ==
    \A k \in Keys : written[k] # Nothing /\ ~Over(k) /\ Read(k) = NoBody
                       => \/ k \in overtaken
                          \/ /\ k \in bare
                             /\ db[k].prefix = NoPrefix
                             /\ db[k].body.of = written[k].value
                             /\ LooksExpired(db[k])

(* Whole seconds make a key live longer than its time-to-live, by less than a second;
   only Restore, which writes no expiry times, makes it live longer. *)
ExpiresWithinASecond ==
    \A k \in Keys : Read(k) # NoBody /\ Over(k)
                       => now < written[k].until + TicksPerSecond \/ k \in bare

(* "Should be expired": no value is read after its time-to-live. *)
ExpiresOnTime == \A k \in Keys : Read(k) # NoBody => ~Over(k)

(* The other implementation of the interface removes what the snapshot does not hold:
   after Restore every key reads as in the snapshot. *)
RestoreReplaces ==
    [][restores' # restores => \A k \in Keys : (Read(k))' = saved[k]]_vars
=============================================================================
