----------------------------- MODULE StateProofs -----------------------------
(***************************************************************************)
(* The state backends, for every set of keys, values and times-to-live:    *)
(* the in-memory one implements the abstract StateBackend, and the         *)
(* persistent one reads, loses and expires values as its code's eight-byte *)
(* prefix allows.  Then the lock of the persistent one, for every set of   *)
(* threads: it excludes what it has to, and Close never gives it back.     *)
(***************************************************************************)
EXTENDS MemoryState, RocksDBState, RocksDBLock, TLAPS

\* An entry in the map is the one put last, or what a Restore made of it.
DataCurrent == \A k \in MemKeys : data[k].value # MemNil => data[k].value = memWritten[k].value

\* What a snapshot holds of a key is what had been put last when it was taken.
SavedCurrent == \A k \in MemKeys : memSaved[k] # MemNil => memSaved[k] = memSavedAs[k].value

\* A value that is missing was overtaken by a late deletion or has expired.
LossHasReason ==
    \A k \in MemKeys : \/ memWritten[k] = NoEntry
                       \/ k \in memOvertaken
                       \/ After(memWritten[k].expiry)
                       \/ data[k] = memWritten[k]
                       \/ data[k] = [value |-> memWritten[k].value, expiry |-> Never]

\* The inductive invariant.
MemInv == MemTypeOK /\ DataCurrent /\ SavedCurrent /\ LossHasReason

-----------------------------------------------------------------------------
\* An entry is a record with these two fields.
LEMMA EntryFields ==
    ASSUME NEW e \in Entries \cup {NoEntry}
    PROVE  /\ e.value \in MemValues \cup {MemNil}
           /\ e.expiry \in Nat
           /\ e.value = MemNil => e = NoEntry
           /\ e = [value |-> e.value, expiry |-> e.expiry]
BY MemoryStateAssumption DEF Entries, NoEntry, Never

\* The empty backend satisfies the invariant.
LEMMA MemInitially == MemInit => MemInv
<1> SUFFICES ASSUME MemInit PROVE MemInv
    OBVIOUS
<1>1. MemTypeOK
    BY MemoryStateAssumption DEF MemInit, MemTypeOK, Contents, Empty, NoEntry
<1>2. DataCurrent /\ SavedCurrent /\ LossHasReason
    BY DEF MemInit, DataCurrent, SavedCurrent, LossHasReason, Empty, NoEntry
<1> QED BY <1>1, <1>2 DEF MemInv

\* Every step keeps the types.
LEMMA MemTypeStep == MemTypeOK /\ [MemNext]_memVars => MemTypeOK'
<1> SUFFICES ASSUME MemTypeOK, [MemNext]_memVars PROVE MemTypeOK'
    OBVIOUS
<1> USE MemoryStateAssumption
<1>1. ASSUME NEW k \in MemKeys, MemGetExpired(k) PROVE MemTypeOK'
    BY <1>1 DEF MemTypeOK, MemGetExpired, stored, memHistory
<1>2. ASSUME NEW k \in MemKeys, MemDelete(k) PROVE MemTypeOK'
    BY <1>2 DEF MemTypeOK, MemDelete, Contents, Empty
<1>3. ASSUME NEW k \in MemKeys, MemLateDelete(k) PROVE MemTypeOK'
  <2>1. deletions' \in [MemKeys -> 0..MaxDeletions]
      BY <1>3 DEF MemTypeOK, MemLateDelete
  <2>2. data' \in Contents /\ (~open' => data' = Empty)
      BY <1>3 DEF MemTypeOK, MemLateDelete, Contents, Empty
  <2> QED BY <1>3, <2>1, <2>2 DEF MemTypeOK, MemLateDelete
<1>4. ASSUME NEW k \in MemKeys, NEW v \in MemValues, NEW ttl \in MemTTLs, MemPutWithTTL(k, v, ttl)
      PROVE  MemTypeOK'
  <2> DEFINE entry == [value |-> v, expiry |-> IF TTLEnabled /\ ttl > 0 THEN memNow + ttl ELSE Never]
  <2>1. entry \in Entries \cup {NoEntry}
      BY DEF MemTypeOK, Entries, Never
  <2>2. open /\ data' = [data EXCEPT ![k] = entry] /\ memWritten' = [memWritten EXCEPT ![k] = entry]
      BY <1>4 DEF MemPutWithTTL
  <2> HIDE DEF entry
  <2> QED BY <1>4, <2>1, <2>2 DEF MemTypeOK, MemPutWithTTL, Contents
<1>5. CASE cleanupExpired
    BY <1>5 DEF MemTypeOK, cleanupExpired, Contents, Empty, stored, memHistory, After, Never, NoEntry
<1>6. CASE MemSnapshot
  <2>1. \A k \in MemKeys : MemRead(k) \in MemValues \cup {MemNil}
      BY EntryFields DEF MemTypeOK, Contents, MemRead
  <2> QED BY <1>6, <2>1 DEF MemTypeOK, MemSnapshot, stored
<1>7. CASE MemRestore
  <2>1. \A k \in MemKeys : [value |-> memSaved[k], expiry |-> Never] \in Entries \cup {NoEntry}
      BY DEF MemTypeOK, Entries, NoEntry, Never
  <2> QED BY <1>7, <2>1 DEF MemTypeOK, MemRestore, Contents
<1>8. CASE Clear
    BY <1>8 DEF MemTypeOK, Clear, Contents, Empty
<1>9. CASE Close
    BY <1>9 DEF MemTypeOK, Close, Contents, Empty
<1>10. CASE MemTick
    BY <1>10 DEF MemTypeOK, MemTick, stored, memHistory
<1>11. CASE UNCHANGED memVars
    BY <1>11 DEF MemTypeOK, memVars, stored, memHistory
<1> QED BY <1>1, <1>2, <1>3, <1>4, <1>5, <1>6, <1>7, <1>8, <1>9, <1>10, <1>11 DEF MemNext

\* What the map holds stays what was put last.
LEMMA DataStep == MemInv /\ [MemNext]_memVars => DataCurrent'
<1> SUFFICES ASSUME MemInv, [MemNext]_memVars PROVE DataCurrent'
    OBVIOUS
<1> USE MemoryStateAssumption DEF MemInv
<1>1. ASSUME NEW k \in MemKeys, MemGetExpired(k) PROVE DataCurrent'
    BY <1>1 DEF DataCurrent, MemGetExpired, stored, memHistory
<1>2. ASSUME NEW k \in MemKeys, MemDelete(k) PROVE DataCurrent'
    BY <1>2 DEF DataCurrent, MemDelete, MemTypeOK, Contents, NoEntry
<1>3. ASSUME NEW k \in MemKeys, MemLateDelete(k) PROVE DataCurrent'
    BY <1>3 DEF DataCurrent, MemLateDelete, MemTypeOK, Contents, NoEntry
<1>4. ASSUME NEW k \in MemKeys, NEW v \in MemValues, NEW ttl \in MemTTLs, MemPutWithTTL(k, v, ttl)
      PROVE  DataCurrent'
    BY <1>4 DEF DataCurrent, MemPutWithTTL, MemTypeOK, Contents
<1>5. CASE cleanupExpired
    BY <1>5 DEF DataCurrent, cleanupExpired, NoEntry, memHistory
<1>6. CASE MemSnapshot
    BY <1>6 DEF DataCurrent, MemSnapshot, stored
<1>7. CASE MemRestore
    BY <1>7 DEF DataCurrent, SavedCurrent, MemRestore
<1>8. CASE Clear
    BY <1>8 DEF DataCurrent, Clear, Empty
<1>9. CASE Close
    BY <1>9 DEF DataCurrent, Close, Empty
<1>10. CASE MemTick
    BY <1>10 DEF DataCurrent, MemTick, stored, memHistory
<1>11. CASE UNCHANGED memVars
    BY <1>11 DEF DataCurrent, memVars, stored, memHistory
<1> QED BY <1>1, <1>2, <1>3, <1>4, <1>5, <1>6, <1>7, <1>8, <1>9, <1>10, <1>11 DEF MemNext

\* A snapshot stays as it was taken, and is taken of what was put last.
LEMMA SavedStep == MemInv /\ [MemNext]_memVars => SavedCurrent'
<1> SUFFICES ASSUME MemInv, [MemNext]_memVars PROVE SavedCurrent'
    OBVIOUS
<1>1. CASE MemSnapshot
    BY <1>1 DEF MemInv, DataCurrent, SavedCurrent, MemSnapshot, MemRead
<1>2. CASE UNCHANGED <<memSaved, memSavedAs>>
    BY <1>2 DEF MemInv, SavedCurrent
<1>3. MemSnapshot \/ UNCHANGED <<memSaved, memSavedAs>>
    BY DEF MemNext, memVars, memHistory, MemGetExpired, MemDelete, MemLateDelete, MemPutWithTTL,
           cleanupExpired, MemRestore, Clear, Close, MemTick
<1> QED BY <1>1, <1>2, <1>3

\* A value goes away only for one of the reasons.
LEMMA LossStep == MemInv /\ [MemNext]_memVars => LossHasReason'
<1> SUFFICES ASSUME MemInv, [MemNext]_memVars PROVE LossHasReason'
    OBVIOUS
<1> USE MemoryStateAssumption DEF MemInv
<1>1. ASSUME NEW k \in MemKeys, MemGetExpired(k) PROVE LossHasReason'
    BY <1>1 DEF LossHasReason, After, MemGetExpired, stored, memHistory
<1>2. ASSUME NEW k \in MemKeys, MemDelete(k) PROVE LossHasReason'
    BY <1>2 DEF LossHasReason, After, MemDelete, MemTypeOK, Contents
<1>3. ASSUME NEW k \in MemKeys, MemLateDelete(k) PROVE LossHasReason'
    BY <1>3 DEF LossHasReason, After, MemLateDelete, MemTypeOK, Contents
<1>4. ASSUME NEW k \in MemKeys, NEW v \in MemValues, NEW ttl \in MemTTLs, MemPutWithTTL(k, v, ttl)
      PROVE  LossHasReason'
  <2> DEFINE entry == [value |-> v, expiry |-> IF TTLEnabled /\ ttl > 0 THEN memNow + ttl ELSE Never]
  <2>1. /\ data' = [data EXCEPT ![k] = entry] /\ memWritten' = [memWritten EXCEPT ![k] = entry]
        /\ memOvertaken' = memOvertaken \ {k} /\ memNow' = memNow
      BY <1>4 DEF MemPutWithTTL
  <2> HIDE DEF entry
  <2> QED BY <2>1 DEF LossHasReason, After, MemTypeOK, Contents
<1>5. CASE cleanupExpired
  <2> SUFFICES ASSUME NEW k \in MemKeys, memWritten[k] # NoEntry, k \notin memOvertaken,
                      ~After(memWritten[k].expiry)
               PROVE  data'[k] = data[k]
      BY <1>5 DEF LossHasReason, After, cleanupExpired, memHistory
  <2>1. data[k] = memWritten[k] \/ data[k] = [value |-> memWritten[k].value, expiry |-> Never]
      BY DEF LossHasReason
  <2>2. data[k].expiry = memWritten[k].expiry \/ data[k].expiry = Never
      BY <2>1
  <2>3. ~After(data[k].expiry)
      BY <2>2 DEF After
  <2> QED BY <1>5, <2>3 DEF cleanupExpired
<1>6. CASE MemSnapshot
    BY <1>6 DEF LossHasReason, After, MemSnapshot, stored
<1>7. CASE MemRestore
    BY <1>7 DEF LossHasReason, SavedCurrent, MemRestore
<1>8. CASE Clear
    BY <1>8 DEF LossHasReason, Clear, Empty
<1>9. CASE Close
    BY <1>9 DEF LossHasReason, Close, Empty
<1>10. CASE MemTick
  <2>1. \A k \in MemKeys : memWritten[k].expiry \in Nat
      BY EntryFields DEF MemTypeOK, Contents
  <2> QED BY <1>10, <2>1 DEF LossHasReason, After, MemTick, MemTypeOK, stored, memHistory
<1>11. CASE UNCHANGED memVars
    BY <1>11 DEF LossHasReason, After, memVars, stored, memHistory
<1> QED BY <1>1, <1>2, <1>3, <1>4, <1>5, <1>6, <1>7, <1>8, <1>9, <1>10, <1>11 DEF MemNext

\* The invariant is inductive.
LEMMA MemInvAlways == MemSpec => []MemInv
<1>1. MemInv /\ [MemNext]_memVars => MemInv'
    BY MemTypeStep, DataStep, SavedStep, LossStep DEF MemInv
<1> QED BY MemInitially, <1>1, PTL DEF MemSpec

-----------------------------------------------------------------------------
\* What the map, its goroutines and a snapshot hold is always of its type.
THEOREM MemTypeCorrect == MemSpec => []MemTypeOK
<1>1. MemInv => MemTypeOK
    BY DEF MemInv
<1> QED BY MemInvAlways, <1>1, PTL

\* Get (memory.go:71) answers nothing but the value put or restored last, whatever
\* deletions of earlier Gets are under way.
THEOREM AnswersCurrent == MemSpec => []ReadsCurrent
<1>1. MemInv => ReadsCurrent
    BY DEF MemInv, DataCurrent, ReadsCurrent, MemRead
<1> QED BY MemInvAlways, <1>1, PTL

\* A value that is still good is missing only if go m.Delete(key) of an earlier Get
\* (memory.go:86) came after it was put.
THEOREM LossesExplained == MemSpec => []MemLossExplained
<1>1. ASSUME MemInv PROVE MemLossExplained
  <2> SUFFICES ASSUME NEW k \in MemKeys, memWritten[k] # NoEntry, ~After(memWritten[k].expiry),
                      k \notin memOvertaken
               PROVE  MemRead(k) = memWritten[k].value
      BY DEF MemLossExplained
  <2>1. data[k] = memWritten[k] \/ data[k] = [value |-> memWritten[k].value, expiry |-> Never]
      BY <1>1 DEF MemInv, LossHasReason
  <2>2. data[k].value = memWritten[k].value
      BY <2>1
  <2>3. data[k].expiry = memWritten[k].expiry \/ data[k].expiry = Never
      BY <2>1
  <2> QED BY <2>2, <2>3 DEF MemRead, MemExpired, After
<1> QED BY MemInvAlways, <1>1, PTL

-----------------------------------------------------------------------------
\* The empty backend is the abstract one with nothing in it.
LEMMA BackendInitially == MemInit => Backend!BackendInit
BY DEF MemInit, Backend!BackendInit, Backend!Nothing, Empty, NoEntry, MemRead, MemExpired, After, Never

\* The refinement mapping, each abstract variable by its name.
Latest == [k \in MemKeys |-> memWritten[k].value]
Shown == [k \in MemKeys |-> MemRead(k)]
Mortal == {k \in MemKeys : data[k].expiry # Never \/ deletions[k] > 0}

\* Put and PutWithTTL: the new value shows at once; it is mortal with a time-to-live.
LEMMA PutRefines ==
    ASSUME MemInv, NEW k \in MemKeys, NEW v \in MemValues, NEW ttl \in MemTTLs,
           MemPutWithTTL(k, v, ttl)
    PROVE  Backend!Put(k, v) \/ Backend!PutMortal(k, v)
<1> DEFINE expiry == IF TTLEnabled /\ ttl > 0 THEN memNow + ttl ELSE Never
<1> USE MemoryStateAssumption
<1>1. /\ data' = [data EXCEPT ![k] = [value |-> v, expiry |-> expiry]]
      /\ memWritten' = [memWritten EXCEPT ![k] = [value |-> v, expiry |-> expiry]]
      /\ UNCHANGED <<open, deletions, memSaved, memNow, memSavedAs>>
    BY DEF MemPutWithTTL
<1>2. expiry \in Nat /\ ~(memNow > expiry /\ expiry # Never)
    BY DEF MemInv, MemTypeOK, Never
<1> HIDE DEF expiry
<1>3. Latest' = [Latest EXCEPT ![k] = v]
    BY <1>1 DEF Latest, MemInv, MemTypeOK, Contents
<1>4. Shown' = [Shown EXCEPT ![k] = v]
    BY <1>1, <1>2 DEF Shown, MemRead, MemExpired, After, MemInv, MemTypeOK, Contents
<1>5. Mortal' = Mortal \cup {k} \/ Mortal' \in {Mortal, Mortal \ {k}}
    BY <1>1 DEF Mortal, MemInv, MemTypeOK, Contents
<1> QED
    BY <1>1, <1>3, <1>4, <1>5 DEF Backend!Put, Backend!PutMortal, Latest, Shown, Mortal

\* Delete by a caller removes the key.
LEMMA DeleteRefines ==
    ASSUME MemInv, NEW k \in MemKeys, MemDelete(k)
    PROVE  Backend!Remove({k})
<1>1. /\ data' = [data EXCEPT ![k] = NoEntry] /\ memWritten' = [memWritten EXCEPT ![k] = NoEntry]
      /\ UNCHANGED <<open, deletions, memSaved, memNow, memSavedAs>>
    BY DEF MemDelete
<1>2. Latest' = Backend!Without(Latest, {k})
    BY <1>1 DEF Latest, Backend!Without, NoEntry, MemInv, MemTypeOK, Contents
<1>3. Shown' = Backend!Without(Shown, {k})
    BY <1>1 DEF Shown, MemRead, MemExpired, After, Backend!Without, NoEntry, MemInv, MemTypeOK, Contents
<1>4. Mortal' \in SUBSET Mortal
    BY <1>1 DEF Mortal, NoEntry, MemInv, MemTypeOK, Contents
<1> QED BY <1>1, <1>2, <1>3, <1>4 DEF Backend!Remove, Latest, Shown, Mortal

\* The deletion an earlier Get left behind takes the value of a mortal key.
LEMMA LateDeleteRefines ==
    ASSUME MemInv, NEW k \in MemKeys, MemLateDelete(k)
    PROVE  Backend!Lose
<1>1. /\ data' = [data EXCEPT ![k] = NoEntry] /\ deletions' = [deletions EXCEPT ![k] = @ - 1]
      /\ deletions[k] > 0
      /\ UNCHANGED <<open, memSaved, memNow, memWritten, memSavedAs>>
    BY DEF MemLateDelete
<1>2. {k} \in SUBSET Mortal
    BY <1>1 DEF Mortal
<1>3. Shown' = Backend!Without(Shown, {k})
    BY <1>1 DEF Shown, MemRead, MemExpired, After, Backend!Without, NoEntry, MemInv, MemTypeOK, Contents
<1>4. Mortal' \in SUBSET Mortal
    BY <1>1 DEF Mortal, NoEntry, MemInv, MemTypeOK, Contents
<1> QED BY <1>1, <1>2, <1>3, <1>4 DEF Backend!Lose, Shown, Mortal

\* The cleanup goroutine removes what no longer shows.
LEMMA CleanupRefines ==
    ASSUME MemInv, cleanupExpired
    PROVE  Backend!Lose
<1>1. /\ data' = [k \in MemKeys |-> IF After(data[k].expiry) THEN NoEntry ELSE data[k]]
      /\ TTLEnabled /\ UNCHANGED <<deletions, memSaved, memNow, memWritten>>
    BY DEF cleanupExpired, memHistory
<1>2. Shown' = Backend!Without(Shown, {})
    BY <1>1 DEF Shown, MemRead, MemExpired, After, Backend!Without, NoEntry
<1>3. Mortal' \in SUBSET Mortal
    BY <1>1 DEF Mortal, NoEntry
<1> QED BY <1>1, <1>2, <1>3 DEF Backend!Lose, Shown, Mortal

\* When time passes, values with a time-to-live stop showing.
LEMMA TickRefines ==
    ASSUME MemInv, MemTick
    PROVE  Backend!Lose
<1> DEFINE gone == {k \in MemKeys : TTLEnabled /\ data[k].expiry # Never /\ memNow + 1 > data[k].expiry}
<1>1. memNow' = memNow + 1 /\ UNCHANGED <<data, deletions, memSaved, memWritten>>
    BY DEF MemTick, stored, memHistory
<1>2. gone \in SUBSET Mortal
    BY DEF Mortal
<1>3. \A k \in MemKeys : data[k].expiry \in Nat
    BY EntryFields DEF MemInv, MemTypeOK, Contents
<1>4. Shown' = Backend!Without(Shown, gone)
    BY <1>1, <1>3 DEF Shown, MemRead, MemExpired, After, Backend!Without, MemInv, MemTypeOK
<1>5. Mortal' = Mortal
    BY <1>1 DEF Mortal
<1> QED BY <1>1, <1>2, <1>4, <1>5 DEF Backend!Lose, Shown, Mortal

\* Restore brings back what the snapshot showed and nothing else.
LEMMA RestoreRefines ==
    ASSUME MemInv, MemRestore
    PROVE  Backend!Restore
<1>1. /\ data' = [k \in MemKeys |-> [value |-> memSaved[k], expiry |-> Never]]
      /\ memWritten' = [k \in MemKeys |-> IF memSaved[k] = MemNil THEN NoEntry ELSE memSavedAs[k]]
      /\ UNCHANGED <<deletions, memSaved, memNow>>
    BY DEF MemRestore
<1>2. Latest' = memSaved
    BY <1>1 DEF Latest, NoEntry, MemInv, MemTypeOK, SavedCurrent
<1>3. Shown' = memSaved
    BY <1>1 DEF Shown, MemRead, MemExpired, After, MemInv, MemTypeOK
<1>4. Mortal' \in SUBSET Mortal
    BY <1>1 DEF Mortal
<1> QED BY <1>1, <1>2, <1>3, <1>4 DEF Backend!Restore, Latest, Shown, Mortal

\* Clear and Close remove every key.
LEMMA EmptyRefines ==
    ASSUME MemInv, Clear \/ Close
    PROVE  Backend!Remove(MemKeys)
<1>1. data' = Empty /\ memWritten' = Empty /\ UNCHANGED <<deletions, memSaved, memNow>>
    BY DEF Clear, Close
<1>2. Latest' = Backend!Without(Latest, MemKeys)
    BY <1>1 DEF Latest, Backend!Without, Empty, NoEntry
<1>3. Shown' = Backend!Without(Shown, MemKeys)
    BY <1>1 DEF Shown, MemRead, MemExpired, After, Backend!Without, Empty, NoEntry
<1>4. Mortal' \in SUBSET Mortal
    BY <1>1 DEF Mortal, Empty, NoEntry
<1> QED BY <1>1, <1>2, <1>3, <1>4 DEF Backend!Remove, Latest, Shown, Mortal

\* Every step of the backend is an abstract step, or invisible.
LEMMA StepRefines == MemInv /\ [MemNext]_memVars => [Backend!BackendNext]_(Backend!backendVars)
<1> SUFFICES ASSUME MemInv, [MemNext]_memVars PROVE [Backend!BackendNext]_(Backend!backendVars)
    OBVIOUS
<1>1. ASSUME NEW k \in MemKeys, MemGetExpired(k) PROVE UNCHANGED Backend!backendVars
  <2>1. /\ deletions' = [deletions EXCEPT ![k] = @ + 1] /\ data[k].expiry # Never
        /\ UNCHANGED <<data, memSaved, memNow, memWritten>>
      BY <1>1 DEF MemGetExpired, MemExpired, After, stored, memHistory
  <2>2. Mortal' = Mortal
      BY <2>1 DEF Mortal, MemInv, MemTypeOK
  <2>3. Latest' = Latest /\ Shown' = Shown
      BY <2>1 DEF Latest, Shown, MemRead, MemExpired, After
  <2> QED BY <2>1, <2>2, <2>3 DEF Backend!backendVars, Latest, Shown, Mortal
<1>2. ASSUME NEW k \in MemKeys, MemDelete(k) PROVE Backend!BackendNext
    BY <1>2, DeleteRefines DEF Backend!BackendNext
<1>3. ASSUME NEW k \in MemKeys, MemLateDelete(k) PROVE Backend!BackendNext
    BY <1>3, LateDeleteRefines DEF Backend!BackendNext
<1>4. ASSUME NEW k \in MemKeys, NEW v \in MemValues, NEW ttl \in MemTTLs, MemPutWithTTL(k, v, ttl)
      PROVE  Backend!BackendNext
    BY <1>4, PutRefines DEF Backend!BackendNext
<1>5. CASE cleanupExpired
    BY <1>5, CleanupRefines DEF Backend!BackendNext
<1>6. CASE MemSnapshot
  <2>1. memSaved' = Shown /\ UNCHANGED <<data, deletions, memNow, memWritten>>
      BY <1>6 DEF MemSnapshot, Shown, stored
  <2>2. Latest' = Latest /\ Shown' = Shown /\ Mortal' = Mortal
      BY <2>1 DEF Latest, Shown, Mortal, MemRead, MemExpired, After
  <2>3. Backend!Snapshot
      BY <2>1, <2>2 DEF Backend!Snapshot, Latest, Shown, Mortal
  <2> QED BY <2>3 DEF Backend!BackendNext
<1>7. CASE MemRestore
    BY <1>7, RestoreRefines DEF Backend!BackendNext
<1>8. CASE Clear \/ Close
    BY <1>8, EmptyRefines DEF Backend!BackendNext
<1>9. CASE MemTick
    BY <1>9, TickRefines DEF Backend!BackendNext
<1>10. CASE UNCHANGED memVars
    BY <1>10 DEF memVars, stored, memHistory, Backend!backendVars, MemRead, MemExpired, After
<1> QED BY <1>1, <1>2, <1>3, <1>4, <1>5, <1>6, <1>7, <1>8, <1>9, <1>10 DEF MemNext

\* The backend of memory.go keeps what the interface StateBackend promises: it implements
\* the abstract specification under the refinement mapping of Backend.
THEOREM MemoryImplementsBackend == MemSpec => KeepsPromise
BY MemInvAlways, BackendInitially, StepRefines, PTL DEF MemSpec, KeepsPromise, Backend!BackendSpec

-----------------------------------------------------------------------------
\* The whole seconds of a time.
LEMMA UnixNat == ASSUME NEW t \in Nat PROVE Unix(t) \in Nat
BY RocksDBStateAssumption DEF Unix

\* A time lies in the second that Unix names.
LEMMA UnixBounds ==
    ASSUME NEW t \in Nat
    PROVE  TicksPerSecond * Unix(t) <= t /\ t < TicksPerSecond * (Unix(t) + 1)
BY RocksDBStateAssumption DEF Unix

\* Multiplication keeps the order.
LEMMA Scaled ==
    ASSUME NEW n \in Nat, NEW a \in Nat, NEW b \in Nat, a <= b
    PROVE  n * a <= n * b
OBVIOUS

\* A later time lies in the same second or a later one.
LEMMA UnixMonotone ==
    ASSUME NEW s \in Nat, NEW t \in Nat, s <= t
    PROVE  Unix(s) <= Unix(t)
<1> DEFINE a == Unix(s)
           b == Unix(t)
<1>1. a \in Nat /\ b \in Nat /\ TicksPerSecond \in Nat
    BY UnixNat, RocksDBStateAssumption
<1>2. TicksPerSecond * a <= s /\ t < TicksPerSecond * (b + 1)
    BY UnixBounds
<1> SUFFICES ASSUME b + 1 <= a PROVE FALSE
    BY <1>1
<1> HIDE DEF a, b
<1>3. TicksPerSecond * (b + 1) <= TicksPerSecond * a
    BY <1>1, Scaled
<1> QED BY <1>1, <1>2, <1>3

\* A time in the second of another, or before it, is less than a second later.
LEMMA UnixWithin ==
    ASSUME NEW s \in Nat, NEW t \in Nat, Unix(s) <= Unix(t)
    PROVE  s < t + TicksPerSecond
<1> DEFINE a == Unix(s)
           b == Unix(t)
<1>1. a \in Nat /\ b \in Nat /\ TicksPerSecond \in Nat /\ a <= b
    BY UnixNat, RocksDBStateAssumption
<1>2. s < TicksPerSecond * (a + 1) /\ TicksPerSecond * b <= t
    BY UnixBounds
<1> HIDE DEF a, b
<1>3. TicksPerSecond * (a + 1) <= TicksPerSecond * (b + 1)
    BY <1>1, Scaled
<1>4. TicksPerSecond * (b + 1) = TicksPerSecond * b + TicksPerSecond
    BY <1>1
<1> QED BY <1>1, <1>2, <1>3, <1>4

\* After the first second the seconds are not zero, so a prefix is told from none.
LEMMA UnixPositive == ASSUME NEW t \in Nat, TicksPerSecond <= t PROVE Unix(t) # 0
<1>1. Unix(t) \in Nat /\ t < TicksPerSecond * (Unix(t) + 1) /\ TicksPerSecond \in Nat
    BY UnixNat, UnixBounds, RocksDBStateAssumption
<1> QED BY <1>1

-----------------------------------------------------------------------------
\* What the database holds of a key is what was put last under the expiry time it was
\* put with, or bytes without a prefix where the backend expects one.
Held(k) ==
    \/ db[k] = Absent
    \/ /\ ttlEnabled
       /\ written[k].until # 0
       /\ db[k] = [prefix |-> Unix(written[k].until), body |-> Whole(written[k].value)]
    \/ /\ db[k].prefix = NoPrefix
       /\ db[k].body.of = written[k].value
       /\ db[k].body.cut = 0 \/ ttlEnabled
       /\ ttlEnabled => k \in bare
DatabaseHolds == \A k \in Keys : Held(k)

\* A key is absent because it was deleted, or because a late deletion took it.
AbsenceExplained == \A k \in Keys : db[k] = Absent => written[k] = Nothing \/ k \in overtaken

\* A snapshot holds what was put last when it was taken, or what the prefix left of it.
SnapshotHolds ==
    \A k \in Keys : saved[k] # NoBody => /\ saved[k].of = savedAs[k].value
                                         /\ saved[k].cut = 0 \/ ttlEnabled

\* Expiry times lie at least a second after zero, and a backend without TTL has none.
Times ==
    /\ now >= TicksPerSecond
    /\ \A k \in Keys : /\ written[k].until # 0 => ttlEnabled /\ written[k].until >= TicksPerSecond
                       /\ savedAs[k].until # 0 => ttlEnabled /\ savedAs[k].until >= TicksPerSecond

\* The inductive invariant of the persistent backend.
RocksInv ==
    TypeOK /\ DatabaseHolds /\ AbsenceExplained /\ SnapshotHolds /\ Times

-----------------------------------------------------------------------------
\* What the database holds of a key is bytes, or nothing.
LEMMA StoredFields ==
    ASSUME NEW s \in Stored \cup {Absent}
    PROVE  /\ s.prefix \in Nat
           /\ s.body \in Bodies \cup {NoBody}
           /\ s.body = NoBody => s = Absent
           /\ s = [prefix |-> s.prefix, body |-> s.body]
BY RocksDBStateAssumption DEF Stored, Absent, NoPrefix, NoValue, NoBody, Whole, Bodies

\* The history of a put has a value and the time it is good for.
LEMMA WrittenFields ==
    ASSUME NEW w \in [value : Values, until : Nat] \cup {Nothing}
    PROVE  /\ w.value \in Values \cup {NoValue}
           /\ w.until \in Nat
           /\ w.value = NoValue => w = Nothing
BY RocksDBStateAssumption DEF Nothing, NoValue

\* The empty database satisfies the invariant.
LEMMA RocksInitially == Init => RocksInv
<1> SUFFICES ASSUME Init PROVE RocksInv
    OBVIOUS
<1>1. TypeOK
    BY RocksDBStateAssumption DEF Init, TypeOK
<1>2. DatabaseHolds /\ AbsenceExplained /\ SnapshotHolds
    BY DEF Init, DatabaseHolds, Held, AbsenceExplained, SnapshotHolds
<1>3. Times
    BY RocksDBStateAssumption DEF Init, Times, Nothing
<1> QED BY <1>1, <1>2, <1>3 DEF RocksInv

\* The bytes PutWithTTL writes, and the history of it.
LEMMA EncodedHolds ==
    ASSUME RocksInv, NEW v \in Values, NEW ttl \in TTLs
    PROVE  /\ Encoded(v, ttl) \in Stored
           /\ Encoded(v, ttl) # Absent
           /\ Written(v, ttl) \in [value : Values, until : Nat]
           /\ ttlEnabled /\ ttl # 0 =>
                /\ Written(v, ttl).until >= TicksPerSecond
                /\ Encoded(v, ttl) = [prefix |-> Unix(Written(v, ttl).until),
                                      body |-> Whole(Written(v, ttl).value)]
           /\ ~(ttlEnabled /\ ttl # 0) => /\ Written(v, ttl).until = 0
                                          /\ Encoded(v, ttl).prefix = NoPrefix
                                          /\ Encoded(v, ttl).body = Whole(Written(v, ttl).value)
<1>1. now \in Nat /\ now >= TicksPerSecond /\ ttl \in Nat /\ TicksPerSecond \in Nat
    BY RocksDBStateAssumption DEF RocksInv, TypeOK, Times
<1>2. now + ttl \in Nat /\ Unix(now + ttl) \in Nat
    BY <1>1, UnixNat
<1>3. Whole(v) # NoBody /\ Whole(v) \in Bodies
    BY RocksDBStateAssumption DEF NoValue, NoBody, Whole, Bodies
<1>4. CASE ttlEnabled /\ ttl # 0
  <2>1. Encoded(v, ttl) = [prefix |-> Unix(now + ttl), body |-> Whole(v)]
      BY <1>1, <1>4 DEF Encoded
  <2>2. Written(v, ttl) = [value |-> v, until |-> now + ttl]
      BY <1>1, <1>4 DEF Written
  <2> QED BY <1>1, <1>2, <1>3, <1>4, <2>1, <2>2 DEF Stored, Absent
<1>5. CASE ~(ttlEnabled /\ ttl # 0)
  <2>1. Encoded(v, ttl) = [prefix |-> NoPrefix, body |-> Whole(v)]
      BY <1>1, <1>5 DEF Encoded
  <2>2. Written(v, ttl) = [value |-> v, until |-> 0]
      BY <1>1, <1>5 DEF Written
  <2> QED BY <1>3, <1>5, <2>1, <2>2 DEF Stored, Absent, NoPrefix
<1> QED BY <1>4, <1>5

\* A put of one key or of several: every key is written the same way or left alone.
LEMMA PutKeeps ==
    ASSUME RocksInv, NEW keys \in SUBSET Keys, NEW v \in Values, NEW ttl \in TTLs,
           BatchPutWithTTL(keys, v, ttl)
    PROVE  RocksInv'
<1> DEFINE e == Encoded(v, ttl)
           w == Written(v, ttl)
<1>1. /\ db' = [k \in Keys |-> IF k \in keys THEN e ELSE db[k]]
      /\ written' = [k \in Keys |-> IF k \in keys THEN w ELSE written[k]]
      /\ overtaken' = overtaken \ keys
      /\ bare' = IF ttlEnabled /\ ttl = 0 THEN bare \cup keys ELSE bare \ keys
      /\ UNCHANGED <<ttlEnabled, pending, saved, now, restores, savedAs>>
    BY DEF BatchPutWithTTL
<1>2. /\ e \in Stored
      /\ e # Absent
      /\ w \in [value : Values, until : Nat]
      /\ ttlEnabled /\ ttl # 0 => /\ w.until >= TicksPerSecond
                                  /\ e = [prefix |-> Unix(w.until), body |-> Whole(w.value)]
      /\ ~(ttlEnabled /\ ttl # 0) => w.until = 0 /\ e.prefix = NoPrefix /\ e.body = Whole(w.value)
    BY EncodedHolds
<1> HIDE DEF e, w
<1>3. TypeOK'
    BY <1>1, <1>2 DEF RocksInv, TypeOK
<1>4. DatabaseHolds'
  <2> SUFFICES ASSUME NEW k \in Keys PROVE Held(k)'
      BY DEF DatabaseHolds
  <2>1. CASE k \notin keys
    <3>1. db'[k] = db[k] /\ written'[k] = written[k] /\ (k \in bare' <=> k \in bare)
        BY <1>1, <2>1
    <3> QED BY <1>1, <3>1 DEF RocksInv, DatabaseHolds, Held
  <2>2. CASE k \in keys
    <3>1. db'[k] = e /\ written'[k] = w
        BY <1>1, <2>2
    <3>2. TicksPerSecond # 0
        BY RocksDBStateAssumption
    <3>3. ttlEnabled /\ ttl = 0 => k \in bare'
        BY <1>1, <2>2
    <3>4. CASE ttlEnabled /\ ttl # 0
      <4>1. w.until # 0
          BY <1>2, <3>4, RocksDBStateAssumption
      <4> QED BY <1>1, <1>2, <3>1, <3>4, <4>1 DEF Held
    <3>5. CASE ~(ttlEnabled /\ ttl # 0)
        BY <1>1, <1>2, <3>1, <3>3, <3>5 DEF Held, Whole
    <3> QED BY <3>4, <3>5
  <2> QED BY <2>1, <2>2
<1>5. AbsenceExplained'
    BY <1>1, <1>2 DEF RocksInv, AbsenceExplained
<1>6. SnapshotHolds'
    BY <1>1 DEF RocksInv, SnapshotHolds
<1>7. Times'
  <2>1. w.until # 0 => ttlEnabled /\ w.until >= TicksPerSecond
      BY <1>2
  <2> QED BY <1>1, <2>1 DEF RocksInv, Times
<1> QED BY <1>3, <1>4, <1>5, <1>6, <1>7 DEF RocksInv

\* A put of one key is a batch of one.
LEMMA PutIsBatch ==
    ASSUME TypeOK, NEW k \in Keys, NEW v \in Values, NEW ttl \in TTLs, PutWithTTL(k, v, ttl)
    PROVE  BatchPutWithTTL({k}, v, ttl)
BY DEF TypeOK, PutWithTTL, BatchPutWithTTL

\* Deleting keys forgets them and what was known of them.
LEMMA DeleteKeeps ==
    ASSUME RocksInv, NEW keys \in SUBSET Keys, BatchDelete(keys)
    PROVE  RocksInv'
<1>1. /\ db' = [k \in Keys |-> IF k \in keys THEN Absent ELSE db[k]]
      /\ written' = [k \in Keys |-> IF k \in keys THEN Nothing ELSE written[k]]
      /\ overtaken' = overtaken \ keys
      /\ bare' = bare \ keys
      /\ UNCHANGED <<ttlEnabled, pending, saved, now, restores, savedAs>>
    BY DEF BatchDelete
<1>2. TypeOK'
    BY <1>1 DEF RocksInv, TypeOK
<1>3. DatabaseHolds'
    BY <1>1 DEF RocksInv, DatabaseHolds, Held
<1>4. AbsenceExplained' /\ SnapshotHolds'
    BY <1>1 DEF RocksInv, AbsenceExplained, SnapshotHolds
<1>5. Times'
    BY <1>1 DEF RocksInv, Times, Nothing
<1> QED BY <1>2, <1>3, <1>4, <1>5 DEF RocksInv

\* A delete of one key is a batch of one.
LEMMA DeleteIsBatch ==
    ASSUME TypeOK, NEW k \in Keys, Delete(k)
    PROVE  BatchDelete({k})
BY DEF TypeOK, Delete, BatchDelete

\* The deletion of an earlier Get removes what is there and marks the key.
LEMMA LateDeleteKeeps ==
    ASSUME RocksInv, NEW k \in Keys, LateDelete(k)
    PROVE  RocksInv'
<1>1. /\ pending[k] > 0
      /\ pending' = [pending EXCEPT ![k] = @ - 1]
      /\ db' = [db EXCEPT ![k] = Absent]
      /\ overtaken' = overtaken \cup {k}
      /\ UNCHANGED <<ttlEnabled, saved, now, restores, written, savedAs, bare>>
    BY DEF LateDelete
<1>2. TypeOK'
  <2>1. pending' \in [Keys -> 0..MaxPending]
      BY <1>1, RocksDBStateAssumption DEF RocksInv, TypeOK
  <2> QED BY <1>1, <2>1 DEF RocksInv, TypeOK
<1>3. DatabaseHolds'
    BY <1>1 DEF RocksInv, TypeOK, DatabaseHolds, Held
<1>4. AbsenceExplained' /\ SnapshotHolds' /\ Times'
    BY <1>1 DEF RocksInv, TypeOK, AbsenceExplained, SnapshotHolds, Times
<1> QED BY <1>2, <1>3, <1>4 DEF RocksInv

\* A snapshot of what the database holds.
LEMMA SnapshotKeeps ==
    ASSUME RocksInv, Snapshot
    PROVE  RocksInv'
<1> DEFINE left(k) == IF ttlEnabled /\ Long(db[k]) THEN Stripped(db[k]) ELSE db[k].body
<1>1. /\ saved' = [k \in Keys |-> left(k)]
      /\ savedAs' = written
      /\ UNCHANGED <<ttlEnabled, db, pending, now, restores, written, overtaken, bare>>
    BY DEF Snapshot
<1>2. \A k \in Keys : /\ left(k) \in Bodies \cup {NoBody}
                      /\ left(k) # NoBody => left(k).of = written[k].value
                      /\ left(k) # NoBody => left(k).cut = 0 \/ ttlEnabled
  <2> TAKE k \in Keys
  <2>1. /\ db[k] \in Stored \cup {Absent}
        /\ db[k].body \in Bodies \cup {NoBody}
        /\ db[k].body = NoBody => db[k] = Absent
        /\ Held(k)
      BY StoredFields DEF RocksInv, TypeOK, DatabaseHolds
  <2>2. CASE db[k] = Absent
    <3>1. ~Long(db[k]) /\ db[k].body = NoBody
        BY <2>2 DEF Long, Absent
    <3> QED BY <3>1
  <2>3. CASE db[k] # Absent
    <3>1. /\ db[k].body \in Bodies
          /\ db[k].body.of = written[k].value
          /\ db[k].body.cut = 0 \/ ttlEnabled
        BY <2>1, <2>3 DEF Held, Whole
    <3>2. CASE left(k) = db[k].body
      <4> HIDE DEF left
      <4> QED BY <3>1, <3>2
    <3>3. CASE ttlEnabled /\ left(k) = [db[k].body EXCEPT !.cut = @ + 1]
      <4> HIDE DEF left
      <4> QED BY <3>1, <3>3 DEF Bodies
    <3> QED BY <3>2, <3>3 DEF Stripped
  <2> QED BY <2>2, <2>3
<1> HIDE DEF left
<1>3. TypeOK'
    BY <1>1, <1>2 DEF RocksInv, TypeOK
<1>4. SnapshotHolds'
  <2> SUFFICES ASSUME NEW k \in Keys, saved'[k] # NoBody
               PROVE  saved'[k].of = savedAs'[k].value /\ (saved'[k].cut = 0 \/ ttlEnabled')
      BY DEF SnapshotHolds
  <2>1. saved'[k] = left(k) /\ savedAs'[k] = written[k] /\ (ttlEnabled' <=> ttlEnabled)
      BY <1>1
  <2> QED BY <1>2, <2>1
<1>5. DatabaseHolds' /\ AbsenceExplained'
    BY <1>1 DEF RocksInv, DatabaseHolds, Held, AbsenceExplained
<1>6. Times'
    BY <1>1 DEF RocksInv, Times
<1> QED BY <1>3, <1>4, <1>5, <1>6 DEF RocksInv

\* Restore writes what the snapshot holds without prefixes.
LEMMA RestoreKeeps ==
    ASSUME RocksInv, Restore
    PROVE  RocksInv'
<1>1. /\ restores < MaxRestores
      /\ restores' = restores + 1
      /\ db' = [k \in Keys |-> IF saved[k] = NoBody THEN db[k]
                               ELSE [prefix |-> NoPrefix, body |-> saved[k]]]
      /\ written' = [k \in Keys |-> IF saved[k] = NoBody THEN written[k] ELSE savedAs[k]]
      /\ overtaken' = {k \in overtaken : saved[k] = NoBody}
      /\ bare' = bare \cup {k \in Keys : ttlEnabled /\ saved[k] # NoBody}
      /\ UNCHANGED <<ttlEnabled, pending, saved, now, savedAs>>
    BY DEF Restore
<1>2. TypeOK'
  <2>1. \A k \in Keys : saved[k] # NoBody => [prefix |-> NoPrefix, body |-> saved[k]] \in Stored
      BY DEF RocksInv, TypeOK, Stored, NoPrefix
  <2>2. db' \in [Keys -> Stored \cup {Absent}]
      BY <1>1, <2>1 DEF RocksInv, TypeOK
  <2>3. restores' \in 0..MaxRestores
      BY <1>1, RocksDBStateAssumption DEF RocksInv, TypeOK
  <2> QED BY <1>1, <2>2, <2>3 DEF RocksInv, TypeOK
<1>3. DatabaseHolds'
  <2> SUFFICES ASSUME NEW k \in Keys PROVE Held(k)'
      BY DEF DatabaseHolds
  <2>1. CASE saved[k] = NoBody
    <3>1. db'[k] = db[k] /\ written'[k] = written[k] /\ (k \in bare => k \in bare')
        BY <1>1, <2>1
    <3> QED BY <1>1, <3>1 DEF RocksInv, DatabaseHolds, Held
  <2>2. CASE saved[k] # NoBody
    <3>1. /\ db'[k] = [prefix |-> NoPrefix, body |-> saved[k]]
          /\ written'[k] = savedAs[k]
          /\ ttlEnabled => k \in bare'
        BY <1>1, <2>2
    <3> QED BY <1>1, <2>2, <3>1 DEF RocksInv, SnapshotHolds, Held
  <2> QED BY <2>1, <2>2
<1>4. AbsenceExplained'
    BY <1>1 DEF RocksInv, AbsenceExplained, Absent
<1>5. SnapshotHolds' /\ Times'
    BY <1>1 DEF RocksInv, SnapshotHolds, Times
<1> QED BY <1>2, <1>3, <1>4, <1>5 DEF RocksInv

\* Steps that leave the database, the snapshot and the histories alone.
LEMMA IdleKeeps ==
    ASSUME RocksInv, UNCHANGED <<ttlEnabled, db, saved, restores, history>>,
           pending' \in [Keys -> 0..MaxPending], now' \in Nat, now' >= now
    PROVE  RocksInv'
<1>1. TypeOK'
    BY DEF RocksInv, TypeOK, history
<1>2. DatabaseHolds' /\ AbsenceExplained' /\ SnapshotHolds'
    BY DEF RocksInv, DatabaseHolds, Held, AbsenceExplained, SnapshotHolds, history
<1>3. Times'
    BY RocksDBStateAssumption DEF RocksInv, TypeOK, Times, history
<1> QED BY <1>1, <1>2, <1>3 DEF RocksInv

\* The invariant is inductive.
LEMMA RocksInvAlways == Spec => []RocksInv
<1>1. ASSUME RocksInv, [Next]_vars PROVE RocksInv'
  <2> USE <1>1
  <2>0. TypeOK /\ now \in Nat /\ pending \in [Keys -> 0..MaxPending] /\ MaxPending \in Nat
      BY RocksDBStateAssumption DEF RocksInv, TypeOK
  <2>1. ASSUME NEW k \in Keys, GetExpired(k) PROVE RocksInv'
    <3>1. pending' \in [Keys -> 0..MaxPending]
        BY <2>0, <2>1 DEF GetExpired
    <3> QED BY <2>0, <2>1, <3>1, IdleKeeps DEF GetExpired
  <2>2. ASSUME NEW k \in Keys, Delete(k) PROVE RocksInv'
      BY <2>0, <2>2, DeleteIsBatch, DeleteKeeps
  <2>3. ASSUME NEW k \in Keys, LateDelete(k) PROVE RocksInv'
      BY <2>3, LateDeleteKeeps
  <2>4. ASSUME NEW keys \in SUBSET Keys, BatchGet(keys) PROVE RocksInv'
    <3>1. pending' \in [Keys -> 0..MaxPending]
        BY <2>0, <2>4 DEF BatchGet
    <3> QED BY <2>0, <2>4, <3>1, IdleKeeps DEF BatchGet
  <2>5. ASSUME NEW keys \in SUBSET Keys, BatchDelete(keys) PROVE RocksInv'
      BY <2>5, DeleteKeeps
  <2>6. ASSUME NEW k \in Keys, NEW v \in Values, NEW ttl \in TTLs, PutWithTTL(k, v, ttl)
        PROVE  RocksInv'
      BY <2>0, <2>6, PutIsBatch, PutKeeps
  <2>7. ASSUME NEW keys \in SUBSET Keys, NEW v \in Values, NEW ttl \in TTLs,
               BatchPutWithTTL(keys, v, ttl)
        PROVE  RocksInv'
      BY <2>7, PutKeeps
  <2>8. CASE Snapshot
      BY <2>8, SnapshotKeeps
  <2>9. CASE Restore
      BY <2>9, RestoreKeeps
  <2>10. CASE Crash
    <3>1. pending' \in [Keys -> 0..MaxPending]
        BY <2>0, <2>10 DEF Crash
    <3> QED BY <2>0, <2>10, <3>1, IdleKeeps DEF Crash
  <2>11. CASE Tick
      BY <2>0, <2>11, IdleKeeps DEF Tick
  <2>12. CASE UNCHANGED vars
      BY <2>0, <2>12, IdleKeeps DEF vars
  <2> QED
      BY <2>1, <2>2, <2>3, <2>4, <2>5, <2>6, <2>7, <2>8, <2>9, <2>10, <2>11, <2>12 DEF Next
<1> QED BY RocksInitially, <1>1, PTL DEF Spec

\* What the database holds, with or without the prefix, is always of its type.
THEOREM RocksTypeCorrect == Spec => []TypeOK
<1>1. RocksInv => TypeOK
    BY DEF RocksInv
<1> QED BY RocksInvAlways, <1>1, PTL

\* How a key reads, by what the database holds of it.
LEMMA ReadCases ==
    ASSUME RocksInv, NEW k \in Keys
    PROVE  \/ db[k] = Absent /\ Read(k) = NoBody
           \/ /\ ttlEnabled /\ written[k].until # 0 /\ written[k].value # NoValue
              /\ Read(k) = IF Unix(now) > Unix(written[k].until) THEN NoBody
                                                                ELSE Whole(written[k].value)
           \/ /\ ttlEnabled /\ k \in bare
              /\ db[k] # Absent /\ db[k].prefix = NoPrefix /\ db[k].body.of = written[k].value
              /\ \/ Read(k) = NoBody /\ LooksExpired(db[k])
                 \/ Read(k) # NoBody /\ Read(k).of = written[k].value
           \/ ~ttlEnabled /\ Read(k) = Whole(written[k].value) /\ Read(k) # NoBody
<1>1. /\ db[k] \in Stored \cup {Absent} /\ written[k] \in [value : Values, until : Nat] \cup {Nothing}
      /\ Held(k) /\ ttlEnabled \in BOOLEAN
      /\ written[k].until # 0 => written[k].until >= TicksPerSecond
    BY DEF RocksInv, TypeOK, DatabaseHolds, Times
<1>2. CASE db[k] = Absent
    BY <1>2 DEF Read, Expired, Long, Absent
<1>3. CASE /\ ttlEnabled /\ written[k].until # 0
           /\ db[k] = [prefix |-> Unix(written[k].until), body |-> Whole(written[k].value)]
  <2>1. written[k].until \in Nat /\ written[k].value # NoValue
      BY <1>1, <1>3, WrittenFields DEF Nothing
  <2>2. Unix(written[k].until) # 0 /\ Unix(written[k].until) \in Nat
      BY <1>1, <1>3, <2>1, UnixPositive, UnixNat
  <2>3. Long(db[k]) /\ (LooksExpired(db[k]) <=> Unix(now) > Unix(written[k].until))
        /\ Stripped(db[k]) = Whole(written[k].value)
      BY <1>3, <2>2 DEF Long, LooksExpired, First, Stripped, NoPrefix
  <2> QED BY <1>3, <2>1, <2>3 DEF Read, Expired
<1>4. CASE /\ db[k] # Absent
           /\ db[k].prefix = NoPrefix
           /\ db[k].body.of = written[k].value
           /\ db[k].body.cut = 0 \/ ttlEnabled
           /\ ttlEnabled => k \in bare
  <2>1. db[k].body # NoBody /\ db[k].body \in Bodies
      BY <1>1, <1>4, StoredFields
  <2>2. CASE ttlEnabled
    <3>1. CASE Long(db[k])
      <4>1. Stripped(db[k]) = [db[k].body EXCEPT !.cut = @ + 1]
          BY <1>4 DEF Stripped
      <4>2. Stripped(db[k]) \in Bodies /\ Stripped(db[k]).of = written[k].value
          BY <1>4, <2>1, <4>1 DEF Bodies
      <4>3. Stripped(db[k]) # NoBody
          BY <4>2, RocksDBStateAssumption DEF Bodies, NoBody, NoValue, Whole
      <4> QED BY <1>4, <2>2, <3>1, <4>2, <4>3 DEF Read, Expired
    <3>2. CASE ~Long(db[k])
        BY <1>4, <2>1, <2>2, <3>2 DEF Read, Expired
    <3> QED BY <3>1, <3>2
  <2>3. CASE ~ttlEnabled
    <3>1. db[k].body = Whole(written[k].value)
        BY <1>4, <2>1, <2>3 DEF Bodies, Whole
    <3> QED BY <2>1, <2>3, <3>1 DEF Read, Expired
  <2> QED BY <2>2, <2>3
<1> QED BY <1>1, <1>2, <1>3, <1>4 DEF Held

\* Get (rocksdb.go) answers the value put last, with all its bytes, or nothing: bytes
\* are lost only where a value was written without the prefix that Get removes.
THEOREM ValuesIntact == Spec => []ValueIntact
<1>1. RocksInv => ValueIntact
    BY ReadCases DEF ValueIntact, Whole
<1> QED BY RocksInvAlways, <1>1, PTL

\* A value that is still good is missing only after a late deletion, or where Get (rocksdb.go)
\* takes the first 8 bytes left of a value without a prefix for a time in the past.
THEOREM RocksLossExplained == Spec => []LossExplained
<1>1. ASSUME RocksInv PROVE LossExplained
  <2> SUFFICES ASSUME NEW k \in Keys, written[k] # Nothing, ~Over(k), Read(k) = NoBody,
                      k \notin overtaken
               PROVE  /\ k \in bare /\ db[k].prefix = NoPrefix
                      /\ db[k].body.of = written[k].value /\ LooksExpired(db[k])
      BY DEF LossExplained
  <2>1. db[k] # Absent
      BY <1>1 DEF RocksInv, AbsenceExplained
  <2>2. written[k].until \in Nat /\ now \in Nat
      BY <1>1, WrittenFields DEF RocksInv, TypeOK
  <2>3. ~(written[k].until # 0 /\ Unix(now) > Unix(written[k].until))
    <3>1. CASE written[k].until # 0
      <4>1. now <= written[k].until
          BY <2>2, <3>1 DEF Over
      <4>2. Unix(now) <= Unix(written[k].until)
          BY <2>2, <4>1, UnixMonotone
      <4> QED BY <2>2, <4>2, UnixNat
    <3> QED BY <3>1
  <2> QED BY <1>1, <2>1, <2>3, ReadCases DEF Whole, NoBody
<1> QED BY RocksInvAlways, <1>1, PTL

\* Rounding expiry times to whole seconds keeps a value for less than a second too long;
\* only a value without an expiry time of its own stays longer.
THEOREM ExpiryWithinASecond == Spec => []ExpiresWithinASecond
<1>1. ASSUME RocksInv PROVE ExpiresWithinASecond
  <2> SUFFICES ASSUME NEW k \in Keys, Read(k) # NoBody, Over(k), k \notin bare
               PROVE  now < written[k].until + TicksPerSecond
      BY DEF ExpiresWithinASecond
  <2>1. written[k].until \in Nat /\ now \in Nat
      BY <1>1, WrittenFields DEF RocksInv, TypeOK
  <2>2. ttlEnabled
      BY <1>1 DEF RocksInv, Times, Over
  <2>3. ~(Unix(now) > Unix(written[k].until))
      BY <1>1, <2>2, ReadCases
  <2>4. Unix(now) <= Unix(written[k].until)
      BY <2>1, <2>3, UnixNat
  <2> QED BY <2>1, <2>4, UnixWithin
<1> QED BY RocksInvAlways, <1>1, PTL

-----------------------------------------------------------------------------
(***************************************************************************)
(* The lock of the RocksDB backend.  Which lock operations of its script a *)
(* thread has done tells what it holds.  The invariant rests on one fact   *)
(* that is not about the lock: the read lock that Close asks for while it  *)
(* has the write lock is never granted.                                    *)
(***************************************************************************)

\* The methods that take the read lock, and those that take the write lock.
ReadMethods == {"Get", "Metrics"}
WriteMethods == {"Put", "Close"}

\* What the constants stand for: methods of the backend, and a value that is no thread.
LockConstants == Methods \subseteq ReadMethods \cup WriteMethods /\ NoThread \notin Threads

\* A thread between its Lock and its Unlock, and one between its RLock and its RUnlock.
Writing(t) == method[t] \in WriteMethods /\ step[t] = 1
Reading(t) == method[t] \in ReadMethods /\ step[t] = 1

\* Types.
LockTypeOK ==
    /\ method \in [Threads -> ReadMethods \cup WriteMethods \cup {"none"}]
    /\ step \in [Threads -> 0..2]
    /\ writer \in Threads \cup {NoThread}
    /\ readers \in [Threads -> 0..1]
    /\ parked \subseteq Threads

\* Read locks are held by readers, and the write lock by a thread that writes or is about to.
LocksHeld ==
    \A t \in Threads : /\ readers[t] = 1 <=> Reading(t)
                       /\ writer = t => method[t] \in WriteMethods /\ step[t] \in {0, 1}
                       /\ Writing(t) => writer = t

\* The lock keeps readers out while a thread writes.
WriterAlone == \A t \in Threads : Writing(t) => \A u \in Threads : readers[u] = 0

\* A reader that waits has still to get its lock, and there is a writer it waits for.
ParkedWait ==
    /\ \A t \in parked : \/ method[t] \in ReadMethods /\ step[t] = 0
                         \/ method[t] = "Close" /\ step[t] = 1
    /\ parked # {} => writer # NoThread

\* Close is before its Lock or holds it, never further.
CloseHeld == \A t \in Threads : method[t] = "Close" => step[t] \in {0, 1}

\* The inductive invariant of the lock.
LockInv == LockTypeOK /\ LocksHeld /\ WriterAlone /\ ParkedWait /\ CloseHeld /\ dbOpen = TRUE

\* The lock operation a thread is at, read off its method and how far it is.
LEMMA Operations ==
    ASSUME LockInv, NEW t \in Threads
    PROVE  /\ At(t, "Lock") => method[t] \in WriteMethods /\ step[t] = 0
           /\ At(t, "Unlock") => method[t] = "Put" /\ step[t] = 1
           /\ At(t, "RLock") => \/ method[t] \in ReadMethods /\ step[t] = 0
                                \/ method[t] = "Close" /\ step[t] = 1
           /\ At(t, "RUnlock") => method[t] \in ReadMethods /\ step[t] = 1
<1>0. /\ method[t] \in ReadMethods \cup WriteMethods \cup {"none"}
      /\ step[t] \in 0..2
      /\ method[t] = "Close" => step[t] \in {0, 1}
    BY DEF LockInv, LockTypeOK, CloseHeld
<1>1. CASE method[t] = "none"
    BY <1>1 DEF At, Inside
<1>2. CASE method[t] \in ReadMethods
  <2>1. Script(method[t]) = <<"RLock", "RUnlock">>
      BY <1>2 DEF Script, ReadMethods
  <2> QED
      BY <1>0, <1>2, <2>1 DEF At
<1>3. CASE method[t] = "Put"
  <2>1. Script(method[t]) = <<"Lock", "Unlock">>
      BY <1>3 DEF Script
  <2> QED
      BY <1>0, <1>3, <2>1 DEF At, WriteMethods
<1>4. CASE method[t] = "Close"
  <2>1. Script(method[t]) = <<"Lock", "RLock", "RUnlock", "Unlock">>
      BY <1>4 DEF Script
  <2> QED
      BY <1>0, <1>4, <2>1 DEF At, WriteMethods
<1> QED
    BY <1>0, <1>1, <1>2, <1>3, <1>4 DEF ReadMethods, WriteMethods

\* A method returns when it has given back what it took; Close does not.
LEMMA Returns ==
    ASSUME LockInv, NEW t \in Threads, Return(t)
    PROVE  step[t] = 2 /\ method[t] # "Close"
<1>0. /\ method[t] \in ReadMethods \cup WriteMethods
      /\ step[t] \in 0..2
      /\ method[t] = "Close" => step[t] \in {0, 1}
    BY DEF LockInv, LockTypeOK, CloseHeld, Return, Inside
<1>2. CASE method[t] \in ReadMethods
    BY <1>0, <1>2 DEF Script, ReadMethods, Return
<1>3. CASE method[t] = "Put"
    BY <1>0, <1>3 DEF Script, Return
<1>4. CASE method[t] = "Close"
  <2>1. Len(Script(method[t])) = 4
      BY <1>4 DEF Script
  <2> QED
      BY <1>0, <1>4, <2>1 DEF Return
<1> QED
    BY <1>0, <1>2, <1>3, <1>4 DEF ReadMethods, WriteMethods

\* Every step keeps the invariant of the lock.
LEMMA LockStep ==
    ASSUME LockConstants, LockInv, [LockNext]_lockVars
    PROVE  LockInv'
<1> USE DEF LockInv, LockTypeOK, LocksHeld, WriterAlone, ParkedWait, CloseHeld, Writing, Reading
<1>c. /\ Methods \subseteq ReadMethods \cup WriteMethods /\ NoThread \notin Threads
      /\ ReadMethods \cap WriteMethods = {} /\ "none" \notin ReadMethods \cup WriteMethods
      /\ "Close" \in WriteMethods /\ "Put" \in WriteMethods
    BY DEF LockConstants, ReadMethods, WriteMethods
<1>1. ASSUME NEW t \in Threads, NEW m \in Methods, Call(t, m) PROVE LockInv'
    BY <1>c, <1>1 DEF Call, Inside
<1>2. ASSUME NEW t \in Threads, LockClaim(t) PROVE LockInv'
    BY <1>c, <1>2, Operations DEF LockClaim
<1>3. ASSUME NEW t \in Threads, Lock(t) PROVE LockInv'
    BY <1>c, <1>3, Operations DEF Lock, Advance
<1>4. ASSUME NEW t \in Threads, RLock(t) PROVE LockInv'
    BY <1>c, <1>4, Operations DEF RLock, Advance
<1>5. ASSUME NEW t \in Threads, RLockPark(t) PROVE LockInv'
    BY <1>c, <1>5, Operations DEF RLockPark
<1>6. ASSUME NEW t \in Threads, RUnlock(t) PROVE LockInv'
    BY <1>c, <1>6, Operations DEF RUnlock, Advance
<1>7. ASSUME NEW t \in Threads, Unlock(t) PROVE LockInv'
  <2>1. /\ method[t] = "Put" /\ step[t] = 1 /\ writer = t /\ t \notin parked
        /\ \A u \in Threads : readers[u] = 0
        /\ \A u \in parked : u \in Threads /\ method[u] \in ReadMethods /\ step[u] = 0
      BY <1>c, <1>7, Operations DEF Unlock
  <2>2. /\ method' = method /\ writer' = NoThread /\ parked' = {} /\ dbOpen' = TRUE
        /\ \A u \in Threads : readers'[u] = IF u \in parked THEN 1 ELSE 0
        /\ \A u \in Threads : step'[u] = IF u = t THEN 2 ELSE IF u \in parked THEN 1 ELSE step[u]
    <3>1. method' = method /\ writer' = NoThread /\ parked' = {}
        BY <1>7 DEF Unlock
    <3>2. dbOpen' = TRUE
      <4>1. dbOpen' = (dbOpen /\ method[t] # "Close") /\ dbOpen = TRUE
          BY <1>7 DEF Unlock
      <4>2. method[t] # "Close"
          BY <2>1
      <4> QED
          BY <4>1, <4>2
    <3>3. \A u \in Threads : readers'[u] = IF u \in parked THEN readers[u] + 1 ELSE readers[u]
        BY <1>7 DEF Unlock
    <3>4. \A u \in Threads : step'[u] = IF u \in parked \cup {t} THEN step[u] + 1 ELSE step[u]
        BY <1>7 DEF Unlock
    <3>5. \A u \in Threads : readers'[u] = IF u \in parked THEN 1 ELSE 0
        BY <2>1, <3>3
    <3>6. \A u \in Threads : step'[u] = IF u = t THEN 2 ELSE IF u \in parked THEN 1 ELSE step[u]
        BY <2>1, <3>4
    <3> QED
        BY <3>1, <3>2, <3>5, <3>6
  <2>3. LockTypeOK'
      BY <1>7, <2>1, <2>2 DEF Unlock
  <2>4. LocksHeld'
      BY <1>c, <2>1, <2>2
  <2>5. WriterAlone' /\ ParkedWait' /\ CloseHeld'
      BY <1>c, <2>1, <2>2
  <2> QED
      BY <2>2, <2>3, <2>4, <2>5
<1>8. ASSUME NEW t \in Threads, Return(t) PROVE LockInv'
  <2>1. step[t] = 2 /\ method[t] \in ReadMethods \cup WriteMethods /\ t \notin parked /\ writer # t
        /\ readers[t] = 0
    <3>1. step[t] = 2
        BY <1>8, Returns
    <3>2. method[t] \in ReadMethods \cup WriteMethods
        BY <1>8 DEF Return, Inside
    <3> QED
        BY <1>c, <3>1, <3>2
  <2>2. /\ method' = [method EXCEPT ![t] = "none"] /\ step' = [step EXCEPT ![t] = 0]
        /\ UNCHANGED <<writer, readers, parked, dbOpen>>
      BY <1>8 DEF Return
  <2>3. LockTypeOK'
      BY <2>2
  <2>4. LocksHeld'
      BY <1>c, <2>1, <2>2
  <2>5. WriterAlone' /\ ParkedWait' /\ CloseHeld'
      BY <1>c, <2>1, <2>2
  <2> QED
      BY <2>2, <2>3, <2>4, <2>5
<1>9. CASE UNCHANGED lockVars
    BY <1>9 DEF lockVars
<1> QED
    BY <1>1, <1>2, <1>3, <1>4, <1>5, <1>6, <1>7, <1>8, <1>9 DEF LockNext, Run

\* The invariant of the lock, always.
LEMMA LockInvAlways == ASSUME LockConstants PROVE LockSpec => []LockInv
<1>1. LockInit => LockInv
    BY DEF LockConstants, LockInit, LockInv, LockTypeOK, LocksHeld, WriterAlone, ParkedWait, CloseHeld,
           Writing, Reading, ReadMethods, WriteMethods
<1>2. LockInv /\ [LockNext]_lockVars => LockInv'
    BY LockStep
<1> QED
    BY <1>1, <1>2, PTL DEF LockSpec

(* r.mu excludes what it is there to exclude: while a Put is between its Lock and its Unlock no
   other method is between its own. *)
THEOREM WritersExclude ==
    ASSUME LockConstants
    PROVE  LockSpec => [](\A t, u \in Threads : Writing(t) /\ t # u => ~Writing(u) /\ ~Reading(u))
<1>1. LockInv => \A t, u \in Threads : Writing(t) /\ t # u => ~Writing(u) /\ ~Reading(u)
    BY DEF LockInv, LocksHeld, WriterAlone
<1> QED
    BY LockInvAlways, <1>1, PTL

(* Close, with any number of threads and whatever they call: it never gets past the read lock
   it asks for itself, so the database is never closed, and the write lock it has taken is never
   given back, so no later call of any method gets in. *)
THEOREM CloseKeepsTheLock ==
    ASSUME LockConstants
    PROVE  LockSpec => /\ []dbOpen
                       /\ [][\A t \in Threads : method[t] = "Close" /\ step[t] = 1 =>
                               /\ method'[t] = "Close" /\ step'[t] = 1 /\ writer' = t
                               /\ \A u \in Threads : ~Reading(u)' /\ (Writing(u)' => u = t)]_lockVars
<1>1. ASSUME LockInv, [LockNext]_lockVars, NEW t \in Threads, method[t] = "Close", step[t] = 1
      PROVE  /\ method'[t] = "Close" /\ step'[t] = 1 /\ writer' = t
             /\ \A u \in Threads : ~Reading(u)' /\ (Writing(u)' => u = t)
  <2>0. LockInv'
      BY <1>1, LockStep
  <2>1. writer = t /\ NoThread \notin Threads
      BY <1>1 DEF LockInv, LocksHeld, Writing, WriteMethods, LockConstants
  <2>2. method'[t] = "Close"
    <3>1. ASSUME NEW u \in Threads, Return(u) PROVE method'[t] = "Close"
        BY <1>1, <3>1, Returns DEF Return, LockInv, LockTypeOK
    <3> QED
        BY <1>1, <3>1
        DEF LockNext, Run, Call, Inside, LockClaim, Lock, RLock, RLockPark, RUnlock, Unlock, lockVars,
            LockInv, LockTypeOK
  <2>3. step'[t] = 1
    <3>1. ASSUME NEW u \in Threads, Call(u, "Get") \/ Call(u, "Metrics") \/ Call(u, "Put")
                                     \/ Call(u, "Close")
          PROVE  step'[t] = 1
        BY <1>1, <3>1 DEF Call, Inside, LockInv, LockTypeOK
    <3>2. ASSUME NEW u \in Threads, Lock(u) \/ RLock(u) \/ RUnlock(u) PROVE step'[t] = 1
      <4>1. u # t
          BY <1>1, <2>1, <3>2, Operations DEF Lock, RLock, RUnlock, ReadMethods
      <4>2. step' = [step EXCEPT ![u] = step[u] + 1]
          BY <3>2 DEF Lock, RLock, RUnlock, Advance
      <4> QED
          BY <1>1, <4>1, <4>2 DEF LockInv, LockTypeOK
    <3>3. ASSUME NEW u \in Threads, Unlock(u) PROVE step'[t] = 1
        BY <1>1, <2>1, <3>3, Operations DEF Unlock, LockInv, LocksHeld, Writing, WriteMethods
    <3>4. ASSUME NEW u \in Threads, Return(u) PROVE step'[t] = 1
        BY <1>1, <3>4, Returns DEF Return, LockInv, LockTypeOK
    <3> QED
        BY <1>1, <3>1, <3>2, <3>3, <3>4
        DEF LockNext, Run, LockClaim, RLockPark, lockVars, LockConstants, ReadMethods, WriteMethods
  <2>4. writer' = t
      BY <2>0, <2>2, <2>3 DEF LockInv, LocksHeld, Writing, WriteMethods
  <2>5. ASSUME NEW u \in Threads PROVE ~Reading(u)' /\ (Writing(u)' => u = t)
      BY <2>0, <2>2, <2>3, <2>4 DEF LockInv, LocksHeld, WriterAlone, Writing, WriteMethods
  <2> QED
      BY <2>2, <2>3, <2>4, <2>5
<1>2. LockInv /\ [LockNext]_lockVars =>
        [\A t \in Threads : method[t] = "Close" /\ step[t] = 1 =>
           /\ method'[t] = "Close" /\ step'[t] = 1 /\ writer' = t
           /\ \A u \in Threads : ~Reading(u)' /\ (Writing(u)' => u = t)]_lockVars
    BY <1>1
<1>3. LockInv => dbOpen
    BY DEF LockInv
<1> QED
    BY LockInvAlways, <1>2, <1>3, PTL DEF LockSpec
=============================================================================
