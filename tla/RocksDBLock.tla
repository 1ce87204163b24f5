---------------------------- MODULE RocksDBLock -----------------------------
(***************************************************************************)
(* pkg/state/rocksdb.go: the sync.RWMutex r.mu and the order in which the  *)
(* methods of the backend take it.  A method is the sequence of its lock   *)
(* operations; Close holds the write lock when it calls                    *)
(* GetDetailedMetrics, which asks for the read lock.                       *)
(*                                                                         *)
(* The lock is Go's (external): a writer first claims it, which keeps new  *)
(* readers out, then waits for the readers inside; when it unlocks, the    *)
(* readers that came meanwhile are let in before another writer.           *)
(***************************************************************************)
EXTENDS Naturals, Sequences

CONSTANTS Threads,
          Methods,    \* the methods that callers use
          NoThread

VARIABLES
    method,    \* the method each thread is in, "none" outside
    step,      \* how many of its lock operations are done
    writer,    \* the thread that holds the write lock or has claimed it
    readers,   \* per thread, the read locks it holds
    parked,    \* readers that wait for the writer to unlock
    dbOpen     \* r.db is not nil

lockVars == <<method, step, writer, readers, parked, dbOpen>>

\* Get, BatchGet and GetMetrics read; Put, Delete, the batches, Snapshot and
\* Restore write; Close writes, with the metrics of GetDetailedMetrics inside.
Script(m) ==
    CASE m = "Get"     -> <<"RLock", "RUnlock">>
      [] m = "Put"     -> <<"Lock", "Unlock">>
      [] m = "Metrics" -> <<"RLock", "RUnlock">>
      [] m = "Close"   -> <<"Lock", "RLock", "RUnlock", "Unlock">>

Inside(t) == method[t] # "none"
\* The next lock operation of thread t.
At(t, operation) ==
    /\ Inside(t)
    /\ step[t] < Len(Script(method[t]))
    /\ Script(method[t])[step[t] + 1] = operation

Advance(t) == step' = [step EXCEPT ![t] = @ + 1]

-----------------------------------------------------------------------------
LockInit ==
    /\ method = [t \in Threads |-> "none"]
    /\ step = [t \in Threads |-> 0]
    /\ writer = NoThread
    /\ readers = [t \in Threads |-> 0]
    /\ parked = {}
    /\ dbOpen = TRUE

Call(t, m) ==
    /\ ~Inside(t)
    /\ method' = [method EXCEPT ![t] = m]
    /\ step' = [step EXCEPT ![t] = 0]
    /\ UNCHANGED <<writer, readers, parked, dbOpen>>

LockClaim(t) ==
    /\ At(t, "Lock")
    /\ writer = NoThread
    /\ writer' = t
    /\ UNCHANGED <<method, step, readers, parked, dbOpen>>

Lock(t) ==
    /\ At(t, "Lock")
    /\ writer = t
    /\ \A u \in Threads : readers[u] = 0
    /\ Advance(t)
    /\ UNCHANGED <<method, writer, readers, parked, dbOpen>>

RLock(t) ==
    /\ At(t, "RLock")
    /\ writer = NoThread
    /\ readers' = [readers EXCEPT ![t] = @ + 1]
    /\ Advance(t)
    /\ UNCHANGED <<method, writer, parked, dbOpen>>

RLockPark(t) ==
    /\ At(t, "RLock")
    /\ writer # NoThread
    /\ t \notin parked
    /\ parked' = parked \cup {t}
    /\ UNCHANGED <<method, step, writer, readers, dbOpen>>

RUnlock(t) ==
    /\ At(t, "RUnlock")
    /\ readers' = [readers EXCEPT ![t] = @ - 1]
    /\ Advance(t)
    /\ UNCHANGED <<method, writer, parked, dbOpen>>

\* By the time it unlocks, Close has destroyed the handles and set r.db to nil.
Unlock(t) ==
    /\ At(t, "Unlock")
    /\ writer' = NoThread
    /\ dbOpen' = (dbOpen /\ method[t] # "Close")
    /\ readers' = [u \in Threads |-> IF u \in parked THEN readers[u] + 1 ELSE readers[u]]
    /\ step' = [u \in Threads |-> IF u \in parked \cup {t} THEN step[u] + 1 ELSE step[u]]
    /\ parked' = {}
    /\ UNCHANGED method

Return(t) ==
    /\ Inside(t)
    /\ step[t] = Len(Script(method[t]))
    /\ method' = [method EXCEPT ![t] = "none"]
    /\ step' = [step EXCEPT ![t] = 0]
    /\ UNCHANGED <<writer, readers, parked, dbOpen>>

Run(t) ==
    \/ LockClaim(t) \/ Lock(t) \/ Unlock(t)
    \/ RLock(t) \/ RLockPark(t) \/ RUnlock(t)
    \/ Return(t)

LockNext == \E t \in Threads : Run(t) \/ \E m \in Methods : Call(t, m)

\* The scheduler runs every thread, and the mutex that writers claim hands over to
\* the one that has waited too long.
LockFairness == \A t \in Threads : WF_lockVars(Run(t)) /\ SF_lockVars(LockClaim(t))

LockSpec == LockInit /\ [][LockNext]_lockVars
FairLockSpec == LockSpec /\ LockFairness

-----------------------------------------------------------------------------
(* "Close closes the RocksDB backend": a call of Close returns. *)
CloseReturns == \A t \in Threads : method[t] = "Close" ~> method[t] = "none"
=============================================================================
