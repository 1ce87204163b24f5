-------------------------- MODULE DeadLetterQueue ---------------------------
(***************************************************************************)
(* pkg/errors/dlq.go: the bounded InMemoryDLQ behind a DLQManager.  Every  *)
(* call of the manager is two critical sections, one of the queue's lock   *)
(* and one of the manager's, and other calls come in between.              *)
(***************************************************************************)
EXTENDS Integers, Sequences, SequencesExt, FiniteSets

CONSTANTS Callers,    \* goroutines that call the manager
          Failed,     \* the failed events, known by key and offset
          MaxSize,    \* dlq.maxSize, 0 for no limit
          MaxCalls    \* bound: calls of the manager in a behaviour

ASSUME DLQAssumption ==
    /\ IsFiniteSet(Callers)
    /\ MaxSize \in Nat
    /\ MaxCalls \in Nat

VARIABLES
    queued,     \* dlq.events
    queueStats, \* m.stats: TotalWritten, TotalRead, TotalDeleted, CurrentSize
    owed,       \* per caller, the update of the statistics it still owes
    gone,       \* history: events evicted by a full queue or dropped by Close
    queueCalls

queueVars == <<queued, queueStats, owed, gone, queueCalls>>

Nothing == [op |-> "none", count |-> 0]
Owing(op) == {c \in Callers : owed[c].op = op}

-----------------------------------------------------------------------------
QueueInit ==
    /\ queued = <<>>
    /\ queueStats = [written |-> 0, read |-> 0, deleted |-> 0, size |-> 0]
    /\ owed = [c \in Callers |-> Nothing]
    /\ gone = 0
    /\ queueCalls = 0

QueueCall(c, op, n) ==
    /\ owed[c] = Nothing
    /\ queueCalls < MaxCalls
    /\ queueCalls' = queueCalls + 1
    /\ owed' = [owed EXCEPT ![c] = [op |-> op, count |-> n]]
    /\ UNCHANGED queueStats

Full == MaxSize > 0 /\ Len(queued) >= MaxSize

\* The faulty form that refuses the event when the queue is full, but counts it.
QueueWriteRefused(c, f) ==
    /\ QueueCall(c, "write", 1)
    /\ queued' = IF Full THEN queued ELSE Append(queued, f)
    /\ UNCHANGED gone

\* A full queue loses its oldest event.
QueueWrite(c, f) ==
    /\ QueueCall(c, "write", 1)
    /\ queued' = Append(IF Full THEN Tail(queued) ELSE queued, f)
    /\ gone' = IF Full THEN gone + 1 ELSE gone

\* Read returns copies and leaves the queue as it is.
QueueRead(c, limit) ==
    /\ QueueCall(c, "read", IF limit <= 0 \/ limit > Len(queued) THEN Len(queued) ELSE limit)
    /\ UNCHANGED <<queued, gone>>

\* Delete takes out the first match; without one it returns an error and no
\* statistic changes.
QueueDelete(c, f) ==
    /\ \E i \in 1..Len(queued) : queued[i] = f
    /\ QueueCall(c, "delete", 1)
    /\ queued' = RemoveFirst(queued, f)
    /\ UNCHANGED gone

QueueClose ==
    /\ queued # <<>>
    /\ queued' = <<>>
    /\ gone' = gone + Len(queued)
    /\ UNCHANGED <<queueStats, owed, queueCalls>>

CountDelete(c) ==
    /\ owed[c].op = "delete"
    /\ queueStats' = [queueStats EXCEPT !.deleted = @ + 1,
                              !.size = IF @ > 0 THEN @ - 1 ELSE @]

CountWrite(c) ==
    /\ owed[c].op = "write"
    /\ queueStats' = [queueStats EXCEPT !.written = @ + 1, !.size = @ + 1]

CountRead(c) ==
    /\ owed[c].op = "read"
    /\ queueStats' = [queueStats EXCEPT !.read = @ + owed[c].count]

Count(c) ==
    /\ CountWrite(c) \/ CountRead(c) \/ CountDelete(c)
    /\ owed' = [owed EXCEPT ![c] = Nothing]
    /\ UNCHANGED <<queued, gone, queueCalls>>

QueueNext ==
    \/ \E c \in Callers, f \in Failed : QueueWrite(c, f) \/ QueueDelete(c, f)
    \/ \E c \in Callers, limit \in 0..1 : QueueRead(c, limit)
    \/ \E c \in Callers : Count(c)
    \/ QueueClose

QueueSpec == QueueInit /\ [][QueueNext]_queueVars

-----------------------------------------------------------------------------
Stats == [written : Nat, read : Nat, deleted : Nat, size : Nat]

(* Type invariant: the queue within its limit, and no statistic below zero. *)
QueueTypeOK ==
    /\ queued \in Seq(Failed)
    /\ MaxSize > 0 => Len(queued) <= MaxSize
    /\ queueStats \in Stats
    /\ owed \in [Callers -> [op : {"none", "write", "read", "delete"}, count : Nat]]
    /\ gone \in Nat
    /\ queueCalls \in 0..MaxCalls

(* The totals of the manager account for the queue whatever calls overlap: every
   event ever written is still queued, was deleted, or was evicted or dropped. *)
TotalsAccount ==
    queueStats.written + Cardinality(Owing("write"))
        = Len(queued) + queueStats.deleted + Cardinality(Owing("delete")) + gone

(* CurrentSize may drift, but only upwards: Stats never hides an event that waits in
   the queue, but for the ones whose Write is still running. *)
SizeNeverTooSmall == queueStats.size + Cardinality(Owing("write")) >= Len(queued)

(* "Automatically tracks statistics": when no call of the manager is running,
   CurrentSize is the number of events in a queue that has not been closed and has
   not evicted. *)
SizeCurrent == gone = 0 /\ (\A c \in Callers : owed[c] = Nothing)
                   => queueStats.size = Len(queued)
=============================================================================
