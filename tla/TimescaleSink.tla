---------------------------- MODULE TimescaleSink ---------------------------
(***************************************************************************)
(* pkg/sink/timescale_sink.go: Write and Flush of the batching sink, which *)
(* has no lock although the engine's workers call Write concurrently.      *)
(* Every read and every assignment of t.batch is a step of its own, and a  *)
(* slice header is read or assigned as a whole, as a value: the races of   *)
(* the real slice (shared array, torn header) can only add outcomes.       *)
(*                                                                         *)
(* An event whose value json.Marshal rejects is skipped with a warning.    *)
(* Postgres aborts a transaction in which a row failed, so a failed insert *)
(* shows as a failed Commit.  A Commit whose answer is lost may have been  *)
(* done by the server all the same; the table has no unique key.           *)
(***************************************************************************)
EXTENDS Naturals, Sequences, FiniteSets

CONSTANTS Workers,        \* worker goroutines of the engine
          NumEvents,      \* bound: events written
          Unmarshalable,  \* the events json.Marshal rejects
          BatchSize,      \* t.batchSize
          MaxFailures     \* bound: database errors

ASSUME TimescaleAssumption ==
    /\ IsFiniteSet(Workers)
    /\ NumEvents \in Nat
    /\ BatchSize \in Nat \ {0}
    /\ MaxFailures \in Nat

Events == 1..NumEvents

VARIABLES
    batch,     \* t.batch
    caller,    \* per worker: pc, the event of its Write, the slice it has loaded
    taken,     \* events handed to Write so far
    table,     \* rows of the table, per event
    doubtful,  \* history: those of commits that were reported as failed
    answer,    \* what Write returned for each event
    stopped,   \* the engine is stopping: its context is cancelled
    failures

vars == <<batch, caller, taken, table, doubtful, answer, stopped, failures>>

Idle == [pc |-> "idle", event |-> 0, loaded |-> <<>>]
At(w, pc) == caller[w].pc = pc
Goes(w, pc) == caller' = [caller EXCEPT ![w].pc = pc]
In(s, e) == \E i \in 1..Len(s) : s[i] = e
Copies(s, e) == Cardinality({i \in 1..Len(s) : s[i] = e})

-----------------------------------------------------------------------------
Init ==
    /\ batch = <<>>
    /\ caller = [w \in Workers |-> Idle]
    /\ taken = 0
    /\ table = [e \in Events |-> 0]
    /\ doubtful = [e \in Events |-> 0]
    /\ answer = [e \in Events |-> "none"]
    /\ stopped = FALSE
    /\ failures = 0

\* The call ends; a Flush that Write did not call has no event to answer for.
Returns(w, result) ==
    /\ caller' = [caller EXCEPT ![w] = Idle]
    /\ answer' = IF caller[w].event = 0 THEN answer
                 ELSE [answer EXCEPT ![caller[w].event] = result]

(***************************************************************************)
(* Write: t.batch = append(t.batch, event), then the test of its length.   *)
(***************************************************************************)
LoadBatch(w) ==
    /\ At(w, "idle")
    /\ taken < NumEvents
    /\ taken' = taken + 1
    /\ caller' = [caller EXCEPT ![w] = [pc |-> "store", event |-> taken + 1, loaded |-> batch]]
    /\ UNCHANGED <<batch, table, doubtful, answer, stopped, failures>>

StoreBatch(w) ==
    /\ At(w, "store")
    /\ batch' = Append(caller[w].loaded, caller[w].event)
    /\ Goes(w, "check")
    /\ UNCHANGED <<taken, table, doubtful, answer, stopped, failures>>

CheckLength(w) ==
    /\ At(w, "check")
    /\ IF Len(batch) >= BatchSize THEN Goes(w, "flush") /\ UNCHANGED answer
                                  ELSE Returns(w, "ok")
    /\ UNCHANGED <<batch, taken, table, doubtful, stopped, failures>>

Write(w) == LoadBatch(w) \/ StoreBatch(w) \/ CheckLength(w)

(***************************************************************************)
(* Flush.                                                                  *)
(***************************************************************************)
FlushEmpty(w) ==
    /\ At(w, "flush")
    /\ batch = <<>>
    /\ Returns(w, "ok")
    /\ UNCHANGED <<batch, taken, table, doubtful, stopped, failures>>

\* BeginTx and Prepare succeed, and the range expression is evaluated.
BeginTx(w) ==
    /\ At(w, "flush")
    /\ batch # <<>>
    /\ ~stopped
    /\ caller' = [caller EXCEPT ![w].pc = "commit", ![w].loaded = batch]
    /\ UNCHANGED <<batch, taken, table, doubtful, answer, stopped, failures>>

Rows(s, e) == IF e \in Unmarshalable THEN 0 ELSE Copies(s, e)

\* The database fails, or the context is cancelled: the transaction is rolled back
\* and the batch stays as it is.
FlushFails(w) ==
    /\ (At(w, "flush") /\ batch # <<>>) \/ At(w, "commit")
    /\ stopped \/ failures < MaxFailures
    /\ failures' = IF stopped THEN failures ELSE failures + 1
    /\ Returns(w, "error")
    /\ UNCHANGED <<batch, taken, table, doubtful, stopped>>

Committed(w) == [e \in Events |-> table[e] + Rows(caller[w].loaded, e)]

\* The server commits and its answer is lost: Commit returns an error, the batch stays.
CommitUnanswered(w) ==
    /\ At(w, "commit")
    /\ ~stopped /\ failures < MaxFailures
    /\ failures' = failures + 1
    /\ table' = Committed(w)
    /\ doubtful' = [e \in Events |-> doubtful[e] + Rows(caller[w].loaded, e)]
    /\ Returns(w, "error")
    /\ UNCHANGED <<batch, taken, stopped>>

Commit(w) ==
    /\ At(w, "commit")
    /\ ~stopped
    /\ table' = Committed(w)
    /\ Goes(w, "truncate")
    /\ UNCHANGED <<batch, taken, doubtful, answer, stopped, failures>>

\* The faulty form that takes only the oldest of the flushed rows out of the batch.
TruncateOldest(w) ==
    /\ At(w, "truncate")
    /\ batch' = Tail(batch)
    /\ Returns(w, "ok")
    /\ UNCHANGED <<taken, table, doubtful, stopped, failures>>

\* t.batch = t.batch[:0], whatever it holds by now.
Truncate(w) ==
    /\ At(w, "truncate")
    /\ batch' = <<>>
    /\ Returns(w, "ok")
    /\ UNCHANGED <<taken, table, doubtful, stopped, failures>>

\* Someone flushes between two writes, as the engine does when it stops.
CallFlush(w) ==
    /\ At(w, "idle")
    /\ Goes(w, "flush")
    /\ UNCHANGED <<batch, taken, table, doubtful, answer, stopped, failures>>

Flush(w) ==
    FlushEmpty(w) \/ BeginTx(w) \/ FlushFails(w) \/ CommitUnanswered(w) \/ Commit(w) \/ Truncate(w)

\* Engine.Stop: cancel comes first, the Flush of the sinks last.
Stop ==
    /\ ~stopped
    /\ stopped' = TRUE
    /\ UNCHANGED <<batch, caller, taken, table, doubtful, answer, failures>>

Next ==
    \/ \E w \in Workers : Write(w) \/ Flush(w) \/ CallFlush(w)
    \/ Stop

Spec == Init /\ [][Next]_vars

-----------------------------------------------------------------------------
(* Type invariant: the batch, the calls on it, and the table. *)
TypeOK ==
    /\ batch \in Seq(Events) /\ Len(batch) <= taken
    /\ caller \in [Workers ->
                     [pc : {"idle", "store", "check", "flush", "commit", "truncate"},
                      event : 0..NumEvents, loaded : Seq(Events)]]
    /\ taken \in 0..NumEvents
    /\ table \in [Events -> Nat]
    /\ doubtful \in [Events -> Nat]
    /\ answer \in [Events -> {"none", "ok", "error"}]
    /\ stopped \in BOOLEAN
    /\ failures \in 0..MaxFailures

Batched(e) == In(batch, e)
Truncating(e) == \E w \in Workers : At(w, "truncate") /\ In(caller[w].loaded, e)
Skipped(e) == e \in Unmarshalable

(* "Write adds an event to the batch": an event whose Write has returned, even with an
   error, has its row or is in the batch that the next Flush writes. *)
NothingLost ==
    \A e \in Events : answer[e] # "none" => Batched(e) \/ table[e] > 0 \/ Skipped(e)

(* Writes that do not overlap lose and repeat nothing of their own: as long as an event is
   in the batch it has the rows of the commits whose answer was lost and no others, and
   once its Write has returned and it has left the batch it has exactly one more, however
   often Flush fails, is retried, or runs again after a commit it took for failed.  Batch
   and table hold the event together only between the commit and the truncation. *)
StoredOnce ==
    \A e \in Events \ Unmarshalable :
        /\ Batched(e) => table[e] = doubtful[e] + (IF Truncating(e) THEN 1 ELSE 0)
        /\ ~Batched(e) /\ answer[e] # "none" => table[e] = doubtful[e] + 1

(* "Flush sinks" when the engine stops: a flush after the context was cancelled
   leaves no event in the batch. *)
FlushedAtStop ==
    [][\A w \in Workers : At(w, "flush") /\ stopped /\ caller'[w].pc = "idle"
                             => batch' = <<>>]_vars
=============================================================================
