------------------------- MODULE CheckpointManager --------------------------
(***************************************************************************)
(* pkg/checkpoint/manager.go: a pipeline with a state provider and,        *)
(* possibly, a memory state backend (pkg/state/memory.go) registered with  *)
(* the Manager; the steps of CreateCheckpoint, between which the pipeline  *)
(* goes on and the process may crash; and the recovery of a new process    *)
(* with LoadLatestCheckpoint and RestoreFromCheckpoint, by a caller that   *)
(* does what examples/state-backend/main.go does: an error of the first is *)
(* taken for "no checkpoint found, starting fresh", one of the second is   *)
(* only logged, and the process runs in either case.                       *)
(*                                                                         *)
(* The state of provider and backend is the number of events that have     *)
(* taken effect on it: more than the offset means an event counted twice,  *)
(* fewer an event lost.  A checkpoint is known by its place in the order   *)
(* of creation, which is the order of the files' modification times.       *)
(***************************************************************************)
EXTENDS Naturals, Sequences, FiniteSets, FiniteSetsExt

CONSTANTS MaxCheckpoints,  \* m.maxCheckpoints, 5 in the code
          Incremental,     \* m.incrementalEnabled
          UseBackend,      \* a memory backend is registered
          NumEvents,       \* bound: the offset the pipeline stops at
          MaxCreated,      \* bound: checkpoint files ever created
          MaxCrashes,      \* bound: crashes of the process
          MaxFailures      \* bound: provider errors, failed writes, reads and removals

ASSUME CheckpointAssumption ==
    /\ MaxCheckpoints \in Nat \ {0}
    /\ Incremental \in BOOLEAN
    /\ UseBackend \in BOOLEAN
    /\ NumEvents \in Nat
    /\ MaxCreated \in Nat
    /\ MaxCrashes \in Nat
    /\ MaxFailures \in Nat

VARIABLES
    position,   \* the offset the pipeline has processed up to
    provider,   \* the provider's state
    backend,    \* the memory backend's state
    step,       \* where CreateCheckpoint is
    draft,      \* the checkpoint it is collecting
    created,    \* number of files ever created
    files,      \* the checkpoint directory
    list,       \* m.checkpoints
    lastData,   \* m.lastCheckpointData: whether it holds a snapshot
    recovery,   \* how the start of this process ended
    abandoned,  \* history: the files there were when a start last ended in an error
    crashes, failures

pipeline == <<position, provider, backend>>
disk == <<created, files>>
memory == <<list, lastData>>
vars == <<pipeline, step, draft, disk, memory, recovery, abandoned, crashes, failures>>

Ids == 1..MaxCreated

\* The bytes of Snapshot are JSON; json.Marshal of a []byte writes base64, and
\* read back into an interface{} it stays the base64 string.
SnapshotBytes(state) == [format |-> "json", state |-> state]
InFile(bytes) == [bytes EXCEPT !.format = "base64"]
Nothing == [format |-> "none", state |-> 0]

File(kind, d) == [kind |-> kind, offsets |-> d.offsets, provider |-> d.provider,
                  backend |-> d.backend]
NoDraft == [offsets |-> 0, provider |-> 0, backend |-> Nothing]
NoFile == File("none", NoDraft)

OnDisk == {id \in Ids : files[id].kind # "none"}
Complete == {id \in Ids : files[id].kind \in {"full", "incremental"}}
Standing == {id \in Complete : id > abandoned}
Running == step # "down"

-----------------------------------------------------------------------------
Init ==
    /\ position = 0
    /\ provider = 0
    /\ backend = 0
    /\ step = "down"
    /\ draft = NoDraft
    /\ created = 0
    /\ files = [id \in Ids |-> NoFile]
    /\ list = <<>>
    /\ lastData = FALSE
    /\ recovery = "none"
    /\ abandoned = 0
    /\ crashes = 0
    /\ failures = 0

\* An event takes effect on the provider and the backend.
Process ==
    /\ Running
    /\ position < NumEvents
    /\ position' = position + 1
    /\ provider' = provider + 1
    /\ backend' = IF UseBackend THEN backend + 1 ELSE backend
    /\ UNCHANGED <<step, draft, disk, memory, recovery, abandoned, crashes, failures>>

(***************************************************************************)
(* CreateCheckpoint, under m.mu: no other call of the Manager runs, but    *)
(* the pipeline does.                                                      *)
(***************************************************************************)
\* The caller passes the offsets.
Begin ==
    /\ step = "idle"
    /\ created < MaxCreated
    /\ step' = "providers"
    /\ draft' = [NoDraft EXCEPT !.offsets = position]
    /\ UNCHANGED <<pipeline, disk, memory, recovery, abandoned, crashes, failures>>

GetState ==
    /\ step = "providers"
    /\ step' = "backends"
    /\ draft' = [draft EXCEPT !.provider = provider]
    /\ UNCHANGED <<pipeline, disk, memory, recovery, abandoned, crashes, failures>>

\* provider.GetState or backend.Snapshot returns an error: nothing was written.
CollectFails ==
    /\ step \in {"providers", "backends"}
    /\ failures < MaxFailures
    /\ failures' = failures + 1
    /\ step' = "idle"
    /\ UNCHANGED <<pipeline, draft, disk, memory, recovery, abandoned, crashes>>

\* The faulty form that takes the offsets when the state has been collected.
SnapshotLateOffsets ==
    /\ step = "backends"
    /\ step' = "write"
    /\ draft' = [draft EXCEPT !.backend = IF UseBackend THEN SnapshotBytes(backend) ELSE @,
                              !.offsets = position]
    /\ UNCHANGED <<pipeline, disk, memory, recovery, abandoned, crashes, failures>>

Snapshot ==
    /\ step = "backends"
    /\ step' = "write"
    /\ draft' = [draft EXCEPT !.backend = IF UseBackend THEN SnapshotBytes(backend) ELSE @]
    /\ UNCHANGED <<pipeline, disk, memory, recovery, abandoned, crashes, failures>>

\* os.WriteFile creates the file before it has written the bytes.
OpenFile ==
    /\ step = "write"
    /\ step' = "writing"
    /\ created' = created + 1
    /\ files' = [files EXCEPT ![created + 1] = File("torn", NoDraft)]
    /\ UNCHANGED <<pipeline, draft, memory, recovery, abandoned, crashes, failures>>

\* computeIncrementalChanges: the first checkpoint of a process is full; later
\* ones only name the backends that changed.
Written ==
    IF Incremental /\ lastData THEN File("incremental", [draft EXCEPT !.backend = Nothing])
    ELSE File("full", [draft EXCEPT !.backend = InFile(@)])

WriteFile ==
    /\ step = "writing"
    /\ step' = "written"
    /\ files' = [files EXCEPT ![created] = Written]
    /\ UNCHANGED <<pipeline, draft, created, memory, recovery, abandoned, crashes, failures>>

\* os.WriteFile fails half way and CreateCheckpoint returns the error.
WriteFails ==
    /\ step = "writing"
    /\ failures < MaxFailures
    /\ failures' = failures + 1
    /\ step' = "idle"
    /\ UNCHANGED <<pipeline, draft, disk, memory, recovery, abandoned, crashes>>

\* cleanupOldCheckpoints: the newest MaxCheckpoints of this process's list.
Kept(all) ==
    IF Len(all) <= MaxCheckpoints THEN all
    ELSE SubSeq(all, Len(all) - MaxCheckpoints + 1, Len(all))

Finish ==
    LET all == Append(list, created)
        removed == {all[i] : i \in 1..Len(all)} \ {Kept(all)[i] : i \in 1..Len(Kept(all))}
    IN  /\ step = "written"
        /\ step' = "idle"
        /\ lastData' = (lastData \/ (Incremental /\ UseBackend))
        /\ list' = Kept(all)
        /\ \/ /\ files' = [id \in Ids |-> IF id \in removed THEN NoFile ELSE files[id]]
              /\ UNCHANGED failures
           \/ /\ removed # {}            \* os.Remove fails, which is only logged
              /\ failures < MaxFailures
              /\ failures' = failures + 1
              /\ UNCHANGED files
        /\ UNCHANGED <<pipeline, draft, created, recovery, abandoned, crashes>>

CreateCheckpoint ==
    \/ Begin \/ GetState \/ CollectFails \/ Snapshot
    \/ OpenFile \/ WriteFile \/ WriteFails \/ Finish

(***************************************************************************)
(* A crash, and the start of the next process.                             *)
(***************************************************************************)
Crash ==
    /\ Running
    /\ crashes < MaxCrashes
    /\ crashes' = crashes + 1
    /\ position' = 0
    /\ provider' = 0
    /\ backend' = 0
    /\ step' = "down"
    /\ draft' = NoDraft
    /\ list' = <<>>
    /\ lastData' = FALSE
    /\ recovery' = "none"
    /\ UNCHANGED <<disk, abandoned, failures>>

\* The faulty form that takes the oldest file of the directory.
OldestFile == Min(OnDisk)

Latest == Max(OnDisk)

\* LoadLatestCheckpoint finds no file: a first start.
StartFresh ==
    /\ step = "down"
    /\ OnDisk = {}
    /\ step' = "idle"
    /\ recovery' = "fresh"
    /\ UNCHANGED <<pipeline, draft, disk, memory, abandoned, crashes, failures>>

\* It takes the newest file, whatever is in it, and cannot read or parse it.
LoadFails ==
    /\ step = "down"
    /\ OnDisk # {}
    /\ \/ files[Latest].kind = "torn" /\ UNCHANGED failures
       \/ failures < MaxFailures /\ failures' = failures + 1
    /\ step' = "idle"
    /\ recovery' = "load error"
    /\ abandoned' = created
    /\ UNCHANGED <<pipeline, draft, disk, memory, crashes>>

\* RestoreFromCheckpoint: the provider first, then the backend if the checkpoint has
\* a snapshot of it, which json.Unmarshal in Restore must be able to read.  The caller
\* goes on at the offsets of the checkpoint when there was no error.
RestoreFromCheckpoint ==
    LET f == files[Latest]
        hasSnapshot == f.kind = "full" /\ UseBackend
        readable == f.backend.format = "json"
        fails == hasSnapshot /\ ~readable
    IN  /\ step = "down"
        /\ OnDisk # {}
        /\ f.kind # "torn"
        /\ provider' = f.provider
        /\ backend' = IF hasSnapshot /\ readable THEN f.backend.state ELSE backend
        /\ recovery' = IF fails THEN "restore error" ELSE "restored"
        /\ position' = IF fails THEN 0 ELSE f.offsets
        /\ abandoned' = IF fails THEN created ELSE abandoned
        /\ step' = "idle"
        /\ UNCHANGED <<draft, disk, memory, crashes, failures>>

\* provider.RestoreState returns an error: the backend is not reached.
RestoreFails ==
    /\ step = "down"
    /\ OnDisk # {}
    /\ files[Latest].kind # "torn"
    /\ failures < MaxFailures
    /\ failures' = failures + 1
    /\ step' = "idle"
    /\ recovery' = "restore error"
    /\ abandoned' = created
    /\ UNCHANGED <<pipeline, draft, disk, memory, crashes>>

Recover == StartFresh \/ LoadFails \/ RestoreFromCheckpoint \/ RestoreFails

Next == Process \/ CreateCheckpoint \/ Crash \/ Recover

Spec == Init /\ [][Next]_vars

-----------------------------------------------------------------------------
Bytes == [format : {"none", "json", "base64"}, state : Nat]
Drafts == [offsets : Nat, provider : Nat, backend : Bytes]
Files == [kind : {"none", "torn", "full", "incremental"}, offsets : Nat,
          provider : Nat, backend : Bytes]

(* Type invariant: the pipeline, the call of CreateCheckpoint, the directory. *)
TypeOK ==
    /\ position \in Nat /\ provider \in Nat /\ backend \in Nat
    /\ step \in {"down", "idle", "providers", "backends", "write", "writing", "written"}
    /\ draft \in Drafts
    /\ created \in 0..MaxCreated
    /\ files \in [Ids -> Files]
    /\ list \in Seq(Ids)
    /\ Len(list) <= MaxCheckpoints
    /\ lastData \in BOOLEAN
    /\ recovery \in {"none", "fresh", "load error", "restore error", "restored"}
    /\ abandoned \in 0..MaxCreated
    /\ crashes \in 0..MaxCrashes
    /\ failures \in 0..MaxFailures

(* GetCheckpoints lists, oldest first, only checkpoints whose file is complete, and
   never one that a crash or a failed write left behind. *)
ListedOnDisk ==
    /\ \A i \in 1..Len(list) : list[i] \in Complete
    /\ \A i, j \in 1..Len(list) : i < j => list[i] < list[j]

(* The newest complete checkpoint is never removed: whatever is written, fails or
   crashes, recovery has no older state to go back to than before. *)
NewestSurvives ==
    [][Complete # {} => Complete' # {} /\ Max(Complete') >= Max(Complete)]_vars

(* No event is lost from the provider's state: whatever crashes, a running process
   has the effect of every event before its offset. *)
NoEffectLost == Running => provider >= position

(* A restart goes back behind a checkpoint that was completed only by giving it up: no
   complete file, of this or of an earlier process, is ahead of a running process, unless
   it is older than a start since then whose load or restore ended in an error.  Files
   written after such a start hold again for every start that follows. *)
NoRollback == Running => \A id \in Standing : files[id].offsets <= position

(* "Keep last 5 checkpoints": the directory holds no more files than that, beside the
   one being written. *)
RetentionKept == Cardinality(OnDisk) <= MaxCheckpoints + 1

(* "Recovery: Restores state from checkpoints on failure": no process starts fresh although
   there is a complete checkpoint. *)
LoadsComplete == [][step = "down" /\ Running' /\ recovery' = "load error" => Complete = {}]_vars

(* "Snapshot/Restore: Full state snapshots for checkpoint and recovery": the restore
   of a complete checkpoint does not fail. *)
RestoreWorks == recovery # "restore error"

(* "Incremental Checkpoints": a process that was restored from them has the effect
   of every event before its offset on the backend too. *)
BackendRestored == Running /\ UseBackend => backend >= position

(* "Exactly-Once Processing ... Coordinated checkpointing": every event before the
   offset has taken effect on the provider once. *)
EffectsOnce == Running => provider = position
=============================================================================
