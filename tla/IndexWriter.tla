----------------------------- MODULE IndexWriter -----------------------------
(***************************************************************************)
(* The write path: IndexWriter (src/writer/index_writer.rs) with its write *)
(* ahead log, the segment it is filling, the finished segment files and    *)
(* the snapshot it publishes, and crashes and restarts of the process.     *)
(*                                                                         *)
(* SearchEngine calls the writer behind one RwLock, so its calls do not    *)
(* interleave with each other.  A call is cut into the steps between which *)
(* a crash or a background merge can be observed.  The controller is the   *)
(* one of module MVCC with this single publisher: reading the current      *)
(* snapshot and publishing the next one is one step.                       *)
(*                                                                         *)
(* A document is its identifier.  The log keeps, beside each record, the   *)
(* process that wrote it (epoch) and who wrote a Commit record; neither is *)
(* in the file and no action reads them.                                   *)
(***************************************************************************)
EXTENDS Integers, Sequences, SequencesExt

CONSTANTS
    Docs,         \* identifiers of the documents that are added or deleted
    U32,          \* identifiers enter the deleted bitmap modulo this (2^32)
    BatchSize,    \* WriterConfig::batch_size
    MinMerge,     \* min_segments_to_merge; every segment is below 10 MB
    MaxBatch,     \* bound: documents in one call
    MaxLog,       \* bound: records in the log and crashes, together
    MaxCrashes    \* bound: crashes

ASSUME DocsAssumption == Docs \subseteq Nat /\ U32 \in Nat \ {0}
ASSUME WriterAssumption == BatchSize \in Nat /\ MinMerge \in Nat
ASSUME LimitsAssumption == MaxBatch \in Nat /\ MaxLog \in Nat /\ MaxCrashes \in Nat

VARIABLES
    wal,       \* the records of wal_00000000.log
    synced,    \* how many of them are known to be on disk
    files,     \* finished segment files, in the order they were finished
    snapshot,  \* the current snapshot: segments (indices of files) and deleted
    buffer,    \* the documents in segment_writer
    merges,    \* the segments each background merge was given
    pc,        \* where the writer is inside a call
    op,        \* the call; recover leaves its name when it returns
    todo,      \* documents of the call not handled yet
    epoch,     \* how often the process was started
    crashes,   \* how often it crashed
    dropped    \* history: documents lost when their segment file failed

disk == <<wal, synced, files>>
call == <<op, todo>>
history == <<epoch, crashes, dropped>>
vars == <<wal, synced, files, snapshot, buffer, merges, pc, op, todo,
          epoch, crashes, dropped>>

Calls == {"none", "add", "flush", "commit", "delete", "compact", "recover"}
Record == [op : {"Add", "Delete", "Commit", "CompactCommit"},
           doc : Docs \cup {-1}, epoch : Nat]
EmptySnapshot == [segments |-> <<>>, deleted |-> {}]

Entry(o, d) == [op |-> o, doc |-> d, epoch |-> epoch]
DocKey(d) == d % U32

Room(n) == Len(wal) + crashes + n <= MaxLog

Init ==
    /\ wal = <<>> /\ synced = 0
    /\ files = <<>>
    /\ snapshot = EmptySnapshot
    /\ buffer = <<>>
    /\ merges = {}
    /\ pc = "idle" /\ op = "none" /\ todo = <<>>
    /\ epoch = 1 /\ crashes = 0 /\ dropped = {}

\* Also the early return of an error.
Returns == pc' = "idle" /\ todo' = <<>> /\ op' = "none"

-----------------------------------------------------------------------------
(* add_document and add_documents_batch: per document, log it, write it to *)
(* the buffer, and publish the buffer as a segment when it is full.        *)

CallAdd(docs) ==
    /\ pc = "idle"
    /\ Room(Len(docs))
    /\ op' = "add" /\ todo' = docs /\ pc' = "log"
    /\ UNCHANGED <<disk, snapshot, buffer, merges, history>>

LogAdd ==
    /\ pc = "log"
    /\ wal' = Append(wal, Entry("Add", Head(todo)))
    /\ pc' = "write"
    /\ UNCHANGED <<synced, files, snapshot, buffer, merges, call, history>>

\* The loop over the documents of a call: the next one, or the return.
NextDocument(rest) ==
    IF rest = <<>> THEN Returns
    ELSE pc' = "log" /\ todo' = rest /\ op' = op

WriteDocument ==
    /\ pc = "write"
    /\ buffer' = Append(buffer, Head(todo))
    /\ IF Len(buffer') >= BatchSize
       THEN pc' = "seal" /\ todo' = Tail(todo) /\ op' = op
       ELSE NextDocument(Tail(todo))
    /\ UNCHANGED <<disk, snapshot, merges, history>>

-----------------------------------------------------------------------------
(* Sealing the buffer, shared by the full-batch path, flush and commit: a  *)
(* fresh SegmentWriter replaces the old one, which is finished (fsync) and *)
(* whose segment is published when it has documents.                       *)

AfterSeal ==
    CASE op = "commit" -> pc' = "marker" /\ UNCHANGED call
      [] op = "flush"  -> Returns
      [] op = "add"    -> NextDocument(todo)

\* Mutant: commit writes its marker without flushing first.
CallFlushMarkerOnly(o) ==
    /\ pc = "idle"
    /\ o \in {"flush", "commit"}
    /\ o = "commit" => Room(1)
    /\ op' = o /\ pc' = IF o = "commit" THEN "marker" ELSE "seal"
    /\ UNCHANGED <<disk, snapshot, buffer, merges, todo, history>>

CallFlush(o) ==
    /\ pc = "idle"
    /\ o \in {"flush", "commit"}
    /\ o = "commit" => Room(1)
    /\ op' = o /\ pc' = "seal"
    /\ UNCHANGED <<disk, snapshot, buffer, merges, todo, history>>

\* Mutant: the finished writer stays in place of the fresh one.
FinishSegmentKeepsWriter ==
    /\ pc = "seal"
    /\ buffer' = buffer
    /\ IF buffer = <<>>
       THEN files' = files /\ AfterSeal
       ELSE files' = Append(files, buffer) /\ pc' = "publish" /\ UNCHANGED call
    /\ UNCHANGED <<wal, synced, snapshot, merges, history>>

\* Mutant: no test of doc_count.
FinishSegmentAlways ==
    /\ pc = "seal"
    /\ buffer' = <<>>
    /\ files' = Append(files, buffer) /\ pc' = "publish" /\ UNCHANGED call
    /\ UNCHANGED <<wal, synced, snapshot, merges, history>>

FinishSegment ==
    /\ pc = "seal"
    /\ buffer' = <<>>
    /\ IF buffer = <<>>
       THEN files' = files /\ AfterSeal
       ELSE files' = Append(files, buffer) /\ pc' = "publish" /\ UNCHANGED call
    /\ UNCHANGED <<wal, synced, snapshot, merges, history>>

\* SegmentWriter::new fails: the old writer stays in place.
CreateFails ==
    /\ pc = "seal"
    /\ Returns
    /\ UNCHANGED <<disk, snapshot, buffer, merges, history>>

\* Mutant: the failure is reported after publishing, and the writer is put back.
FinishFailsLate ==
    /\ pc = "seal"
    /\ buffer # <<>>
    /\ files' = Append(files, buffer)
    /\ snapshot' = [segments |-> Append(snapshot.segments, Len(files')), deleted |-> {}]
    /\ Returns
    /\ UNCHANGED <<wal, synced, buffer, merges, history>>

\* finish fails after mem::replace: the old writer and its documents are gone.
FinishFails ==
    /\ pc = "seal"
    /\ buffer' = <<>>
    /\ dropped' = dropped \cup ToSet(buffer)
    /\ Returns
    /\ UNCHANGED <<disk, snapshot, merges, epoch, crashes>>

ShouldMerge(segments) == Len(segments) >= MinMerge

\* create_snapshot publishes an empty deleted bitmap; only flush may merge.
PublishSegment ==
    /\ pc = "publish"
    /\ LET segments == Append(snapshot.segments, Len(files)) IN
           /\ snapshot' = [segments |-> segments, deleted |-> {}]
           /\ merges' = IF op # "add" /\ ShouldMerge(segments)
                        THEN merges \cup {ToSet(segments)} ELSE merges
    /\ AfterSeal
    /\ UNCHANGED <<disk, buffer, history>>

\* Operation::Commit, by commit or by compact.
LogMarker ==
    /\ pc = "marker"
    /\ wal' = Append(wal, Entry(IF op = "commit" THEN "Commit" ELSE "CompactCommit", -1))
    /\ pc' = "sync"
    /\ UNCHANGED <<synced, files, snapshot, buffer, merges, call, history>>

Sync ==
    /\ pc = "sync"
    /\ synced' = Len(wal)
    /\ Returns
    /\ UNCHANGED <<wal, files, snapshot, buffer, merges, history>>

-----------------------------------------------------------------------------
(* delete_document: log, then publish the bitmap with one more key.        *)

\* Mutant: the deletion is not logged.
CallDeleteUnlogged(d) ==
    /\ pc = "idle"
    /\ Room(1)
    /\ op' = "delete" /\ todo' = <<d>> /\ pc' = "delete"
    /\ UNCHANGED <<disk, snapshot, buffer, merges, history>>

CallDelete(d) ==
    /\ pc = "idle"
    /\ Room(1)
    /\ wal' = Append(wal, Entry("Delete", d))
    /\ op' = "delete" /\ todo' = <<d>> /\ pc' = "delete"
    /\ UNCHANGED <<synced, files, snapshot, buffer, merges, history>>

PublishDelete ==
    /\ pc = "delete"
    /\ snapshot' = [snapshot EXCEPT !.deleted = @ \cup {DocKey(Head(todo))}]
    /\ Returns
    /\ UNCHANGED <<disk, buffer, merges, history>>

-----------------------------------------------------------------------------
(* Reading a finished segment back.  SegmentReader starts at offset 24,    *)
(* inside the first record of a 16-byte header's file: the first document  *)
(* of a segment that has one is an Err, and only an empty segment can be   *)
(* iterated to its end.                                                    *)

IterFails(s) == files[s] # <<>>

\* merge_segments_impl in its thread: the error is printed and dropped.
MergeFails(m) ==
    /\ m \in merges
    /\ \E s \in m : IterFails(s)
    /\ merges' = merges \ {m}
    /\ UNCHANGED <<disk, snapshot, buffer, pc, call, history>>

\* compact: nothing to do, an unreadable segment, or no segment at all.
CompactNothing ==
    /\ pc = "idle" /\ snapshot.deleted = {}
    /\ Returns
    /\ UNCHANGED <<disk, snapshot, buffer, merges, history>>

CompactFails ==
    /\ pc = "idle" /\ snapshot.deleted # {}
    /\ \E s \in ToSet(snapshot.segments) : IterFails(s)
    /\ Returns
    /\ UNCHANGED <<disk, snapshot, buffer, merges, history>>

\* Mutant: compaction starts over with a fresh writer.
CompactEmptyResets ==
    /\ pc = "idle" /\ snapshot.deleted # {}
    /\ snapshot.segments = <<>>
    /\ Room(1)
    /\ snapshot' = EmptySnapshot /\ buffer' = <<>>
    /\ op' = "compact" /\ pc' = "marker"
    /\ UNCHANGED <<disk, merges, todo, history>>

CompactEmpty ==
    /\ pc = "idle" /\ snapshot.deleted # {}
    /\ snapshot.segments = <<>>
    /\ Room(1)
    /\ snapshot' = EmptySnapshot
    /\ op' = "compact" /\ pc' = "marker"
    /\ UNCHANGED <<disk, buffer, merges, todo, history>>

-----------------------------------------------------------------------------
(* Crash, restart, recover.  A crash may lose any part of the log that was *)
(* not synced, and the whole process memory.  A new writer opens the same  *)
(* log at its end and starts from an empty snapshot: the finished segment  *)
(* files are not looked for.                                               *)

Crash ==
    /\ pc # "down" /\ crashes < MaxCrashes
    /\ \E n \in synced .. Len(wal) : wal' = SubSeq(wal, 1, n)
    /\ snapshot' = EmptySnapshot /\ buffer' = <<>> /\ merges' = {}
    /\ pc' = "down" /\ op' = "none" /\ todo' = <<>>
    /\ crashes' = crashes + 1
    /\ UNCHANGED <<synced, files, epoch, dropped>>

Restart ==
    /\ pc = "down"
    /\ pc' = "idle"
    /\ epoch' = epoch + 1
    /\ UNCHANGED <<disk, snapshot, buffer, merges, call, crashes, dropped>>

\* recover: WAL::open gives a write-only handle, so the first read_exact of
\* read_entries fails and nothing is replayed.
Recover ==
    /\ pc = "idle"
    /\ op' = "recover"
    /\ UNCHANGED <<disk, snapshot, buffer, merges, pc, todo, history>>

Next ==
    \/ \E n \in 1 .. MaxBatch : \E docs \in [1 .. n -> Docs] : CallAdd(docs)
    \/ LogAdd \/ WriteDocument
    \/ \E o \in {"flush", "commit"} : CallFlush(o)
    \/ FinishSegment \/ CreateFails \/ FinishFails \/ PublishSegment
    \/ LogMarker \/ Sync
    \/ \E d \in Docs : CallDelete(d)
    \/ PublishDelete
    \/ \E m \in merges : MergeFails(m)
    \/ CompactNothing \/ CompactFails \/ CompactEmpty
    \/ Crash \/ Restart \/ Recover

Spec == Init /\ [][Next]_vars
-----------------------------------------------------------------------------
TypeOK ==
    /\ wal \in Seq(Record) /\ synced \in 0 .. Len(wal)
    /\ files \in Seq(Seq(Docs))
    /\ snapshot \in [segments : Seq(1 .. Len(files)), deleted : SUBSET (0 .. U32 - 1)]
    /\ buffer \in Seq(Docs)
    /\ merges \subseteq SUBSET (1 .. Len(files))
    /\ pc \in {"idle", "log", "write", "seal", "publish", "marker", "sync",
               "delete", "down"}
    /\ op \in Calls /\ todo \in Seq(Docs)
    /\ epoch \in Nat /\ crashes \in Nat /\ dropped \subseteq Docs

\* In a finished segment file, or dropped with one that failed.
Accounted(doc) == doc \in dropped \/ \E k \in 1 .. Len(files) : doc \in ToSet(files[k])

DocsOf(records) == [i \in 1 .. Len(records) |-> records[i].doc]
LoggedAdds == DocsOf(SelectSeq(wal, LAMBDA r : r.op = "Add" /\ r.epoch = epoch))

PublishedDocs ==
    FlattenSeq([i \in 1 .. Len(snapshot.segments) |-> files[snapshot.segments[i]]])

Held == PublishedDocs \o (IF pc = "publish" THEN files[Len(files)] ELSE <<>>) \o buffer

(***************************************************************************)
(* Until a segment file fails, the published segments followed by the      *)
(* buffer are exactly the documents this process logged, in order: no mix  *)
(* of batches, flushes, deletes, compactions and background merges loses,  *)
(* repeats or reorders one, and the log is never behind the data.          *)
(***************************************************************************)
DocsConserved ==
    dropped = {} /\ pc # "down" => Held = IF pc = "write" THEN Front(LoggedAdds) ELSE LoggedAdds

(***************************************************************************)
(* With failing segment files, documents can be dropped (finish consumes   *)
(* the old writer), but a retried flush never publishes one twice.         *)
(***************************************************************************)
NothingPublishedTwice ==
    \A d \in Docs : Len(SelectSeq(Held, LAMBDA e : e = d))
                        <= Len(SelectSeq(LoggedAdds, LAMBDA e : e = d))

(***************************************************************************)
(* A Commit record written by commit() vouches for what precedes it: each  *)
(* document its process logged before it is in a finished segment file,    *)
(* but for those dropped with a file that failed, also when a crash then   *)
(* cuts the log anywhere after the last sync.                              *)
(***************************************************************************)
CommitCovers ==
    \A j \in 1 .. Len(wal) : wal[j].op = "Commit" =>
        \A i \in 1 .. j : wal[i].op = "Add" /\ wal[i].epoch = wal[j].epoch
                              => Accounted(wal[i].doc)

(***************************************************************************)
(* Identifiers are cut to 32 bits in the deleted bitmap, so a deletion may *)
(* hide other documents than its own, but only those that share its low    *)
(* word: whatever is hidden, this process has logged a deletion for it or  *)
(* for such a document, and the log holds it.                              *)
(***************************************************************************)
HiddenByLoggedDelete ==
    \A d \in Docs : d \in ToSet(PublishedDocs) /\ DocKey(d) \in snapshot.deleted =>
        \E i \in 1 .. Len(wal) : /\ wal[i].op = "Delete" /\ wal[i].epoch = epoch
                                 /\ (wal[i].doc - d) % U32 = 0

(***************************************************************************)
(* The writer publishes no empty segment ("skip empty segments"), so the   *)
(* readers of merge and compact never meet one and always fail.            *)
(***************************************************************************)
SegmentsNonEmpty == \A s \in ToSet(snapshot.segments) : files[s] # <<>>

(***************************************************************************)
(* A process only ever adds segments to the snapshot: neither a deletion,  *)
(* a compaction nor a background merge takes a published segment away.     *)
(***************************************************************************)
SegmentsAppendOnly ==
    [][pc' # "down" => IsPrefix(snapshot.segments, snapshot'.segments)]_vars

\* Where a call is, and what that says of its data.
ControlInv ==
    /\ pc \in {"log", "write"} => op = "add" /\ todo # <<>>
    /\ pc \in {"seal", "publish"} => op \in {"add", "flush", "commit"}
    /\ pc \in {"marker", "sync"} => op \in {"commit", "compact"}
    /\ pc = "delete" => todo # <<>>
    /\ pc = "publish" => files # <<>> /\ files[Len(files)] # <<>> /\ buffer = <<>>
    /\ pc = "marker" /\ op = "commit" => buffer = <<>>
    /\ \A i \in 1 .. Len(wal) : wal[i].epoch <= epoch

\* A document this process logged is in a segment file or dropped with one,
\* in the buffer, or about to be written to the buffer.
Unlost ==
    pc # "down" =>
        \A i \in 1 .. Len(wal) : wal[i].op = "Add" /\ wal[i].epoch = epoch =>
            \/ Accounted(wal[i].doc)
            \/ wal[i].doc \in ToSet(buffer)
            \/ pc = "write" /\ wal[i].doc = Head(todo)

(***************************************************************************)
(* The inductive invariant behind CommitCovers and SegmentsNonEmpty: a     *)
(* commit reaches its marker with an empty buffer, and what the process    *)
(* logged is then in segment files.                                        *)
(***************************************************************************)
WriterInv ==
    /\ TypeOK
    /\ ControlInv
    /\ SegmentsNonEmpty
    /\ Unlost
    /\ CommitCovers

\* Why HiddenByLoggedDelete holds: every key of the bitmap, and the one about to be
\* published, comes from a Delete record of this process.
LoggedKey(k) ==
    \E i \in 1 .. Len(wal) : /\ wal[i].op = "Delete" /\ wal[i].epoch = epoch
                             /\ wal[i].doc \in Docs /\ DocKey(wal[i].doc) = k
HiddenInv ==
    /\ \A k \in snapshot.deleted : LoggedKey(k)
    /\ pc = "delete" => LoggedKey(DocKey(Head(todo)))
    /\ pc = "down" => snapshot.deleted = {}

-----------------------------------------------------------------------------
(* Statements of the repository's documentation that the code refutes.     *)

Visible == {d \in ToSet(PublishedDocs) : DocKey(d) \notin snapshot.deleted}

LastOp(d) ==
    LET own == SelectSeq(wal, LAMBDA r : r.doc = d /\ r.epoch = epoch)
    IN IF own = <<>> THEN "none" ELSE Last(own).op

(***************************************************************************)
(* "Delete a document (soft delete - adds to deleted bitmap)": a document  *)
(* whose last logged operation is its deletion is not visible to searches. *)
(***************************************************************************)
DeletedStaysDeleted ==
    pc = "idle" => \A d \in Docs : LastOp(d) = "Delete" => d \notin Visible

(***************************************************************************)
(* "WAL (Write-Ahead Logging) for crash recovery": after recover() every   *)
(* document the log holds and does not delete is with the writer again.    *)
(***************************************************************************)
RecoverRestores ==
    (pc = "idle" /\ op = "recover") =>
        \A i \in 1 .. Len(wal) :
            (wal[i].op = "Add" /\ \A j \in i .. Len(wal) :
                 ~(wal[j].op = "Delete" /\ wal[j].doc = wal[i].doc))
            => wal[i].doc \in ToSet(PublishedDocs) \cup ToSet(buffer)
=============================================================================
