-------------------------- MODULE IndexWriterProofs --------------------------
(***************************************************************************)
(* What the write path guarantees for every set of documents, batch size,  *)
(* log length and number of crashes.                                       *)
(***************************************************************************)
EXTENDS IndexWriter, SequenceTheorems, TLAPS

\* The elements of a buffer to which a document was written.
LEMMA ToSetAppend ==
  ASSUME NEW S, NEW s \in Seq(S), NEW e \in S
  PROVE  ToSet(Append(s, e)) = ToSet(s) \cup {e}
<1>1. /\ DOMAIN s = 1 .. Len(s) /\ Len(s) \in Nat
      /\ DOMAIN Append(s, e) = 1 .. Len(s) + 1
      /\ \A i \in 1 .. Len(s) : Append(s, e)[i] = s[i]
      /\ Append(s, e)[Len(s) + 1] = e
  OBVIOUS
<1>2. ToSet(Append(s, e)) \subseteq ToSet(s) \cup {e}
  BY <1>1, SMT DEF ToSet
<1>3. ToSet(s) \subseteq ToSet(Append(s, e))
  <2> SUFFICES ASSUME NEW x \in ToSet(s) PROVE x \in ToSet(Append(s, e)) OBVIOUS
  <2>1. PICK i \in 1 .. Len(s) : x = s[i] BY <1>1 DEF ToSet
  <2>2. i \in DOMAIN Append(s, e) /\ Append(s, e)[i] = x BY <1>1, <2>1
  <2> QED BY <2>2 DEF ToSet
<1>4. e \in ToSet(Append(s, e))
  <2>1. Len(s) + 1 \in DOMAIN Append(s, e) BY <1>1
  <2> QED BY <1>1, <2>1 DEF ToSet
<1> QED BY <1>2, <1>3, <1>4

\* An empty buffer holds no document.
LEMMA ToSetEmpty == ToSet(<<>>) = {}
BY DEF ToSet

\* No documents are a sequence of documents.
LEMMA NoDocs == <<>> \in Seq(Docs)
OBVIOUS

\* Segment indices stay valid when files are added.
LEMMA SeqMonotone ==
  ASSUME NEW S, NEW T, S \subseteq T, NEW s \in Seq(S)
  PROVE  s \in Seq(T)
<1>1. Len(s) \in Nat /\ DOMAIN s = 1 .. Len(s) /\ \A i \in 1 .. Len(s) : s[i] \in S
  OBVIOUS
<1>2. s \in [1 .. Len(s) -> T] BY <1>1
<1> QED BY <1>1, <1>2

\* A finished segment file keeps every document that was written before.
LEMMA AccountedGrows ==
  ASSUME TypeOK, NEW seg \in Seq(Docs), files' = Append(files, seg), dropped' = dropped,
         NEW d
  PROVE  /\ Accounted(d) => Accounted(d)'
         /\ d \in ToSet(seg) => Accounted(d)'
<1>1. /\ Len(files') = Len(files) + 1 /\ Len(files) \in Nat
      /\ \A k \in 1 .. Len(files) : files'[k] = files[k]
      /\ files'[Len(files) + 1] = seg
  BY DEF TypeOK
<1> QED BY <1>1 DEF Accounted

\* A new index starts in a state that satisfies the invariant.
LEMMA InitWriter == Init => WriterInv
<1> SUFFICES ASSUME Init PROVE WriterInv OBVIOUS
<1>1. TypeOK
  BY DocsAssumption DEF Init, TypeOK, EmptySnapshot, Calls
<1>2. ControlInv /\ SegmentsNonEmpty /\ Unlost /\ CommitCovers
  BY ToSetEmpty DEF Init, ControlInv, SegmentsNonEmpty, Unlost, CommitCovers, EmptySnapshot
<1> QED BY <1>1, <1>2 DEF WriterInv

\* A step that changes neither data nor control keeps the invariant.
LEMMA StutterWriter == WriterInv /\ UNCHANGED vars => WriterInv'
<1> SUFFICES ASSUME WriterInv, UNCHANGED vars PROVE WriterInv' OBVIOUS
<1> USE DEF vars
<1>1. TypeOK' BY DEF WriterInv, TypeOK
<1>2. ControlInv' /\ SegmentsNonEmpty'
  BY DEF WriterInv, ControlInv, SegmentsNonEmpty, ToSet
<1>3. Unlost' /\ CommitCovers' BY DEF WriterInv, Unlost, CommitCovers, Accounted, ToSet
<1> QED BY <1>1, <1>2, <1>3 DEF WriterInv

\* The documents' whereabouts only depend on the log,
\* the segment files, the buffer and on whether a document is being written.
LEMMA SameDocuments ==
  ASSUME WriterInv, wal' = wal, files' = files, buffer' = buffer, epoch' = epoch,
         dropped' = dropped, pc # "down", pc # "write"
  PROVE  Unlost' /\ CommitCovers'
BY DEF WriterInv, Unlost, CommitCovers, Accounted, ToSet

\* A call that starts, fails early or has nothing to do moves no document.
LEMMA CallAddWriter ==
  ASSUME WriterInv, NEW n \in 1 .. MaxBatch, NEW docs \in [1 .. n -> Docs], CallAdd(docs)
  PROVE  WriterInv'
<1>1. docs \in Seq(Docs) /\ docs # <<>>
  <2>1. n \in Nat /\ n >= 1 BY LimitsAssumption
  <2>2. docs \in Seq(Docs) /\ Len(docs) = n BY <2>1
  <2> QED BY <2>1, <2>2
<1>2. TypeOK' BY <1>1 DEF WriterInv, TypeOK, CallAdd, disk, history, Calls
<1>3. ControlInv' /\ SegmentsNonEmpty'
  BY <1>1 DEF WriterInv, ControlInv, SegmentsNonEmpty, CallAdd, disk, history, ToSet
<1>4. Unlost' /\ CommitCovers' BY SameDocuments DEF CallAdd, disk, history
<1> QED BY <1>2, <1>3, <1>4 DEF WriterInv

\* flush and commit start, fail to create a file, or compact or recover returns.
LEMMA EarlyWriter ==
  ASSUME WriterInv,
         \/ \E o \in {"flush", "commit"} : CallFlush(o)
         \/ CreateFails \/ CompactNothing \/ CompactFails \/ Recover
  PROVE  WriterInv'
<1> USE DEF CallFlush, CreateFails, CompactNothing, CompactFails, Recover, disk, history
<1>1. /\ UNCHANGED <<wal, synced, files, snapshot, buffer, merges, epoch, crashes, dropped>>
      /\ pc' \in {"seal", "idle"} /\ op' \in Calls
      /\ todo' = todo \/ todo' = <<>>
  BY DEF Returns, Calls, WriterInv
<1>4. TypeOK'
  <2> HIDE DEF CallFlush, CreateFails, CompactNothing, CompactFails, Recover
  <2>1. todo' \in Seq(Docs) BY <1>1, NoDocs DEF WriterInv, TypeOK
  <2> QED BY <1>1, <2>1 DEF WriterInv, TypeOK
<1>2. ControlInv' /\ SegmentsNonEmpty'
  BY DEF WriterInv, ControlInv, SegmentsNonEmpty, Returns, ToSet
<1>3. Unlost' /\ CommitCovers' BY SameDocuments
<1> QED BY <1>4, <1>2, <1>3 DEF WriterInv

\* A deletion, an empty compaction and a sync leave the segments alone.
LEMMA SnapshotWriter ==
  ASSUME WriterInv, CompactEmpty \/ PublishDelete \/ Sync
  PROVE  WriterInv'
<1> USE DEF CompactEmpty, PublishDelete, Sync, disk, history
<1>1. TypeOK'
  <2>1. CASE CompactEmpty
    BY <2>1 DEF WriterInv, TypeOK, EmptySnapshot, Calls
  <2>2. CASE PublishDelete
    <3>1. Head(todo) \in Nat
      BY <2>2, DocsAssumption DEF WriterInv, TypeOK, ControlInv
    <3>2. DocKey(Head(todo)) \in 0 .. U32 - 1 BY <3>1, DocsAssumption DEF DocKey
    <3>3. snapshot' \in [segments : Seq(1 .. Len(files)), deleted : SUBSET (0 .. U32 - 1)]
      BY <2>2, <3>2 DEF WriterInv, TypeOK
    <3>4. /\ UNCHANGED <<wal, synced, files, buffer, merges, epoch, crashes, dropped>>
          /\ pc' = "idle" /\ todo' = <<>> /\ op' = "none"
      BY <2>2 DEF Returns
    <3> HIDE DEF CompactEmpty, PublishDelete, Sync
    <3> QED BY <3>3, <3>4, NoDocs DEF WriterInv, TypeOK, Calls
  <2>3. CASE Sync BY <2>3 DEF WriterInv, TypeOK, Returns, Calls
  <2> QED BY <2>1, <2>2, <2>3
<1>2. ControlInv' BY DEF WriterInv, ControlInv, Returns
<1>3. SegmentsNonEmpty'
  <2>1. \/ snapshot'.segments = snapshot.segments
        \/ snapshot'.segments = <<>>
    BY DEF WriterInv, TypeOK, EmptySnapshot
  <2>2. files' = files OBVIOUS
  <2> QED BY <2>1, <2>2, ToSetEmpty DEF WriterInv, SegmentsNonEmpty
<1>4. Unlost' /\ CommitCovers' BY SameDocuments
<1> QED BY <1>1, <1>2, <1>3, <1>4 DEF WriterInv

\* A background merge fails on the first document it reads.
LEMMA MergeWriter ==
  ASSUME WriterInv, NEW m \in merges, MergeFails(m)
  PROVE  WriterInv'
<1>1. /\ UNCHANGED <<wal, synced, files, snapshot, buffer, pc, op, todo, epoch, crashes, dropped>>
      /\ merges' \subseteq merges
  BY DEF MergeFails, disk, call, history
<1>2. TypeOK' BY <1>1 DEF WriterInv, TypeOK
<1>3. ControlInv' /\ SegmentsNonEmpty'
  BY <1>1 DEF WriterInv, ControlInv, SegmentsNonEmpty, ToSet
<1>4. Unlost' /\ CommitCovers'
  BY <1>1 DEF WriterInv, Unlost, CommitCovers, Accounted, ToSet
<1> QED BY <1>2, <1>3, <1>4 DEF WriterInv

\* Appending a record keeps what earlier records and markers say.
LEMMA LogWriter ==
  ASSUME WriterInv, LogAdd \/ LogMarker \/ \E d \in Docs : CallDelete(d)
  PROVE  WriterInv'
<1> USE DEF LogAdd, LogMarker, CallDelete, disk, call, history
<1>1. PICK r \in Record :
         /\ wal' = Append(wal, r) /\ r.epoch = epoch
         /\ r.op = "Add" => pc' = "write" /\ r.doc = Head(todo) /\ todo' = todo
         /\ r.op = "Commit" => op = "commit" /\ pc = "marker"
         /\ pc' \in {"write", "sync", "delete"}
         /\ pc \notin {"down", "write"}
  <2>1. CASE LogAdd
    <3>1. Entry("Add", Head(todo)) \in Record
      BY <2>1 DEF WriterInv, TypeOK, ControlInv, Entry, Record
    <3> QED BY <2>1, <3>1 DEF Entry
  <2>2. CASE LogMarker
    <3> DEFINE r == Entry(IF op = "commit" THEN "Commit" ELSE "CompactCommit", -1)
    <3>1. r \in Record BY DEF WriterInv, TypeOK, Entry, Record
    <3> QED BY <2>2, <3>1 DEF Entry
  <2>3. ASSUME NEW d \in Docs, CallDelete(d)
        PROVE  \E r \in Record :
                 /\ wal' = Append(wal, r) /\ r.epoch = epoch /\ r.op = "Delete"
    <3>1. Entry("Delete", d) \in Record BY DEF WriterInv, TypeOK, Entry, Record
    <3> QED BY <2>3, <3>1 DEF Entry
  <2> QED BY <2>1, <2>2, <2>3
<1>2. /\ Len(wal') = Len(wal) + 1 /\ Len(wal) \in Nat
      /\ \A i \in 1 .. Len(wal) : wal'[i] = wal[i]
      /\ wal'[Len(wal) + 1] = r
      /\ wal' \in Seq(Record)
  BY <1>1 DEF WriterInv, TypeOK
<1>3. UNCHANGED <<synced, files, snapshot, buffer, merges, epoch, crashes, dropped>>
  OBVIOUS
<1>4. /\ todo' \in Seq(Docs) /\ op' \in Calls
      /\ pc' = "write" => op' = "add" /\ todo' # <<>>
      /\ pc' = "sync" => op' \in {"commit", "compact"}
      /\ pc' = "delete" => todo' # <<>>
  <2>1. CASE LogAdd BY <2>1 DEF WriterInv, TypeOK, ControlInv
  <2>2. CASE LogMarker BY <2>2 DEF WriterInv, TypeOK, ControlInv
  <2>3. ASSUME NEW d \in Docs, CallDelete(d)
        PROVE  todo' \in Seq(Docs) /\ todo' # <<>> /\ op' \in Calls /\ pc' = "delete"
    BY <2>3 DEF Calls
  <2> QED BY <2>1, <2>2, <2>3
<1> HIDE DEF LogAdd, LogMarker, CallDelete
<1>5. TypeOK' BY <1>1, <1>2, <1>3, <1>4 DEF WriterInv, TypeOK
<1>6. ControlInv'
  <2>1. ASSUME NEW i \in 1 .. Len(wal') PROVE wal'[i].epoch <= epoch'
    <3>1. epoch \in Nat /\ \A k \in 1 .. Len(wal) : wal[k].epoch <= epoch
      BY DEF WriterInv, TypeOK, ControlInv
    <3>2. i \in 1 .. Len(wal) \/ i = Len(wal) + 1 BY <1>2
    <3> QED BY <1>1, <1>2, <1>3, <3>1, <3>2
  <2> QED BY <1>1, <1>4, <2>1 DEF ControlInv
<1>7. SegmentsNonEmpty' BY <1>3 DEF WriterInv, SegmentsNonEmpty, ToSet
<1>8. Unlost'
  <2> SUFFICES ASSUME NEW i \in 1 .. Len(wal'), wal'[i].op = "Add", wal'[i].epoch = epoch',
                      NEW d, d = wal'[i].doc
               PROVE  \/ Accounted(d)'
                      \/ d \in ToSet(buffer)'
                      \/ pc' = "write" /\ d = Head(todo')
    BY DEF Unlost, Accounted
  <2>1. CASE i = Len(wal) + 1 BY <1>1, <1>2, <2>1
  <2>2. CASE i \in 1 .. Len(wal)
    <3>1. wal[i].op = "Add" /\ wal[i].epoch = epoch /\ wal[i].doc = d
      BY <1>2, <1>3, <2>2
    <3>2. Accounted(d) \/ d \in ToSet(buffer)
      BY <1>1, <2>2, <3>1 DEF WriterInv, Unlost
    <3> QED BY <1>3, <3>2 DEF Accounted
  <2> QED BY <1>2, <2>1, <2>2
<1>9. CommitCovers'
  <2> SUFFICES ASSUME NEW j \in 1 .. Len(wal'), wal'[j].op = "Commit",
                      NEW i \in 1 .. j, wal'[i].op = "Add", wal'[i].epoch = wal'[j].epoch,
                      NEW d, d = wal'[i].doc
               PROVE  Accounted(d)'
    BY DEF CommitCovers, Accounted
  <2>1. CASE j \in 1 .. Len(wal)
    <3>1. /\ i \in 1 .. Len(wal) /\ wal[i].op = "Add" /\ wal[i].doc = d
          /\ wal[j].op = "Commit" /\ wal[i].epoch = wal[j].epoch
      BY <1>2, <2>1
    <3>2. Accounted(d) BY <2>1, <3>1 DEF WriterInv, CommitCovers
    <3> QED BY <1>3, <3>2 DEF Accounted
  <2>2. CASE j = Len(wal) + 1
    <3>1. pc = "marker" /\ op = "commit" /\ buffer = <<>>
      BY <1>1, <1>2, <2>2 DEF WriterInv, ControlInv
    <3>2. i \in 1 .. Len(wal) BY <1>1, <1>2, <2>2
    <3>3. wal[i].op = "Add" /\ wal[i].epoch = epoch /\ wal[i].doc = d
      BY <1>1, <1>2, <2>2, <3>2
    <3>4. Accounted(d)
      BY <3>1, <3>2, <3>3, ToSetEmpty DEF WriterInv, Unlost
    <3> QED BY <1>3, <3>4 DEF Accounted
  <2> QED BY <1>2, <2>1, <2>2
<1> QED BY <1>5, <1>6, <1>7, <1>8, <1>9 DEF WriterInv

\* Writing a document moves it from "about to be written" into the buffer.
LEMMA WriteWriter ==
  ASSUME WriterInv, WriteDocument
  PROVE  WriterInv'
<1>1. /\ pc = "write" /\ todo # <<>> /\ todo \in Seq(Docs) /\ op = "add"
      /\ Head(todo) \in Docs /\ Tail(todo) \in Seq(Docs)
  BY DEF WriterInv, TypeOK, ControlInv, WriteDocument
<1>2. /\ UNCHANGED <<wal, synced, files, snapshot, merges, epoch, crashes, dropped>>
      /\ buffer' = Append(buffer, Head(todo))
  BY DEF WriteDocument, disk, history
<1>3. /\ buffer' \in Seq(Docs)
      /\ ToSet(buffer') = ToSet(buffer) \cup {Head(todo)}
  BY <1>1, <1>2, ToSetAppend DEF WriterInv, TypeOK
<1>4. \/ pc' = "seal" /\ todo' = Tail(todo) /\ op' = "add"
      \/ pc' = "idle" /\ todo' = <<>> /\ op' = "none"
      \/ pc' = "log" /\ todo' = Tail(todo) /\ todo' # <<>> /\ op' = "add"
  BY <1>1 DEF WriteDocument, NextDocument, Returns
<1>5. TypeOK'
  <2>1. todo' \in Seq(Docs) /\ op' \in Calls BY <1>1, <1>4, NoDocs DEF Calls
  <2> QED BY <1>2, <1>3, <1>4, <2>1 DEF WriterInv, TypeOK
<1>6. ControlInv' BY <1>2, <1>4 DEF WriterInv, ControlInv
<1>7. SegmentsNonEmpty' BY <1>2 DEF WriterInv, SegmentsNonEmpty
<1>8. Unlost' /\ CommitCovers'
  <2>1. \A d : Accounted(d)' <=> Accounted(d) BY <1>2 DEF Accounted
  <2>2. CommitCovers' BY <1>2, <2>1 DEF WriterInv, CommitCovers, Accounted
  <2>3. Unlost'
    BY <1>1, <1>2, <1>3 DEF WriterInv, Unlost, Accounted
  <2> QED BY <2>2, <2>3
<1> QED BY <1>5, <1>6, <1>7, <1>8 DEF WriterInv

\* What follows a sealed buffer: the marker, the next document or the return.
LEMMA AfterSealControl ==
  ASSUME TypeOK, AfterSeal, op \in {"add", "flush", "commit"}
  PROVE  /\ todo' \in Seq(Docs) /\ op' \in Calls
         /\ \/ pc' = "marker" /\ op' = "commit"
            \/ pc' = "idle"
            \/ pc' = "log" /\ op' = "add" /\ todo' # <<>>
<1>1. CASE op = "commit" BY <1>1 DEF TypeOK, AfterSeal, call
<1>2. CASE op = "flush" BY <1>2, NoDocs DEF AfterSeal, Returns, Calls
<1>3. CASE op = "add" BY <1>3, NoDocs DEF TypeOK, AfterSeal, NextDocument, Returns, Calls
<1> QED BY <1>1, <1>2, <1>3

\* Finishing a segment moves the documents of the buffer into a file.
LEMMA FinishWriter ==
  ASSUME WriterInv, FinishSegment
  PROVE  WriterInv'
<1>1. /\ pc = "seal" /\ op \in {"add", "flush", "commit"} /\ buffer' = <<>>
      /\ UNCHANGED <<wal, synced, snapshot, merges, epoch, crashes, dropped>>
  BY DEF WriterInv, ControlInv, FinishSegment, history
<1>2. CASE buffer = <<>>
  <2>1. files' = files /\ AfterSeal BY <1>2 DEF FinishSegment
  <2>2. /\ todo' \in Seq(Docs) /\ op' \in Calls
        /\ \/ pc' = "marker" /\ op' = "commit"
           \/ pc' = "idle"
           \/ pc' = "log" /\ op' = "add" /\ todo' # <<>>
    BY <1>1, <2>1, AfterSealControl DEF WriterInv
  <2>3. TypeOK' BY <1>1, <2>1, <2>2 DEF WriterInv, TypeOK
  <2>4. ControlInv' BY <1>1, <2>2 DEF WriterInv, ControlInv
  <2>5. SegmentsNonEmpty' BY <1>1, <2>1 DEF WriterInv, SegmentsNonEmpty
  <2>6. Unlost' /\ CommitCovers' BY <1>1, <1>2, <2>1, SameDocuments
  <2> QED BY <2>3, <2>4, <2>5, <2>6 DEF WriterInv
<1>3. CASE buffer # <<>>
  <2>1. files' = Append(files, buffer) /\ pc' = "publish" /\ UNCHANGED <<op, todo>>
    BY <1>3 DEF FinishSegment, call
  <2>2. /\ Len(files') = Len(files) + 1 /\ Len(files) \in Nat
        /\ files' \in Seq(Seq(Docs)) /\ files' # <<>> /\ files'[Len(files')] = buffer
        /\ \A k \in 1 .. Len(files) : files'[k] = files[k]
    <3>1. files \in Seq(Seq(Docs)) /\ buffer \in Seq(Docs) BY DEF WriterInv, TypeOK
    <3>2. files' \in Seq(Seq(Docs)) BY <2>1, <3>1
    <3>3. Len(files') = Len(files) + 1 /\ Len(files) \in Nat BY <2>1, <3>1
    <3>4. files'[Len(files) + 1] = buffer /\ \A k \in 1 .. Len(files) : files'[k] = files[k]
      BY <2>1, <3>1
    <3> QED BY <3>2, <3>3, <3>4
  <2>3. TypeOK'
    <3>1. 1 .. Len(files) \subseteq 1 .. Len(files') BY <2>2
    <3>2. snapshot \in [segments : Seq(1 .. Len(files')), deleted : SUBSET (0 .. U32 - 1)]
      BY <3>1, SeqMonotone DEF WriterInv, TypeOK
    <3> QED BY <1>1, <2>1, <2>2, <3>1, <3>2 DEF WriterInv, TypeOK
  <2>4. ControlInv' BY <1>1, <1>3, <2>1, <2>2 DEF WriterInv, ControlInv
  <2>5. SegmentsNonEmpty'
    <3>1. ToSet(snapshot.segments) \subseteq 1 .. Len(files)
      BY DEF WriterInv, TypeOK, ToSet
    <3> QED BY <1>1, <2>2, <3>1 DEF WriterInv, SegmentsNonEmpty
  <2>6. Unlost' /\ CommitCovers'
    <3>1. \A d : (Accounted(d) => Accounted(d)') /\ (d \in ToSet(buffer) => Accounted(d)')
      BY <1>1, <2>1, AccountedGrows DEF WriterInv, TypeOK
    <3>2. CommitCovers' BY <1>1, <3>1 DEF WriterInv, CommitCovers
    <3>3. Unlost' BY <1>1, <3>1 DEF WriterInv, Unlost
    <3> QED BY <3>2, <3>3
  <2> QED BY <2>3, <2>4, <2>5, <2>6 DEF WriterInv
<1> QED BY <1>2, <1>3

\* A failed finish moves the documents of the buffer to the dropped ones.
LEMMA FinishFailsWriter ==
  ASSUME WriterInv, FinishFails
  PROVE  WriterInv'
<1> USE DEF FinishFails, Returns, disk
<1>1. TypeOK'
  <2>1. ToSet(buffer) \subseteq Docs BY DEF WriterInv, TypeOK, ToSet
  <2> QED BY <2>1, NoDocs DEF WriterInv, TypeOK, Calls
<1>2. ControlInv' /\ SegmentsNonEmpty'
  BY DEF WriterInv, ControlInv, SegmentsNonEmpty
<1>3. \A d : Accounted(d) \/ d \in ToSet(buffer) => Accounted(d)' BY DEF Accounted
<1>4. CommitCovers' BY <1>3 DEF WriterInv, CommitCovers
<1>5. Unlost' BY <1>3 DEF WriterInv, Unlost
<1> QED BY <1>1, <1>2, <1>4, <1>5 DEF WriterInv

\* Publishing a finished segment moves no document.
LEMMA PublishWriter ==
  ASSUME WriterInv, PublishSegment
  PROVE  WriterInv'
<1> DEFINE segments == Append(snapshot.segments, Len(files))
<1>1. /\ pc = "publish" /\ op \in {"add", "flush", "commit"} /\ buffer = <<>>
      /\ files # <<>> /\ files[Len(files)] # <<>>
      /\ UNCHANGED <<wal, synced, files, buffer, epoch, crashes, dropped>>
      /\ snapshot' = [segments |-> segments, deleted |-> {}]
      /\ merges' = merges \cup {ToSet(segments)} \/ merges' = merges
  BY DEF WriterInv, ControlInv, PublishSegment, disk, history
<1>2. /\ Len(files) \in 1 .. Len(files)
      /\ snapshot.segments \in Seq(1 .. Len(files))
  BY <1>1 DEF WriterInv, TypeOK
<1>3. /\ segments \in Seq(1 .. Len(files))
      /\ ToSet(segments) = ToSet(snapshot.segments) \cup {Len(files)}
      /\ ToSet(segments) \subseteq 1 .. Len(files)
  <2>1. segments \in Seq(1 .. Len(files)) BY <1>2
  <2>2. ToSet(segments) = ToSet(snapshot.segments) \cup {Len(files)}
    BY <1>2, ToSetAppend
  <2>3. ToSet(segments) \subseteq 1 .. Len(files) BY <2>1 DEF ToSet
  <2> QED BY <2>1, <2>2, <2>3
<1>4. /\ todo' \in Seq(Docs) /\ op' \in Calls
      /\ \/ pc' = "marker" /\ op' = "commit"
         \/ pc' = "idle"
         \/ pc' = "log" /\ op' = "add" /\ todo' # <<>>
  BY <1>1, AfterSealControl DEF WriterInv, PublishSegment
<1> HIDE DEF segments
<1>5. TypeOK'
  <2>1. snapshot' \in [segments : Seq(1 .. Len(files)), deleted : SUBSET (0 .. U32 - 1)]
    BY <1>1, <1>3
  <2>2. merges' \subseteq SUBSET (1 .. Len(files))
    <3>1. merges \subseteq SUBSET (1 .. Len(files)) BY DEF WriterInv, TypeOK
    <3>2. ToSet(segments) \in SUBSET (1 .. Len(files)) BY <1>3
    <3> QED BY <1>1, <3>1, <3>2, Zenon
  <2> QED BY <1>1, <1>4, <2>1, <2>2 DEF WriterInv, TypeOK
<1>6. ControlInv' BY <1>1, <1>4 DEF WriterInv, ControlInv
<1>7. SegmentsNonEmpty' BY <1>1, <1>3 DEF WriterInv, SegmentsNonEmpty
<1>8. Unlost' /\ CommitCovers' BY <1>1, SameDocuments
<1> QED BY <1>5, <1>6, <1>7, <1>8 DEF WriterInv

\* A crash keeps a prefix of the log, and with it fewer promises to keep.
LEMMA CrashWriter ==
  ASSUME WriterInv, Crash
  PROVE  WriterInv'
<1>1. PICK n \in synced .. Len(wal) : wal' = SubSeq(wal, 1, n) BY DEF Crash
<1>2. /\ wal \in Seq(Record) /\ synced \in Nat /\ Len(wal) \in Nat /\ n \in Nat
      /\ synced <= n /\ n <= Len(wal)
  BY <1>1 DEF WriterInv, TypeOK
<1>3. /\ wal' \in Seq(Record) /\ Len(wal') = n
      /\ \A i \in 1 .. n : i \in 1 .. Len(wal) /\ wal'[i] = wal[i]
  BY <1>1, <1>2
<1>4. /\ pc' = "down" /\ op' = "none" /\ todo' = <<>> /\ buffer' = <<>> /\ merges' = {}
      /\ snapshot' = EmptySnapshot /\ crashes' = crashes + 1
      /\ UNCHANGED <<synced, files, epoch, dropped>>
  BY DEF Crash
<1>5. TypeOK'
  BY <1>2, <1>3, <1>4, NoDocs DEF WriterInv, TypeOK, EmptySnapshot, Calls
<1>6. ControlInv' BY <1>3, <1>4 DEF WriterInv, ControlInv
<1>7. SegmentsNonEmpty' BY <1>4, ToSetEmpty DEF SegmentsNonEmpty, EmptySnapshot
<1>8. Unlost' BY <1>4 DEF Unlost
<1>9. CommitCovers'
  <2> SUFFICES ASSUME NEW j \in 1 .. n, wal[j].op = "Commit",
                      NEW i \in 1 .. j, wal[i].op = "Add", wal[i].epoch = wal[j].epoch
               PROVE  Accounted(wal[i].doc)
    BY <1>2, <1>3, <1>4 DEF CommitCovers, Accounted
  <2> QED BY <1>2 DEF WriterInv, CommitCovers
<1> QED BY <1>5, <1>6, <1>7, <1>8, <1>9 DEF WriterInv

\* A new process has logged nothing yet.
LEMMA RestartWriter ==
  ASSUME WriterInv, Restart
  PROVE  WriterInv'
<1> USE DEF Restart, disk, call
<1>1. TypeOK' BY DEF WriterInv, TypeOK
<1>2. epoch' = epoch + 1 /\ epoch \in Nat /\ \A i \in 1 .. Len(wal) : wal[i].epoch <= epoch
  BY DEF WriterInv, TypeOK, ControlInv
<1>3. wal \in Seq(Record) BY DEF WriterInv, TypeOK
<1>4. ASSUME NEW i \in 1 .. Len(wal) PROVE wal[i].epoch \in Nat
  <2>1. wal[i] \in Record BY <1>3
  <2> QED BY <2>1 DEF Record
<1>5. ControlInv' BY <1>2, <1>4 DEF ControlInv
<1>6. SegmentsNonEmpty' BY DEF WriterInv, SegmentsNonEmpty
<1>7. Unlost' BY <1>2, <1>4 DEF Unlost
<1>8. CommitCovers' BY DEF WriterInv, CommitCovers, Accounted
<1> QED BY <1>1, <1>5, <1>6, <1>7, <1>8 DEF WriterInv

\* Every step of the writer, of a background merge and of a crash keeps the
\* invariant.
LEMMA NextWriter == WriterInv /\ [Next]_vars => WriterInv'
<1> SUFFICES ASSUME WriterInv, [Next]_vars PROVE WriterInv' OBVIOUS
<1>1. CASE UNCHANGED vars BY <1>1, StutterWriter
<1>2. CASE Next
  BY <1>2, CallAddWriter, EarlyWriter, SnapshotWriter, MergeWriter, LogWriter,
     WriteWriter, FinishWriter, FinishFailsWriter, PublishWriter, CrashWriter,
     RestartWriter DEF Next
<1> QED BY <1>1, <1>2

\* The inductive invariant holds in every reachable state of the write path.
THEOREM WriterInvariance == Spec => []WriterInv
BY InitWriter, NextWriter, PTL DEF Spec

\* Type correctness of the log, the segment files, the snapshot and the calls.
THEOREM WriterTypes == Spec => []TypeOK
<1>1. WriterInv => TypeOK BY DEF WriterInv
<1> QED BY <1>1, WriterInvariance, PTL

(***************************************************************************)
(* A Commit record that commit() wrote is preceded in the log only by      *)
(* documents of its process that are in finished segment files, or were    *)
(* dropped with one that failed, whatever a crash leaves of the log.       *)
(***************************************************************************)
THEOREM CommitIsCovered == Spec => []CommitCovers
<1>1. WriterInv => CommitCovers BY DEF WriterInv
<1> QED BY <1>1, WriterInvariance, PTL

(***************************************************************************)
(* No published segment is empty, also when creating or finishing segment  *)
(* files fails, so merge and compact can never read one to its end.        *)
(***************************************************************************)
THEOREM NoEmptySegment == Spec => []SegmentsNonEmpty
<1>1. WriterInv => SegmentsNonEmpty BY DEF WriterInv
<1> QED BY <1>1, WriterInvariance, PTL

(***************************************************************************)
(* No step of a running process takes a published segment away.            *)
(***************************************************************************)
THEOREM SegmentsStay == Spec => SegmentsAppendOnly
<1> DEFINE A == pc' # "down" => IsPrefix(snapshot.segments, snapshot'.segments)
<1>1. WriterInv /\ [Next]_vars => [A]_vars
  <2> SUFFICES ASSUME WriterInv, Next, pc' # "down"
               PROVE  IsPrefix(snapshot.segments, snapshot'.segments)
    OBVIOUS
  <2>1. snapshot.segments \in Seq(1 .. Len(files)) BY DEF WriterInv, TypeOK
  <2>2. \/ snapshot'.segments = snapshot.segments
        \/ snapshot'.segments = Append(snapshot.segments, Len(files))
    BY DEF Next, CallAdd, LogAdd, WriteDocument, CallFlush, FinishSegment, CreateFails,
           FinishFails, PublishSegment, LogMarker, Sync, CallDelete, PublishDelete,
           MergeFails, CompactNothing, CompactFails, CompactEmpty, EmptySnapshot, Crash,
           Restart, Recover, disk, WriterInv, TypeOK
  <2> QED BY <2>1, <2>2 DEF IsPrefix
<1> QED BY <1>1, WriterInvariance, PTL DEF Spec, SegmentsAppendOnly

-----------------------------------------------------------------------------
(* What a deletion hides.                                                  *)

\* Identifiers with the same key differ by a multiple of 2^32.
LEMMA SameKey ==
  ASSUME NEW a \in Nat, NEW b \in Nat, NEW m \in Nat \ {0}, a % m = b % m
  PROVE  (a - b) % m = 0
<1> DEFINE x == a \div m
           y == b \div m
           r == a % m
<1>1. x \in Int /\ y \in Int /\ r \in Int OBVIOUS
<1>2. a = m * x + r OBVIOUS
<1>3. b = m * y + (b % m) OBVIOUS
<1>4. b = m * y + r BY <1>3
<1> HIDE DEF x, y, r
<1>5. a - b = m * (x - y) BY <1>1, <1>2, <1>4
<1>6. \A k \in Int : (m * k) % m = 0 OBVIOUS
<1> QED BY <1>1, <1>5, <1>6

\* A record that is logged stays logged while the log only grows.
LEMMA LoggedKeyStays ==
  ASSUME TypeOK, epoch' = epoch, wal' = wal \/ \E e : e \in Record /\ wal' = Append(wal, e), NEW k, LoggedKey(k)
  PROVE  LoggedKey(k)'
<1>1. wal \in Seq(Record) BY DEF TypeOK
<1>2. Len(wal) \in Nat /\ Len(wal') >= Len(wal) /\ Len(wal') \in Nat /\ \A i \in 1 .. Len(wal) : wal'[i] = wal[i]
  BY <1>1
<1>3. PICK i \in 1 .. Len(wal) : /\ wal[i].op = "Delete" /\ wal[i].epoch = epoch
                                 /\ wal[i].doc \in Docs /\ DocKey(wal[i].doc) = k
  BY DEF LoggedKey
<1>4. i \in 1 .. Len(wal') /\ wal'[i] = wal[i] BY <1>2
<1> QED BY <1>3, <1>4 DEF LoggedKey, DocKey

\* Only delete_document adds to the bitmap, with the key it has just logged.
LEMMA HiddenStep == WriterInv /\ HiddenInv /\ [Next]_vars => HiddenInv'
<1> SUFFICES ASSUME WriterInv, HiddenInv, [Next]_vars PROVE HiddenInv' OBVIOUS
<1>0. TypeOK BY DEF WriterInv
<1>1. CASE Crash BY <1>1 DEF Crash, EmptySnapshot, HiddenInv
<1>2. CASE Restart
  <2>1. snapshot' = snapshot /\ snapshot.deleted = {} /\ pc' = "idle" BY <1>2 DEF Restart, HiddenInv
  <2> QED BY <2>1 DEF HiddenInv
<1>3. ASSUME NEW d \in Docs, CallDelete(d) PROVE HiddenInv'
  <2>1. /\ wal' = Append(wal, Entry("Delete", d)) /\ epoch' = epoch /\ snapshot' = snapshot
        /\ todo' = <<d>> /\ pc' = "delete"
    BY <1>3 DEF CallDelete, history
  <2>2. Entry("Delete", d) \in Record /\ wal \in Seq(Record) /\ epoch \in Nat BY <1>0 DEF Entry, Record, TypeOK
  <2>3. \A k \in snapshot.deleted : LoggedKey(k)' BY <1>0, <2>1, <2>2, LoggedKeyStays DEF HiddenInv
  <2>4. LoggedKey(DocKey(d))'
    <3>1. Len(wal') = Len(wal) + 1 /\ wal'[Len(wal')] = Entry("Delete", d) /\ Len(wal) \in Nat BY <2>1, <2>2
    <3>2. Len(wal') \in 1 .. Len(wal') BY <3>1
    <3> QED BY <2>1, <3>1, <3>2 DEF LoggedKey, Entry, DocKey
  <2>5. Head(todo') = d BY <2>1
  <2> QED BY <2>1, <2>3, <2>4, <2>5 DEF HiddenInv, DocKey
<1>4. CASE LogAdd \/ LogMarker
  <2>1. /\ epoch' = epoch /\ snapshot' = snapshot /\ pc' \in {"write", "sync"}
        /\ \E o \in {"Add", "Commit", "CompactCommit"} : \E d \in {Head(todo), -1} :
              /\ d = -1 \/ pc = "log"
              /\ wal' = Append(wal, Entry(o, d))
    BY <1>4 DEF LogAdd, LogMarker, history
  <2>2. pc = "log" => Head(todo) \in Docs BY DEF WriterInv, ControlInv, TypeOK
  <2>3. \E e : e \in Record /\ wal' = Append(wal, e) BY <1>0, <2>1, <2>2 DEF Entry, Record, TypeOK
  <2>4. \A k \in snapshot.deleted : LoggedKey(k)' BY <1>0, <2>1, <2>3, LoggedKeyStays DEF HiddenInv
  <2> QED BY <2>1, <2>4 DEF HiddenInv
<1>5. CASE PublishDelete
  <2>1. /\ UNCHANGED <<wal, epoch>> /\ pc = "delete" /\ pc' = "idle"
        /\ snapshot' = [snapshot EXCEPT !.deleted = @ \cup {DocKey(Head(todo))}]
    BY <1>5 DEF PublishDelete, disk, history, Returns
  <2>2. snapshot'.deleted = snapshot.deleted \cup {DocKey(Head(todo))} BY <1>0, <2>1 DEF TypeOK
  <2>3. \A k \in snapshot'.deleted : LoggedKey(k)' BY <1>0, <2>1, <2>2, LoggedKeyStays DEF HiddenInv
  <2> QED BY <2>1, <2>3 DEF HiddenInv
<1>6. ASSUME UNCHANGED <<wal, epoch>>, snapshot'.deleted \subseteq snapshot.deleted,
             pc' = "delete" => pc = "delete" /\ todo' = todo, pc' = "down" => pc = "down"
      PROVE  HiddenInv'
  <2>1. \A k \in snapshot'.deleted : LoggedKey(k)' BY <1>0, <1>6, LoggedKeyStays DEF HiddenInv
  <2>2. pc' = "delete" => LoggedKey(DocKey(Head(todo)))'
    <3> SUFFICES ASSUME pc' = "delete" PROVE LoggedKey(DocKey(Head(todo)))' OBVIOUS
    <3>1. LoggedKey(DocKey(Head(todo))) /\ todo' = todo BY <1>6 DEF HiddenInv
    <3> QED BY <1>6, <3>1 DEF LoggedKey, DocKey
  <2>3. pc' = "down" => snapshot'.deleted = {} BY <1>6 DEF HiddenInv
  <2> QED BY <2>1, <2>2, <2>3 DEF HiddenInv
<1>7. CASE UNCHANGED vars BY <1>6, <1>7 DEF vars
<1>8. CASE \/ \E n \in 1 .. MaxBatch : \E docs \in [1 .. n -> Docs] : CallAdd(docs)
           \/ \E o \in {"flush", "commit"} : CallFlush(o)
           \/ WriteDocument \/ FinishSegment \/ CreateFails \/ FinishFails \/ Sync
           \/ CompactNothing \/ CompactFails \/ Recover
  <2>1. UNCHANGED <<wal, epoch, snapshot>>
    BY <1>8 DEF CallAdd, CallFlush, WriteDocument, FinishSegment, CreateFails, FinishFails, Sync,
                CompactNothing, CompactFails, Recover, disk, history
  <2>2. pc' \notin {"delete", "down"}
    <3>1. CASE FinishSegment
      <4>1. op \in {"add", "flush", "commit"} BY <3>1 DEF FinishSegment, WriterInv, ControlInv
      <4> QED BY <3>1, <4>1 DEF FinishSegment, AfterSeal, NextDocument, Returns
    <3>2. CASE ~FinishSegment
      BY <1>8, <3>2 DEF CallAdd, CallFlush, WriteDocument, CreateFails, FinishFails, Sync,
                CompactNothing, CompactFails, Recover, NextDocument, Returns
    <3> QED BY <3>1, <3>2
  <2> QED BY <1>6, <2>1, <2>2
<1>9. CASE PublishSegment
  <2>1. UNCHANGED <<wal, epoch>> /\ snapshot'.deleted = {} BY <1>9 DEF PublishSegment, disk, history
  <2>2. op \in {"add", "flush", "commit"} BY <1>9 DEF PublishSegment, WriterInv, ControlInv
  <2>3. pc' \notin {"delete", "down"} BY <1>9, <2>2 DEF PublishSegment, AfterSeal, NextDocument, Returns
  <2> QED BY <2>1, <2>3 DEF HiddenInv
<1>10. ASSUME NEW m \in merges, MergeFails(m) PROVE HiddenInv'
  BY <1>6, <1>10 DEF MergeFails, disk, call, history
<1>11. CASE CompactEmpty BY <1>11 DEF CompactEmpty, EmptySnapshot, HiddenInv
<1> QED BY <1>1, <1>2, <1>3, <1>4, <1>5, <1>7, <1>8, <1>9, <1>10, <1>11 DEF Next

(***************************************************************************)
(* A published document is hidden only by a deletion this process logged,  *)
(* of it or of an identifier with the same low word.                       *)
(***************************************************************************)
THEOREM HiddenIsLogged == Spec => []HiddenByLoggedDelete
<1>1. Init => HiddenInv BY DEF Init, EmptySnapshot, HiddenInv
<1>2. HiddenInv => HiddenByLoggedDelete
  <2> SUFFICES ASSUME HiddenInv, NEW d \in Docs, DocKey(d) \in snapshot.deleted
               PROVE  \E i \in 1 .. Len(wal) : /\ wal[i].op = "Delete" /\ wal[i].epoch = epoch
                                               /\ (wal[i].doc - d) % U32 = 0
    BY DEF HiddenByLoggedDelete
  <2>1. PICK i \in 1 .. Len(wal) : /\ wal[i].op = "Delete" /\ wal[i].epoch = epoch
                                   /\ wal[i].doc \in Docs /\ DocKey(wal[i].doc) = DocKey(d)
    BY DEF HiddenInv, LoggedKey
  <2>2. wal[i].doc \in Nat /\ d \in Nat /\ U32 \in Nat \ {0} /\ wal[i].doc % U32 = d % U32
    BY <2>1, DocsAssumption DEF DocKey
  <2>3. (wal[i].doc - d) % U32 = 0 BY <2>2, SameKey
  <2> QED BY <2>1, <2>3
<1> QED BY <1>1, <1>2, HiddenStep, WriterInvariance, PTL DEF Spec
=============================================================================
