---------------------------- MODULE ParallelWriter ----------------------------
(***************************************************************************)
(* ParallelWriter (src/writer/parallel_writer.rs) over DataWriter and the  *)
(* in-memory index writer: a client sends documents into a bounded channel *)
(* and now and then flushes; the worker takes one document at a time and   *)
(* runs two tasks on it, joined before the next; a task that fills the     *)
(* segment sends it, inside the data lock, into a second bounded channel   *)
(* that somebody must empty with try_recv_segment.  Failures of the two    *)
(* writers are dropped (let _ = ...).                                      *)
(***************************************************************************)
EXTENDS Integers, Sequences, SequencesExt, FiniteSets

CONSTANTS
    DocBuffer,      \* capacity of the document channel (1000)
    SegmentBuffer,  \* capacity of the segment channel (10)
    BatchSize,      \* DataWriter::batch_size
    MaxSent,        \* bound: documents, numbered as they are sent
    MaxFlushes,     \* bound: flushes of the client
    MaxFaults       \* bound: failing writes and flushes

VARIABLES
    doc_channel, segment_channel,
    sent,         \* documents sent so far
    client,       \* "ready", "flushing" (inside flush, holding the data lock), "dropped"
    worker,       \* "waiting", "writing" or "ended"
    hand,         \* the document the worker has, in a sequence of at most one
    data_task,    \* "none", "start", "written", "sending" (a full segment) or "done"
    index_task,   \* "none", "start" or "done"
    segment,      \* documents of the open segment
    index,        \* documents in the index writer
    made,         \* history: segments finished, in order
    given,        \* history: segments that reached the client, by either way
    lost,         \* history: documents that were written nowhere or whose segment went nowhere
    covered,      \* history: documents handled since the client's last flush
    skewed,       \* history: the document in the worker's hand when the index was cleared
    flushes, faults

channels == <<doc_channel, segment_channel>>
workerVars == <<worker, hand, data_task, index_task>>
histories == <<made, given, lost, covered, skewed>>
parallelVars == <<doc_channel, segment_channel, sent, client, worker, hand, data_task, index_task,
                  segment, index, made, given, lost, covered, skewed, flushes, faults>>

ParallelInit ==
    /\ doc_channel = <<>> /\ segment_channel = <<>>
    /\ sent = 0 /\ client = "ready" /\ worker = "waiting" /\ hand = <<>>
    /\ data_task = "none" /\ index_task = "none"
    /\ segment = <<>> /\ index = {} /\ made = <<>> /\ given = <<>> /\ lost = {}
    /\ covered = {} /\ skewed = {} /\ flushes = 0 /\ faults = 0

\* Mutant: flush releases the data lock before it clears the index.
DataLockFreeEarly == data_task \notin {"written", "sending"}

\* The data lock: the client has it inside flush, the data task until it has sent.
DataLockFree == client # "flushing" /\ data_task \notin {"written", "sending"}

\* send blocks while the channel is full.
WriteDocument ==
    /\ client = "ready" /\ sent < MaxSent /\ Len(doc_channel) < DocBuffer
    /\ doc_channel' = Append(doc_channel, sent + 1)
    /\ sent' = sent + 1
    /\ UNCHANGED <<segment_channel, client, workerVars, segment, index, histories, flushes, faults>>

TryRecvSegment ==
    /\ client # "dropped" /\ segment_channel # <<>>
    /\ given' = Append(given, Head(segment_channel))
    /\ segment_channel' = Tail(segment_channel)
    /\ UNCHANGED <<doc_channel, sent, client, workerVars, segment, index,
                   made, lost, covered, skewed, flushes, faults>>

\* DataWriter::flush: a new segment is opened and the old one, empty or not,
\* finished.  A failing finish loses it; a failing open leaves it as it was.
Finish == made' = Append(made, segment) /\ segment' = <<>> /\ UNCHANGED <<lost, faults>>
FinishFails ==
    /\ faults < MaxFaults /\ faults' = faults + 1
    /\ \/ segment' = segment /\ lost' = lost
       \/ segment' = <<>> /\ lost' = lost \cup Range(segment)
    /\ made' = made

\* flush, first half, under the data lock; an error ends the call there.
FlushData ==
    /\ client = "ready" /\ flushes < MaxFlushes /\ DataLockFree
    /\ flushes' = flushes + 1
    /\ \/ Finish /\ client' = "flushing" /\ covered' = {}
       \/ FinishFails /\ UNCHANGED <<client, covered>>
    /\ UNCHANGED <<channels, sent, workerVars, index, given, skewed>>

\* flush, second half: the index is cleared and the segment returned.
FlushIndex ==
    /\ client = "flushing"
    /\ index' = {} /\ skewed' = Range(hand)
    /\ given' = Append(given, Last(made))
    /\ client' = "ready"
    /\ UNCHANGED <<channels, sent, workerVars, segment, made, lost, covered, flushes, faults>>

\* The writer goes out of scope, with the segments nobody fetched.
Drop ==
    /\ client = "ready"
    /\ client' = "dropped"
    /\ lost' = lost \cup Range(FlattenSeq(segment_channel))
    /\ segment_channel' = <<>>
    /\ UNCHANGED <<doc_channel, sent, workerVars, segment, index, made, given, covered, skewed, flushes, faults>>

Take ==
    /\ hand' = <<Head(doc_channel)>> /\ doc_channel' = Tail(doc_channel)
    /\ worker' = "writing" /\ data_task' = "start" /\ index_task' = "start"
End == worker' = "ended" /\ UNCHANGED <<hand, doc_channel, data_task, index_task>>


\* Mutant: the worker keeps a sender itself, and recv never fails.
RecvForever ==
    /\ worker = "waiting" /\ doc_channel # <<>> /\ Take
    /\ UNCHANGED <<segment_channel, sent, client, segment, index, histories, flushes, faults>>

\* recv fails only when the sender is gone and the channel empty.
Recv ==
    /\ worker = "waiting"
    /\ \/ doc_channel # <<>> /\ Take
       \/ doc_channel = <<>> /\ client = "dropped" /\ End
    /\ UNCHANGED <<segment_channel, sent, client, segment, index, histories, flushes, faults>>

\* Data task: the document is written, or fails and is forgotten.
WriteData ==
    /\ data_task = "start" /\ DataLockFree
    /\ \/ segment' = Append(segment, hand[1]) /\ UNCHANGED <<lost, faults>>
       \/ faults < MaxFaults /\ faults' = faults + 1 /\ lost' = lost \cup Range(hand) /\ UNCHANGED segment
    /\ covered' = covered \cup Range(hand)
    /\ data_task' = "written"
    /\ UNCHANGED <<channels, sent, client, worker, hand, index_task, index, made, given, skewed, flushes>>

ShouldFlush == Len(segment) >= BatchSize

\* Data task: a full segment is finished, and sent without releasing the lock.
FlushFull ==
    /\ data_task = "written"
    /\ \/ ~ShouldFlush /\ data_task' = "done" /\ UNCHANGED <<segment, made, lost, faults>>
       \/ ShouldFlush /\ Finish /\ data_task' = "sending"
       \/ ShouldFlush /\ FinishFails /\ data_task' = "done"
    /\ UNCHANGED <<channels, sent, client, worker, hand, index_task, index, given, covered, skewed, flushes>>

\* Mutant: a full channel drops the segment (try_send).
SendSegmentOrNot ==
    /\ data_task = "sending" /\ data_task' = "done"
    /\ segment_channel' = IF Len(segment_channel) < SegmentBuffer
                          THEN Append(segment_channel, Last(made)) ELSE segment_channel
    /\ UNCHANGED <<doc_channel, sent, client, worker, hand, index_task, segment, index, histories, flushes, faults>>

\* send blocks while the channel is full and fails when its receiver is gone.
SendSegment ==
    /\ data_task = "sending" /\ data_task' = "done"
    /\ \/ /\ client # "dropped" /\ Len(segment_channel) < SegmentBuffer
          /\ segment_channel' = Append(segment_channel, Last(made)) /\ lost' = lost
       \/ client = "dropped" /\ lost' = lost \cup Range(Last(made)) /\ UNCHANGED segment_channel
    /\ UNCHANGED <<doc_channel, sent, client, worker, hand, index_task, segment, index,
                   made, given, covered, skewed, flushes, faults>>

IndexDocument ==
    /\ index_task = "start" /\ index_task' = "done"
    /\ index' = index \cup Range(hand)
    /\ UNCHANGED <<channels, sent, client, worker, hand, data_task, segment, histories, flushes, faults>>

\* The end of rayon::scope.
Join ==
    /\ data_task = "done" /\ index_task = "done"
    /\ worker' = "waiting" /\ hand' = <<>> /\ data_task' = "none" /\ index_task' = "none"
    /\ UNCHANGED <<channels, sent, client, segment, index, histories, flushes, faults>>

Worker == Recv \/ WriteData \/ FlushFull \/ SendSegment \/ Join
ParallelNext ==
    \/ WriteDocument \/ TryRecvSegment \/ FlushData \/ FlushIndex \/ Drop
    \/ Worker \/ IndexDocument

\* The worker and its tasks are threads that run when they can; whoever owns
\* the writer keeps fetching segments and does not stop inside flush.
ParallelFairness ==
    /\ WF_parallelVars(Worker) /\ WF_parallelVars(IndexDocument)
    /\ WF_parallelVars(TryRecvSegment) /\ WF_parallelVars(FlushIndex)

-----------------------------------------------------------------------------
\* The pipeline neither loses, repeats nor reorders a document by itself: what
\* was finished, is open, in the worker's hand and in the channel, in this
\* order, is ascending; and every document sent is there or is one a failure or
\* the drop lost, none both; and a finished segment is in exactly one
\* place: with the client, in the channel, or on its way into one of them.
DocumentsAccounted ==
    LET flow == FlattenSeq(made) \o segment \o (IF data_task = "start" THEN hand ELSE <<>>) \o doc_channel
        moving == IF data_task = "sending" \/ client = "flushing" THEN <<Last(made)>> ELSE <<>>
        out == FlattenSeq(given \o segment_channel \o moving)
    IN  /\ \A i, j \in DOMAIN flow : i < j => flow[i] < flow[j]
        /\ Range(flow) \cup lost = 1 .. sent
        /\ IsInjective(out) /\ Range(out) \cap lost = {}
        /\ Range(FlattenSeq(made)) \subseteq Range(out) \cup lost

\* The index writer follows the data writer up to one document: between two
\* documents the index holds exactly the documents handled since the client's
\* last flush, except the one the worker had in hand when that flush cleared the
\* index (parallel_writer.rs:98-104 clears it under the data lock, while the index
\* task of that document may be before or behind).
IndexSkewBounded ==
    (worker # "writing" /\ client # "flushing") =>
        (covered \ index) \cup (index \ covered) \subseteq skewed

\* Every document sent is eventually handled and indexed, the ones still queued
\* when the writer is dropped included; with a full segment channel this rests on
\* someone calling try_recv_segment (the worker waits at parallel_writer.rs:65
\* with the data lock held, where flush and so the client wait for it).
DocumentsHandled ==
    \A d \in 1 .. MaxSent :
        (d <= sent) ~> (d \in Range(FlattenSeq(made) \o segment) \cup lost /\ d \notin Range(hand))

\* Dropping the writer ends its worker thread (recv fails at
\* parallel_writer.rs:52), also when the segment channel is full at that moment.
DropEndsWorker == (client = "dropped") ~> (worker = "ended")

\* Between client, worker and its two tasks no document goes astray, and the index
\* stays within one document of the data (parallel_writer.rs:45-104).
PipelineExact == DocumentsAccounted /\ IndexSkewBounded

=============================================================================
