----------------------------- MODULE MemoryLimits -----------------------------
(***************************************************************************)
(* The memory limit of low-memory mode (src/memory/pool.rs MemoryTracker,  *)
(* as core/engine.rs uses it), the buffers of src/memory/buffer_pool.rs    *)
(* and the pages of src/memory/swap.rs.  The tracker is an atomic counter: *)
(* an allocation adds, compares and, over the limit, subtracts again, and  *)
(* other threads run in between.                                           *)
(***************************************************************************)
EXTENDS Integers, Sequences, SequencesExt, FiniteSets, FiniteSetsExt, Functions, TLC

CONSTANTS
    Writers,       \* threads that write documents
    DocSizes,      \* the doc_size of a write
    DeleteSize,    \* the 500 bytes a deletion gives back
    HeapLimit,     \* LowMemoryConfig::heap_limit
    UsizeRange,    \* 2^64: usage is a usize
    MaxEnabled,    \* bound: calls of enable_low_memory_mode
    MaxDeletes,    \* bound: deletions per tracker
    Classes,       \* the size classes with a queue
    MaxBuffers,    \* buffers kept per class (100)
    RequestSizes,  \* lengths asked of the buffer pool
    PrefixLen,     \* the 4 bytes SegmentWriter::write_document puts before what it asked for
    Pages, PageSizes, SwapThreshold

VARIABLES
    usage,     \* the trackers, the one in use last
    writer,    \* thread -> what its allocate has done so far
    granted,   \* history: per tracker, the sizes granted, summed
    refused,   \* history: per tracker, the least Alone of the requests refused
    freed,     \* history: per tracker, deletions
    buffers,   \* BufferPool::pools: class -> capacities of its buffers
    borrowed,  \* thread -> the capacity of the buffer it has, or 0
    swapped,   \* swapped_pages and the files behind it
    original,  \* history: what a page held when it was written out
    loaded     \* the last page read back, and what it should hold

trackerVars == <<usage, writer, granted, refused, freed>>
bufferVars == <<buffers, borrowed>>
swapVars == <<swapped, original, loaded>>
memoryVars == <<trackerVars, bufferVars, swapVars>>

Idle == [pc |-> "idle", size |-> 0, tracker |-> 0, seen |-> 0, without |-> UsizeRange]
Unloaded == [data |-> {}, expected |-> {}]

MemoryInit ==
    /\ usage = <<>> /\ granted = <<>> /\ refused = <<>> /\ freed = <<>>
    /\ writer = [t \in Writers |-> Idle]
    /\ buffers = [c \in Classes |-> <<>>]
    /\ borrowed = [t \in Writers |-> 0]
    /\ swapped = [p \in {} |-> {}] /\ original = swapped /\ loaded = Unloaded

-----------------------------------------------------------------------------
\* enable_low_memory_mode puts a new tracker in place; a write under way keeps the old one.
EnableLowMemory ==
    /\ Len(usage) < MaxEnabled
    /\ usage' = Append(usage, 0)
    /\ granted' = Append(granted, 0) /\ refused' = Append(refused, UsizeRange) /\ freed' = Append(freed, 0)
    /\ UNCHANGED writer

UnderWay(k) == {t \in Writers : writer[t].pc = "added" /\ writer[t].tracker = k}

\* What a request makes of granted when no other is under way and nothing was deleted.
Alone(k, size) == IF UnderWay(k) = {} /\ freed[k] = 0 THEN granted[k] + size ELSE UsizeRange

\* Mutant: the value before the addition is compared.
FetchAddOld(t, size) ==
    LET k == Len(usage) IN
    /\ k > 0 /\ writer[t].pc = "idle"
    /\ usage' = [usage EXCEPT ![k] = (@ + size) % UsizeRange]
    /\ writer' = [writer EXCEPT ![t] = [pc |-> "added", size |-> size, tracker |-> k,
                                        seen |-> usage[k], without |-> Alone(k, size)]]
    /\ UNCHANGED <<granted, refused, freed>>

\* allocate, its fetch_add.
FetchAdd(t, size) ==
    LET k == Len(usage) IN
    /\ k > 0 /\ writer[t].pc = "idle"
    /\ usage' = [usage EXCEPT ![k] = (@ + size) % UsizeRange]
    /\ writer' = [writer EXCEPT ![t] = [pc |-> "added", size |-> size, tracker |-> k,
                                        seen |-> usage'[k], without |-> Alone(k, size)]]
    /\ UNCHANGED <<granted, refused, freed>>

\* Mutant: a refused request stays counted.
CompareOnly(t) ==
    LET w == writer[t] IN
    /\ w.pc = "added"
    /\ writer' = [writer EXCEPT ![t] = Idle]
    /\ IF w.seen > HeapLimit THEN UNCHANGED granted
                             ELSE granted' = [granted EXCEPT ![w.tracker] = @ + w.size]
    /\ UNCHANGED <<usage, refused, freed>>

\* allocate, its comparison: over the limit the addition is taken back.
Compare(t) ==
    LET w == writer[t] IN
    /\ w.pc = "added"
    /\ writer' = [writer EXCEPT ![t] = Idle]
    /\ IF w.seen > HeapLimit
       THEN /\ usage' = [usage EXCEPT ![w.tracker] = (@ - w.size) % UsizeRange]
            /\ refused' = [refused EXCEPT ![w.tracker] = Min({@, w.without})]
            /\ UNCHANGED granted
       ELSE granted' = [granted EXCEPT ![w.tracker] = @ + w.size] /\ UNCHANGED <<usage, refused>>
    /\ UNCHANGED freed

\* delete_document_by_id gives back the same amount for any document, known or not.
Deallocate ==
    LET k == Len(usage) IN
    /\ k > 0 /\ freed[k] < MaxDeletes
    /\ usage' = [usage EXCEPT ![k] = (@ - DeleteSize) % UsizeRange]
    /\ freed' = [freed EXCEPT ![k] = @ + 1]
    /\ UNCHANGED <<writer, granted, refused>>

-----------------------------------------------------------------------------
NextPowerOfTwo(n) == CHOOSE p \in {1, 2, 4, 8, 16} : p >= n /\ (p = 1 \/ p \div 2 < n)

\* Mutant: a new buffer has the length asked for.
FreshExact(n) == n

\* A new buffer has the length of its class.
Fresh(n) == NextPowerOfTwo(n)

\* get, and the bytes its caller puts in at once, the length prefix more than it
\* asked for: a Vec that is too short doubles, or grows to what is needed.
GetBuffer(t, n) ==
    LET class == NextPowerOfTwo(n)
        bytes == n + PrefixLen
        Filled(capacity) == IF bytes <= capacity THEN capacity ELSE Max({bytes, 2 * capacity}) IN
    /\ borrowed[t] = 0
    /\ IF class \in Classes /\ buffers[class] # <<>>
       THEN /\ borrowed' = [borrowed EXCEPT ![t] = Filled(Head(buffers[class]))]
            /\ buffers' = [buffers EXCEPT ![class] = Tail(@)]
       ELSE borrowed' = [borrowed EXCEPT ![t] = Filled(Fresh(n))] /\ UNCHANGED buffers

ReturnBuffer(t) ==
    LET class == NextPowerOfTwo(borrowed[t]) IN
    /\ borrowed[t] # 0
    /\ borrowed' = [borrowed EXCEPT ![t] = 0]
    /\ buffers' = IF class \in Classes /\ Len(buffers[class]) < MaxBuffers
                  THEN [buffers EXCEPT ![class] = Append(@, borrowed[t])] ELSE buffers

-----------------------------------------------------------------------------
\* A page is a size, a value and whether its bytes start with "LZ4\0".
PageData == [size : PageSizes, value : {1, 2}, marked : BOOLEAN]
Compressed(data) == [size |-> 1, value |-> data.value + 10, marked |-> FALSE]
Decompressed(data) == [data EXCEPT !.value = @ + 20, !.marked = FALSE]

\* Mutant: a page of exactly the threshold is compressed too.
ToWriteFrom(data) == IF data.size >= SwapThreshold THEN Compressed(data) ELSE data

\* What is written: a page over the threshold compressed, without any mark.
ToWrite(data) == IF data.size > SwapThreshold THEN Compressed(data) ELSE data

SwapOut(p, data) ==
    /\ swapped' = (p :> ToWrite(data)) @@ swapped
    /\ original' = (p :> data) @@ original
    /\ loaded' = Unloaded

\* swap_in looks for the mark, which swap_out does not write.
SwapIn(p) ==
    /\ p \in DOMAIN swapped
    /\ loaded' = [data |-> {IF swapped[p].marked THEN Decompressed(swapped[p]) ELSE swapped[p]},
                  expected |-> {original[p]}]
    /\ swapped' = [q \in DOMAIN swapped \ {p} |-> swapped[q]]
    /\ original' = [q \in DOMAIN original \ {p} |-> original[q]]

Tracking ==
    \/ EnableLowMemory \/ Deallocate
    \/ \E t \in Writers : Compare(t) \/ \E n \in DocSizes : FetchAdd(t, n)
Buffering == \E t \in Writers : ReturnBuffer(t) \/ \E n \in RequestSizes : GetBuffer(t, n)
Swapping == \E p \in Pages : SwapIn(p) \/ \E data \in PageData : SwapOut(p, data)

-----------------------------------------------------------------------------
\* The counter is exact between threads: a tracker's usage is what it granted,
\* plus the requests between their addition and their comparison, less the fixed
\* amount of each deletion, in usize arithmetic.  Nothing else, a refused request
\* or a request that raced another, leaves a trace (pool.rs:100-111).
UsageAccounted ==
    \A k \in DOMAIN usage :
        usage[k] = (granted[k] + FoldSet(LAMBDA t, n : n + writer[t].size, 0, UnderWay(k))
                    - DeleteSize * freed[k]) % UsizeRange

\* The limit is a limit and no less: as long as nothing was deleted, what a
\* tracker granted never exceeds it, however requests interleave, and a request
\* that nobody else's was under way with is refused only if it would exceed it
\* (pool.rs:101-105).  A deletion breaks both: it gives back an amount that was never
\* taken, and below zero the counter wraps and refuses everything.
LimitExact ==
    \A k \in DOMAIN usage :
        freed[k] = 0 => granted[k] <= HeapLimit /\ HeapLimit < refused[k]

\* A queue holds at most its share of buffers, each of exactly its class, so that
\* a buffer got for a length has room for it: what a caller grew beyond its class,
\* by the length prefix, must not come back to that class (buffer_pool.rs:65-75).
BuffersFit ==
    \A c \in Classes : Len(buffers[c]) <= MaxBuffers /\ \A i \in DOMAIN buffers[c] : buffers[c][i] = c

\* A page that is not over the threshold and does not start with the mark is read
\* back as it was last written out.  A larger one comes back compressed
\* (swap.rs:31 writes no mark, swap.rs:48 looks for one).
SmallPagesReturn ==
    \A d \in loaded.expected :
        (d.size <= SwapThreshold /\ ~d.marked) => loaded.data = {d}

\* What memory/ hands out and takes back is accounted for: bytes by the tracker,
\* buffers by their class, pages by their number (pool.rs, buffer_pool.rs, swap.rs).
MemoryExact == UsageAccounted /\ LimitExact /\ BuffersFit /\ SmallPagesReturn
=============================================================================
