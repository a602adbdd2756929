----------------------------- MODULE PostingSets -----------------------------
(***************************************************************************)
(* Set operations on ascending lists of document ids: the merges of        *)
(* SimdOps (src/simd/operation.rs) and the skip lists built from posting   *)
(* lists (src/index/skiplist.rs).  A loop over two cursors is a recursive  *)
(* function of the cursors; positions start at 1.                          *)
(***************************************************************************)
EXTENDS Integers, Sequences, SequencesExt, FiniteSetsExt

CONSTANTS
    GALLOP_THRESHOLD,  \* ids skipped at once by intersect_sorted (8)
    MinInterval        \* least distance of two skip entries (4)

ASSUME PostingSetsAssumption ==
    GALLOP_THRESHOLD \in Nat \ {0} /\ MinInterval \in Nat \ {0}

-----------------------------------------------------------------------------
(* SimdOps.                                                                *)

UnionSorted(a, b) ==
    LET merge[i \in 1 .. Len(a) + 1, j \in 1 .. Len(b) + 1] ==
            CASE i > Len(a) -> SubSeq(b, j, Len(b))
              [] i <= Len(a) /\ j > Len(b) -> SubSeq(a, i, Len(a))
              [] i <= Len(a) /\ j <= Len(b) ->
                    CASE a[i] < b[j] -> <<a[i]>> \o merge[i + 1, j]
                      [] a[i] > b[j] -> <<b[j]>> \o merge[i, j + 1]
                      [] a[i] = b[j] -> <<a[i]>> \o merge[i + 1, j + 1]
    IN  merge[1, 1]

\* Both lists have a whole chunk ahead of the cursors.
Chunk(a, b, i, j) ==
    i + GALLOP_THRESHOLD - 1 <= Len(a) /\ j + GALLOP_THRESHOLD - 1 <= Len(b)


\* All of a's chunk is before b's cursor.
ChunkBefore(a, b, i, j) == Chunk(a, b, i, j) /\ a[i + GALLOP_THRESHOLD - 1] < b[j]

IntersectSorted(a, b) ==
    LET meet[i \in 1 .. Len(a) + 1, j \in 1 .. Len(b) + 1] ==
            IF i > Len(a) \/ j > Len(b) THEN <<>>
            ELSE CASE ChunkBefore(a, b, i, j) -> meet[i + GALLOP_THRESHOLD, j]
                   [] ChunkBefore(b, a, j, i) -> meet[i, j + GALLOP_THRESHOLD]
                   [] OTHER ->
                        CASE a[i] < b[j] -> meet[i + 1, j]
                          [] a[i] > b[j] -> meet[i, j + 1]
                          [] a[i] = b[j] -> <<a[i]>> \o meet[i + 1, j + 1]
    IN  meet[1, 1]

-----------------------------------------------------------------------------
(* SkipList.  The entries are positions; their ids are read from doc_ids.  *)

SkipInterval(len) == Max({MinInterval} \cup {k \in 1 .. len : k * k <= len})

SkipListBuild(docIds) ==
    [doc_ids |-> docIds,
     entries |-> {p \in DOMAIN docIds : (p - 1) % SkipInterval(Len(docIds)) = 0}]

\* The last entry before the first whose id is beyond the target.
SkipStart(list, target) ==
    LET beyond == {p \in list.entries : list.doc_ids[p] > target}
        before == {p \in list.entries : \A q \in beyond : p < q} IN
    IF before = {} THEN 1 ELSE Max(before)

\* Mutant: the scan starts behind the entry.
SkipFindBehind(list, target) ==
    LET scan == {i \in SkipStart(list, target) + 1 .. Len(list.doc_ids) : list.doc_ids[i] >= target} IN
    IF scan # {} /\ list.doc_ids[Min(scan)] = target THEN Min(scan) ELSE 0

\* The index of the target, or 0: the scan stops at the first id not below it.
SkipFind(list, target) ==
    LET scan == {i \in SkipStart(list, target) .. Len(list.doc_ids) : list.doc_ids[i] >= target} IN
    IF scan # {} /\ list.doc_ids[Min(scan)] = target THEN Min(scan) ELSE 0

\* Jumps to the first entry from `from' on that reaches the target, over every
\* position between; scans one by one only when there is no such entry.
SkipToGe(list, target, from) ==
    LET jumps == {p \in list.entries : p >= from /\ list.doc_ids[p] >= target}
        scan == {i \in from .. Len(list.doc_ids) : list.doc_ids[i] >= target} IN
    IF jumps # {} THEN Min(jumps)
    ELSE IF scan # {} THEN Min(scan)
    ELSE Len(list.doc_ids) + 1

SkipIntersect(list1, list2) ==
    LET ids1 == list1.doc_ids  ids2 == list2.doc_ids
        meet[i \in 1 .. Len(ids1) + 1, j \in 1 .. Len(ids2) + 1] ==
            IF i > Len(ids1) \/ j > Len(ids2) THEN <<>>
            ELSE CASE ids1[i] = ids2[j] -> <<ids1[i]>> \o meet[i + 1, j + 1]
                   [] ids1[i] < ids2[j] -> meet[SkipToGe(list1, ids2[j], i), j]
                   [] ids1[i] > ids2[j] -> meet[i, SkipToGe(list2, ids1[i], j)]
    IN  meet[1, 1]

SkipIntersectMultiple(lists) ==
    CASE Len(lists) = 0 -> <<>>
      [] Len(lists) = 1 -> lists[1].doc_ids
      [] Len(lists) > 1 ->
            FoldLeft(LAMBDA found, list : SelectSeq(found, LAMBDA id : SkipFind(list, id) # 0),
                     SkipIntersect(lists[1], lists[2]), SubSeq(lists, 3, Len(lists)))
=============================================================================
