----------------------------- MODULE ReaderSearch -----------------------------
(***************************************************************************)
(* The search of a pooled reader (src/reader/reader_pool.rs IndexReader),  *)
(* which delete_by_query uses: segments are searched in order until there  *)
(* are three times as many candidates as wanted; only then are the deleted *)
(* ones taken out.  Every match of a segment has score 1.0, so the sorts,  *)
(* which are stable, keep the order and the test of the k-th score always  *)
(* says to stop.  A segment is given by the ids of its matches.            *)
(***************************************************************************)
EXTENDS Integers, Sequences, SequencesExt

CONSTANTS
    MarkWord,  \* 2^32: deleted bits are indexed by the low word of an id
    NoLimit    \* usize::MAX

Panic == [hits |-> <<>>, total_hits |-> -1]

\* Mutant: the search stops as soon as there is a page of candidates.
EnoughForOnePage(found, limit) == limit # NoLimit /\ Len(found) >= limit

\* The early termination.  For NoLimit the product overflows: a build that checks
\* arithmetic panics here, one that wraps goes on and the second test decides.
Enough(found, limit) == limit # NoLimit /\ Len(found) >= limit * 3

Candidates(segments, limit) ==
    FoldLeft(LAMBDA found, matches : IF Enough(found, limit) THEN found ELSE found \o matches, <<>>, segments)

Live(found, marks) == SelectSeq(found, LAMBDA id : id % MarkWord \notin marks)

\* With limit 0 the first segment already meets the test, and the k-th score is at index -1.
SearchWithLimit(segments, marks, limit) ==
    LET live == Live(Candidates(segments, limit), marks) IN
    IF limit = 0 /\ segments # <<>> THEN Panic
    ELSE [hits |-> IF limit # NoLimit /\ Len(live) > limit THEN SubSeq(live, 1, limit) ELSE live,
          total_hits |-> Len(live)]
=============================================================================
