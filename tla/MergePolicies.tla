---------------------------- MODULE MergePolicies ----------------------------
(***************************************************************************)
(* Which segments are merged: TieredMergePolicy and                        *)
(* LogStructuredMergePolicy (src/storage/merge_policy.rs) and              *)
(* SegmentMerger (src/parallel/merger.rs).  A list of segments is the      *)
(* sequence of their sizes, and a selection a set of its indices.          *)
(***************************************************************************)
EXTENDS Integers, Sequences, SequencesExt, FiniteSetsExt

CONSTANTS
    MaxPerTier, MaxSegmentSize, MinToMerge, MaxToMerge,  \* TieredMergePolicy
    SmallSize,                                           \* its 10 MB limit
    SizeRatio, MinMergeSize,                             \* LogStructuredMergePolicy
    TierFull,                                            \* its 4 segments a tier
    MergeFactor                                          \* parallel::MergePolicy

SizeOf(sizes, selected) == MapThenSumSet(LAMBDA i : sizes[i], selected)

\* The position of a segment after a stable sort by size.
Rank(sizes, i) ==
    1 + Cardinality({j \in DOMAIN sizes : sizes[j] < sizes[i] \/ (sizes[j] = sizes[i] /\ j < i)})

-----------------------------------------------------------------------------
(* TieredMergePolicy.                                                      *)

TieredShouldMerge(sizes) ==
    \/ Len(sizes) > MaxPerTier
    \/ Cardinality({i \in DOMAIN sizes : sizes[i] < SmallSize}) >= MinToMerge

\* Mutant: only the segment that is added is compared with the limit.
TieredPrefixUnsummed(sizes, small, n) == n <= MaxToMerge

\* The loop takes the n smallest: it stops before the sum exceeds the limit
\* and after MaxToMerge segments.
TieredPrefix(sizes, small, n) ==
    /\ n <= MaxToMerge
    /\ SizeOf(sizes, {i \in small : Rank(sizes, i) <= n}) <= MaxSegmentSize

TieredSelect(sizes) ==
    LET small == {i \in DOMAIN sizes : sizes[i] <= MaxSegmentSize \div 2}
        taken == Max({n \in 0 .. Cardinality(small) : TieredPrefix(sizes, small, n)}) IN
    IF taken < MinToMerge THEN {} ELSE {i \in small : Rank(sizes, i) <= taken}

-----------------------------------------------------------------------------
(* LogStructuredMergePolicy: the tier is a truncated logarithm, and 0 for  *)
(* everything below the minimum.                                           *)

Tier(size) ==
    LET log[n \in 0 .. size] == IF n < MinMergeSize * SizeRatio THEN 0 ELSE 1 + log[n \div SizeRatio]
    IN  log[size]

TierMembers(sizes, t) == {i \in DOMAIN sizes : Tier(sizes[i]) = t}

FullTiers(sizes) ==
    {t \in {Tier(sizes[i]) : i \in DOMAIN sizes} : Cardinality(TierMembers(sizes, t)) >= TierFull}

LogShouldMerge(sizes) == FullTiers(sizes) # {}

\* The first full tier, all of it.
LogSelect(sizes) ==
    IF FullTiers(sizes) = {} THEN {} ELSE TierMembers(sizes, Min(FullTiers(sizes)))

-----------------------------------------------------------------------------
(* SegmentMerger: powers of ten, here of SizeRatio.                        *)

Magnitude(size) ==
    LET log[n \in 0 .. size] == IF n < SizeRatio THEN 0 ELSE 1 + log[n \div SizeRatio]
    IN  log[size]

\* Mutant: every group that has a segment is merged.
SelectMergesAny(sizes) ==
    {{i \in DOMAIN sizes : Magnitude(sizes[i]) = m} : m \in {Magnitude(sizes[i]) : i \in DOMAIN sizes}}

\* The first MergeFactor segments of each group that has as many.
SelectMerges(sizes) ==
    LET group(m) == {i \in DOMAIN sizes : Magnitude(sizes[i]) = m}
        first(m) == {i \in group(m) : Cardinality({j \in group(m) : j <= i}) <= MergeFactor} IN
    {first(m) : m \in {k \in {Magnitude(sizes[i]) : i \in DOMAIN sizes} :
                          Cardinality(group(k)) >= MergeFactor}}

\* Mutant: the new segment has the size of one of the old ones.
MergedUnsummed(sizes, selected) ==
    LET kept == SelectSeq([i \in DOMAIN sizes |-> i], LAMBDA i : i \notin selected) IN
    Append([k \in DOMAIN kept |-> sizes[kept[k]]], sizes[Max(selected)])

\* SegmentMerger::merge adds the sizes up; the writer's merges replace the
\* selected segments by one that holds their documents.
Merged(sizes, selected) ==
    LET kept == SelectSeq([i \in DOMAIN sizes |-> i], LAMBDA i : i \notin selected) IN
    Append([k \in DOMAIN kept |-> sizes[kept[k]]], SizeOf(sizes, selected))
=============================================================================
