------------------------------ MODULE Algorithms ------------------------------
(***************************************************************************)
(* The pure algorithms of the index and of search against reference        *)
(* definitions.  A behaviour is one input: probe is chosen at the start    *)
(* and never changes.                                                      *)
(***************************************************************************)
EXTENDS Query, Codecs, PostingSets, MergePolicies, Analysis, ReaderSearch

CONSTANTS
    Letters,        \* letters of the words
    NumberLists,    \* lists of words of memory
    AscendingLists, \* sorted document ids
    WordList,       \* words
    Patterns,       \* wildcard patterns
    SizeLists,      \* sizes of segments
    FieldLists,     \* documents: sequences of texts
    PositionLists,  \* positions of the words of a phrase
    Slops,          \* slop of a phrase
    Plans,          \* plans with limits, sorts and filters
    MatchLists,     \* the matching ids of each segment
    PageLimits      \* limits of a search

VARIABLE probe  \* the input, tagged with the algorithm it is for

ProbeInit ==
    \/ \E nums \in NumberLists : probe = [of |-> "codec", nums |-> nums]
    \/ \E a, b \in AscendingLists : probe = [of |-> "sets", a |-> a, b |-> b]
    \/ \E term, word \in WordList : probe = [of |-> "edits", term |-> term, word |-> word]
    \/ \E pattern \in Patterns, word \in WordList :
          probe = [of |-> "wildcard", pattern |-> pattern, word |-> word]
    \/ \E sizes \in SizeLists : probe = [of |-> "merge", sizes |-> sizes]
    \/ \E fields \in FieldLists : probe = [of |-> "analysis", fields |-> fields]
    \/ \E lists \in PositionLists, slop \in Slops :
          probe = [of |-> "phrase", lists |-> lists, slop |-> slop]
    \/ \E plan \in Plans : probe = [of |-> "plan", plan |-> plan]
    \/ \E segments \in MatchLists, marks \in SUBSET (0 .. MarkWord - 1), limit \in PageLimits :
          probe = [of |-> "page", segments |-> segments, marks |-> marks, limit |-> limit]

-----------------------------------------------------------------------------
(***************************************************************************)
(* A list that is encoded decodes to itself, in all three encodings, at    *)
(* the group and word boundaries and with differences that wrap; and a     *)
(* truncated block decodes to an error or to a prefix of the list, never   *)
(* to numbers that were not in it (vbyte.rs, delta.rs, compress.rs).       *)
(***************************************************************************)
CodecRoundTrip ==
    probe.of = "codec" =>
        \A encoding \in {"None", "Delta", "VByte"} :
            LET data == EncodeBlock(probe.nums, encoding) IN
            /\ DecodeBlock(data, encoding) = Ok(probe.nums)
            /\ \A n \in 0 .. Len(data) :
                  LET cut == DecodeBlock(SubSeq(data, 1, n), encoding) IN
                  cut.ok => IsPrefix(cut.nums, probe.nums)

(***************************************************************************)
(* union_sorted and intersect_sorted return the union and the intersection *)
(* in order, whether or not they skip chunks (simd/operation.rs).          *)
(***************************************************************************)
MergesExact ==
    probe.of = "sets" =>
        LET a == probe.a  b == probe.b IN
        /\ UnionSorted(a, b) = InOrder(ToSet(a) \cup ToSet(b), <)
        /\ IntersectSorted(a, b) = InOrder(ToSet(a) \cap ToSet(b), <)

(***************************************************************************)
(* Skip lists (index/skiplist.rs): find is exact; intersect invents        *)
(* nothing and is exact while each list fits one interval.  Beyond that    *)
(* skip_to_ge jumps over ids it should have looked at.                     *)
(***************************************************************************)
SkipListsSound ==
    probe.of = "sets" =>
        LET a == probe.a  b == probe.b
            common == InOrder(ToSet(a) \cap ToSet(b), <)
            lists == <<SkipListBuild(a), SkipListBuild(b)>>
            found == SkipIntersectMultiple(lists) IN
        /\ \A id \in ToSet(b) : SkipFind(lists[1], id) = IF id \in ToSet(a) THEN IndexFirstSubSeq(<<id>>, a) ELSE 0
        /\ ToSet(found) \subseteq ToSet(common)
        /\ SkipIntersectMultiple(Append(lists, lists[1])) = found
        /\ Len(a) <= MinInterval /\ Len(b) <= MinInterval => found = common

\* The words one edit away from those of a set.
Edited(words) ==
    words \cup UNION {{ReplaceAt(w, i, c) : i \in DOMAIN w, c \in Letters}
                      \cup {RemoveAt(w, i) : i \in DOMAIN w}
                      \cup {InsertAt(w, i, c) : i \in 1 .. Len(w) + 1, c \in Letters} : w \in words}

(***************************************************************************)
(* Both edit distances count single-letter edits: at most k exactly if k   *)
(* edits lead from one word to the other.  The transposition branch of     *)
(* FuzzyAutomaton changes nothing, so an automaton matches no fewer words  *)
(* once it is built; the hand-made LevenshteinDFA accepts only the pattern *)
(* itself (core/utils.rs, search/fuzzy.rs).                                *)
(***************************************************************************)
EditsCounted ==
    probe.of = "edits" =>
        LET term == probe.term  word == probe.word
            distance == Levenshtein(term, word) IN
        /\ distance <= 1 <=> word \in Edited({term})
        /\ distance <= 2 <=> word \in Edited(Edited({term}))
        /\ EditDistance(term, word) = distance
        /\ \A k \in 0 .. 2 : /\ FuzzyMatches(FALSE, term, k, word) => FuzzyMatches(TRUE, term, k, word)
                             /\ DfaMatches(term, k, word) <=> word = term

(***************************************************************************)
(* fuzzy_search with a locked prefix: the terms that share the prefix and  *)
(* are within the distance of the whole term; a lock longer than the term  *)
(* is no lock (index/inverted.rs).                                         *)
(***************************************************************************)
FuzzyLockExact ==
    probe.of = "edits" =>
        \A k \in 0 .. 2, lock \in 0 .. 3 :
            probe.word \in FuzzySearch({probe.word}, probe.term, k, lock) <=>
                /\ Levenshtein(probe.term, probe.word) <= k
                /\ lock <= Len(probe.term) => IsPrefix(SubSeq(probe.term, 1, lock), probe.word)

(***************************************************************************)
(* The two wildcard matchers.  matches_wildcard, which knows no `?', finds *)
(* what the pattern means if it has a star and is a prefix test if it has  *)
(* none; the regular expression of wildcard_search is not anchored, so it  *)
(* finds every term with a matching piece, and more than the other.        *)
(***************************************************************************)
WildcardsExact ==
    probe.of = "wildcard" =>
        LET word == probe.word  pattern == probe.pattern
            starred == Star \in ToSet(pattern) IN
        /\ MatchesWildcard(word, pattern) <=> IF starred THEN Glob(word, pattern) ELSE IsPrefix(pattern, word)
        /\ word \in SearchWildcard(<<word>>, pattern) =>
              MatchesWildcard(word, pattern) /\ word \in WildcardSearch({word}, pattern)

(***************************************************************************)
(* A merge that TieredMergePolicy selects stays within max_segment_size,   *)
(* has at least two segments, and leaves out none smaller than one it      *)
(* takes; nothing is selected only if fewer than the minimum qualify       *)
(* (storage/merge_policy.rs).                                              *)
(***************************************************************************)
TieredSelectionBounded ==
    probe.of = "merge" =>
        LET sizes == probe.sizes
            selected == TieredSelect(sizes) IN
        /\ SizeOf(sizes, selected) <= MaxSegmentSize /\ Cardinality(selected) <= MaxToMerge
        /\ selected = {} <=> Cardinality({i \in DOMAIN sizes : sizes[i] <= MaxSegmentSize \div 2}) < MinToMerge
        /\ \A i \in selected : \A j \in DOMAIN sizes \ selected : sizes[i] <= sizes[j]

\* One merge after another, as long as a tier is full.
RECURSIVE MergedOut(_)
MergedOut(sizes) == IF LogShouldMerge(sizes) THEN MergedOut(Merged(sizes, LogSelect(sizes))) ELSE sizes

(***************************************************************************)
(* LogStructuredMergePolicy wants a merge exactly when it selects one, and *)
(* merging until it wants none ends, with no tier full and no byte lost.   *)
(***************************************************************************)
LogMergesSettle ==
    probe.of = "merge" =>
        LET sizes == probe.sizes
            settled == MergedOut(sizes) IN
        /\ LogShouldMerge(sizes) <=> LogSelect(sizes) # {}
        /\ \A t \in 0 .. 9 : Cardinality(TierMembers(settled, t)) < TierFull
        /\ SizeOf(settled, DOMAIN settled) = SizeOf(sizes, DOMAIN sizes)

(***************************************************************************)
(* The groups SegmentMerger merges in parallel share no segment and have   *)
(* MergeFactor segments of one magnitude each (parallel/merger.rs).        *)
(***************************************************************************)
ParallelMergesDisjoint ==
    probe.of = "merge" =>
        LET groups == SelectMerges(probe.sizes) IN
        /\ \A g \in groups : /\ Cardinality(g) = MergeFactor
                             /\ \A i, j \in g : Magnitude(probe.sizes[i]) = Magnitude(probe.sizes[j])
        /\ \A g, h \in groups : g # h => g \cap h = {}

(***************************************************************************)
(* The two ways a document's tokens get positions agree on a document of   *)
(* one field exactly if no stop word was removed: the inverted index keeps *)
(* the gap, the parallel indexers close it.  Offsets of the standard       *)
(* tokenizer miss one byte for every separator passed, those of the        *)
(* Vietnamese one are offsets in the text.                                 *)
(***************************************************************************)
PositionsAgree ==
    probe.of = "analysis" =>
        LET text == probe.fields[1]
            tokens == IndexDocument(probe.fields)
            plain == StandardTokenize(text) IN
        /\ Len(probe.fields) = 1 /\ tokens # <<>> =>
              (OwnPositions(tokens) = RenumberedPositions(tokens)
                  <=> \A k \in DOMAIN tokens : tokens[k].position = k - 1)
        /\ Len(probe.fields) = 1 /\ Len(tokens) = Len(plain) => OwnPositions(tokens) = RenumberedPositions(tokens)
        /\ \A k \in DOMAIN plain : \E i \in DOMAIN text :
              /\ plain[k].text = Lower[text[i]]
              /\ plain[k].offset = VietnameseTokenize(text)[i].offset - (i - 1)

(***************************************************************************)
(* Phrases (query/matcher.rs).  What the greedy walk accepts is in order   *)
(* with gaps within the slop; for two words it accepts everything that is; *)
(* and every adjacent phrase is near for any slop.                         *)
(***************************************************************************)
ProximitySound ==
    probe.of = "phrase" =>
        LET lists == probe.lists  slop == probe.slop
            fits(at) == \A i \in 2 .. Len(lists) : at[i] - at[i - 1] \in 1 .. slop + 1
            near == \E at \in [DOMAIN lists -> UNION {ToSet(lists[i]) : i \in DOMAIN lists}] :
                        (\A i \in DOMAIN lists : at[i] \in ToSet(lists[i])) /\ fits(at) IN
        /\ CheckProximityPositions(lists, slop) => near
        /\ Len(lists) = 2 /\ near => CheckProximityPositions(lists, slop)
        /\ CheckAdjacentPositions(lists) <=> CheckProximityPositions(lists, 0)
        /\ CheckAdjacentPositions(lists) => CheckProximityPositions(lists, slop)

\* How many results a plan lets through, when it limits them.
RECURSIVE Bounds(_)
Bounds(plan) ==
    CASE plan.type = "Limit" -> {plan.n} \cup Bounds(plan.input)
      [] plan.type \in {"Sort", "Filter"} -> Bounds(plan.input)
      [] plan.type \in {"Scan", "IndexSeek"} -> {}

(***************************************************************************)
(* The rewrites of QueryOptimizer leave a plan's meaning alone: the query  *)
(* it converts back to and the least of its limits (query/optimizer.rs).   *)
(***************************************************************************)
RewritesKeepPlan ==
    probe.of = "plan" =>
        LET plan == probe.plan
            optimized == OptimizePlan(plan) IN
        /\ PlanToQuery(optimized) = PlanToQuery(plan)
        /\ Bounds(plan) # {} <=> Bounds(optimized) # {}
        /\ Bounds(plan) # {} => Min(Bounds(optimized)) = Min(Bounds(plan))

(***************************************************************************)
(* A page of IndexReader::search_with_limit holds the first live matches   *)
(* in scanning order and is short only if there are no more, or if more    *)
(* than twice the page's size of the candidates turned out deleted; an     *)
(* unlimited search, the one delete_by_query makes, finds every live match *)
(* (reader/reader_pool.rs:172-225), where arithmetic wraps.  Of limit 0    *)
(* nothing is said: any segment makes it panic.                            *)
(***************************************************************************)
PagesFull ==
    (probe.of = "page" /\ probe.limit # 0) =>
        LET limit == probe.limit
            found == Candidates(probe.segments, limit)
            live == Live(FlattenSeq(probe.segments), probe.marks)
            hits == SearchWithLimit(probe.segments, probe.marks, limit).hits IN
        /\ IsPrefix(hits, live)
        /\ limit = NoLimit => hits = live
        /\ (limit # NoLimit /\ hits # live /\ Len(hits) < limit) =>
              Len(found) - Len(Live(found, probe.marks)) > 2 * limit



(***************************************************************************)
(* Whichever policy selects them, merges are bounded, disjoint and come to *)
(* an end.                                                                 *)
(***************************************************************************)
MergesSound == TieredSelectionBounded /\ LogMergesSettle /\ ParallelMergesDisjoint
=============================================================================
