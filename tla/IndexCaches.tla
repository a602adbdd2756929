----------------------------- MODULE IndexCaches -----------------------------
(***************************************************************************)
(* Caches of index readers: IndexCache and HybridIndexCache (src/index/    *)
(* index_cache.rs, hybrid_index_cache.rs) over the eager and the lazy      *)
(* reader of a segment's .idx file.  A load looks in the cache, opens the  *)
(* file with no lock held, and inserts; other threads run in between, and  *)
(* the segment writer may not have written the file yet.                   *)
(***************************************************************************)
EXTENDS Integers, Sequences, SequencesExt, FiniteSets, FiniteSetsExt, Functions

CONSTANTS
    Loaders,       \* threads calling get_or_load
    IndexSegments, \* segments
    LargeSegments, \* those with an index file of 50 MB or more
    TermsOfIndex,  \* segment -> the terms of its index
    IndexTerms,    \* terms that are looked up
    MaxCached,     \* max_size
    LazyCacheSize  \* lazy_cache_size

ASSUME CacheAssumption == MaxCached \in Nat

VARIABLES
    index_file,   \* segment -> "missing", "partial" (being written) or "complete"
    index_cache,  \* segment -> its reader
    loader,       \* thread -> where its get_or_load is
    answered      \* the last get_postings: what was asked and whether it was found

cacheVars == <<index_file, index_cache, loader, answered>>

NoReader == [kind |-> "none", terms |-> {}, recent |-> <<>>]
NotLoading == [pc |-> "idle", segment |-> 0, reader |-> NoReader]
Unasked == [segment |-> 0, term |-> 0, terms |-> {}, found |-> FALSE]

CacheInit ==
    /\ index_file = [s \in IndexSegments |-> "missing"]
    /\ index_cache = [s \in {} |-> NoReader]
    /\ loader = [t \in Loaders |-> NotLoading]
    /\ answered = Unasked

\* SegmentWriter::finish creates and fills the file.
WriteIndexFile(s) ==
    /\ index_file[s] # "complete"
    /\ index_file' = [index_file EXCEPT ![s] = IF @ = "missing" THEN "partial" ELSE "complete"]
    /\ UNCHANGED <<index_cache, loader, answered>>

\* get_or_load, its fast path missing.
Miss(t, s) ==
    /\ loader[t].pc = "idle" /\ s \notin DOMAIN index_cache
    /\ loader' = [loader EXCEPT ![t] = [pc |-> "opening", segment |-> s, reader |-> NoReader]]
    /\ UNCHANGED <<index_file, index_cache, answered>>

\* LoadingStrategy::Adaptive: by the size of the file, eager where there is none.
Strategy(s) == IF s \in LargeSegments /\ index_file[s] # "missing" THEN "lazy" ELSE "eager"

\* Mutant: a lazy reader is opened without its term table.
OpenedReaderBlank(s) ==
    [kind |-> Strategy(s), recent |-> <<>>,
     terms |-> IF index_file[s] = "missing" \/ Strategy(s) = "lazy" THEN {} ELSE TermsOfIndex[s]]

\* Both readers take a missing file for an empty index.
OpenedReader(s) ==
    [kind |-> Strategy(s), recent |-> <<>>,
     terms |-> IF index_file[s] = "missing" THEN {} ELSE TermsOfIndex[s]]

\* open_with_cache_size: half a file does not deserialize, and the load fails.
OpenReader(t) ==
    LET s == loader[t].segment IN
    /\ loader[t].pc = "opening"
    /\ loader' = [loader EXCEPT ![t] =
          IF index_file[s] = "partial" THEN NotLoading
          ELSE [pc |-> "opened", segment |-> s, reader |-> OpenedReader(s)]]
    /\ UNCHANGED <<index_file, index_cache, answered>>

\* Mutant: a full cache takes one more.
EvictedLate == IF Cardinality(DOMAIN index_cache) > MaxCached
               THEN {{v} : v \in DOMAIN index_cache} ELSE {{}}

\* The entry a full cache gives up is the first of a HashMap: any.
Evicted == IF Cardinality(DOMAIN index_cache) >= MaxCached /\ DOMAIN index_cache # {}
           THEN {{v} : v \in DOMAIN index_cache} ELSE {{}}

\* get_or_load inserts what it opened, over an entry another thread made meanwhile.
InsertReader(t) ==
    LET s == loader[t].segment IN
    /\ loader[t].pc = "opened"
    /\ \E out \in Evicted :
          index_cache' = [x \in (DOMAIN index_cache \ out) \cup {s} |->
                             IF x = s THEN loader[t].reader ELSE index_cache[x]]
    /\ loader' = [loader EXCEPT ![t] = NotLoading]
    /\ UNCHANGED <<index_file, answered>>

Invalidate(s) ==
    /\ s \in DOMAIN index_cache
    /\ index_cache' = Restrict(index_cache, DOMAIN index_cache \ {s})
    /\ UNCHANGED <<index_file, loader, answered>>

ClearCache ==
    /\ index_cache' = [s \in {} |-> NoReader]
    /\ UNCHANGED <<index_file, loader, answered>>

\* Mutant: a term is put in front without being taken from where it was.
TouchedTwice(recent, term) == SubSeq(<<term>> \o recent, 1, Min({LazyCacheSize, Len(recent) + 1}))

\* LruCache: the term to the front, the least recent out of a full cache.
Touched(recent, term) ==
    LET rest == SelectSeq(recent, LAMBDA x : x # term)
    IN  SubSeq(<<term>> \o rest, 1, Min({LazyCacheSize, Len(rest) + 1}))

\* get_postings: the lazy reader looks in its own cache, then in its term table,
\* and reads the file again only for a term that is there.
GetPostings(s, term) ==
    LET reader == index_cache[s]
        found == IF reader.kind = "lazy" /\ term \in Range(reader.recent) THEN TRUE
                 ELSE term \in reader.terms IN
    /\ s \in DOMAIN index_cache
    /\ answered' = [segment |-> s, term |-> term, terms |-> reader.terms, found |-> found]
    /\ index_cache' = IF reader.kind = "lazy" /\ found
                      THEN [index_cache EXCEPT ![s].recent = Touched(@, term)] ELSE index_cache
    /\ UNCHANGED <<index_file, loader>>

CacheNext ==
    \/ ClearCache
    \/ \E s \in IndexSegments :
          \/ WriteIndexFile(s) \/ Invalidate(s)
          \/ \E t \in Loaders : Miss(t, s)
          \/ \E term \in IndexTerms : GetPostings(s, term)
    \/ \E t \in Loaders : OpenReader(t) \/ InsertReader(t)

CacheSpec == CacheInit /\ [][CacheNext]_cacheVars

-----------------------------------------------------------------------------
\* The cache never holds more than max_size readers (one, if that is 0), although
\* the size is checked after the load and several loads may end together
\* (index_cache.rs:41-51).
CacheBounded == Cardinality(DOMAIN index_cache) <= Max({1, MaxCached})

\* A segment whose file was complete when nobody had, in the cache or on the way
\* to it, a reader of the missing file, never answers from such a reader again: one
\* invalidate with no load under way is enough, and without it an empty
\* reader that was opened too early stays (index_cache.rs:36-51).
UpToDate(s) ==
    /\ index_file[s] = "complete"
    /\ s \in DOMAIN index_cache => index_cache[s].terms = TermsOfIndex[s]
    /\ \A t \in Loaders :
          (loader[t].pc = "opened" /\ loader[t].segment = s) => loader[t].reader.terms = TermsOfIndex[s]
FreshStaysFresh == [][\A s \in IndexSegments : UpToDate(s) => UpToDate(s)']_cacheVars

\* The lazy reader answers as the eager one would, hit or miss: exactly the terms of
\* the file it opened are found, and its own cache stays within its size, each
\* term once (lazy_index_reader.rs:91-121).
LazyReadersAgree ==
    /\ answered.found = (answered.term \in answered.terms)
    /\ \A s \in DOMAIN index_cache :
          LET recent == index_cache[s].recent IN
          /\ Len(recent) <= LazyCacheSize /\ IsInjective(recent)
          /\ Range(recent) \subseteq index_cache[s].terms

\* Neither level of caching changes an answer or outgrows its limit, whatever is
\* loaded, evicted and invalidated at once.
CachesAgree == CacheBounded /\ LazyReadersAgree
=============================================================================
