------------------------------ MODULE ReaderPool ------------------------------
(***************************************************************************)
(* The read path: SearchEngine::run_search (src/core/engine.rs) over the   *)
(* result cache (src/query/cache.rs) and the pool of cached readers        *)
(* (src/reader/reader_pool.rs), while a writer publishes snapshots.        *)
(*                                                                         *)
(* Each search is a thread; a step ends where a lock is released.  What a  *)
(* search finds is the set of segments it looked at: which documents of    *)
(* them match is not the pool's concern.  The snapshot controller is used  *)
(* as its callers see it (module SnapshotStore): a publication takes a     *)
(* number and stores its snapshot later, and between the two a reader gets *)
(* the placeholder, which has version 0 and no segments.                   *)
(***************************************************************************)
EXTENDS Integers, Sequences, SequencesExt, FiniteSets

CONSTANTS
    Threads,     \* concurrent searches
    Queries,     \* cache keys: query hash, limit and offset
    MaxReaders,  \* ReaderPool::max_readers
    CacheSize,   \* QueryCache::size_limit
    MaxPublish,  \* bound: publications
    MaxMissed    \* bound: segments that cannot be opened

ASSUME ThreadsAssumption == IsFiniteSet(Threads)
ASSUME SizesAssumption ==
    MaxReaders \in Nat /\ CacheSize \in Nat \ {0} /\ MaxPublish \in Nat /\ MaxMissed \in Nat

VARIABLES
    current_version,  \* the controller's next number
    store,            \* version -> segments of its snapshot
    publishing,       \* the writer is between its number and its insertion
    reader_cache,     \* version -> the segments its cached reader opened
    segment_readers,  \* segment_reader_cache: pairs (version, segment)
    missed,           \* history: the pairs whose opening failed
    results,          \* query cache, the next entry to evict first
    pc, query,        \* where a search is, and its cache key
    snapshot,         \* the snapshot a search captured
    reader,           \* the segments of the reader it uses or creates
    unopened,         \* segments of its snapshot still to open
    answer            \* what it returned last

writerVars == <<current_version, store, publishing>>
pool == <<reader_cache, segment_readers, missed>>
local == <<query, snapshot, reader, unopened, answer>>
vars == <<current_version, store, publishing, reader_cache, segment_readers,
          missed, results, pc, query, snapshot, reader, unopened, answer>>

Version == 0 .. MaxPublish
Segments == 1 .. MaxPublish

DefaultSnapshot == [version |-> 0, segments |-> {}]

\* Mutant: the placeholder takes the number that was looked for.
CurrentSnapshotNumbered ==
    LET v == current_version - 1 IN
        IF v \in DOMAIN store THEN [version |-> v, segments |-> store[v]]
                              ELSE [version |-> v, segments |-> {}]

CurrentSnapshot ==
    LET v == IF current_version > 0 THEN current_version - 1 ELSE 0 IN
        IF v \in DOMAIN store THEN [version |-> v, segments |-> store[v]]
                              ELSE DefaultSnapshot

Init ==
    /\ current_version = 0
    /\ store = [v \in {} |-> {}]
    /\ publishing = FALSE
    /\ reader_cache = [v \in {} |-> {}]
    /\ segment_readers = {} /\ missed = {}
    /\ results = <<>>
    /\ pc = [t \in Threads |-> "idle"]
    /\ query \in [Threads -> Queries]
    /\ snapshot = [t \in Threads |-> DefaultSnapshot]
    /\ reader = [t \in Threads |-> {}]
    /\ unopened = [t \in Threads |-> {}]
    /\ answer = [t \in Threads |-> {}]

Goes(t, place) == pc' = [pc EXCEPT ![t] = place]

-----------------------------------------------------------------------------
(* The writer: take a number, then store one more segment or, for a        *)
(* deletion, the same segments.                                            *)

TakeNumber ==
    /\ ~publishing /\ current_version < MaxPublish
    /\ current_version' = current_version + 1
    /\ publishing' = TRUE
    /\ UNCHANGED <<store, pool, results, pc, local>>

Newest == UNION {store[v] : v \in DOMAIN store}

StoreSnapshot ==
    /\ publishing
    /\ \E segments \in {Newest, Newest \cup {current_version}} :
           store' = [v \in DOMAIN store \cup {current_version - 1} |->
                        IF v = current_version - 1 THEN segments ELSE store[v]]
    /\ publishing' = FALSE
    /\ UNCHANGED <<current_version, pool, results, pc, local>>

-----------------------------------------------------------------------------
(* run_search: the result cache first.                                     *)

Cached(q) == \E i \in 1 .. Len(results) : results[i].query = q
CachedAt(q) == CHOOSE i \in 1 .. Len(results) : results[i].query = q

\* get_by_str peeks, which does not touch the order of eviction.
SearchHit(t, q) ==
    /\ pc[t] = "idle"
    /\ Cached(q)
    /\ query' = [query EXCEPT ![t] = q]
    /\ answer' = [answer EXCEPT ![t] = results[CachedAt(q)].found]
    /\ UNCHANGED <<writerVars, pool, results, pc, snapshot, reader, unopened>>

SearchMiss(t, q) ==
    /\ pc[t] = "idle"
    /\ ~Cached(q)
    /\ query' = [query EXCEPT ![t] = q]
    /\ Goes(t, "snapshot")
    /\ UNCHANGED <<writerVars, pool, results, snapshot, reader, unopened, answer>>

-----------------------------------------------------------------------------
(* ReaderPool::get_reader.                                                 *)

CaptureSnapshot(t) ==
    /\ pc[t] = "snapshot"
    /\ snapshot' = [snapshot EXCEPT ![t] = CurrentSnapshot]
    /\ Goes(t, "lookup")
    /\ UNCHANGED <<writerVars, pool, results, query, reader, unopened, answer>>

LookupReader(t) ==
    /\ pc[t] = "lookup"
    /\ IF snapshot[t].version \in DOMAIN reader_cache
       THEN /\ reader' = [reader EXCEPT ![t] = reader_cache[snapshot[t].version]]
            /\ unopened' = unopened
            /\ Goes(t, "execute")
       ELSE /\ reader' = [reader EXCEPT ![t] = {}]
            /\ unopened' = [unopened EXCEPT ![t] = snapshot[t].segments]
            /\ Goes(t, "open")
    /\ UNCHANGED <<writerVars, pool, results, query, snapshot, answer>>

\* Mutant: a segment whose reader is shared already is passed over.
OpenSegmentUnshared(t) ==
    /\ pc[t] = "open"
    /\ \E s \in unopened[t] :
           LET key == <<snapshot[t].version, s>> IN
           /\ \A r \in unopened[t] : s <= r
           /\ unopened' = [unopened EXCEPT ![t] = @ \ {s}]
           /\ reader' = [reader EXCEPT ![t] = IF key \in segment_readers THEN @ ELSE @ \cup {s}]
           /\ segment_readers' = segment_readers \cup {key}
    /\ UNCHANGED <<writerVars, reader_cache, missed, results, pc, query, snapshot, answer>>

\* create_reader_for_snapshot, one segment: reuse its reader or open it; one
\* that cannot be opened is skipped.
OpenSegment(t) ==
    /\ pc[t] = "open"
    /\ \E s \in unopened[t] :
           LET key == <<snapshot[t].version, s>> IN
           /\ \A r \in unopened[t] : s <= r
           /\ unopened' = [unopened EXCEPT ![t] = @ \ {s}]
           /\ \/ /\ reader' = [reader EXCEPT ![t] = @ \cup {s}]
                 /\ segment_readers' = segment_readers \cup {key}
                 /\ missed' = missed
              \/ /\ key \notin segment_readers
                 /\ Cardinality(missed \cup {key}) <= MaxMissed
                 /\ missed' = missed \cup {key}
                 /\ UNCHANGED <<reader, segment_readers>>
    /\ UNCHANGED <<writerVars, reader_cache, results, pc, query, snapshot, answer>>

\* Mutant: cleanup one insertion too late.
KeptReadersLate(cached) ==
    IF Cardinality(cached) <= MaxReaders + 1 THEN cached
    ELSE {v \in cached : Cardinality({w \in cached : w > v}) < MaxReaders \div 2}

\* cleanup_old_readers: the newest max_readers / 2 versions stay.
KeptReaders(cached) ==
    IF Cardinality(cached) <= MaxReaders THEN cached
    ELSE {v \in cached : Cardinality({w \in cached : w > v}) < MaxReaders \div 2}

\* Mutant: the version is read again when the reader is inserted.
InsertReaderCurrent(t) ==
    /\ pc[t] = "open" /\ unopened[t] = {}
    /\ LET v == CurrentSnapshot.version
           cached == DOMAIN reader_cache \cup {v}
           kept == KeptReaders(cached) IN
           /\ reader_cache' = [w \in kept |-> IF w = v THEN reader[t] ELSE reader_cache[w]]
           /\ segment_readers' = {k \in segment_readers : k[1] \notin cached \ kept}
    /\ Goes(t, "execute")
    /\ UNCHANGED <<writerVars, missed, results, local>>

\* Mutant: cleanup forgets the segment readers.
InsertReaderLeaks(t) ==
    /\ pc[t] = "open" /\ unopened[t] = {}
    /\ LET v == snapshot[t].version
           kept == KeptReaders(DOMAIN reader_cache \cup {v}) IN
           reader_cache' = [w \in kept |-> IF w = v THEN reader[t] ELSE reader_cache[w]]
    /\ Goes(t, "execute")
    /\ UNCHANGED <<writerVars, segment_readers, missed, results, local>>

InsertReader(t) ==
    /\ pc[t] = "open" /\ unopened[t] = {}
    /\ LET v == snapshot[t].version
           cached == DOMAIN reader_cache \cup {v}
           kept == KeptReaders(cached) IN
           /\ reader_cache' = [w \in kept |-> IF w = v THEN reader[t] ELSE reader_cache[w]]
           /\ segment_readers' = {k \in segment_readers : k[1] \notin cached \ kept}
    /\ Goes(t, "execute")
    /\ UNCHANGED <<writerVars, missed, results, local>>

-----------------------------------------------------------------------------
(* Back in run_search: execute, cache the result, return it.               *)

Execute(t) ==
    /\ pc[t] = "execute"
    /\ answer' = [answer EXCEPT ![t] = reader[t]]
    /\ Goes(t, "put")
    /\ UNCHANGED <<writerVars, pool, results, query, snapshot, reader, unopened>>

\* The search returns; its reader and its snapshot are dropped.
Leaves(t) ==
    /\ Goes(t, "idle")
    /\ snapshot' = [snapshot EXCEPT ![t] = DefaultSnapshot]
    /\ reader' = [reader EXCEPT ![t] = {}]
    /\ UNCHANGED <<query, unopened, answer>>

\* The validator rejects the query, or reading a segment fails: nothing is cached.
ExecuteFails(t) ==
    /\ pc[t] = "execute"
    /\ Leaves(t)
    /\ UNCHANGED <<writerVars, pool, results>>

\* LruCache::put: an entry of the same key is replaced and becomes newest.
PutResult(t) ==
    /\ pc[t] = "put"
    /\ LET others == IF Cached(query[t]) THEN RemoveAt(results, CachedAt(query[t])) ELSE results
           kept == IF Len(others) < CacheSize THEN others ELSE Tail(others) IN
           results' = Append(kept, [query |-> query[t], found |-> answer[t]])
    /\ Leaves(t)
    /\ UNCHANGED <<writerVars, pool>>

Search(t) ==
    \/ \E q \in Queries : SearchHit(t, q) \/ SearchMiss(t, q)
    \/ CaptureSnapshot(t) \/ LookupReader(t) \/ OpenSegment(t) \/ InsertReader(t)
    \/ Execute(t) \/ ExecuteFails(t) \/ PutResult(t)

Next == TakeNumber \/ StoreSnapshot \/ \E t \in Threads : Search(t)

Spec == Init /\ [][Next]_vars

-----------------------------------------------------------------------------
PoolTypes ==
    /\ current_version \in Version /\ publishing \in BOOLEAN
    /\ DOMAIN store \subseteq Version
    /\ store \in [DOMAIN store -> SUBSET Segments]
    /\ DOMAIN reader_cache \subseteq Version
    /\ reader_cache \in [DOMAIN reader_cache -> SUBSET Segments]
    /\ segment_readers \cup missed \subseteq Version \X Segments
    /\ results \in Seq([query : Queries, found : SUBSET Segments])
    /\ pc \in [Threads -> {"idle", "snapshot", "lookup", "open", "execute", "put"}]
    /\ query \in [Threads -> Queries]
    /\ snapshot \in [Threads -> [version : Version, segments : SUBSET Segments]]
    /\ reader \in [Threads -> SUBSET Segments]
    /\ unopened \in [Threads -> SUBSET Segments]
    /\ answer \in [Threads -> SUBSET Segments]

(***************************************************************************)
(* Types, and the bounds of the pool: the caches stay within max_readers   *)
(* and size_limit, with one entry per query, and open segment readers      *)
(* belong to no more versions than there are cached readers and searches.  *)
(***************************************************************************)
TypeOK ==
    /\ PoolTypes
    /\ Cardinality(DOMAIN reader_cache) <= MaxReaders
    /\ Len(results) <= CacheSize
    /\ \A i, j \in 1 .. Len(results) : results[i].query = results[j].query => i = j
    /\ Cardinality({k[1] : k \in segment_readers}) <= MaxReaders + Cardinality(Threads)

(***************************************************************************)
(* The pool leaks no open segment reader: each belongs to a cached reader, *)
(* or to one a search is still creating, although cleanup and creation of  *)
(* readers of one version overlap ("caching to prevent memory leak").      *)
(***************************************************************************)
SegmentReadersTracked ==
    \A k \in segment_readers :
        \/ k[1] \in DOMAIN reader_cache
        \/ \E t \in Threads : pc[t] = "open" /\ snapshot[t].version = k[1]

\* The segments of a version, but for those that could not be opened.
Shows(segments, v) ==
    /\ v \in DOMAIN store
    /\ segments \subseteq store[v]
    /\ \A s \in store[v] \ segments : <<v, s>> \in missed
Whole(found) == found = {} \/ \E v \in DOMAIN store : Shows(found, v)

(***************************************************************************)
(* A cached reader shows its version's snapshot, without the segments that *)
(* could not be opened.  Version 0 is excluded here: the placeholder       *)
(* shares that number (see ReaderShowsSnapshot).                           *)
(***************************************************************************)
CachedReadersFaithful ==
    \A v \in DOMAIN reader_cache : v > 0 => Shows(reader_cache[v], v)

(***************************************************************************)
(* Every answer, cached or not, is empty or comes from one snapshot whose  *)
(* openable segments it covers: caching never mixes two snapshots.         *)
(***************************************************************************)
AnswersAreSnapshots ==
    \A found \in {answer[t] : t \in Threads} \cup {results[i].found : i \in 1 .. Len(results)} :
        Whole(found)

(***************************************************************************)
(* "Caller receives results consistent with the captured snapshot": the    *)
(* reader a search uses shows the snapshot it captured.                    *)
(***************************************************************************)
ReaderShowsSnapshot ==
    \A t \in Threads : pc[t] = "execute" => reader[t] = snapshot[t].segments

-----------------------------------------------------------------------------
(* Why the pool is faithful: the inductive invariant of ReaderPoolProofs.  *)

\* A number is stored once: the one being published is not stored yet.
NumbersInv ==
    /\ DOMAIN store \subseteq 0 .. current_version - 1
    /\ publishing => current_version > 0 /\ current_version - 1 \notin DOMAIN store

\* What a search captured is the placeholder or a stored snapshot, and what it
\* has opened of it, is still to open, or missed is all of it.
SearchInv ==
    \A t \in Threads :
        /\ \/ snapshot[t] = DefaultSnapshot
           \/ /\ snapshot[t].version \in DOMAIN store
              /\ snapshot[t].segments = store[snapshot[t].version]
        /\ pc[t] = "open" =>
              /\ reader[t] \cup unopened[t] \subseteq snapshot[t].segments
              /\ \A s \in snapshot[t].segments \ (reader[t] \cup unopened[t]) :
                    <<snapshot[t].version, s>> \in missed
        /\ pc[t] = "execute" => Whole(reader[t])

PoolInv ==
    /\ PoolTypes /\ NumbersInv /\ SearchInv
    /\ SegmentReadersTracked /\ CachedReadersFaithful /\ AnswersAreSnapshots
    /\ \A v \in DOMAIN reader_cache : Whole(reader_cache[v])
=============================================================================
