-------------------------- MODULE IndexCachesProofs --------------------------
(***************************************************************************)
(* The cache of index readers for any number of threads, segments and      *)
(* entries: it stays within its size, and a segment that is up to date     *)
(* stays so.                                                               *)
(***************************************************************************)
EXTENDS IndexCaches, FiniteSetTheorems, TLAPS

\* A record with the fields of a reader.
IsReader(r) == r = [kind |-> r.kind, terms |-> r.terms, recent |-> r.recent]

CacheTypes ==
    /\ index_file \in [IndexSegments -> {"missing", "partial", "complete"}]
    /\ index_cache = [s \in DOMAIN index_cache |-> index_cache[s]]
    /\ IsFiniteSet(DOMAIN index_cache)
    /\ \A s \in DOMAIN index_cache : IsReader(index_cache[s])
    /\ DOMAIN loader = Loaders /\ loader = [t \in Loaders |-> loader[t]]
    /\ \A t \in Loaders : IsReader(loader[t].reader)

\* What a load opens is a reader.
LEMMA ReadersOpened ==
    IsReader(NoReader) /\ IsReader(NotLoading.reader) /\ \A s : IsReader(OpenedReader(s))
BY DEF IsReader, NoReader, NotLoading, OpenedReader

LEMMA MaxOfTwo == Max({1, MaxCached}) \in Nat /\ Max({1, MaxCached}) >= 1 /\ Max({1, MaxCached}) >= MaxCached
<1>1. MaxCached \in Nat BY CacheAssumption
<1>2. \E x \in {1, MaxCached} : \A y \in {1, MaxCached} : x >= y BY <1>1
<1> QED BY <1>1, <1>2 DEF Max

\* The cache with one reader's own cache changed.
LEMMA Looked ==
    ASSUME CacheTypes, NEW s \in DOMAIN index_cache, NEW term, GetPostings(s, term)
    PROVE  /\ DOMAIN index_cache' = DOMAIN index_cache
           /\ index_cache' = [x \in DOMAIN index_cache |-> index_cache'[x]]
           /\ \A x \in DOMAIN index_cache : IsReader(index_cache'[x]) /\ index_cache'[x].terms = index_cache[x].terms
           /\ UNCHANGED <<index_file, loader>>
<1>1. PICK q : index_cache' = [index_cache EXCEPT ![s] = [@ EXCEPT !.recent = q]] \/ index_cache' = index_cache
  BY DEF GetPostings
<1>2. IsReader(index_cache[s]) BY DEF CacheTypes
<1>3. /\ IsReader([index_cache[s] EXCEPT !.recent = q])
      /\ [index_cache[s] EXCEPT !.recent = q].terms = index_cache[s].terms
  BY <1>2 DEF IsReader
<1>4. UNCHANGED <<index_file, loader>> BY DEF GetPostings
<1>5. CASE index_cache' = index_cache BY <1>4, <1>5 DEF CacheTypes
<1>6. CASE index_cache' = [index_cache EXCEPT ![s] = [@ EXCEPT !.recent = q]]
  <2>1. DOMAIN index_cache' = DOMAIN index_cache BY <1>6
  <2>2. index_cache' = [x \in DOMAIN index_cache |-> IF x = s THEN [index_cache[s] EXCEPT !.recent = q] ELSE index_cache[x]]
    BY <1>6 DEF CacheTypes
  <2>3. index_cache' = [x \in DOMAIN index_cache |-> index_cache'[x]] BY <2>2
  <2>4. \A x \in DOMAIN index_cache : IsReader(index_cache'[x]) /\ index_cache'[x].terms = index_cache[x].terms
    BY <1>3, <2>2 DEF CacheTypes
  <2> QED BY <1>4, <2>1, <2>3, <2>4
<1> QED BY <1>1, <1>5, <1>6

\* What a finished load leaves in the cache.
LEMMA Inserted ==
    ASSUME CacheTypes, NEW t \in Loaders, InsertReader(t)
    PROVE  \E out \in Evicted :
             /\ DOMAIN index_cache' = (DOMAIN index_cache \ out) \cup {loader[t].segment}
             /\ index_cache' = [x \in DOMAIN index_cache' |-> index_cache'[x]]
             /\ \A x \in DOMAIN index_cache' :
                   index_cache'[x] = IF x = loader[t].segment THEN loader[t].reader ELSE index_cache[x]
BY DEF InsertReader

LEMMA CacheTypesInit == CacheInit => CacheTypes
<1> SUFFICES ASSUME CacheInit PROVE CacheTypes OBVIOUS
<1>1. DOMAIN index_cache = {} /\ index_cache = [s \in DOMAIN index_cache |-> index_cache[s]] BY DEF CacheInit
<1>2. IsFiniteSet(DOMAIN index_cache) BY <1>1, FS_EmptySet
<1>3. /\ DOMAIN loader = Loaders /\ loader = [t \in Loaders |-> loader[t]]
      /\ \A t \in Loaders : IsReader(loader[t].reader)
  BY ReadersOpened DEF CacheInit
<1>4. index_file \in [IndexSegments -> {"missing", "partial", "complete"}] BY DEF CacheInit
<1> QED BY <1>1, <1>2, <1>3, <1>4 DEF CacheTypes

LEMMA CacheTypesStep == CacheTypes /\ [CacheNext]_cacheVars => CacheTypes'
<1> SUFFICES ASSUME CacheTypes, [CacheNext]_cacheVars PROVE CacheTypes' OBVIOUS
<1>1. CASE UNCHANGED cacheVars BY <1>1 DEF cacheVars, CacheTypes
<1>2. CASE ClearCache
  <2>1. DOMAIN index_cache' = {} /\ index_cache' = [s \in DOMAIN index_cache' |-> index_cache'[s]]
    BY <1>2 DEF ClearCache
  <2>2. IsFiniteSet(DOMAIN index_cache') BY <2>1, FS_EmptySet
  <2> QED BY <1>2, <2>1, <2>2 DEF ClearCache, CacheTypes
<1>3. ASSUME NEW s \in IndexSegments, WriteIndexFile(s) PROVE CacheTypes'
  BY <1>3 DEF WriteIndexFile, CacheTypes
<1>4. ASSUME NEW s \in IndexSegments, Invalidate(s) PROVE CacheTypes'
  <2>1. /\ DOMAIN index_cache' = DOMAIN index_cache \ {s}
        /\ index_cache' = [x \in DOMAIN index_cache' |-> index_cache'[x]]
        /\ \A x \in DOMAIN index_cache' : index_cache'[x] = index_cache[x]
        /\ UNCHANGED <<index_file, loader>>
    BY <1>4 DEF Invalidate, Restrict
  <2>2. IsFiniteSet(DOMAIN index_cache') BY <2>1, FS_RemoveElement DEF CacheTypes
  <2> QED BY <2>1, <2>2 DEF CacheTypes
<1>5. ASSUME NEW s \in IndexSegments, NEW t \in Loaders, Miss(t, s) PROVE CacheTypes'
  <2>1. /\ UNCHANGED <<index_file, index_cache>>
        /\ loader' = [loader EXCEPT ![t] = [pc |-> "opening", segment |-> s, reader |-> NoReader]]
    BY <1>5 DEF Miss
  <2>2. \A u \in Loaders : IsReader(loader'[u].reader) BY <2>1, ReadersOpened DEF CacheTypes
  <2> QED BY <2>1, <2>2 DEF CacheTypes
<1>6. ASSUME NEW s \in IndexSegments, NEW term \in IndexTerms, GetPostings(s, term) PROVE CacheTypes'
  <2>1. s \in DOMAIN index_cache BY <1>6 DEF GetPostings
  <2> QED BY <1>6, <2>1, Looked DEF CacheTypes
<1>7. ASSUME NEW t \in Loaders, OpenReader(t) PROVE CacheTypes'
  <2>1. PICK r : /\ r = NotLoading \/ r.reader = OpenedReader(loader[t].segment)
                 /\ loader' = [loader EXCEPT ![t] = r]
    BY <1>7 DEF OpenReader
  <2>2. \A u \in Loaders : IsReader(loader'[u].reader) BY <2>1, ReadersOpened DEF CacheTypes
  <2>3. DOMAIN loader' = Loaders /\ loader' = [u \in Loaders |-> loader'[u]] BY <2>1 DEF CacheTypes
  <2>4. UNCHANGED <<index_file, index_cache>> BY <1>7 DEF OpenReader
  <2> QED BY <2>2, <2>3, <2>4 DEF CacheTypes
<1>8. ASSUME NEW t \in Loaders, InsertReader(t) PROVE CacheTypes'
  <2>1. PICK out \in Evicted :
             /\ DOMAIN index_cache' = (DOMAIN index_cache \ out) \cup {loader[t].segment}
             /\ index_cache' = [x \in DOMAIN index_cache' |-> index_cache'[x]]
             /\ \A x \in DOMAIN index_cache' :
                   index_cache'[x] = IF x = loader[t].segment THEN loader[t].reader ELSE index_cache[x]
    BY <1>8, Inserted
  <2>2. IsFiniteSet(DOMAIN index_cache')
    <3>1. IsFiniteSet(DOMAIN index_cache \ out) BY FS_Subset DEF CacheTypes
    <3> QED BY <2>1, <3>1, FS_AddElement
  <2>3. \A x \in DOMAIN index_cache' : IsReader(index_cache'[x]) BY <2>1 DEF CacheTypes
  <2>4. loader' = [loader EXCEPT ![t] = NotLoading] /\ index_file' = index_file BY <1>8 DEF InsertReader
  <2>5. \A u \in Loaders : IsReader(loader'[u].reader) BY <2>4, ReadersOpened DEF CacheTypes
  <2>6. DOMAIN loader' = Loaders /\ loader' = [u \in Loaders |-> loader'[u]] BY <2>4 DEF CacheTypes
  <2> QED BY <2>1, <2>2, <2>3, <2>4, <2>5, <2>6 DEF CacheTypes
<1> QED BY <1>1, <1>2, <1>3, <1>4, <1>5, <1>6, <1>7, <1>8 DEF CacheNext

-----------------------------------------------------------------------------
(***************************************************************************)
(* However many loads end together, the cache is never larger than its     *)
(* max_size, or one reader if that is 0 (index_cache.rs:41-51).            *)
(***************************************************************************)
THEOREM CacheStaysBounded == CacheSpec => []CacheBounded
<1>1. CacheInit => CacheBounded BY FS_EmptySet, MaxOfTwo DEF CacheInit, CacheBounded
<1>2. CacheTypes /\ CacheBounded /\ [CacheNext]_cacheVars => CacheBounded'
  <2> SUFFICES ASSUME CacheTypes, CacheBounded, [CacheNext]_cacheVars
               PROVE  Cardinality(DOMAIN index_cache') <= Max({1, MaxCached})
    BY DEF CacheBounded
  <2>0. /\ IsFiniteSet(DOMAIN index_cache) /\ Cardinality(DOMAIN index_cache) \in Nat
        /\ Cardinality(DOMAIN index_cache) <= Max({1, MaxCached})
    BY FS_CardinalityType DEF CacheTypes, CacheBounded
  <2>1. ASSUME DOMAIN index_cache' \subseteq DOMAIN index_cache
        PROVE  Cardinality(DOMAIN index_cache') <= Max({1, MaxCached})
    <3>1. /\ Cardinality(DOMAIN index_cache') \in Nat
          /\ Cardinality(DOMAIN index_cache') <= Cardinality(DOMAIN index_cache)
      BY <2>0, <2>1, FS_Subset, FS_CardinalityType
    <3> QED BY <2>0, <3>1, MaxOfTwo
  <2>2. CASE UNCHANGED cacheVars BY <2>1, <2>2 DEF cacheVars
  <2>3. CASE ClearCache BY <2>1, <2>3 DEF ClearCache
  <2>4. ASSUME NEW s \in IndexSegments, WriteIndexFile(s) PROVE DOMAIN index_cache' \subseteq DOMAIN index_cache
    BY <2>4 DEF WriteIndexFile
  <2>5. ASSUME NEW s \in IndexSegments, Invalidate(s) PROVE DOMAIN index_cache' \subseteq DOMAIN index_cache
    BY <2>5 DEF Invalidate, Restrict
  <2>6. ASSUME NEW s \in IndexSegments, NEW t \in Loaders, Miss(t, s)
        PROVE  DOMAIN index_cache' \subseteq DOMAIN index_cache
    BY <2>6 DEF Miss
  <2>7. ASSUME NEW s \in IndexSegments, NEW term \in IndexTerms, GetPostings(s, term)
        PROVE  DOMAIN index_cache' \subseteq DOMAIN index_cache
    <3>1. s \in DOMAIN index_cache BY <2>7 DEF GetPostings
    <3> QED BY <2>7, <3>1, Looked
  <2>8. ASSUME NEW t \in Loaders, OpenReader(t) PROVE DOMAIN index_cache' \subseteq DOMAIN index_cache
    BY <2>8 DEF OpenReader
  <2>9. ASSUME NEW t \in Loaders, InsertReader(t) PROVE Cardinality(DOMAIN index_cache') <= Max({1, MaxCached})
    <3> DEFINE D == DOMAIN index_cache
               s == loader[t].segment
    <3>1. PICK out \in Evicted : DOMAIN index_cache' = (D \ out) \cup {s} BY <2>9, Inserted
    <3>2. IsFiniteSet(D \ out) /\ Cardinality(D \ out) \in Nat /\ Cardinality(D \ out) <= Cardinality(D)
      BY <2>0, FS_Subset, FS_CardinalityType
    <3>3. Cardinality(DOMAIN index_cache') \in Nat /\ Cardinality(DOMAIN index_cache') <= Cardinality(D \ out) + 1
      <4>1. Cardinality((D \ out) \cup {s}) = IF s \in (D \ out) THEN Cardinality(D \ out) ELSE Cardinality(D \ out) + 1
        BY <3>2, FS_AddElement
      <4> HIDE DEF D, s
      <4> QED BY <3>1, <3>2, <4>1
    <3>4. CASE Cardinality(D) >= MaxCached /\ D # {}
      <4>1. PICK v \in D : out = {v} BY <3>1, <3>4 DEF Evicted
      <4>2. Cardinality(D \ out) = Cardinality(D) - 1 BY <2>0, <4>1, FS_RemoveElement
      <4> HIDE DEF D
      <4> QED BY <2>0, <3>2, <3>3, <4>2, MaxOfTwo DEF D
    <3>5. CASE D = {}
      <4>1. Cardinality(D \ out) = 0
        <5>1. D \ out = {} BY <3>5
        <5> QED BY <5>1, FS_EmptySet
      <4> QED BY <3>3, <4>1, MaxOfTwo
    <3>6. CASE ~(Cardinality(D) >= MaxCached)
      <4>1. Cardinality(D \ out) + 1 <= MaxCached BY <2>0, <3>2, <3>6, CacheAssumption
      <4> QED BY <3>2, <3>3, <4>1, MaxOfTwo, CacheAssumption
    <3> QED BY <3>4, <3>5, <3>6
  <2> QED BY <2>1, <2>2, <2>3, <2>4, <2>5, <2>6, <2>7, <2>8, <2>9 DEF CacheNext
<1> QED BY <1>1, <1>2, CacheTypesInit, CacheTypesStep, PTL DEF CacheSpec

(***************************************************************************)
(* Once a segment's file is complete and no reader of the missing file is  *)
(* cached or being inserted, no load, eviction or lookup brings one back   *)
(* (index_cache.rs:36-51).                                                 *)
(***************************************************************************)
THEOREM FreshIsKept == CacheSpec => FreshStaysFresh
<1>1. CacheTypes /\ [CacheNext]_cacheVars => [\A s \in IndexSegments : UpToDate(s) => UpToDate(s)']_cacheVars
  <2> SUFFICES ASSUME CacheTypes, CacheNext, NEW s \in IndexSegments, UpToDate(s) PROVE UpToDate(s)'
    OBVIOUS
  <2>0. /\ index_file[s] = "complete"
        /\ s \in DOMAIN index_cache => index_cache[s].terms = TermsOfIndex[s]
        /\ \A t \in Loaders : loader[t].pc = "opened" /\ loader[t].segment = s => loader[t].reader.terms = TermsOfIndex[s]
    BY DEF UpToDate
  <2>1. CASE ClearCache BY <2>0, <2>1 DEF ClearCache, UpToDate
  <2>2. ASSUME NEW x \in IndexSegments, WriteIndexFile(x) PROVE UpToDate(s)'
    <3>1. index_file'[s] = "complete" BY <2>0, <2>2 DEF WriteIndexFile, CacheTypes
    <3> QED BY <2>0, <2>2, <3>1 DEF WriteIndexFile, UpToDate
  <2>3. ASSUME NEW x \in IndexSegments, Invalidate(x) PROVE UpToDate(s)'
    <3>1. /\ UNCHANGED <<index_file, loader>>
          /\ DOMAIN index_cache' = DOMAIN index_cache \ {x}
          /\ \A y \in DOMAIN index_cache' : index_cache'[y] = index_cache[y]
      BY <2>3 DEF Invalidate, Restrict
    <3> QED BY <2>0, <3>1 DEF UpToDate
  <2>4. ASSUME NEW x \in IndexSegments, NEW t \in Loaders, Miss(t, x) PROVE UpToDate(s)'
    <3>1. /\ UNCHANGED <<index_file, index_cache>>
          /\ loader'[t].pc = "opening" /\ \A u \in Loaders \ {t} : loader'[u] = loader[u]
      BY <2>4 DEF Miss, CacheTypes
    <3> QED BY <2>0, <3>1 DEF UpToDate
  <2>5. ASSUME NEW x \in IndexSegments, NEW term \in IndexTerms, GetPostings(x, term) PROVE UpToDate(s)'
    <3>1. x \in DOMAIN index_cache BY <2>5 DEF GetPostings
    <3>2. /\ DOMAIN index_cache' = DOMAIN index_cache /\ UNCHANGED <<index_file, loader>>
          /\ \A y \in DOMAIN index_cache : index_cache'[y].terms = index_cache[y].terms
      BY <2>5, <3>1, Looked
    <3> QED BY <2>0, <3>2 DEF UpToDate
  <2>6. ASSUME NEW t \in Loaders, OpenReader(t) PROVE UpToDate(s)'
    <3>1. UNCHANGED <<index_file, index_cache>> /\ \A u \in Loaders \ {t} : loader'[u] = loader[u]
      BY <2>6 DEF OpenReader, CacheTypes
    <3>2. loader'[t].pc = "opened" /\ loader'[t].segment = s => loader'[t].reader.terms = TermsOfIndex[s]
      <4>1. \/ loader'[t] = NotLoading
            \/ loader'[t] = [pc |-> "opened", segment |-> loader[t].segment, reader |-> OpenedReader(loader[t].segment)]
        BY <2>6 DEF OpenReader, CacheTypes
      <4>2. OpenedReader(s).terms = TermsOfIndex[s] BY <2>0 DEF OpenedReader
      <4> QED BY <4>1, <4>2 DEF NotLoading
    <3> QED BY <2>0, <3>1, <3>2 DEF UpToDate
  <2>7. ASSUME NEW t \in Loaders, InsertReader(t) PROVE UpToDate(s)'
    <3>1. /\ index_file' = index_file /\ loader[t].pc = "opened"
          /\ loader'[t].pc = "idle" /\ \A u \in Loaders \ {t} : loader'[u] = loader[u]
      BY <2>7 DEF InsertReader, CacheTypes, NotLoading
    <3>2. /\ DOMAIN index_cache' \subseteq DOMAIN index_cache \cup {loader[t].segment}
          /\ \A x \in DOMAIN index_cache' :
                index_cache'[x] = IF x = loader[t].segment THEN loader[t].reader ELSE index_cache[x]
      BY <2>7, Inserted
    <3>3. s \in DOMAIN index_cache' => index_cache'[s].terms = TermsOfIndex[s] BY <2>0, <3>1, <3>2
    <3> QED BY <2>0, <3>1, <3>3 DEF UpToDate
  <2> QED BY <2>1, <2>2, <2>3, <2>4, <2>5, <2>6, <2>7 DEF CacheNext
<1> QED BY <1>1, CacheTypesInit, CacheTypesStep, PTL DEF CacheSpec, FreshStaysFresh
=============================================================================
