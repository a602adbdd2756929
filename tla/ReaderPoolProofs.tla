--------------------------- MODULE ReaderPoolProofs ---------------------------
(***************************************************************************)
(* Proofs about ReaderPool, for any number of searches, queries, cached    *)
(* readers and publications.                                               *)
(***************************************************************************)
EXTENDS ReaderPool, SequenceTheorems, FiniteSetTheorems, WellFoundedInduction, TLAPS

LEMMA PoolInit == Init => PoolInv
<1> SUFFICES ASSUME Init PROVE PoolInv
    OBVIOUS
<1> USE DEF Init, DefaultSnapshot
<1>1. PoolTypes
  <2>1. current_version \in Version /\ segment_readers \cup missed \subseteq Version \X Segments
    BY SizesAssumption DEF Version
  <2>5. publishing \in BOOLEAN
    BY Zenon
  <2>4. results \in Seq([query : Queries, found : SUBSET Segments])
    OBVIOUS
  <2>2. /\ DOMAIN store = {} /\ store \in [DOMAIN store -> SUBSET Segments]
        /\ DOMAIN reader_cache = {} /\ reader_cache \in [DOMAIN reader_cache -> SUBSET Segments]
    OBVIOUS
  <2>3. /\ snapshot \in [Threads -> [version : Version, segments : SUBSET Segments]]
        /\ reader \in [Threads -> SUBSET Segments]
        /\ unopened \in [Threads -> SUBSET Segments]
        /\ answer \in [Threads -> SUBSET Segments]
    BY SizesAssumption DEF Version
  <2> QED
    BY <2>1, <2>2, <2>3, <2>4, <2>5 DEF PoolTypes
<1>2. NumbersInv /\ SearchInv
  BY DEF NumbersInv, SearchInv
<1>3. SegmentReadersTracked /\ CachedReadersFaithful
  BY DEF SegmentReadersTracked, CachedReadersFaithful
<1>4. AnswersAreSnapshots
  BY DEF AnswersAreSnapshots, Whole
<1> QED
  BY <1>1, <1>2, <1>3, <1>4 DEF PoolInv

-----------------------------------------------------------------------------
(* Sets of numbers. *)

\* The least number of a set, from the well-foundedness of the naturals.
LEMMA HasLeast ==
    ASSUME NEW S \in SUBSET Nat, S # {}
    PROVE  \E m \in S : \A n \in S : m <= n
<1> DEFINE Less == {ss \in Nat \X Nat : ss[1] < ss[2]}
<1>1. IsWellFoundedOn(Less, Nat)
  BY NatLessThanWellFounded DEF OpToRel
<1>2. PICK m \in S : \A n \in S : ~(<<n, m>> \in Less)
  BY <1>1, WFMin
<1>3. ASSUME NEW n \in S PROVE m <= n
  <2>1. <<n, m>> \in Nat \X Nat /\ <<n, m>> \notin Less
    BY <1>2
  <2>2. ~(n < m)
    BY <2>1
  <2> QED
    BY <2>2
<1> QED
  BY <1>3

\* Fewer than n numbers of S are above each of its n greatest, so there are at most n of those.
LEMMA TopFew ==
    ASSUME NEW S \in SUBSET Nat, IsFiniteSet(S), NEW n \in Nat,
           NEW top, top = {v \in S : Cardinality({w \in S : w > v}) < n}
    PROVE  IsFiniteSet(top) /\ Cardinality(top) <= n
<1>1. IsFiniteSet(top) /\ top \in SUBSET Nat /\ Cardinality(top) \in Nat
  <2>1. top \in SUBSET S
    OBVIOUS
  <2> QED
    BY <2>1, FS_Subset, FS_CardinalityType
<1>2. CASE top = {}
  <2>1. Cardinality(top) = 0
    BY <1>1, <1>2, FS_EmptySet
  <2> QED
    BY <1>1, <2>1
<1>3. CASE top # {}
  <2>1. PICK m \in top : \A v \in top : m <= v
    BY <1>1, <1>3, HasLeast
  <2>2. PICK above : above = {w \in S : w > m}
    OBVIOUS
  <2>3. IsFiniteSet(above) /\ Cardinality(above) \in Nat /\ Cardinality(above) < n
    <3>1. above \in SUBSET S /\ Cardinality(above) < n
      BY <2>1, <2>2
    <3> QED
      BY <3>1, FS_Subset, FS_CardinalityType
  <2>4. top \ {m} \in SUBSET above
    <3>1. ASSUME NEW v \in top \ {m} PROVE v \in above
      <4>1. v \in S /\ v \in Nat /\ m \in Nat /\ m <= v /\ v # m
        BY <1>1, <2>1
      <4> QED
        BY <2>2, <4>1
    <3> QED
      BY <3>1
  <2>5. Cardinality(top \ {m}) <= Cardinality(above)
    BY <2>3, <2>4, FS_Subset
  <2>6. Cardinality(top \ {m}) = Cardinality(top) - 1
    BY <1>1, <2>1, FS_RemoveElement
  <2> QED
    BY <1>1, <2>3, <2>5, <2>6
<1> QED
  BY <1>2, <1>3

-----------------------------------------------------------------------------
(* Types. *)

\* A captured snapshot has the type of one.
LEMMA CurrentType ==
    ASSUME PoolTypes
    PROVE  CurrentSnapshot \in [version : Version, segments : SUBSET Segments]
BY SizesAssumption DEF PoolTypes, CurrentSnapshot, DefaultSnapshot, Version, Segments

\* Storing a result keeps the cache a sequence of results, each of them old or the new one.
LEMMA PutType ==
    ASSUME PoolTypes, NEW t \in Threads, PutResult(t)
    PROVE  /\ results' \in Seq([query : Queries, found : SUBSET Segments])
           /\ \A i \in 1 .. Len(results') :
                 \/ results'[i].found = answer[t]
                 \/ \E j \in 1 .. Len(results) : results'[i] = results[j]
<1> DEFINE R == [query : Queries, found : SUBSET Segments]
           k == CachedAt(query[t])
           others == IF Cached(query[t]) THEN RemoveAt(results, k) ELSE results
           kept == IF Len(others) < CacheSize THEN others ELSE Tail(others)
           new == [query |-> query[t], found |-> answer[t]]
<1>1. results \in Seq(R) /\ new \in R
  BY DEF PoolTypes
<1>2. results' = Append(kept, new)
  BY DEF PutResult
<1>3. Cached(query[t]) => k \in 1 .. Len(results)
  BY DEF Cached, CachedAt
<1> HIDE DEF R, k, new
<1>4. /\ others \in Seq(R)
      /\ \A i \in 1 .. Len(others) : \E j \in 1 .. Len(results) : others[i] = results[j]
  <2>1. CASE ~Cached(query[t])
    BY <1>1, <2>1
  <2>2. CASE Cached(query[t])
    <3>1. others = SubSeq(results, 1, k - 1) \o SubSeq(results, k + 1, Len(results))
      BY <2>2 DEF RemoveAt
    <3>2. k \in 1 .. Len(results) /\ Len(results) \in Nat
      BY <1>1, <1>3, <2>2
    <3> DEFINE front == SubSeq(results, 1, k - 1)
               back == SubSeq(results, k + 1, Len(results))
    <3>3. /\ front \in Seq(R) /\ Len(front) = k - 1
          /\ \A i \in 1 .. k - 1 : front[i] = results[i]
      BY <1>1, <3>2
    <3>4. /\ back \in Seq(R) /\ Len(back) = Len(results) - k
          /\ \A i \in 1 .. Len(results) - k : back[i] = results[k + i]
      BY <1>1, <3>2
    <3> HIDE DEF front, back
    <3>5. /\ front \o back \in Seq(R) /\ Len(front \o back) = Len(results) - 1
          /\ \A i \in 1 .. Len(results) - 1 :
                (front \o back)[i] = IF i <= k - 1 THEN front[i] ELSE back[i - (k - 1)]
      <4>1. Len(front) + Len(back) = Len(results) - 1 /\ Len(front) = k - 1
        BY <3>2, <3>3, <3>4
      <4>2. front \in Seq(R) /\ back \in Seq(R)
        BY <3>3, <3>4
      <4> QED
        BY <4>1, <4>2, ConcatProperties
    <3>6. ASSUME NEW i \in 1 .. Len(results) - 1
          PROVE  \E j \in 1 .. Len(results) : (front \o back)[i] = results[j]
      <4>1. CASE i <= k - 1
        <5>1. (front \o back)[i] = results[i] /\ i \in 1 .. Len(results)
          BY <3>2, <3>3, <3>5, <4>1
        <5> QED
          BY <5>1
      <4>2. CASE i > k - 1
        <5>1. (front \o back)[i] = results[i + 1] /\ i + 1 \in 1 .. Len(results)
          BY <3>2, <3>4, <3>5, <4>2
        <5> QED
          BY <5>1
      <4>3. i <= k - 1 \/ i > k - 1
        BY <3>2
      <4> QED
        BY <4>1, <4>2, <4>3
    <3> QED
      BY <3>1, <3>5, <3>6 DEF front, back
  <2> QED
    BY <2>1, <2>2
<1> HIDE DEF others
<1>5. /\ kept \in Seq(R)
      /\ \A i \in 1 .. Len(kept) : \E j \in 1 .. Len(others) : kept[i] = others[j]
  <2>1. CASE Len(others) < CacheSize
    BY <1>4, <2>1
  <2>2. CASE ~(Len(others) < CacheSize)
    <3>1. Len(others) > 0
      BY <1>4, <2>2, SizesAssumption
    <3>2. /\ Tail(others) \in Seq(R) /\ Len(Tail(others)) = Len(others) - 1
          /\ \A i \in 1 .. Len(others) - 1 : Tail(others)[i] = others[i + 1]
      BY <1>4, <3>1
    <3> QED
      BY <1>4, <2>2, <3>1, <3>2
  <2> QED
    BY <2>1, <2>2
<1> HIDE DEF kept
<1>6. /\ Append(kept, new) \in Seq(R)
      /\ \A i \in 1 .. Len(Append(kept, new)) :
            Append(kept, new)[i] = new \/ \E j \in 1 .. Len(kept) : Append(kept, new)[i] = kept[j]
  BY <1>1, <1>5
<1>7. new.found = answer[t]
  BY DEF new
<1> QED
  BY <1>2, <1>4, <1>5, <1>6, <1>7 DEF R

\* A hit is an entry of the cache.
LEMMA HitExists ==
    ASSUME NEW q, Cached(q)
    PROVE  CachedAt(q) \in 1 .. Len(results)
BY DEF Cached, CachedAt

LEMMA TypesStep ==
    ASSUME PoolTypes, NumbersInv, [Next]_vars
    PROVE  PoolTypes'
<1> USE DEF PoolTypes
<1>1. ASSUME TakeNumber PROVE PoolTypes'
  BY <1>1, SizesAssumption DEF TakeNumber, pool, local, Version
<1>2. ASSUME StoreSnapshot PROVE PoolTypes'
  <2>1. current_version \in Segments /\ current_version - 1 \in Version
    BY <1>2, SizesAssumption DEF StoreSnapshot, NumbersInv, Version, Segments
  <2>2. Newest \in SUBSET Segments
    BY DEF Newest
  <2>3. PICK segments \in {Newest, Newest \cup {current_version}} :
            store' = [v \in DOMAIN store \cup {current_version - 1} |->
                         IF v = current_version - 1 THEN segments ELSE store[v]]
    BY <1>2 DEF StoreSnapshot
  <2>4. DOMAIN store' \subseteq Version /\ store' \in [DOMAIN store' -> SUBSET Segments]
    BY <2>1, <2>2, <2>3
  <2> QED
    BY <1>2, <2>4 DEF StoreSnapshot, pool, local
<1>3. ASSUME NEW t \in Threads, NEW q \in Queries, SearchHit(t, q) PROVE PoolTypes'
  <2>1. results[CachedAt(q)] \in [query : Queries, found : SUBSET Segments]
    <3>1. CachedAt(q) \in 1 .. Len(results)
      BY <1>3, HitExists DEF SearchHit
    <3> DEFINE R == [query : Queries, found : SUBSET Segments]
               n == CachedAt(q)
    <3>2. results \in Seq(R) /\ n \in 1 .. Len(results)
      BY <3>1
    <3> HIDE DEF R, n
    <3>3. results[n] \in R
      BY <3>2
    <3> QED
      BY <3>3 DEF R, n
  <2> QED
    BY <1>3, <2>1 DEF SearchHit, writerVars, pool
<1>4. ASSUME NEW t \in Threads, NEW q \in Queries, SearchMiss(t, q) PROVE PoolTypes'
  BY <1>4 DEF SearchMiss, Goes, writerVars, pool
<1>5. ASSUME NEW t \in Threads, CaptureSnapshot(t) PROVE PoolTypes'
  BY <1>5, CurrentType DEF CaptureSnapshot, Goes, writerVars, pool
<1>6. ASSUME NEW t \in Threads, LookupReader(t) PROVE PoolTypes'
  <2>1. /\ reader' \in [Threads -> SUBSET Segments] /\ unopened' \in [Threads -> SUBSET Segments]
        /\ \/ pc' = [pc EXCEPT ![t] = "execute"]
           \/ pc' = [pc EXCEPT ![t] = "open"]
    <3>1. CASE snapshot[t].version \in DOMAIN reader_cache
      <4>1. reader_cache[snapshot[t].version] \in SUBSET Segments
        BY <3>1
      <4> QED
        BY <1>6, <3>1, <4>1 DEF LookupReader, Goes
    <3>2. CASE snapshot[t].version \notin DOMAIN reader_cache
      <4>1. snapshot[t].segments \in SUBSET Segments
        OBVIOUS
      <4> QED
        BY <1>6, <3>2, <4>1 DEF LookupReader, Goes
    <3> QED
      BY <3>1, <3>2
  <2>2. UNCHANGED <<writerVars, pool, results, query, snapshot, answer>>
    BY <1>6 DEF LookupReader
  <2>3. pc' \in [Threads -> {"idle", "snapshot", "lookup", "open", "execute", "put"}]
    BY <2>1
  <2> QED
    BY <2>1, <2>2, <2>3 DEF writerVars, pool
<1>7. ASSUME NEW t \in Threads, OpenSegment(t) PROVE PoolTypes'
  BY <1>7 DEF OpenSegment, writerVars
<1>8. ASSUME NEW t \in Threads, InsertReader(t) PROVE PoolTypes'
  BY <1>8 DEF InsertReader, KeptReaders, Goes, writerVars, local
<1>9. ASSUME NEW t \in Threads, Execute(t) PROVE PoolTypes'
  BY <1>9 DEF Execute, Goes, writerVars, pool
<1>10. ASSUME NEW t \in Threads, Leaves(t), UNCHANGED <<writerVars, pool>>,
              results' \in Seq([query : Queries, found : SUBSET Segments])
       PROVE  PoolTypes'
  BY <1>10, SizesAssumption DEF Leaves, Goes, writerVars, pool, DefaultSnapshot, Version
<1>11. ASSUME NEW t \in Threads, ExecuteFails(t) PROVE PoolTypes'
  BY <1>10, <1>11 DEF ExecuteFails
<1>12. ASSUME NEW t \in Threads, PutResult(t) PROVE PoolTypes'
  BY <1>10, <1>12, PutType DEF PutResult
<1>13. CASE UNCHANGED vars
  BY <1>13 DEF vars
<1> QED
  BY <1>1, <1>2, <1>3, <1>4, <1>5, <1>6, <1>7, <1>8, <1>9, <1>11, <1>12, <1>13 DEF Next, Search

-----------------------------------------------------------------------------
(* What is stored stays, so what an answer or a reader shows stays too. *)

\* Which of the shared variables a step of a search leaves alone.
LEMMA SearchKeeps ==
    ASSUME NEW t \in Threads, Search(t)
    PROVE  /\ store' = store /\ current_version' = current_version /\ publishing' = publishing
           /\ missed \subseteq missed'
BY DEF Search, SearchHit, SearchMiss, CaptureSnapshot, LookupReader, OpenSegment, InsertReader,
       Execute, ExecuteFails, PutResult, writerVars, pool

LEMMA NumbersStep ==
    ASSUME PoolTypes, NumbersInv, [Next]_vars
    PROVE  /\ NumbersInv'
           /\ DOMAIN store \subseteq DOMAIN store'
           /\ \A v \in DOMAIN store : store'[v] = store[v]
           /\ missed \subseteq missed'
<1>1. CASE TakeNumber
  BY <1>1 DEF TakeNumber, NumbersInv, PoolTypes, Version, pool
<1>2. CASE StoreSnapshot
  BY <1>2 DEF StoreSnapshot, NumbersInv, PoolTypes, Version, pool
<1>3. ASSUME NEW t \in Threads, Search(t)
      PROVE  /\ NumbersInv' /\ missed \subseteq missed' /\ store' = store
  BY <1>3, SearchKeeps DEF NumbersInv
<1>4. CASE UNCHANGED vars
  BY <1>4 DEF vars, NumbersInv
<1> QED
  BY <1>1, <1>2, <1>3, <1>4 DEF Next

LEMMA WholeStays ==
    ASSUME PoolTypes, NumbersInv, [Next]_vars
    PROVE  /\ \A f, v : Shows(f, v) => Shows(f, v)'
           /\ \A f : Whole(f) => Whole(f)'
<1>1. \A f, v : Shows(f, v) => Shows(f, v)'
  BY NumbersStep DEF Shows
<1> QED
  BY <1>1, NumbersStep DEF Whole

-----------------------------------------------------------------------------
(* The searches. *)

\* A captured snapshot is the placeholder or a stored one.
Captured(snap) ==
    snap = DefaultSnapshot \/ (snap.version \in DOMAIN store /\ snap.segments = store[snap.version])

\* What a search that opens segments has done so far.
Opening(snap, opened, rest) ==
    /\ opened \cup rest \subseteq snap.segments
    /\ \A s \in snap.segments \ (opened \cup rest) : <<snap.version, s>> \in missed

LEMMA SearchInvForm ==
    SearchInv <=> \A t \in Threads : /\ Captured(snapshot[t])
                                     /\ pc[t] = "open" => Opening(snapshot[t], reader[t], unopened[t])
                                     /\ pc[t] = "execute" => Whole(reader[t])
BY DEF SearchInv, Captured, Opening

LEMMA CapturedStays ==
    ASSUME PoolTypes, NumbersInv, [Next]_vars
    PROVE  /\ \A snap : Captured(snap) => Captured(snap)'
           /\ \A snap, o, r : Opening(snap, o, r) => Opening(snap, o, r)'
BY NumbersStep DEF Captured, Opening

\* A search that has nothing left to open has a whole snapshot.
LEMMA OpenedIsWhole ==
    ASSUME NEW t \in Threads, SearchInv, pc[t] = "open", unopened[t] = {}
    PROVE  /\ Whole(reader[t])
           /\ snapshot[t].version # 0 => Shows(reader[t], snapshot[t].version)
<1>1. Captured(snapshot[t]) /\ Opening(snapshot[t], reader[t], {})
  BY SearchInvForm
<1>2. CASE snapshot[t] = DefaultSnapshot
  BY <1>1, <1>2 DEF Opening, DefaultSnapshot, Whole
<1>3. CASE snapshot[t].version \in DOMAIN store /\ snapshot[t].segments = store[snapshot[t].version]
  BY <1>1, <1>3 DEF Opening, Whole, Shows
<1> QED
  BY <1>1, <1>2, <1>3 DEF Captured

LEMMA SearchStep ==
    ASSUME PoolInv, [Next]_vars
    PROVE  SearchInv'
<1> DEFINE Ok(u) == /\ Captured(snapshot[u])
                    /\ pc[u] = "open" => Opening(snapshot[u], reader[u], unopened[u])
                    /\ pc[u] = "execute" => Whole(reader[u])
<1> USE DEF PoolInv
<1>1. \A u \in Threads : Ok(u)
  BY SearchInvForm
<1>2. ASSUME NEW u \in Threads, snapshot'[u] = snapshot[u], reader'[u] = reader[u],
             unopened'[u] = unopened[u], pc'[u] = pc[u]
      PROVE  Ok(u)'
  BY <1>1, <1>2, CapturedStays, WholeStays
<1>3. \A u \in Threads : Captured(snapshot[u])'
      \/ snapshot'[u] # snapshot[u]
  BY <1>1, CapturedStays
<1> SUFFICES ASSUME NEW u \in Threads PROVE Ok(u)'
  BY DEF SearchInv, Captured, Opening
<1> HIDE DEF Ok
<1>4. CASE TakeNumber \/ StoreSnapshot \/ UNCHANGED vars
  BY <1>2, <1>4 DEF TakeNumber, StoreSnapshot, local, vars
<1>5. ASSUME NEW t \in Threads, Search(t) PROVE Ok(u)'
  <2> USE DEF PoolTypes
  <2>1. CASE u # t
    <3>1. snapshot'[u] = snapshot[u] /\ reader'[u] = reader[u] /\ unopened'[u] = unopened[u] /\ pc'[u] = pc[u]
      BY <1>5, <2>1 DEF Search, SearchHit, SearchMiss, CaptureSnapshot, LookupReader, OpenSegment,
             InsertReader, Execute, ExecuteFails, PutResult, Goes, Leaves, local
    <3> QED
      BY <1>2, <3>1
  <2>2. ASSUME u = t, NEW q \in Queries, SearchHit(t, q) PROVE Ok(u)'
    BY <1>2, <2>2 DEF SearchHit
  <2>3. ASSUME u = t, NEW q \in Queries, SearchMiss(t, q) PROVE Ok(u)'
    <3>1. snapshot'[u] = snapshot[u] /\ pc'[u] = "snapshot"
      BY <2>3 DEF SearchMiss, Goes
    <3> QED
      BY <1>3, <3>1 DEF Ok
  <2>4. CASE u = t /\ CaptureSnapshot(t)
    <3>1. snapshot'[u] = CurrentSnapshot /\ pc'[u] = "lookup" /\ store' = store
      BY <2>4 DEF CaptureSnapshot, Goes, writerVars
    <3>2. Captured(CurrentSnapshot)
      BY DEF Captured, CurrentSnapshot
    <3> QED
      BY <3>1, <3>2 DEF Ok, Captured
  <2>5. CASE u = t /\ LookupReader(t)
    <3>1. snapshot'[u] = snapshot[u]
      BY <2>5 DEF LookupReader
    <3>2. CASE snapshot[t].version \in DOMAIN reader_cache
      <4>1. pc'[u] = "execute" /\ reader'[u] = reader_cache[snapshot[t].version]
        BY <2>5, <3>2 DEF LookupReader, Goes
      <4> QED
        BY <1>3, <3>1, <3>2, <4>1, WholeStays DEF Ok
    <3>3. CASE snapshot[t].version \notin DOMAIN reader_cache
      <4>1. pc'[u] = "open" /\ reader'[u] = {} /\ unopened'[u] = snapshot[u].segments
        BY <2>5, <3>3 DEF LookupReader, Goes
      <4>2. Opening(snapshot[u], reader[u], unopened[u])'
        BY <3>1, <4>1 DEF Opening
      <4> QED
        BY <1>3, <3>1, <4>1, <4>2 DEF Ok
    <3> QED
      BY <3>2, <3>3
  <2>6. CASE u = t /\ OpenSegment(t)
    <3>1. snapshot'[u] = snapshot[u] /\ pc'[u] = "open" /\ Opening(snapshot[u], reader[u], unopened[u])
      BY <1>1, <2>6 DEF OpenSegment, Ok
    <3>2. PICK s \in unopened[t] :
              /\ unopened' = [unopened EXCEPT ![t] = @ \ {s}]
              /\ \/ reader' = [reader EXCEPT ![t] = @ \cup {s}] /\ missed' = missed
                 \/ missed' = missed \cup {<<snapshot[t].version, s>>} /\ reader' = reader
      BY <2>6 DEF OpenSegment
    <3>3. /\ unopened'[u] = unopened[u] \ {s}
          /\ \/ reader'[u] = reader[u] \cup {s} /\ missed' = missed
             \/ reader'[u] = reader[u] /\ missed' = missed \cup {<<snapshot[u].version, s>>}
      BY <2>6, <3>2
    <3>4. Opening(snapshot[u], reader[u], unopened[u])'
      BY <2>6, <3>1, <3>2, <3>3 DEF Opening
    <3> QED
      BY <1>3, <3>1, <3>4 DEF Ok
  <2>7. CASE u = t /\ InsertReader(t)
    <3>1. snapshot'[u] = snapshot[u] /\ pc'[u] = "execute" /\ reader'[u] = reader[u]
      BY <2>7 DEF InsertReader, Goes, local
    <3>2. Whole(reader[u])
      BY <2>7, OpenedIsWhole DEF InsertReader
    <3> QED
      BY <1>3, <3>1, <3>2, WholeStays DEF Ok
  <2>8. CASE u = t /\ Execute(t)
    <3>1. snapshot'[u] = snapshot[u] /\ pc'[u] = "put"
      BY <2>8 DEF Execute, Goes
    <3> QED
      BY <1>3, <3>1 DEF Ok
  <2>9. CASE u = t /\ (ExecuteFails(t) \/ PutResult(t))
    <3>1. snapshot'[u] = DefaultSnapshot /\ pc'[u] = "idle"
      BY <2>9 DEF ExecuteFails, PutResult, Leaves, Goes
    <3> QED
      BY <3>1 DEF Ok, Captured
  <2> QED
    BY <1>5, <2>1, <2>2, <2>3, <2>4, <2>5, <2>6, <2>7, <2>8, <2>9 DEF Search
<1> QED
  BY <1>4, <1>5 DEF Next

-----------------------------------------------------------------------------
(* The caches. *)

LEMMA TrackedStep ==
    ASSUME PoolInv, [Next]_vars
    PROVE  SegmentReadersTracked'
<1> USE DEF PoolInv
<1> SUFFICES ASSUME NEW k \in segment_readers'
             PROVE  \/ k[1] \in DOMAIN reader_cache'
                    \/ \E u \in Threads : pc'[u] = "open" /\ snapshot'[u].version = k[1]
  BY DEF SegmentReadersTracked
<1>1. ASSUME k \in segment_readers, reader_cache' = reader_cache,
             \A u \in Threads : pc[u] = "open" => pc'[u] = "open" /\ snapshot'[u] = snapshot[u]
      PROVE  \/ k[1] \in DOMAIN reader_cache'
             \/ \E u \in Threads : pc'[u] = "open" /\ snapshot'[u].version = k[1]
  BY <1>1 DEF SegmentReadersTracked
<1>2. CASE TakeNumber \/ StoreSnapshot \/ UNCHANGED vars
  BY <1>1, <1>2 DEF TakeNumber, StoreSnapshot, pool, local, vars
<1>3. ASSUME NEW t \in Threads, Search(t)
      PROVE  \/ k[1] \in DOMAIN reader_cache'
             \/ \E u \in Threads : pc'[u] = "open" /\ snapshot'[u].version = k[1]
  <2>1. CASE InsertReader(t)
    <3> DEFINE v == snapshot[t].version
               cached == DOMAIN reader_cache \cup {v}
    <3>1. /\ DOMAIN reader_cache' = KeptReaders(cached)
          /\ k \in segment_readers /\ k[1] \notin cached \ KeptReaders(cached)
          /\ snapshot' = snapshot /\ pc' = [pc EXCEPT ![t] = "execute"]
      BY <2>1 DEF InsertReader, Goes, local
    <3>2. CASE k[1] \in cached
      BY <3>1, <3>2
    <3>3. CASE k[1] \notin cached
      <4>1. PICK u \in Threads : pc[u] = "open" /\ snapshot[u].version = k[1]
        BY <3>1, <3>3 DEF SegmentReadersTracked
      <4>2. u # t
        BY <3>3, <4>1
      <4> QED
        BY <3>1, <4>1, <4>2 DEF PoolTypes
    <3> QED
      BY <3>2, <3>3
  <2>2. CASE OpenSegment(t)
    <3>1. /\ pc' = pc /\ pc[t] = "open" /\ snapshot' = snapshot /\ reader_cache' = reader_cache
          /\ k \in segment_readers \/ k[1] = snapshot[t].version
      BY <2>2 DEF OpenSegment
    <3> QED
      BY <1>1, <3>1
  <2>3. CASE ~InsertReader(t) /\ ~OpenSegment(t)
    <3>1. /\ segment_readers' = segment_readers /\ reader_cache' = reader_cache
          /\ pc[t] # "open"
          /\ \A u \in Threads \ {t} : pc'[u] = pc[u] /\ snapshot'[u] = snapshot[u]
      BY <1>3, <2>3 DEF Search, SearchHit, SearchMiss, CaptureSnapshot, LookupReader, Execute,
             ExecuteFails, PutResult, Goes, Leaves, local, pool, PoolTypes
    <3> QED
      BY <1>1, <3>1
  <2> QED
    BY <2>1, <2>2, <2>3
<1> QED
  BY <1>2, <1>3 DEF Next

LEMMA CachedStep ==
    ASSUME PoolInv, [Next]_vars
    PROVE  CachedReadersFaithful' /\ \A v \in DOMAIN reader_cache' : Whole(reader_cache[v])'
<1> USE DEF PoolInv
<1> SUFFICES ASSUME NEW v \in DOMAIN reader_cache'
             PROVE  /\ v > 0 => Shows(reader_cache[v], v)'
                    /\ Whole(reader_cache[v])'
  BY DEF CachedReadersFaithful
<1>1. ASSUME v \in DOMAIN reader_cache, reader_cache'[v] = reader_cache[v]
      PROVE  /\ v > 0 => Shows(reader_cache[v], v)'
             /\ Whole(reader_cache[v])'
  BY <1>1, WholeStays DEF CachedReadersFaithful
<1>2. ASSUME NEW t \in Threads, InsertReader(t)
      PROVE  /\ v > 0 => Shows(reader_cache[v], v)'
             /\ Whole(reader_cache[v])'
  <2>1. pc[t] = "open" /\ unopened[t] = {}
    BY <1>2 DEF InsertReader
  <2>2. \/ v = snapshot[t].version /\ reader_cache'[v] = reader[t]
        \/ v \in DOMAIN reader_cache /\ reader_cache'[v] = reader_cache[v]
    BY <1>2 DEF InsertReader, KeptReaders
  <2> QED
    BY <1>1, <2>1, <2>2, OpenedIsWhole, WholeStays
<1>3. CASE reader_cache' = reader_cache
  BY <1>1, <1>3
<1>4. reader_cache' = reader_cache \/ \E t \in Threads : InsertReader(t)
  BY DEF Next, TakeNumber, StoreSnapshot, Search, SearchHit, SearchMiss, CaptureSnapshot, LookupReader,
         OpenSegment, Execute, ExecuteFails, PutResult, pool, vars
<1> QED
  BY <1>2, <1>3, <1>4

LEMMA AnswersStep ==
    ASSUME PoolInv, [Next]_vars
    PROVE  AnswersAreSnapshots'
<1> USE DEF PoolInv
<1>1. /\ \A u \in Threads : Whole(answer[u])
      /\ \A i \in 1 .. Len(results) : Whole(results[i].found)
  BY DEF AnswersAreSnapshots
<1>2. ASSUME NEW u \in Threads PROVE Whole(answer[u])'
  <2>1. CASE answer'[u] = answer[u]
    BY <1>1, <2>1, WholeStays
  <2>2. ASSUME NEW q \in Queries, SearchHit(u, q) PROVE Whole(answer[u])'
    <3>1. answer'[u] = results[CachedAt(q)].found
      BY <2>2 DEF SearchHit, PoolTypes
    <3>2. CachedAt(q) \in 1 .. Len(results)
      BY <2>2, HitExists DEF SearchHit
    <3> QED
      BY <1>1, <3>1, <3>2, WholeStays
  <2>3. CASE Execute(u)
    <3>1. answer'[u] = reader[u] /\ Whole(reader[u])
      BY <2>3 DEF Execute, PoolTypes, SearchInv
    <3> QED
      BY <3>1, WholeStays
  <2>4. answer'[u] = answer[u] \/ (\E q \in Queries : SearchHit(u, q)) \/ Execute(u)
    <3>1. CASE TakeNumber \/ StoreSnapshot \/ UNCHANGED vars
      BY <3>1 DEF TakeNumber, StoreSnapshot, local, vars
    <3>2. ASSUME NEW t \in Threads, Search(t)
          PROVE  answer'[u] = answer[u] \/ (\E q \in Queries : SearchHit(u, q)) \/ Execute(u)
      <4>1. CASE u = t
        BY <3>2, <4>1 DEF Search, SearchMiss, CaptureSnapshot, LookupReader, OpenSegment, InsertReader,
               ExecuteFails, PutResult, Leaves, local
      <4>2. CASE u # t
        BY <3>2, <4>2 DEF Search, SearchHit, SearchMiss, CaptureSnapshot, LookupReader, OpenSegment,
               InsertReader, Execute, ExecuteFails, PutResult, Leaves, local, PoolTypes
      <4> QED
        BY <4>1, <4>2
    <3> QED
      BY <3>1, <3>2 DEF Next
  <2> QED
    BY <2>1, <2>2, <2>3, <2>4
<1>3. ASSUME NEW i \in 1 .. Len(results') PROVE Whole(results[i].found)'
  <2>1. results' = results \/ \E t \in Threads : PutResult(t)
    BY DEF Next, TakeNumber, StoreSnapshot, Search, SearchHit, SearchMiss, CaptureSnapshot, LookupReader,
           OpenSegment, InsertReader, Execute, ExecuteFails, vars
  <2>2. CASE results' = results
    BY <1>1, <2>2, WholeStays
  <2>3. ASSUME NEW t \in Threads, PutResult(t) PROVE Whole(results[i].found)'
    BY <1>1, <2>3, PutType, WholeStays
  <2> QED
    BY <2>1, <2>2, <2>3
<1> QED
  BY <1>2, <1>3 DEF AnswersAreSnapshots

-----------------------------------------------------------------------------
LEMMA PoolStep ==
    ASSUME PoolInv, [Next]_vars
    PROVE  PoolInv'
<1>1. PoolTypes' /\ NumbersInv'
  BY TypesStep, NumbersStep DEF PoolInv
<1>2. SearchInv' /\ SegmentReadersTracked' /\ AnswersAreSnapshots'
  BY SearchStep, TrackedStep, AnswersStep
<1>3. CachedReadersFaithful' /\ \A v \in DOMAIN reader_cache' : Whole(reader_cache[v])'
  BY CachedStep
<1> QED
  BY <1>1, <1>2, <1>3 DEF PoolInv

(***************************************************************************)
(* The inductive invariant of the read path (reader_pool.rs, engine.rs     *)
(* run_search), for any number of searches and publications.               *)
(***************************************************************************)
THEOREM PoolInvariance == Spec => []PoolInv
BY PoolInit, PoolStep, PTL DEF Spec

-----------------------------------------------------------------------------
(* The bounds. *)

\* Storing a result neither outgrows the cache nor repeats a key.
LEMMA PutBound ==
    ASSUME PoolTypes, NEW t \in Threads, PutResult(t), Len(results) <= CacheSize,
           \A i, j \in 1 .. Len(results) : results[i].query = results[j].query => i = j
    PROVE  /\ Len(results') <= CacheSize
           /\ \A i, j \in 1 .. Len(results') : results'[i].query = results'[j].query => i = j
<1> DEFINE R == [query : Queries, found : SUBSET Segments]
           q == query[t]
           k == CachedAt(q)
           others == IF Cached(q) THEN RemoveAt(results, k) ELSE results
           kept == IF Len(others) < CacheSize THEN others ELSE Tail(others)
           new == [query |-> q, found |-> answer[t]]
           Distinct(r) == \A i, j \in 1 .. Len(r) : r[i].query = r[j].query => i = j
           Without(r) == \A i \in 1 .. Len(r) : r[i].query # q
<1>1. results \in Seq(R) /\ new \in R /\ new.query = q
  BY DEF PoolTypes
<1>2. results' = Append(kept, new)
  BY DEF PutResult
<1>3. Cached(q) => k \in 1 .. Len(results) /\ results[k].query = q
  BY DEF Cached, CachedAt
<1>4. ~Cached(q) => Without(results)
  BY DEF Cached
<1> HIDE DEF R, k, new, q
<1>5. others \in Seq(R) /\ Len(others) <= CacheSize /\ Distinct(others) /\ Without(others)
  <2>1. CASE ~Cached(q)
    BY <1>1, <1>4, <2>1
  <2>2. CASE Cached(q)
    <3>1. others = SubSeq(results, 1, k - 1) \o SubSeq(results, k + 1, Len(results))
      BY <2>2 DEF RemoveAt
    <3>2. k \in 1 .. Len(results) /\ Len(results) \in Nat /\ results[k].query = q
      BY <1>1, <1>3, <2>2
    <3> DEFINE front == SubSeq(results, 1, k - 1)
               back == SubSeq(results, k + 1, Len(results))
    <3>3. /\ front \in Seq(R) /\ Len(front) = k - 1
          /\ \A i \in 1 .. k - 1 : front[i] = results[i]
      BY <1>1, <3>2
    <3>4. /\ back \in Seq(R) /\ Len(back) = Len(results) - k
          /\ \A i \in 1 .. Len(results) - k : back[i] = results[k + i]
      BY <1>1, <3>2
    <3> HIDE DEF front, back, others
    <3>5. /\ front \o back \in Seq(R) /\ Len(front \o back) = Len(front) + Len(back)
          /\ \A i \in 1 .. Len(front) + Len(back) :
                (front \o back)[i] = IF i <= Len(front) THEN front[i] ELSE back[i - Len(front)]
      <4>1. front \in Seq(R) /\ back \in Seq(R)
        BY <3>3, <3>4
      <4> QED
        BY <4>1, ConcatProperties, Zenon
    <3>6. others = front \o back
      BY <3>1 DEF front, back
    <3>7. others \in Seq(R) /\ Len(others) = Len(results) - 1
      <4>1. Len(front) + Len(back) = Len(results) - 1
        BY <3>2, <3>3, <3>4
      <4> QED
        BY <3>5, <3>6, <4>1
    <3>8. ASSUME NEW i \in 1 .. Len(others)
          PROVE  others[i] = results[IF i < k THEN i ELSE i + 1]
      <4>1. i \in Nat /\ i \in 1 .. Len(front) + Len(back)
        BY <3>2, <3>3, <3>4, <3>7
      <4>2. CASE i < k
        <5>1. i \in 1 .. k - 1 /\ i <= Len(front)
          BY <3>2, <3>3, <4>1, <4>2
        <5> QED
          BY <3>3, <3>5, <3>6, <4>1, <4>2, <5>1
      <4>3. CASE ~(i < k)
        <5>1. i - Len(front) \in 1 .. Len(results) - k /\ ~(i <= Len(front)) /\ k + (i - Len(front)) = i + 1
          BY <3>2, <3>3, <3>7, <4>1, <4>3
        <5>2. others[i] = back[i - Len(front)]
          BY <3>5, <3>6, <4>1, <5>1
        <5> QED
          BY <3>4, <4>3, <5>1, <5>2
      <4> QED
        BY <4>2, <4>3
    <3>9. \A i \in 1 .. Len(others) :
             /\ (IF i < k THEN i ELSE i + 1) \in 1 .. Len(results)
             /\ (IF i < k THEN i ELSE i + 1) # k
      BY <3>2, <3>7
    <3>10. Without(others)
      BY <3>2, <3>8, <3>9
    <3>11. ASSUME NEW i \in 1 .. Len(others), NEW j \in 1 .. Len(others), others[i].query = others[j].query
           PROVE  i = j
      <4>1. (IF i < k THEN i ELSE i + 1) = (IF j < k THEN j ELSE j + 1)
        BY <3>8, <3>9, <3>11
      <4> QED
        BY <3>2, <3>7, <4>1
    <3>12. Len(others) <= CacheSize
      BY <3>2, <3>7, SizesAssumption
    <3> QED
      BY <3>7, <3>10, <3>11, <3>12
  <2> QED
    BY <2>1, <2>2
<1> HIDE DEF others
<1>6. kept \in Seq(R) /\ Len(kept) < CacheSize /\ Distinct(kept) /\ Without(kept)
  <2>1. CASE Len(others) < CacheSize
    BY <1>5, <2>1
  <2>2. CASE ~(Len(others) < CacheSize)
    <3>1. Len(others) > 0 /\ Len(others) \in Nat
      BY <1>5, <2>2, SizesAssumption
    <3>2. /\ Tail(others) \in Seq(R) /\ Len(Tail(others)) = Len(others) - 1
          /\ \A i \in 1 .. Len(others) - 1 : Tail(others)[i] = others[i + 1]
      BY <1>5, <3>1
    <3>3. Distinct(Tail(others)) /\ Without(Tail(others))
      <4>1. \A i \in 1 .. Len(others) - 1 : i + 1 \in 1 .. Len(others)
        BY <3>1
      <4>2. Without(Tail(others))
        BY <1>5, <3>2, <4>1
      <4>3. ASSUME NEW i \in 1 .. Len(others) - 1, NEW j \in 1 .. Len(others) - 1,
                   Tail(others)[i].query = Tail(others)[j].query
            PROVE  i = j
        <5>1. i + 1 = j + 1
          BY <1>5, <3>2, <4>1, <4>3
        <5> QED
          BY <3>1, <5>1
      <4> QED
        BY <3>2, <4>2, <4>3
    <3> QED
      BY <1>5, <2>2, <3>1, <3>2, <3>3, SizesAssumption
  <2> QED
    BY <2>1, <2>2
<1> HIDE DEF kept
<1>7. /\ Len(Append(kept, new)) = Len(kept) + 1 /\ Len(kept) \in Nat
      /\ \A i \in 1 .. Len(kept) : Append(kept, new)[i] = kept[i]
      /\ Append(kept, new)[Len(kept) + 1] = new
  BY <1>1, <1>6
<1>8. Len(results') <= CacheSize
  BY <1>2, <1>6, <1>7, SizesAssumption
<1>9. ASSUME NEW i \in 1 .. Len(kept) + 1, NEW j \in 1 .. Len(kept) + 1,
             results'[i].query = results'[j].query
      PROVE  i = j
  <2>1. (i \in 1 .. Len(kept) \/ i = Len(kept) + 1) /\ (j \in 1 .. Len(kept) \/ j = Len(kept) + 1)
    BY <1>7
  <2> QED
    BY <1>1, <1>2, <1>6, <1>7, <1>9, <2>1
<1> QED
  BY <1>2, <1>7, <1>8, <1>9

\* cleanup_old_readers leaves at most max_readers.
LEMMA KeptBound ==
    ASSUME NEW S \in SUBSET Nat, IsFiniteSet(S)
    PROVE  IsFiniteSet(KeptReaders(S)) /\ Cardinality(KeptReaders(S)) <= MaxReaders
<1>1. CASE Cardinality(S) <= MaxReaders
  BY <1>1 DEF KeptReaders
<1>2. CASE ~(Cardinality(S) <= MaxReaders)
  <2>1. MaxReaders \div 2 \in Nat /\ MaxReaders \div 2 <= MaxReaders
    BY SizesAssumption
  <2>2. KeptReaders(S) = {v \in S : Cardinality({w \in S : w > v}) < MaxReaders \div 2}
    BY <1>2 DEF KeptReaders
  <2>3. IsFiniteSet(KeptReaders(S)) /\ Cardinality(KeptReaders(S)) <= MaxReaders \div 2
    BY <2>1, <2>2, TopFew
  <2>4. Cardinality(KeptReaders(S)) \in Nat
    BY <2>3, FS_CardinalityType
  <2> QED
    BY <2>1, <2>3, <2>4, SizesAssumption
<1> QED
  BY <1>1, <1>2

\* Versions that are cached, or that some search is opening, are not many.
LEMMA TrackedBound ==
    ASSUME NEW D, IsFiniteSet(D), Cardinality(D) <= MaxReaders,
           NEW f \in [Threads -> Nat],
           NEW V \in SUBSET (D \cup {f[t] : t \in Threads})
    PROVE  Cardinality(V) <= MaxReaders + Cardinality(Threads)
<1> DEFINE opening == {f[t] : t \in Threads}
<1>1. Cardinality(D) \in Nat
  BY FS_CardinalityType
<1>2. IsFiniteSet(Threads) /\ Cardinality(Threads) \in Nat
  BY ThreadsAssumption, FS_CardinalityType
<1>3. IsFiniteSet(opening) /\ Cardinality(opening) <= Cardinality(Threads) /\ Cardinality(opening) \in Nat
  <2>1. f \in Surjection(Threads, opening)
    BY DEF Surjection
  <2> HIDE DEF opening
  <2> QED
    BY <1>2, <2>1, FS_Surjection, FS_CardinalityType
<1> HIDE DEF opening
<1>4. /\ IsFiniteSet(D \cup opening)
      /\ Cardinality(D \cup opening) = Cardinality(D) + Cardinality(opening) - Cardinality(D \cap opening)
  BY <1>3, FS_Union
<1>5. Cardinality(D \cap opening) \in Nat
  BY FS_Subset, FS_CardinalityType
<1>6. Cardinality(V) <= Cardinality(D \cup opening) /\ Cardinality(V) \in Nat
  <2>1. V \in SUBSET (D \cup opening)
    BY DEF opening
  <2> QED
    BY <1>4, <2>1, FS_Subset, FS_CardinalityType
<1> QED
  BY <1>1, <1>2, <1>3, <1>4, <1>5, <1>6, SizesAssumption

LEMMA BoundsStep ==
    ASSUME PoolInv, PoolInv', TypeOK, [Next]_vars
    PROVE  TypeOK'
<1>1. Cardinality(DOMAIN reader_cache') <= MaxReaders
  <2>1. reader_cache' = reader_cache \/ \E t \in Threads : InsertReader(t)
    BY DEF Next, TakeNumber, StoreSnapshot, Search, SearchHit, SearchMiss, CaptureSnapshot, LookupReader,
           OpenSegment, Execute, ExecuteFails, PutResult, pool, vars
  <2>2. ASSUME NEW t \in Threads, InsertReader(t)
        PROVE  Cardinality(DOMAIN reader_cache') <= MaxReaders
    <3> DEFINE cached == DOMAIN reader_cache \cup {snapshot[t].version}
    <3>1. DOMAIN reader_cache' = KeptReaders(cached)
      BY <2>2 DEF InsertReader
    <3>2. IsFiniteSet(0 .. MaxPublish)
      BY SizesAssumption, FS_Interval
    <3>3. cached \in SUBSET (0 .. MaxPublish)
      BY DEF PoolInv, PoolTypes, Version
    <3> HIDE DEF cached
    <3>4. IsFiniteSet(cached)
      BY <3>2, <3>3, FS_Subset
    <3>5. cached \in SUBSET Nat
      BY <3>3
    <3> QED
      BY <3>1, <3>4, <3>5, KeptBound
  <2> QED
    BY <2>1, <2>2 DEF TypeOK
<1>2. /\ Len(results') <= CacheSize
      /\ \A i, j \in 1 .. Len(results') : results'[i].query = results'[j].query => i = j
  <2>1. results' = results \/ \E t \in Threads : PutResult(t)
    BY DEF Next, TakeNumber, StoreSnapshot, Search, SearchHit, SearchMiss, CaptureSnapshot, LookupReader,
           OpenSegment, InsertReader, Execute, ExecuteFails, vars
  <2>2. CASE results' = results
    BY <2>2 DEF TypeOK
  <2>3. CASE \E t \in Threads : PutResult(t)
    BY <2>3, PutBound DEF TypeOK
  <2> QED
    BY <2>1, <2>2, <2>3
<1>3. Cardinality({k[1] : k \in segment_readers'}) <= MaxReaders + Cardinality(Threads)
  <2> DEFINE D == DOMAIN reader_cache'
             V == {k[1] : k \in segment_readers'}
             f == [t \in Threads |-> snapshot'[t].version]
  <2>1. f \in [Threads -> Nat] /\ D \in SUBSET (0 .. MaxPublish)
    BY DEF PoolInv, PoolTypes, Version
  <2>2. V \in SUBSET (D \cup {f[t] : t \in Threads})
    BY DEF PoolInv, SegmentReadersTracked
  <2>3. Cardinality(D) <= MaxReaders
    BY <1>1
  <2> HIDE DEF D, V, f
  <2>4. IsFiniteSet(D)
    <3>1. IsFiniteSet(0 .. MaxPublish)
      BY SizesAssumption, FS_Interval
    <3> QED
      BY <2>1, <3>1, FS_Subset
  <2>5. Cardinality(V) <= MaxReaders + Cardinality(Threads)
    BY <2>1, <2>2, <2>3, <2>4, TrackedBound
  <2> QED
    BY <2>5 DEF V
<1> QED
  BY <1>1, <1>2, <1>3 DEF TypeOK, PoolInv

LEMMA BoundsInit == Init => TypeOK
<1> SUFFICES ASSUME Init PROVE TypeOK
    OBVIOUS
<1>1. PoolTypes
  BY PoolInit DEF PoolInv
<1>2. DOMAIN reader_cache = {} /\ {k[1] : k \in segment_readers} = {} /\ Len(results) = 0
  BY DEF Init
<1>3. Cardinality({}) = 0 /\ Cardinality(Threads) \in Nat
  BY FS_EmptySet, FS_CardinalityType, ThreadsAssumption
<1>4. /\ Cardinality(DOMAIN reader_cache) <= MaxReaders
      /\ Cardinality({k[1] : k \in segment_readers}) <= MaxReaders + Cardinality(Threads)
      /\ Len(results) <= CacheSize
  <2>1. Cardinality(DOMAIN reader_cache) = 0 /\ Cardinality({k[1] : k \in segment_readers}) = 0
    BY <1>2, <1>3, Zenon
  <2> QED
    BY <1>2, <1>3, <2>1, SizesAssumption
<1> QED
  BY <1>1, <1>2, <1>4 DEF TypeOK

(***************************************************************************)
(* Types and bounds: neither the pool (cleanup_old_readers at              *)
(* reader_pool.rs:139) nor the result cache outgrows its limit, however    *)
(* many searches insert at once, and open segment readers stay as few.     *)
(***************************************************************************)
THEOREM PoolBounded == Spec => []TypeOK
<1>1. PoolInv /\ PoolInv' /\ TypeOK /\ [Next]_vars => TypeOK'
  BY BoundsStep
<1> QED
  BY <1>1, BoundsInit, PoolInvariance, PTL DEF Spec

(***************************************************************************)
(* No open segment reader is left behind when the creation and the cleanup *)
(* of readers overlap (reader_pool.rs:56-170).                             *)
(***************************************************************************)
THEOREM NoLeakedReader == Spec => []SegmentReadersTracked
<1>1. PoolInv => SegmentReadersTracked
  BY DEF PoolInv
<1> QED
  BY <1>1, PoolInvariance, PTL

(***************************************************************************)
(* A cached reader shows its version's snapshot but for segments that      *)
(* could not be opened (reader_pool.rs:86-137), above version 0.           *)
(***************************************************************************)
THEOREM ReadersFaithful == Spec => []CachedReadersFaithful
<1>1. PoolInv => CachedReadersFaithful
  BY DEF PoolInv
<1> QED
  BY <1>1, PoolInvariance, PTL

(***************************************************************************)
(* Every answer of run_search, fresh or from the result cache, is one      *)
(* snapshot (engine.rs:114-129).                                           *)
(***************************************************************************)
THEOREM AnswersWhole == Spec => []AnswersAreSnapshots
<1>1. PoolInv => AnswersAreSnapshots
  BY DEF PoolInv
<1> QED
  BY <1>1, PoolInvariance, PTL
=============================================================================
