----------------------------- MODULE MVCCProofs -----------------------------
(***************************************************************************)
(* Machine-checked proofs about MVCC for any number of clients, any        *)
(* contents, any max_versions and any number of publications.              *)
(***************************************************************************)
EXTENDS MVCC, FiniteSetTheorems, TLAPS

(***************************************************************************)
(* The is_pinned test of the collector answers true for a stored version   *)
(* that somebody else still holds: strong_count is then at least two.      *)
(***************************************************************************)
LEMMA HeldIsPinned ==
    ASSUME IndInv, NEW v \in DOMAIN versions, NEW c \in Clients,
           HoldsLease(guard[c], v) \/ HoldsLease(creating[c], v)
    PROVE  IsPinned(v)
<1> DEFINE G == {d \in Clients : HoldsLease(guard[d], v)}
           C == {d \in Clients : HoldsLease(creating[d], v)}
<1>1. IsFiniteSet(G) /\ IsFiniteSet(C)
  BY ClientsAssumption, FS_Subset
<1>2. Cardinality(G) \in Nat /\ Cardinality(C) \in Nat
  BY <1>1, FS_CardinalityType
<1>3. Cardinality(G) # 0 \/ Cardinality(C) # 0
  <2>1. c \in G \/ c \in C
    OBVIOUS
  <2>2. G # {} \/ C # {}
    BY <2>1
  <2> QED
    BY <2>2, <1>1, FS_EmptySet
<1>4. StrongCount(v) = 1 + Cardinality(C) + Cardinality(G)
  BY DEF StrongCount
<1>5. StrongCount(v) > 1
  <2> HIDE DEF G, C
  <2> QED BY <1>2, <1>3, <1>4
<1>6. v \in leases
  BY DEF IndInv, LeasesInv
<1> QED
  BY <1>5, <1>6 DEF IsPinned

(***************************************************************************)
(* What the collector evicts is held by nobody and is not the newest.      *)
(***************************************************************************)
LEMMA EvictedIsUnheld ==
    ASSUME IndInv, NEW e \in Clients, pc[e] = "gc",
           NEW v \in DOMAIN versions, ~Spared(v)
    PROVE  /\ v # current_version - 1
           /\ \A c \in Clients : ~HoldsLease(guard[c], v) /\ ~HoldsLease(creating[c], v)
<1>1. \A c \in Clients : ~HoldsLease(guard[c], v) /\ ~HoldsLease(creating[c], v)
  BY HeldIsPinned DEF Spared
<1>2. v < latest /\ latest < current_version
  <2>1. v <= latest /\ v # latest /\ latest < current_version
    BY DEF IndInv, CollectorInv, Spared
  <2>2. v \in Nat /\ latest \in Nat
    BY DEF IndInv, TypeOK, Version
  <2> QED BY <2>1, <2>2
<1>3. v # current_version - 1
  <2>1. v \in Int /\ latest \in Int /\ current_version \in Int
    BY DEF IndInv, TypeOK, Version
  <2> QED BY <1>2, <2>1
<1> QED BY <1>1, <1>3

\* MVCCController::new establishes the inductive invariant.
LEMMA InitInd == Init => IndInv
<1> SUFFICES ASSUME Init PROVE IndInv
  OBVIOUS
<1> USE DEF Init
<1>1. TypeOK
  BY BlankAssumption, BoundsAssumption DEF TypeOK, Version, Snapshot, NoSnapshot
<1>2. NumbersInv /\ CreatingInv /\ CollectorInv /\ LeasesInv /\ NewestInv
        /\ TransactionsInv /\ GuardedVersionsRetained
  BY DEF NumbersInv, CreatingInv, CollectorInv, LeasesInv, NewestInv,
         TransactionsInv, GuardedVersionsRetained, Publishing, NoSnapshot
<1> QED BY <1>1, <1>2 DEF IndInv

\* Snapshot::default() and every published snapshot are snapshots.
LEMMA DefaultTypes ==
    /\ NoSnapshot \in Snapshot
    /\ DefaultSnapshot \in Snapshot
    /\ \A v \in Version, x \in Contents : Published(v, x) \in Snapshot
BY BlankAssumption, BoundsAssumption
   DEF NoSnapshot, DefaultSnapshot, Published, Snapshot, Version

\* The version map is finite, so the collector may compare its size.
LEMMA VersionsFinite == ASSUME TypeOK PROVE IsFiniteSet(DOMAIN versions)
<1>1. IsFiniteSet(Version)
  BY BoundsAssumption, FS_Interval DEF Version
<1> QED
  BY <1>1, FS_Subset DEF TypeOK

\* current_snapshot returns a snapshot, stored or default.
LEMMA CurrentSnapshotType ==
    ASSUME TypeOK PROVE CurrentSnapshotValue \in Snapshot
<1>1. CurrentVersion \in Version
  BY BoundsAssumption DEF TypeOK, CurrentVersion, Version
<1> QED
  BY <1>1, DefaultTypes DEF TypeOK, CurrentSnapshotValue

\* A step outside the controller keeps the inductive invariant.
LEMMA StutterInd == IndInv /\ UNCHANGED vars => IndInv'
BY DEF vars, IndInv, TypeOK, NumbersInv, CreatingInv, CollectorInv, LeasesInv,
       NewestInv, TransactionsInv, GuardedVersionsRetained, Publishing

\* The fetch_add hands out a number nobody else has.
LEMMA TakeVersionInd ==
    ASSUME IndInv, NEW c \in Clients, TakeVersion(c) PROVE IndInv'
<1> USE DEF TakeVersion, txnVars, collector
<1>0. PICK x \in Contents :
          creating' = [creating EXCEPT ![c] = Published(current_version, x)]
  OBVIOUS
<1>1. current_version \in Version /\ current_version + 1 \in Version
  BY BoundsAssumption DEF IndInv, TypeOK, Version
<1>2. Published(current_version, x) \in Snapshot
  BY <1>1, DefaultTypes
<1>3. TypeOK'
  BY <1>0, <1>1, <1>2 DEF IndInv, TypeOK
<1>4. creating'[c].lease = "mapped" /\ creating'[c].version = current_version
  BY <1>0 DEF Published, IndInv, TypeOK
<1>5. NumbersInv'
  BY <1>0, <1>1, <1>4 DEF IndInv, TypeOK, NumbersInv, Publishing, Version, Snapshot
<1>6. CreatingInv'
  BY <1>0 DEF IndInv, TypeOK, CreatingInv, Publishing
<1>7. CollectorInv'
  BY <1>1 DEF IndInv, TypeOK, CollectorInv, Version
<1>8. LeasesInv'
  BY <1>0 DEF IndInv, TypeOK, LeasesInv
<1>9. NewestInv'
  BY <1>1, <1>4 DEF IndInv, TypeOK, NewestInv, Publishing, Version
<1>10. TransactionsInv'
  BY DEF IndInv, TypeOK, TransactionsInv
<1>11. GuardedVersionsRetained'
  BY DEF IndInv, GuardedVersionsRetained
<1> QED
  BY <1>3, <1>5, <1>6, <1>7, <1>8, <1>9, <1>10, <1>11 DEF IndInv

\* Inserting the lease first keeps the lease map covering the version map.
LEMMA StoreLeaseInd ==
    ASSUME IndInv, NEW c \in Clients, StoreLease(c) PROVE IndInv'
<1> USE DEF StoreLease, txnVars, collector
<1>1. TypeOK'
  BY DEF IndInv, TypeOK, Snapshot
<1>2. \A d \in Clients : Publishing(d)' <=> Publishing(d)
  BY DEF IndInv, TypeOK, Publishing
<1>3. NumbersInv'
  BY <1>2 DEF IndInv, NumbersInv
<1>4. CreatingInv'
  BY <1>2 DEF IndInv, TypeOK, CreatingInv, Publishing
<1>5. CollectorInv'
  BY DEF IndInv, TypeOK, CollectorInv
<1>6. LeasesInv'
  BY DEF IndInv, TypeOK, LeasesInv
<1>7. NewestInv'
  BY <1>2 DEF IndInv, NewestInv
<1>8. TransactionsInv'
  BY DEF IndInv, TypeOK, TransactionsInv
<1>9. GuardedVersionsRetained'
  BY DEF IndInv, GuardedVersionsRetained
<1> QED
  BY <1>1, <1>3, <1>4, <1>5, <1>6, <1>7, <1>8, <1>9 DEF IndInv

\* Reading, dropping a guard and the transaction registry keep the invariant.
LEMMA ReadInd ==
    ASSUME IndInv, NEW c \in Clients,
           CurrentSnapshot(c) \/ PinTxSnapshot(c) \/ DropGuard(c)
             \/ LoadTxId(c) \/ RegisterTx(c) \/ CommitTransaction(c)
    PROVE  IndInv'
<1> USE DEF CurrentSnapshot, PinTxSnapshot, DropGuard, LoadTxId, RegisterTx,
            CommitTransaction, txnVars, collector
<1>1. UNCHANGED <<current_version, versions, leases, creating, latest, cursor>>
  OBVIOUS
<1>2. \A d \in Clients : /\ Publishing(d)' <=> Publishing(d)
                         /\ pc'[d] = "leased" <=> pc[d] = "leased"
                         /\ pc'[d] = "gc" <=> pc[d] = "gc"
  BY DEF IndInv, TypeOK, Publishing
<1>3. TypeOK'
  <2>1. CASE CurrentSnapshot(c) \/ PinTxSnapshot(c) \/ DropGuard(c)
    BY <2>1, DefaultTypes, CurrentSnapshotType DEF IndInv, TypeOK
  <2>2. CASE LoadTxId(c)
    BY <2>2 DEF IndInv, TypeOK
  <2>3. CASE RegisterTx(c)
    <3>1. txn[c] \in Version
      BY <2>3 DEF IndInv, TypeOK, TransactionsInv
    <3> QED BY <2>3, <3>1 DEF IndInv, TypeOK
  <2>4. CASE CommitTransaction(c)
    BY <2>4, DefaultTypes DEF IndInv, TypeOK
  <2> QED BY <2>1, <2>2, <2>3, <2>4
<1>4. NumbersInv' /\ CreatingInv'
  BY <1>1, <1>2 DEF IndInv, NumbersInv, CreatingInv
<1>5. CollectorInv'
  BY <1>1, <1>2 DEF IndInv, CollectorInv
<1>6. LeasesInv'
  BY <1>1, <1>2 DEF IndInv, LeasesInv
<1>7. NewestInv'
  BY <1>1, <1>2 DEF IndInv, NewestInv
<1>8. TransactionsInv'
  BY DEF IndInv, TypeOK, TransactionsInv, Version
<1>9. GuardedVersionsRetained'
  <2> USE DEF CurrentSnapshotValue, DefaultSnapshot, NoSnapshot, Published
  <2> QED BY <1>1 DEF IndInv, TypeOK, GuardedVersionsRetained
<1> QED
  BY <1>3, <1>4, <1>5, <1>6, <1>7, <1>8, <1>9 DEF IndInv

(***************************************************************************)
(* The collector's steps keep the maps of versions and leases in step and  *)
(* never touch a version that somebody holds.                              *)
(***************************************************************************)
LEMMA GcSpareInd ==
    ASSUME IndInv, NEW c \in Clients, GcSpare(c) PROVE IndInv'
<1> USE DEF GcSpare, txnVars
<1>1. UNCHANGED <<current_version, versions, leases, active_txns, pc, creating,
                  guard, txn, latest>>
  OBVIOUS
<1>2. TypeOK'
  BY <1>1 DEF IndInv, TypeOK
<1> HIDE DEF GcSpare
<1>3. NumbersInv' /\ CreatingInv' /\ NewestInv'
  BY <1>1 DEF IndInv, NumbersInv, CreatingInv, NewestInv, Publishing
<1>4. CollectorInv' /\ LeasesInv' /\ TransactionsInv' /\ GuardedVersionsRetained'
  BY <1>1 DEF IndInv, CollectorInv, LeasesInv, TransactionsInv, GuardedVersionsRetained
<1> QED BY <1>2, <1>3, <1>4 DEF IndInv

\* Removing a version and its lease entry keeps the invariant.
LEMMA GcEvictInd ==
    ASSUME IndInv, NEW c \in Clients, GcEvict(c) PROVE IndInv'
<1> USE DEF GcEvict, txnVars
<1>1. PICK v \in DOMAIN versions :
          /\ ~Spared(v)
          /\ versions' = [w \in DOMAIN versions \ {v} |-> versions[w]]
          /\ leases' = leases \ {v}
  OBVIOUS
<1>2. UNCHANGED <<current_version, active_txns, pc, creating, guard, txn, latest>>
  OBVIOUS
<1>3. /\ v # current_version - 1
      /\ \A d \in Clients : ~HoldsLease(guard[d], v) /\ ~HoldsLease(creating[d], v)
  BY <1>1, EvictedIsUnheld
<1>4. /\ DOMAIN versions' = DOMAIN versions \ {v}
      /\ \A w \in DOMAIN versions' : versions'[w] = versions[w]
  BY <1>1
<1>5. TypeOK'
  BY <1>1, <1>2, <1>4 DEF IndInv, TypeOK
<1>6. NumbersInv'
  BY <1>2, <1>4 DEF IndInv, NumbersInv, Publishing
<1>7. CreatingInv'
  BY <1>2, <1>3, <1>4 DEF IndInv, CreatingInv, Publishing, HoldsLease
<1>8. CollectorInv'
  BY <1>2, <1>4 DEF IndInv, CollectorInv
<1>9. LeasesInv'
  <2>1. \A d \in Clients : pc[d] = "leased" => creating[d].version # v
    BY DEF IndInv, NumbersInv, Publishing
  <2> QED BY <1>1, <1>2, <1>4, <2>1 DEF IndInv, LeasesInv
<1>10. NewestInv'
  BY <1>2, <1>3, <1>4 DEF IndInv, NewestInv, Publishing
<1>11. TransactionsInv'
  BY <1>2 DEF IndInv, TransactionsInv
<1>12. GuardedVersionsRetained'
  BY <1>2, <1>3, <1>4 DEF IndInv, GuardedVersionsRetained, HoldsLease
<1> QED
  BY <1>5, <1>6, <1>7, <1>8, <1>9, <1>10, <1>11, <1>12 DEF IndInv

\* Leaving the collection loop and returning the snapshot keeps the invariant.
LEMMA GcFinishInd ==
    ASSUME IndInv, NEW c \in Clients, GcFinish(c) PROVE IndInv'
<1> USE DEF GcFinish, Return, txnVars
<1>1. UNCHANGED <<current_version, versions, leases, active_txns, txn>>
  OBVIOUS
<1>2. \A d \in Clients : /\ Publishing(d)' <=> Publishing(d)
                         /\ pc'[d] = "leased" <=> pc[d] = "leased"
                         /\ pc'[d] = "txload" <=> pc[d] = "txload"
                         /\ Publishing(d) => creating'[d] = creating[d]
  BY DEF IndInv, TypeOK, Publishing
<1>3. TypeOK'
  <2>1. creating' \in [Clients -> Snapshot] /\ guard' \in [Clients -> Snapshot]
    BY DefaultTypes DEF IndInv, TypeOK
  <2>2. pc' \in [Clients -> {"idle", "numbered", "leased", "gc", "txload", "txsnap"}]
    BY DEF IndInv, TypeOK
  <2>3. latest' \in Version /\ cursor' \in Version \cup {-1}
    BY BoundsAssumption DEF Version
  <2> QED BY <1>1, <2>1, <2>2, <2>3 DEF IndInv, TypeOK
<1>4. NumbersInv'
  BY <1>1, <1>2 DEF IndInv, NumbersInv
<1>5. CreatingInv'
  BY <1>1, <1>2 DEF IndInv, TypeOK, CreatingInv, CollectorInv
<1>6. CollectorInv'
  BY DEF IndInv, TypeOK, CollectorInv
<1>7. LeasesInv'
  BY <1>1, <1>2 DEF IndInv, LeasesInv, Publishing
<1>8. NewestInv'
  BY <1>1, <1>2 DEF IndInv, NewestInv
<1>9. TransactionsInv'
  BY <1>1, <1>2 DEF IndInv, TransactionsInv
<1>10. GuardedVersionsRetained'
  BY <1>1 DEF IndInv, TypeOK, GuardedVersionsRetained, CreatingInv, NoSnapshot
<1> QED
  BY <1>3, <1>4, <1>5, <1>6, <1>7, <1>8, <1>9, <1>10 DEF IndInv

\* Entering the collection from gc() keeps the invariant.
LEMMA CallGcInd ==
    ASSUME IndInv, NEW c \in Clients, CallGc(c) PROVE IndInv'
<1> USE DEF CallGc, txnVars
<1>1. /\ pc' = [pc EXCEPT ![c] = "gc"]
      /\ latest' = CurrentVersion /\ cursor' = -1
      /\ UNCHANGED <<creating, guard>>
  <2>1. Cardinality(DOMAIN versions) \in Nat
    BY VersionsFinite, FS_CardinalityType DEF IndInv
  <2> QED BY <2>1, BoundsAssumption DEF StartCollector
<1>2. UNCHANGED <<current_version, versions, leases, active_txns, txn>>
  OBVIOUS
<1>3. \A d \in Clients : /\ Publishing(d)' <=> Publishing(d)
                         /\ pc'[d] = "leased" <=> pc[d] = "leased"
                         /\ pc'[d] = "txload" <=> pc[d] = "txload"
  BY <1>1 DEF IndInv, TypeOK, Publishing
<1>4. TypeOK'
  <2>1. CurrentVersion \in Version
    BY BoundsAssumption DEF IndInv, TypeOK, CurrentVersion, Version
  <2> QED BY <1>1, <1>2, <2>1 DEF IndInv, TypeOK
<1>5. NumbersInv'
  BY <1>1, <1>2, <1>3 DEF IndInv, NumbersInv
<1>6. CreatingInv'
  BY <1>1, <1>2, <1>3 DEF IndInv, TypeOK, CreatingInv, Publishing
<1>7. CollectorInv'
  <2>1. current_version > 0
    <3>1. DOMAIN versions # {}
      BY FS_EmptySet, BoundsAssumption
    <3> QED BY <3>1 DEF IndInv, NumbersInv, TypeOK, Version
  <2>2. \A d \in Clients : pc'[d] = "gc" => d = c
    BY <1>1 DEF IndInv, TypeOK, Unlocked
  <2>3. latest' < current_version /\ \A v \in DOMAIN versions : v <= latest'
    BY <1>1, <2>1 DEF CurrentVersion, IndInv, NumbersInv, TypeOK, Version
  <2> QED BY <1>2, <2>2, <2>3 DEF CollectorInv
<1>8. LeasesInv'
  BY <1>1, <1>2, <1>3 DEF IndInv, LeasesInv
<1>9. NewestInv'
  BY <1>1, <1>2, <1>3 DEF IndInv, NewestInv
<1>10. TransactionsInv' /\ GuardedVersionsRetained'
  BY <1>1, <1>2, <1>3 DEF IndInv, TransactionsInv, GuardedVersionsRetained
<1> QED
  BY <1>4, <1>5, <1>6, <1>7, <1>8, <1>9, <1>10 DEF IndInv

(***************************************************************************)
(* Storing a version: the number was nobody else's, so no other snapshot   *)
(* is replaced; then the call returns or its collection starts.            *)
(***************************************************************************)
LEMMA StoreVersionInd ==
    ASSUME IndInv, NEW c \in Clients, StoreVersion(c) PROVE IndInv'
<1> USE DEF StoreVersion, txnVars
<1> DEFINE n == creating[c].version
<1>1. /\ n \in Version /\ n < current_version /\ n \notin DOMAIN versions
      /\ creating[c].lease = "mapped" /\ creating[c].content \in Contents
      /\ n \in leases
  BY DEF IndInv, NumbersInv, LeasesInv, Publishing, TypeOK, Snapshot
<1>2. /\ DOMAIN versions' = DOMAIN versions \cup {n}
      /\ versions'[n] = creating[c].content
      /\ \A v \in DOMAIN versions : versions'[v] = versions[v]
  BY <1>1
<1>3. UNCHANGED <<current_version, leases, active_txns, txn>>
  OBVIOUS
<1>4. \/ Return(c) /\ UNCHANGED collector
      \/ /\ pc' = [pc EXCEPT ![c] = "gc"]
         /\ latest' = CurrentVersion /\ cursor' = -1
         /\ UNCHANGED <<creating, guard>>
  BY DEF StartCollector
<1>5. \A d \in Clients : d # c => pc'[d] = pc[d] /\ creating'[d] = creating[d]
  BY <1>4 DEF IndInv, TypeOK, Return
<1>6. \/ pc'[c] = "idle" /\ creating'[c] = NoSnapshot
      \/ pc'[c] = "gc" /\ creating'[c] = creating[c]
  BY <1>4 DEF IndInv, TypeOK, Return
<1>7. \A d \in Clients : Publishing(d)' <=> d # c /\ Publishing(d)
  BY <1>5, <1>6 DEF Publishing
<1>8. TypeOK'
  <2>1. CurrentVersion \in Version
    BY BoundsAssumption DEF IndInv, TypeOK, CurrentVersion, Version
  <2>2. versions' \in [DOMAIN versions' -> Contents] /\ DOMAIN versions' \subseteq Version
    BY <1>1, <1>2 DEF IndInv, TypeOK
  <2>3. pc' \in [Clients -> {"idle", "numbered", "leased", "gc", "txload", "txsnap"}]
    BY <1>4 DEF IndInv, TypeOK, Return
  <2>4. creating' \in [Clients -> Snapshot] /\ guard' \in [Clients -> Snapshot]
    BY <1>4, DefaultTypes DEF IndInv, TypeOK, Return
  <2>5. latest' \in Version /\ cursor' \in Version \cup {-1}
    BY <1>4, <2>1 DEF IndInv, TypeOK, collector
  <2> QED BY <1>3, <2>2, <2>3, <2>4, <2>5 DEF IndInv, TypeOK
<1>9. NumbersInv'
  <2>1. \A d \in Clients : d # c /\ Publishing(d) => creating[d].version # n
    BY DEF IndInv, NumbersInv, Publishing
  <2> HIDE DEF StoreVersion, n
  <2>2. \A v \in DOMAIN versions' : v < current_version'
    BY <1>1, <1>2, <1>3 DEF IndInv, NumbersInv
  <2>3. ASSUME NEW d \in Clients, Publishing(d)' PROVE
           /\ creating'[d].lease = "mapped"
           /\ creating'[d].version < current_version'
           /\ creating'[d].version \notin DOMAIN versions'
    BY <1>2, <1>3, <1>5, <1>7, <2>1, <2>3 DEF IndInv, NumbersInv
  <2>4. ASSUME NEW d \in Clients, NEW e \in Clients, Publishing(d)', Publishing(e)', d # e
        PROVE  creating'[d].version # creating'[e].version
    BY <1>5, <1>7, <2>4 DEF IndInv, NumbersInv
  <2> QED BY <2>2, <2>3, <2>4 DEF NumbersInv
<1>10. CreatingInv'
  <2>1. versions'[n] = creating[c].content /\ n \in DOMAIN versions'
    BY <1>1, <1>2
  <2> HIDE DEF StoreVersion
  <2>2. ASSUME NEW d \in Clients, d # c, pc[d] # "gc" PROVE
           ~Publishing(d)' /\ pc'[d] # "gc" => creating'[d] = NoSnapshot
    BY <1>5, <1>7, <2>2 DEF IndInv, CreatingInv
  <2>3. \A d \in Clients : d # c => pc[d] # "gc" /\ pc'[d] # "gc"
    BY <1>5 DEF StoreVersion, Unlocked
  <2> QED BY <1>1, <1>6, <2>1, <2>2, <2>3 DEF CreatingInv
<1>11. CollectorInv'
  <2>1. \A d \in Clients : pc'[d] = "gc" => d = c
    BY <1>5 DEF Unlocked
  <2>2. current_version \in Nat /\ n \in Nat /\ DOMAIN versions' \subseteq Nat
    BY <1>1, <1>2 DEF IndInv, TypeOK, Version
  <2>3. \A v \in DOMAIN versions' : v < current_version
    BY <1>1, <1>2 DEF IndInv, NumbersInv
  <2>4. pc'[c] = "gc" => latest' = CurrentVersion
    BY <1>4 DEF Return, IndInv, TypeOK
  <2>5. CurrentVersion = current_version - 1
    BY <1>1, <2>2 DEF CurrentVersion
  <2> QED BY <1>3, <2>1, <2>2, <2>3, <2>4, <2>5 DEF CollectorInv
<1>12. LeasesInv'
  <2>1. DOMAIN versions' \subseteq leases'
    BY <1>1, <1>2, <1>3 DEF IndInv, LeasesInv
  <2>2. \A d \in Clients : pc'[d] = "leased" =>
            d # c /\ pc[d] = "leased" /\ creating'[d] = creating[d]
    BY <1>5, <1>6
  <2>3. \A d \in Clients : pc[d] = "leased" /\ d # c =>
            pc'[d] = "leased" /\ creating'[d] = creating[d]
    BY <1>5
  <2> QED BY <1>2, <1>3, <2>1, <2>2, <2>3 DEF IndInv, LeasesInv
<1>13. NewestInv'
  BY <1>2, <1>3, <1>5, <1>7 DEF IndInv, NewestInv
<1>14. TransactionsInv'
  BY <1>3, <1>5, <1>6 DEF IndInv, TransactionsInv
<1>15. GuardedVersionsRetained'
  <2>1. \A d \in Clients : guard'[d] = guard[d] \/ guard'[d] = creating[c]
    BY <1>4 DEF IndInv, TypeOK, Return
  <2> QED BY <1>1, <1>2, <2>1 DEF IndInv, GuardedVersionsRetained
<1> QED
  BY <1>8, <1>9, <1>10, <1>11, <1>12, <1>13, <1>14, <1>15 DEF IndInv

\* Every step of every thread keeps the inductive invariant.
LEMMA NextInd == IndInv /\ [Next]_vars => IndInv'
<1> SUFFICES ASSUME IndInv, [Next]_vars PROVE IndInv'
  OBVIOUS
<1>1. CASE UNCHANGED vars
  BY <1>1, StutterInd
<1>2. ASSUME NEW c \in Clients, Step(c) PROVE IndInv'
  BY <1>2, TakeVersionInd, StoreLeaseInd, StoreVersionInd, CallGcInd, GcSpareInd,
     GcEvictInd, GcFinishInd, ReadInd DEF Step
<1> QED BY <1>1, <1>2 DEF Next

\* The inductive invariant holds in every reachable state of the controller.
THEOREM Invariance == Spec => []IndInv
BY InitInd, NextInd, PTL DEF Spec

\* Type correctness of the controller's maps, counters and guards.
THEOREM TypeCorrect == Spec => []TypeOK
<1>1. IndInv => TypeOK BY DEF IndInv
<1> QED BY <1>1, Invariance, PTL

(***************************************************************************)
(* A version that somebody holds is never evicted and never changes        *)
(* (gc_old_versions_leased against current_snapshot and dropped guards).   *)
(***************************************************************************)
THEOREM GuardsRetained == Spec => []GuardedVersionsRetained
<1>1. IndInv => GuardedVersionsRetained
  BY DEF IndInv
<1> QED BY <1>1, Invariance, PTL

(***************************************************************************)
(* When no publication is between its number and its insertion, the newest *)
(* snapshot is the one current_snapshot returns.                           *)
(***************************************************************************)
THEOREM NewestIsReadable == Spec => []NewestReadable
<1>1. IndInv => NewestReadable
  BY DEF IndInv, NewestInv, NewestReadable
<1> QED BY <1>1, Invariance, PTL

(***************************************************************************)
(* The lease map has exactly the entries the version map and the running   *)
(* publications need.                                                      *)
(***************************************************************************)
THEOREM LeasesMatch == Spec => []LeasesMatchVersions
<1>1. IndInv => LeasesMatchVersions
  BY DEF IndInv, LeasesInv, LeasesMatchVersions
<1> QED BY <1>1, Invariance, PTL

(***************************************************************************)
(* The transaction registry is empty when no transaction is open.          *)
(***************************************************************************)
THEOREM TransactionsDrained == Spec => []NoStaleTransactions
<1>1. IndInv => NoStaleTransactions
  BY DEF IndInv, TransactionsInv, TypeOK, Version, NoStaleTransactions
<1> QED BY <1>1, Invariance, PTL

(***************************************************************************)
(* No step changes the snapshot stored under a version number.             *)
(***************************************************************************)
THEOREM WriteOnce == Spec => VersionsWriteOnce
<1> DEFINE Kept == \A v \in DOMAIN versions \cap DOMAIN versions' :
                      versions'[v] = versions[v]
<1>1. ASSUME IndInv, [Next]_vars PROVE Kept
  <2>1. CASE UNCHANGED vars
    BY <2>1 DEF vars
  <2>2. ASSUME NEW c \in Clients, StoreVersion(c) PROVE Kept
    BY <2>2, <1>1 DEF StoreVersion, IndInv, NumbersInv, Publishing
  <2>3. ASSUME NEW c \in Clients, GcEvict(c) PROVE Kept
    BY <2>3 DEF GcEvict
  <2>4. ASSUME NEW c \in Clients, Step(c), ~StoreVersion(c), ~GcEvict(c)
        PROVE versions' = versions
    BY <2>4 DEF Step, TakeVersion, StoreLease, CallGc, GcSpare, GcFinish,
                CurrentSnapshot, DropGuard, LoadTxId, RegisterTx, PinTxSnapshot,
                CommitTransaction
  <2> QED BY <1>1, <2>1, <2>2, <2>3, <2>4 DEF Next
<1>2. IndInv /\ [Next]_vars => [Kept]_vars
  BY <1>1
<1> QED
  BY <1>2, Invariance, PTL DEF Spec, VersionsWriteOnce

-----------------------------------------------------------------------------
(***************************************************************************)
(* The controller implements the abstract snapshot store: each step is a   *)
(* step of the store under the mapping of MVCC, or leaves it unchanged.    *)
(***************************************************************************)
Ticket == [c \in Clients |-> IF Publishing(c) THEN creating[c].version ELSE -1]
Own == [c \in Clients |-> IF pc[c] = "gc" THEN creating[c] ELSE NoSnapshot]

\* A new controller is an empty abstract store.
LEMMA RefineInit == Init => Store!SInit
BY DEF Init, Store!SInit, Store!NoView, NoSnapshot, Publishing

\* The fetch_add is the abstract Reserve.
LEMMA RefineTakeVersion ==
    ASSUME IndInv, NEW c \in Clients, TakeVersion(c) PROVE Store!Reserve(c)
<1> USE DEF TakeVersion, Publishing, IndInv, TypeOK
<1>1. Ticket[c] = -1 /\ Own[c] = NoSnapshot
  BY DEF Ticket, Own
<1>2. Ticket' = [Ticket EXCEPT ![c] = current_version]
  <2>1. Publishing(c)' /\ creating'[c].version = current_version
    BY DEF Published
  <2>2. \A d \in Clients : d # c => /\ Publishing(d)' <=> Publishing(d)
                                    /\ creating'[d] = creating[d]
    OBVIOUS
  <2> HIDE DEF TakeVersion, Publishing, IndInv, TypeOK
  <2> QED BY <2>1, <2>2 DEF Ticket
<1>3. Own' = Own
  BY DEF Own
<1> QED
  BY <1>1, <1>2, <1>3 DEF Store!Reserve, Store!NoView, NoSnapshot, Ticket, Own

\* Inserting into the version map is the abstract Publish.
LEMMA RefineStoreVersion ==
    ASSUME IndInv, NEW c \in Clients, StoreVersion(c) PROVE Store!Publish(c)
<1> USE DEF StoreVersion
<1> DEFINE n == creating[c].version
           x == creating[c].content
<1>1. /\ n \in Version /\ x \in Contents /\ n \notin DOMAIN versions
      /\ creating[c].lease = "mapped"
      /\ creating[c] = [version |-> n, content |-> x, lease |-> "mapped"]
  BY DEF IndInv, NumbersInv, Publishing, TypeOK, Snapshot
<1>2. Ticket[c] = n /\ n # -1
  <2>1. Publishing(c)
    BY DEF Publishing
  <2> HIDE DEF StoreVersion, n
  <2>2. n # -1
    <3>1. n \in Version BY <1>1
    <3>2. \A v \in Version : v # -1 BY DEF Version
    <3> QED BY <3>1, <3>2
  <2>3. Ticket[c] = n
    BY <2>1 DEF Ticket, n
  <2> QED BY <2>2, <2>3
<1>3. /\ \A d \in Clients : d # c => pc'[d] = pc[d] /\ creating'[d] = creating[d]
      /\ pc'[c] \in {"idle", "gc"}
  BY DEF StartCollector, Return, IndInv, TypeOK
<1>4. Ticket' = [Ticket EXCEPT ![c] = -1]
  <2> HIDE DEF StoreVersion
  <2>1. ~Publishing(c)'
    BY <1>3 DEF Publishing
  <2>2. \A d \in Clients : d # c => (Publishing(d)' <=> Publishing(d))
    BY <1>3 DEF Publishing
  <2> QED BY <1>3, <2>1, <2>2 DEF Ticket
<1>5. \/ /\ Own' = Own
         /\ guard' = guard \/ guard' = [guard EXCEPT ![c] = creating[c]]
      \/ Own' = [Own EXCEPT ![c] = creating[c]] /\ guard' = guard
  <2>1. CASE Cardinality(DOMAIN versions') <= MaxVersions
    <3>1. Return(c)
      BY <2>1 DEF StartCollector
    <3>2. Own' = Own
      BY <1>3, <3>1 DEF Own, Return, IndInv, TypeOK
    <3> QED BY <3>1, <3>2 DEF Return
  <2>2. CASE ~(Cardinality(DOMAIN versions') <= MaxVersions)
    <3>1. pc' = [pc EXCEPT ![c] = "gc"] /\ UNCHANGED <<creating, guard>>
      BY <2>2 DEF StartCollector
    <3>2. Own' = [Own EXCEPT ![c] = creating[c]]
      BY <3>1 DEF Own, IndInv, TypeOK
    <3> QED BY <3>1, <3>2
  <2> QED BY <2>1, <2>2
<1>6. current_version' = current_version
  OBVIOUS
<1>7. versions' = [v \in DOMAIN versions \cup {n} |-> IF v = n THEN x ELSE versions[v]]
  OBVIOUS
<1> HIDE DEF StoreVersion
<1> QED
  BY <1>1, <1>2, <1>4, <1>5, <1>6, <1>7
     DEF Store!Publish, Store!Receive, Store!Pinned, Ticket, Own

\* An eviction is the abstract Forget.
LEMMA RefineGcEvict ==
    ASSUME IndInv, NEW c \in Clients, GcEvict(c) PROVE Store!Forget
<1>1. PICK v \in DOMAIN versions :
          /\ ~Spared(v)
          /\ versions' = [w \in DOMAIN versions \ {v} |-> versions[w]]
  BY DEF GcEvict
<1>2. UNCHANGED <<current_version, pc, creating, guard>>
  BY DEF GcEvict
<1>3. /\ v # current_version - 1
      /\ \A d \in Clients : ~HoldsLease(guard[d], v) /\ ~HoldsLease(creating[d], v)
  BY <1>1, EvictedIsUnheld DEF GcEvict
<1>4. current_version > 0
  BY <1>1 DEF IndInv, NumbersInv, TypeOK, Version
<1>5. v # Store!Newest
  BY <1>3, <1>4 DEF Store!Newest
<1>6. \A d \in Clients : ~Store!Holds(guard[d], v) /\ ~Store!Holds(Own[d], v)
  BY <1>3 DEF Store!Holds, HoldsLease, Own, NoSnapshot
<1>7. Ticket' = Ticket /\ Own' = Own
  BY <1>2 DEF Ticket, Own, Publishing
<1> QED
  BY <1>1, <1>2, <1>5, <1>6, <1>7 DEF Store!Forget, Ticket, Own

\* Returning from a collection is the abstract Deliver, or invisible after gc().
LEMMA RefineGcFinish ==
    ASSUME IndInv, NEW c \in Clients, GcFinish(c)
    PROVE  Store!Deliver(c) \/ UNCHANGED Store!svars
<1> USE DEF GcFinish, Return
<1>1. UNCHANGED <<current_version, versions>>
  OBVIOUS
<1>2. Ticket' = Ticket
  BY DEF Ticket, Publishing, IndInv, TypeOK
<1>3. Own' = [Own EXCEPT ![c] = NoSnapshot] /\ Own[c] = creating[c]
  BY DEF Own, IndInv, TypeOK
<1>4. CASE creating[c] = NoSnapshot
  <2>1. guard' = guard
    BY <1>4 DEF NoSnapshot
  <2>2. Own' = Own
    BY <1>3, <1>4 DEF Own
  <2> QED BY <1>1, <1>2, <2>1, <2>2 DEF Store!svars, Ticket, Own
<1>5. CASE creating[c] # NoSnapshot
  <2>1. /\ creating[c].version \in DOMAIN versions
        /\ versions[creating[c].version] = creating[c].content
    BY <1>5 DEF IndInv, CreatingInv
  <2>2. guard' = guard \/ guard' = [guard EXCEPT ![c] = creating[c]]
    OBVIOUS
  <2> HIDE DEF GcFinish, Return
  <2> QED
    BY <1>1, <1>2, <1>3, <1>5, <2>1, <2>2
       DEF Store!Deliver, Store!Receive, Store!NoView, NoSnapshot, Ticket, Own
<1> QED BY <1>4, <1>5

\* current_snapshot and begin_transaction's pin are the abstract ReadCurrent.
LEMMA RefineRead ==
    ASSUME IndInv, NEW c \in Clients, CurrentSnapshot(c) \/ PinTxSnapshot(c)
    PROVE  Store!ReadCurrent(c)
<1> USE DEF CurrentSnapshot, PinTxSnapshot
<1>1. UNCHANGED <<current_version, versions, creating>>
  OBVIOUS
<1>2. Ticket' = Ticket /\ Own' = Own
  BY DEF Ticket, Own, Publishing, IndInv, TypeOK
<1>3. guard' = [guard EXCEPT ![c] = CurrentSnapshotValue]
  OBVIOUS
<1>4. \/ CurrentVersion \in DOMAIN versions
      \/ current_version = 0
      \/ \E d \in Clients : Ticket[d] = CurrentVersion
  BY DEF IndInv, NewestInv, TypeOK, Version, CurrentVersion, Ticket
<1> HIDE DEF CurrentSnapshot, PinTxSnapshot
<1> QED
  BY <1>1, <1>2, <1>3, <1>4
     DEF Store!ReadCurrent, Store!Newest, Store!Pinned, Store!Placeholder,
         CurrentSnapshotValue, CurrentVersion, Published, DefaultSnapshot,
         Ticket, Own

\* Dropping a guard or ending a transaction is the abstract Release.
LEMMA RefineRelease ==
    ASSUME IndInv, NEW c \in Clients, DropGuard(c) \/ CommitTransaction(c)
    PROVE  Store!Release(c)
<1>1. /\ UNCHANGED <<current_version, versions, creating, pc>>
      /\ guard' = [guard EXCEPT ![c] = NoSnapshot]
  BY DEF DropGuard, CommitTransaction
<1>2. Ticket' = Ticket /\ Own' = Own
  BY <1>1 DEF Ticket, Own, Publishing
<1> QED
  BY <1>1, <1>2 DEF Store!Release, Store!NoView, NoSnapshot, Ticket, Own

\* Every other step is invisible to the abstract store.
LEMMA RefineStutter ==
    ASSUME IndInv, NEW c \in Clients,
           StoreLease(c) \/ CallGc(c) \/ GcSpare(c) \/ LoadTxId(c) \/ RegisterTx(c)
    PROVE  UNCHANGED Store!svars
<1> USE DEF StoreLease, CallGc, GcSpare, LoadTxId, RegisterTx
<1>1. UNCHANGED <<current_version, versions, creating, guard>>
  <2>1. CASE CallGc(c)
    <3>1. Cardinality(DOMAIN versions) \in Nat
      BY VersionsFinite, FS_CardinalityType DEF IndInv
    <3> QED BY <2>1, <3>1, BoundsAssumption DEF StartCollector
  <2> QED BY <2>1
<1>2. Ticket' = Ticket /\ Own' = Own
  <2>1. CASE CallGc(c)
    <3>1. pc' = [pc EXCEPT ![c] = "gc"]
      <4>1. Cardinality(DOMAIN versions) \in Nat
        BY VersionsFinite, FS_CardinalityType DEF IndInv
      <4> HIDE DEF StoreLease, GcSpare, LoadTxId, RegisterTx
      <4> QED BY <2>1, <4>1, BoundsAssumption DEF StartCollector
    <3>2. pc[c] = "idle" /\ creating[c] = NoSnapshot
      BY <2>1 DEF IndInv, CreatingInv, Publishing
    <3> HIDE DEF CallGc
    <3> QED BY <1>1, <3>1, <3>2 DEF Ticket, Own, Publishing, IndInv, TypeOK
  <2> QED BY <1>1, <2>1 DEF Ticket, Own, Publishing, IndInv, TypeOK
<1> QED BY <1>1, <1>2 DEF Store!svars, Ticket, Own

(***************************************************************************)
(* MVCCController keeps the promises of SnapshotStore, for every number of *)
(* threads, versions and publications.                                     *)
(***************************************************************************)
THEOREM Refinement == Spec => ImplementsSnapshotStore
<1>1. IndInv /\ [Next]_vars => [Store!SNext]_(Store!svars)
  <2> SUFFICES ASSUME IndInv, [Next]_vars
               PROVE  Store!SNext \/ UNCHANGED Store!svars
    OBVIOUS
  <2>1. CASE UNCHANGED vars
    BY <2>1 DEF vars, Store!svars, Publishing
  <2>2. ASSUME NEW c \in Clients, Step(c)
        PROVE  Store!SNext \/ UNCHANGED Store!svars
    BY <2>2, RefineTakeVersion, RefineStoreVersion, RefineGcEvict, RefineGcFinish,
       RefineRead, RefineRelease, RefineStutter DEF Step, Store!SNext
  <2> QED BY <2>1, <2>2 DEF Next
<1> QED
  BY <1>1, RefineInit, Invariance, PTL DEF Spec, ImplementsSnapshotStore, Store!SSpec
=============================================================================
