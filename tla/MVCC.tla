-------------------------------- MODULE MVCC --------------------------------
(***************************************************************************)
(* The snapshot controller of src/mvcc/controller.rs: threads publish      *)
(* numbered snapshots, pin the current one, and garbage-collect old ones.  *)
(*                                                                         *)
(* A step of this module ends where another thread can observe the         *)
(* controller: at the fetch_add on current_version, at the end of a lock's *)
(* critical section, and, inside the collector (which holds versions and   *)
(* leases), between two versions it examines, because a guard is dropped   *)
(* without any lock.                                                       *)
(*                                                                         *)
(* What a snapshot carries (its segments and its deleted_docs bitmap) is   *)
(* one opaque value here: the controller only stores and returns it.       *)
(***************************************************************************)
EXTENDS Integers, FiniteSets

CONSTANTS
    Clients,      \* threads that call the controller, one guard each
    TxClients,    \* those of them that also call begin_transaction
    Contents,     \* what a published snapshot can carry
    Blank,        \* what Snapshot::default() carries: no segments, no deletes
    MaxVersions,  \* the field max_versions
    MaxPublish    \* bound: publications explored

ASSUME ClientsAssumption == IsFiniteSet(Clients) /\ TxClients \subseteq Clients
ASSUME BlankAssumption == Blank \in Contents
ASSUME BoundsAssumption == MaxVersions \in Nat /\ MaxPublish \in Nat

VARIABLES
    current_version,  \* the AtomicU64: the next version to hand out
    versions,         \* the BTreeMap version -> snapshot
    leases,           \* the versions with an entry in the lease map
    active_txns,      \* the HashSet of transaction identifiers
    pc,               \* where each client is inside a call
    creating,         \* the snapshot a client is publishing
    guard,            \* the Arc<Snapshot> a client was given and keeps
    txn,              \* the identifier of the transaction a client runs, or -1
    latest,           \* gc: the version it must spare
    cursor            \* gc: the last version examined in this pass, or -1

collector == <<latest, cursor>>
txnVars == <<active_txns, txn>>
vars == <<current_version, versions, leases, active_txns, pc, creating,
          guard, txn, latest, cursor>>

Version == 0 .. MaxPublish

(***************************************************************************)
(* A snapshot record; "lease" says which Arc<SnapshotLease> it holds: the  *)
(* one its version's entry in the lease map points to, the private one of  *)
(* the placeholder, or none where there is no snapshot at all.             *)
(***************************************************************************)
Snapshot == [version : Version, content : Contents,
             lease : {"mapped", "private", "none"}]
NoSnapshot == [version |-> 0, content |-> Blank, lease |-> "none"]
DefaultSnapshot == [version |-> 0, content |-> Blank, lease |-> "private"]
Published(v, x) == [version |-> v, content |-> x, lease |-> "mapped"]

HoldsLease(s, v) == s.lease = "mapped" /\ s.version = v

(***************************************************************************)
(* Weak::strong_count of version v's lease: the clone in versions, the     *)
(* snapshots under construction and the guards.                            *)
(***************************************************************************)
StrongCount(v) ==
    (IF v \in DOMAIN versions THEN 1 ELSE 0)
      + Cardinality({c \in Clients : HoldsLease(creating[c], v)})
      + Cardinality({c \in Clients : HoldsLease(guard[c], v)})

\* Mutant: the collector's own clone counted twice.
IsPinnedAboveTwo(v) == v \in leases /\ StrongCount(v) > 2

\* Mutant: "eligible for eviction only when its Weak::strong_count() == 0".
IsPinnedAboveZero(v) == v \in leases /\ StrongCount(v) > 0

IsPinned(v) == v \in leases /\ StrongCount(v) > 1

\* versions.write() is held across the scan, and so is leases.write().
Unlocked == \A c \in Clients : pc[c] # "gc"

CurrentVersion == IF current_version > 0 THEN current_version - 1 ELSE 0

CurrentSnapshotValue ==
    IF CurrentVersion \in DOMAIN versions
    THEN Published(CurrentVersion, versions[CurrentVersion])
    ELSE DefaultSnapshot

Init ==
    /\ current_version = 0
    /\ versions = [v \in {} |-> Blank]
    /\ leases = {}
    /\ active_txns = {}
    /\ pc = [c \in Clients |-> "idle"]
    /\ creating = [c \in Clients |-> NoSnapshot]
    /\ guard = [c \in Clients |-> NoSnapshot]
    /\ txn = [c \in Clients |-> -1]
    /\ latest = 0
    /\ cursor = -1

-----------------------------------------------------------------------------
(* create_snapshot_with_deletes: take a number, store the lease, store the *)
(* snapshot and collect.                                                   *)

\* Mutant: the number is loaded as a reader does, one behind the fetch_add.
TakeVersionStale(c) ==
    /\ pc[c] = "idle"
    /\ current_version < MaxPublish
    /\ current_version' = current_version + 1
    /\ \E x \in Contents :
           creating' = [creating EXCEPT ![c] = Published(CurrentVersion, x)]
    /\ pc' = [pc EXCEPT ![c] = "numbered"]
    /\ UNCHANGED <<versions, leases, guard, txnVars, collector>>

TakeVersion(c) ==
    /\ pc[c] = "idle"
    /\ current_version < MaxPublish
    /\ current_version' = current_version + 1
    /\ \E x \in Contents :
           creating' = [creating EXCEPT ![c] = Published(current_version, x)]
    /\ pc' = [pc EXCEPT ![c] = "numbered"]
    /\ UNCHANGED <<versions, leases, guard, txnVars, collector>>

StoreLease(c) ==
    /\ pc[c] = "numbered"
    /\ Unlocked
    /\ leases' = leases \cup {creating[c].version}
    /\ pc' = [pc EXCEPT ![c] = "leased"]
    /\ UNCHANGED <<current_version, versions, creating, guard, txnVars, collector>>

\* The caller keeps the Arc it was given, in place of any older one, or drops it.
Return(c) ==
    /\ pc' = [pc EXCEPT ![c] = "idle"]
    /\ creating' = [creating EXCEPT ![c] = NoSnapshot]
    /\ \/ guard' = guard
       \/ /\ creating[c].lease = "mapped" /\ txn[c] = -1
          /\ guard' = [guard EXCEPT ![c] = creating[c]]

\* Mutant: the collector spares its own publication, not the newest version.
StartCollectorOwn(c, stored) ==
    IF Cardinality(DOMAIN stored) <= MaxVersions
    THEN Return(c) /\ UNCHANGED collector
    ELSE /\ pc' = [pc EXCEPT ![c] = "gc"]
         /\ latest' = creating[c].version
         /\ cursor' = -1
         /\ UNCHANGED <<creating, guard>>

\* gc_old_versions_leased up to its loop: nothing to do, or a first pass.
StartCollector(c, stored) ==
    IF Cardinality(DOMAIN stored) <= MaxVersions
    THEN Return(c) /\ UNCHANGED collector
    ELSE /\ pc' = [pc EXCEPT ![c] = "gc"]
         /\ latest' = CurrentVersion
         /\ cursor' = -1
         /\ UNCHANGED <<creating, guard>>

StoreVersion(c) ==
    /\ pc[c] = "leased"
    /\ Unlocked
    /\ versions' = [v \in DOMAIN versions \cup {creating[c].version} |->
                       IF v = creating[c].version THEN creating[c].content
                                                  ELSE versions[v]]
    /\ StartCollector(c, versions')
    /\ UNCHANGED <<current_version, leases, txnVars>>

\* gc(): the same collection without a publication.
CallGc(c) ==
    /\ pc[c] = "idle"
    /\ Unlocked
    /\ Cardinality(DOMAIN versions) > MaxVersions
    /\ StartCollector(c, versions)
    /\ UNCHANGED <<current_version, versions, leases, txnVars>>

-----------------------------------------------------------------------------
(* The loop of gc_old_versions_leased: examine the versions from the       *)
(* oldest, remove the first that is neither latest nor pinned, start over. *)

Unexamined == {v \in DOMAIN versions : v > cursor}

Examines(v) == v \in Unexamined /\ \A w \in Unexamined : v <= w

\* Mutants: one of the two reasons to spare a version forgotten.
SparedPinned(v) == IsPinned(v)
SparedLatest(v) == v = latest

Spared(v) == v = latest \/ IsPinned(v)

GcSpare(c) ==
    /\ pc[c] = "gc"
    /\ Cardinality(DOMAIN versions) > MaxVersions
    /\ \E v \in DOMAIN versions : Examines(v) /\ Spared(v) /\ cursor' = v
    /\ UNCHANGED <<current_version, versions, leases, pc, creating, guard,
                   txnVars, latest>>

\* Mutant: the version goes, its lease entry stays.
GcEvictKeepsLease(c) ==
    /\ pc[c] = "gc"
    /\ Cardinality(DOMAIN versions) > MaxVersions
    /\ \E v \in DOMAIN versions :
           /\ Examines(v)
           /\ ~Spared(v)
           /\ versions' = [w \in DOMAIN versions \ {v} |-> versions[w]]
    /\ cursor' = -1
    /\ UNCHANGED <<current_version, leases, pc, creating, guard, txnVars, latest>>

GcEvict(c) ==
    /\ pc[c] = "gc"
    /\ Cardinality(DOMAIN versions) > MaxVersions
    /\ \E v \in DOMAIN versions :
           /\ Examines(v)
           /\ ~Spared(v)
           /\ versions' = [w \in DOMAIN versions \ {v} |-> versions[w]]
           /\ leases' = leases \ {v}
    /\ cursor' = -1
    /\ UNCHANGED <<current_version, pc, creating, guard, txnVars, latest>>

\* Mutant: the break is missing, so a pass that evicts nothing is repeated.
GcFinishRescans(c) ==
    /\ pc[c] = "gc"
    /\ \/ /\ Cardinality(DOMAIN versions) <= MaxVersions
          /\ Return(c)
          /\ latest' = 0
       \/ /\ Cardinality(DOMAIN versions) > MaxVersions
          /\ Unexamined = {}
          /\ UNCHANGED <<pc, creating, guard, latest>>
    /\ cursor' = -1
    /\ UNCHANGED <<current_version, versions, leases, txnVars>>

GcFinish(c) ==
    /\ pc[c] = "gc"
    /\ Cardinality(DOMAIN versions) <= MaxVersions \/ Unexamined = {}
    /\ Return(c)
    /\ latest' = 0 /\ cursor' = -1
    /\ UNCHANGED <<current_version, versions, leases, txnVars>>

-----------------------------------------------------------------------------
(* Reading, and the transaction registry.                                  *)

CurrentSnapshot(c) ==
    /\ pc[c] = "idle"
    /\ guard[c] = NoSnapshot
    /\ Unlocked
    /\ guard' = [guard EXCEPT ![c] = CurrentSnapshotValue]
    /\ UNCHANGED <<current_version, versions, leases, pc, creating, txnVars,
                   collector>>

\* A guard can be dropped at any time, also by another thread.
DropGuard(c) ==
    /\ guard[c] # NoSnapshot
    /\ txn[c] = -1
    /\ guard' = [guard EXCEPT ![c] = NoSnapshot]
    /\ UNCHANGED <<current_version, versions, leases, pc, creating, txnVars,
                   collector>>

\* begin_transaction: load the identifier, register it, pin a snapshot.
LoadTxId(c) ==
    /\ c \in TxClients /\ pc[c] = "idle" /\ txn[c] = -1 /\ guard[c] = NoSnapshot
    /\ txn' = [txn EXCEPT ![c] = current_version]
    /\ pc' = [pc EXCEPT ![c] = "txload"]
    /\ UNCHANGED <<current_version, versions, leases, active_txns, creating,
                   guard, collector>>

RegisterTx(c) ==
    /\ pc[c] = "txload"
    /\ active_txns' = active_txns \cup {txn[c]}
    /\ pc' = [pc EXCEPT ![c] = "txsnap"]
    /\ UNCHANGED <<current_version, versions, leases, creating, guard, txn,
                   collector>>

PinTxSnapshot(c) ==
    /\ pc[c] = "txsnap"
    /\ Unlocked
    /\ guard' = [guard EXCEPT ![c] = CurrentSnapshotValue]
    /\ pc' = [pc EXCEPT ![c] = "idle"]
    /\ UNCHANGED <<current_version, versions, leases, creating, txnVars, collector>>

\* Mutant: the identifier stays registered.
CommitTransactionKeepsId(c) ==
    /\ pc[c] = "idle"
    /\ txn[c] # -1
    /\ txn' = [txn EXCEPT ![c] = -1]
    /\ guard' = [guard EXCEPT ![c] = NoSnapshot]
    /\ UNCHANGED <<current_version, versions, leases, active_txns, pc, creating,
                   collector>>

\* commit_transaction consumes the transaction, and with it its snapshot.
CommitTransaction(c) ==
    /\ pc[c] = "idle"
    /\ txn[c] # -1
    /\ active_txns' = active_txns \ {txn[c]}
    /\ txn' = [txn EXCEPT ![c] = -1]
    /\ guard' = [guard EXCEPT ![c] = NoSnapshot]
    /\ UNCHANGED <<current_version, versions, leases, pc, creating, collector>>

-----------------------------------------------------------------------------
Step(c) ==
    \/ TakeVersion(c) \/ StoreLease(c) \/ StoreVersion(c)
    \/ CallGc(c) \/ GcSpare(c) \/ GcEvict(c) \/ GcFinish(c)
    \/ CurrentSnapshot(c) \/ DropGuard(c)
    \/ LoadTxId(c) \/ RegisterTx(c) \/ PinTxSnapshot(c) \/ CommitTransaction(c)

Next == \E c \in Clients : Step(c)

Spec == Init /\ [][Next]_vars

(***************************************************************************)
(* A thread inside a call keeps running.  The lock waits are strongly fair *)
(* because parking_lot's RwLock hands the lock over after a bounded time.  *)
(***************************************************************************)
Fairness ==
    \A c \in Clients :
        /\ SF_vars(StoreLease(c)) /\ SF_vars(StoreVersion(c))
        /\ WF_vars(GcSpare(c) \/ GcEvict(c) \/ GcFinish(c))

FairSpec == Spec /\ Fairness

-----------------------------------------------------------------------------
TypeOK ==
    /\ current_version \in Version
    /\ DOMAIN versions \subseteq Version
    /\ versions \in [DOMAIN versions -> Contents]
    /\ leases \subseteq Version
    /\ active_txns \subseteq Version
    /\ pc \in [Clients -> {"idle", "numbered", "leased", "gc", "txload", "txsnap"}]
    /\ creating \in [Clients -> Snapshot]
    /\ guard \in [Clients -> Snapshot]
    /\ txn \in [Clients -> Version \cup {-1}]
    /\ latest \in Version
    /\ cursor \in Version \cup {-1}

(***************************************************************************)
(* A snapshot in somebody's hands is still stored, unchanged: the          *)
(* collector evicts no version "while any Snapshot clone is live", in      *)
(* whatever order guards are taken, dropped and examined by the scan.      *)
(***************************************************************************)
GuardedVersionsRetained ==
    \A c \in Clients :
        guard[c].lease = "mapped" =>
            /\ guard[c].version \in DOMAIN versions
            /\ versions[guard[c].version] = guard[c].content

(***************************************************************************)
(* Once every publication that took a number has stored its snapshot,      *)
(* current_snapshot finds the newest one: neither a publication that was   *)
(* overtaken nor a collection loses it.                                    *)
(***************************************************************************)
Publishing(c) == pc[c] \in {"numbered", "leased"}

NewestReadable ==
    (current_version > 0 /\ \A c \in Clients : ~Publishing(c))
        => current_version - 1 \in DOMAIN versions

(***************************************************************************)
(* The lease map is in step with the version map: it has an entry for each *)
(* stored version and each publication between its two insertions, and no  *)
(* entry outlives its version.                                             *)
(***************************************************************************)
LeasesMatchVersions ==
    leases = DOMAIN versions
               \cup {creating[c].version : c \in {d \in Clients : pc[d] = "leased"}}

(***************************************************************************)
(* A version number names one snapshot for ever: no step changes what a    *)
(* stored version carries, even when two threads publish at once.          *)
(***************************************************************************)
VersionsWriteOnce ==
    [][\A v \in DOMAIN versions \cap DOMAIN versions' : versions'[v] = versions[v]]_vars

(***************************************************************************)
(* Transactions leave nothing behind: when none is open the registry is    *)
(* empty, although transactions begun at one version share an identifier.  *)
(***************************************************************************)
NoStaleTransactions ==
    (\A c \in Clients : txn[c] = -1) => active_txns = {}

(***************************************************************************)
(* create_snapshot_with_deletes and gc return: the collection loop stops   *)
(* also when everything it could evict is pinned.                          *)
(***************************************************************************)
PublicationTerminates ==
    \A c \in Clients : (pc[c] = "numbered" \/ pc[c] = "gc") ~> (pc[c] = "idle")

(***************************************************************************)
(* Collection is complete: a version that nobody holds when the scan       *)
(* starts (over) is removed, unless it is the newest or the map comes down *)
(* to max_versions, also if the threads that run meanwhile drop their      *)
(* guards, take numbers or hold on to older versions.                      *)
(***************************************************************************)
Held(v) == \E c \in Clients : HoldsLease(creating[c], v) \/ HoldsLease(guard[c], v)

UnheldCollected ==
    \A v \in 0 .. MaxPublish - 1 :
        (~Unlocked /\ cursor = -1 /\ v \in DOMAIN versions /\ v # latest /\ ~Held(v))
            ~> (v \notin DOMAIN versions \/ Cardinality(DOMAIN versions) <= MaxVersions)

-----------------------------------------------------------------------------
(***************************************************************************)
(* The inductive invariant behind the properties above.                    *)
(***************************************************************************)

\* Every number in use was handed out, and a publication's number is its own.
NumbersInv ==
    /\ \A v \in DOMAIN versions : v < current_version
    /\ \A c \in Clients : Publishing(c) =>
           /\ creating[c].lease = "mapped"
           /\ creating[c].version < current_version
           /\ creating[c].version \notin DOMAIN versions
           /\ \A d \in Clients : Publishing(d) /\ c # d
                  => creating[c].version # creating[d].version

\* Outside a publication nothing is under construction; the collector's
\* own snapshot, if any, is stored already.
CreatingInv ==
    \A c \in Clients :
        /\ ~Publishing(c) /\ pc[c] # "gc" => creating[c] = NoSnapshot
        /\ pc[c] = "gc" => \/ creating[c] = NoSnapshot
                           \/ /\ creating[c].lease = "mapped"
                              /\ creating[c].version \in DOMAIN versions
                              /\ versions[creating[c].version] = creating[c].content

\* One thread collects at a time, and what it spares is no older than
\* anything stored: numbers handed out meanwhile are not stored yet.
CollectorInv ==
    \A c \in Clients : pc[c] = "gc" =>
        /\ \A d \in Clients : pc[d] = "gc" => c = d
        /\ latest < current_version
        /\ \A v \in DOMAIN versions : v <= latest

LeasesInv ==
    /\ DOMAIN versions \subseteq leases
    /\ \A c \in Clients : pc[c] = "leased" => creating[c].version \in leases
    /\ \A v \in leases : \/ v \in DOMAIN versions
                         \/ \E c \in Clients : pc[c] = "leased" /\ creating[c].version = v

NewestInv ==
    current_version > 0 =>
        \/ current_version - 1 \in DOMAIN versions
        \/ \E c \in Clients : Publishing(c) /\ creating[c].version = current_version - 1

TransactionsInv ==
    /\ \A c \in Clients : pc[c] = "txload" => txn[c] # -1
    /\ \A i \in active_txns : \E c \in Clients : txn[c] = i

(***************************************************************************)
(* The properties above rest on this: numbers are handed out once, the     *)
(* lease map covers the version map, the newest number is stored or still  *)
(* with its publisher, and the collector spares what is newest.            *)
(***************************************************************************)
IndInv ==
    /\ TypeOK
    /\ NumbersInv
    /\ CreatingInv
    /\ CollectorInv
    /\ LeasesInv
    /\ NewestInv
    /\ TransactionsInv
    /\ GuardedVersionsRetained

(***************************************************************************)
(* The controller implements the abstract store: a publication takes       *)
(* effect when it stores its version, and each eviction is a Forget of a   *)
(* version nobody holds.                                                   *)
(***************************************************************************)
Store == INSTANCE SnapshotStore WITH
    next   <- current_version,
    ticket <- [c \in Clients |-> IF Publishing(c) THEN creating[c].version ELSE -1],
    store  <- versions,
    own    <- [c \in Clients |-> IF pc[c] = "gc" THEN creating[c] ELSE NoSnapshot],
    view   <- guard

ImplementsSnapshotStore == Store!SSpec
=============================================================================
