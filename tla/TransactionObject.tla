-------------------------- MODULE TransactionObject --------------------------
(***************************************************************************)
(* One Transaction of src/core/transaction.rs, shared by several threads:  *)
(* begin_transaction returns an Arc<Transaction> and every method takes    *)
(* &self.  Each field has a lock of its own, so a step ends where a method *)
(* releases one.  A rejected call (InvalidState) changes nothing and is    *)
(* not a step.                                                             *)
(*                                                                         *)
(* What the documents hold is not modelled: a staged operation is the      *)
(* number of the call that staged it, and validation may find the tracked  *)
(* documents unchanged, changed, or unreadable.                            *)
(***************************************************************************)
EXTENDS Integers, Sequences, SequencesExt, FiniteSets

CONSTANTS
    Threads,    \* threads that share the transaction
    Ids,        \* document identifiers
    Validates,  \* isolation_level # ReadCommitted
    MaxCalls    \* bound: calls of insert, update and delete

ASSUME SharingAssumption == IsFiniteSet(Threads) /\ Validates \in BOOLEAN
ASSUME CallsAssumption == MaxCalls \in Nat

VARIABLES
    state,       \* TransactionState
    operations,  \* the operation log: call numbers
    read_set,    \* identifiers tracked by read
    write_set,   \* identifiers with a staged document
    managed,     \* whether TransactionManager still lists the transaction
    pc, call,    \* where each thread is, and its call: [kind, id, number]
    got,         \* the clone of the log that a commit made
    calls,       \* history: mutations begun
    acked,       \* history: mutations that returned Ok
    promised,    \* history: acked when a commit entered Preparing
    rollbacks,   \* history: whether rollback was called
    results      \* history: what successful commits returned

sets == <<read_set, write_set>>
history == <<calls, acked, promised, rollbacks, results>>
vars == <<state, operations, read_set, write_set, managed, pc, call, got,
          calls, acked, promised, rollbacks, results>>

Kinds == {"insert", "update", "delete"}
NoCall == [kind |-> "none", id |-> 0, number |-> 0]

Init ==
    /\ state = "Active" /\ operations = <<>>
    /\ read_set = {} /\ write_set = {}
    /\ managed = TRUE
    /\ pc = [t \in Threads |-> "idle"] /\ call = [t \in Threads |-> NoCall]
    /\ got = <<>>
    /\ calls = 0 /\ acked = {} /\ promised = {} /\ rollbacks = FALSE /\ results = <<>>

Goes(t, place) == pc' = [pc EXCEPT ![t] = place]

-----------------------------------------------------------------------------
(* insert, update, delete: check_active, the write set, the log.           *)

CheckActive(t, kind, id) ==
    /\ pc[t] = "idle" /\ state = "Active" /\ calls < MaxCalls
    /\ calls' = calls + 1
    /\ call' = [call EXCEPT ![t] = [kind |-> kind, id |-> id, number |-> calls']]
    /\ Goes(t, "stage")
    /\ UNCHANGED <<state, operations, sets, managed, got, acked, promised,
                   rollbacks, results>>

\* Mutant: the write set is keyed by the operation, not by the document.
StageWriteByOperation(t) ==
    /\ pc[t] = "stage"
    /\ write_set' = write_set \cup {call[t].number}
    /\ Goes(t, "log")
    /\ UNCHANGED <<state, operations, read_set, managed, call, got, history>>

StageWrite(t) ==
    /\ pc[t] = "stage"
    /\ write_set' = IF call[t].kind = "delete" THEN write_set \ {call[t].id}
                                               ELSE write_set \cup {call[t].id}
    /\ Goes(t, "log")
    /\ UNCHANGED <<state, operations, read_set, managed, call, got, history>>

\* Mutant: the call is acknowledged and its operation is not logged.
LogOperationDrops(t) ==
    /\ pc[t] = "log"
    /\ operations' = IF call[t].kind = "delete" THEN operations
                                                ELSE Append(operations, call[t].number)
    /\ acked' = acked \cup {call[t].number}
    /\ call' = [call EXCEPT ![t] = NoCall] /\ Goes(t, "idle")
    /\ UNCHANGED <<state, sets, managed, got, calls, promised, rollbacks, results>>

LogOperation(t) ==
    /\ pc[t] = "log"
    /\ operations' = Append(operations, call[t].number)
    /\ acked' = acked \cup {call[t].number}
    /\ call' = [call EXCEPT ![t] = NoCall] /\ Goes(t, "idle")
    /\ UNCHANGED <<state, sets, managed, got, calls, promised, rollbacks, results>>

\* read: the state is checked, then the write set, then the read is tracked.
CheckRead(t, id) ==
    /\ pc[t] = "idle" /\ state = "Active"
    /\ call' = [call EXCEPT ![t] = [kind |-> "read", id |-> id, number |-> 0]]
    /\ Goes(t, "read")
    /\ UNCHANGED <<state, operations, sets, managed, got, history>>

TrackRead(t) ==
    /\ pc[t] = "read"
    /\ read_set' = IF call[t].id \in write_set THEN read_set
                                               ELSE read_set \cup {call[t].id}
    /\ call' = [call EXCEPT ![t] = NoCall] /\ Goes(t, "idle")
    /\ UNCHANGED <<state, operations, write_set, managed, got, history>>

-----------------------------------------------------------------------------
(* commit: Active to Preparing under one lock, validate, clone the log,    *)
(* Committed.                                                              *)

\* Mutant: the check and the change of state are two critical sections.
PrepareUnchecked(t) ==
    /\ pc[t] = "idle" /\ state \in {"Active", "Preparing"}
    /\ state' = "Preparing"
    /\ promised' = acked
    /\ Goes(t, "validate")
    /\ UNCHANGED <<operations, sets, managed, call, got, calls, acked, rollbacks, results>>

Prepare(t) ==
    /\ pc[t] = "idle" /\ state = "Active"
    /\ state' = "Preparing"
    /\ promised' = acked
    /\ Goes(t, "validate")
    /\ UNCHANGED <<operations, sets, managed, call, got, calls, acked, rollbacks, results>>

\* validate_reads: unchanged, changed (abort), or an error, returned by `?`.
Validate(t) ==
    /\ pc[t] = "validate"
    /\ \/ Goes(t, "collect")
       \/ Validates /\ Goes(t, "abort")
       \/ Validates /\ Goes(t, "idle")
    /\ UNCHANGED <<state, operations, sets, managed, call, got, history>>

Collect(t) ==
    /\ pc[t] = "collect"
    /\ got' = operations
    /\ Goes(t, "mark")
    /\ UNCHANGED <<state, operations, sets, managed, call, history>>

MarkCommitted(t) ==
    /\ pc[t] = "mark"
    /\ state' = "Committed"
    /\ results' = Append(results, got)
    /\ got' = <<>>
    /\ Goes(t, "idle")
    /\ UNCHANGED <<operations, sets, managed, call, calls, acked, promised, rollbacks>>

-----------------------------------------------------------------------------
(* rollback, and the abort of a commit that failed validation.             *)

Rollback(t) ==
    /\ pc[t] = "idle"
    /\ rollbacks' = TRUE
    /\ Goes(t, "abort")
    /\ UNCHANGED <<state, operations, sets, managed, call, got, calls, acked,
                   promised, results>>

SetAborted(t) ==
    /\ pc[t] = "abort"
    /\ state' = "Aborted"
    /\ Goes(t, "clear")
    /\ UNCHANGED <<operations, sets, managed, call, got, history>>

ClearOperations(t) ==
    /\ pc[t] = "clear"
    /\ operations' = <<>>
    /\ Goes(t, "clear reads")
    /\ UNCHANGED <<state, sets, managed, call, got, history>>

ClearReads(t) ==
    /\ pc[t] = "clear reads"
    /\ read_set' = {}
    /\ Goes(t, "clear writes")
    /\ UNCHANGED <<state, operations, write_set, managed, call, got, history>>

ClearWrites(t) ==
    /\ pc[t] = "clear writes"
    /\ write_set' = {}
    /\ Goes(t, "idle")
    /\ UNCHANGED <<state, operations, read_set, managed, call, got, history>>

\* Mutant: everything but an active transaction is completed.
CleanupPreparing ==
    /\ managed /\ state # "Active"
    /\ managed' = FALSE
    /\ UNCHANGED <<state, operations, sets, pc, call, got, history>>

\* TransactionManager::cleanup keeps active and preparing transactions.
Cleanup ==
    /\ managed /\ state \notin {"Active", "Preparing"}
    /\ managed' = FALSE
    /\ UNCHANGED <<state, operations, sets, pc, call, got, history>>

-----------------------------------------------------------------------------
Runs(t) ==
    \/ StageWrite(t) \/ LogOperation(t) \/ TrackRead(t)
    \/ Validate(t) \/ Collect(t) \/ MarkCommitted(t)
    \/ SetAborted(t) \/ ClearOperations(t) \/ ClearReads(t) \/ ClearWrites(t)

Calls(t) ==
    \/ \E kind \in Kinds, id \in Ids : CheckActive(t, kind, id)
    \/ \E id \in Ids : CheckRead(t, id)
    \/ Prepare(t) \/ Rollback(t)

Next == Cleanup \/ \E t \in Threads : Calls(t) \/ Runs(t)

Spec == Init /\ [][Next]_vars

-----------------------------------------------------------------------------
States == {"Active", "Preparing", "Committed", "Aborted"}
CommitPlaces == {"validate", "collect", "mark"}

TypeOK ==
    /\ state \in States /\ managed \in BOOLEAN
    /\ operations \in Seq(1 .. calls) /\ got \in Seq(1 .. calls)
    /\ read_set \subseteq Ids /\ write_set \subseteq Ids
    /\ pc \in [Threads -> CommitPlaces \cup
                   {"idle", "stage", "log", "read", "abort", "clear", "clear reads", "clear writes"}]
    /\ calls \in 0 .. MaxCalls
    /\ acked \subseteq 1 .. calls /\ promised \subseteq acked
    /\ rollbacks \in BOOLEAN
    /\ results \in Seq(Seq(1 .. calls))

(***************************************************************************)
(* Two threads that commit the same transaction do not both get its        *)
(* operations: at most one commit returns Ok, or may still return it.      *)
(***************************************************************************)
CommitsOnce ==
    Len(results) + Cardinality({t \in Threads : pc[t] \in CommitPlaces}) <= 1

(***************************************************************************)
(* A successful commit returns every operation whose call had returned Ok  *)
(* before the commit began, unless the transaction was rolled back: no     *)
(* interleaving of mutations with commit's three steps loses one of them,  *)
(* and none is returned twice.                                             *)
(***************************************************************************)
AcknowledgedAreCommitted ==
    \A i \in 1 .. Len(results) :
        /\ ~rollbacks => promised \subseteq ToSet(results[i])
        /\ IsInjective(results[i])

(***************************************************************************)
(* The manager's cleanup never drops a transaction that can still commit   *)
(* without a rollback: one that is unlisted stays unable to become active  *)
(* or preparing, and its commit is not under way.                          *)
(***************************************************************************)
CleanupDropsOnlyFinished ==
    ~managed /\ ~rollbacks =>
        /\ state \in {"Committed", "Aborted"}
        /\ \A t \in Threads : pc[t] \notin CommitPlaces

(***************************************************************************)
(* Without rollbacks Committed and Aborted are final, whichever threads    *)
(* commit at once.  A rollback during a commit is overwritten by it.       *)
(***************************************************************************)
FinishedIsFinal ==
    [][~rollbacks /\ state \in {"Committed", "Aborted"} => state' = state \/ rollbacks']_vars

-----------------------------------------------------------------------------
(* Why these hold: the inductive invariant of TransactionObjectProofs.     *)

EndPlaces == CommitPlaces \cup {"abort"}
MutationPlaces == {"stage", "log"}

\* A thread in a call knows what it was called with.
CallInv ==
    /\ call \in [Threads -> [kind : Kinds \cup {"read", "none"}, id : Ids \cup {0}, number : 0 .. calls]]
    /\ \A t \in Threads : pc[t] \in MutationPlaces \cup {"read"} => call[t].id \in Ids

\* Whoever leaves Active is the only one to commit.
OnceInv ==
    /\ Len(results) <= 1
    /\ state = "Active" => results = <<>>
    /\ \A t \in Threads : pc[t] \in CommitPlaces =>
          /\ state # "Active" /\ results = <<>>
          /\ \A u \in Threads : pc[u] \in CommitPlaces => u = t

\* Without rollbacks it is also the only one to end the transaction.
FinalInv ==
    ~rollbacks =>
        /\ \A t \in Threads : pc[t] \in EndPlaces =>
              /\ state = "Preparing"
              /\ \A u \in Threads : pc[u] \in EndPlaces => u = t
        /\ \A t \in Threads : pc[t] = "clear" => state = "Aborted"
        /\ ~managed => state \in {"Committed", "Aborted"}

\* Calls have different numbers, each logged once; without rollbacks the log loses
\* nothing before the transaction is aborted.
LogInv ==
    /\ IsInjective(operations) /\ IsInjective(got)
    /\ \A t \in Threads : pc[t] \in MutationPlaces =>
          /\ call[t].number \in (1 .. calls) \ ToSet(operations)
          /\ \A u \in Threads \ {t} : pc[u] \in MutationPlaces => call[u].number # call[t].number
    /\ ~rollbacks /\ state # "Aborted" => acked \subseteq ToSet(operations)
    /\ \A t \in Threads : ~rollbacks /\ pc[t] = "mark" => promised \subseteq ToSet(got)

(***************************************************************************)
(* Transaction's fields agree with where its threads are, between any two  *)
(* of their lock sections: the state with the one thread that may end the  *)
(* transaction, the log with the calls that are under way and those that   *)
(* have returned.                                                          *)
(***************************************************************************)
SharedInv ==
    TypeOK /\ CallInv /\ OnceInv /\ FinalInv /\ LogInv /\ AcknowledgedAreCommitted
=============================================================================
