----------------------------- MODULE Transactions -----------------------------
(***************************************************************************)
(* SearchEngine::with_transaction (src/core/engine.rs): threads that each  *)
(* run one transaction (src/core/transaction.rs), validate it against the  *)
(* current snapshot, and apply its operations one by one through the       *)
(* shared writer, ending with a flush.                                     *)
(*                                                                         *)
(* Every operation takes the writer's lock, so applications of several     *)
(* transactions interleave between operations.  A publication takes its    *)
(* version number before it stores its snapshot (module MVCC); `window` is *)
(* the time between the two, when current_snapshot returns the placeholder *)
(* of version 0.                                                           *)
(*                                                                         *)
(* A document's content is who wrote it: <<transaction, operation>>.  Of   *)
(* the published segments only the copy that read_from_snapshot finds is   *)
(* kept: that of the newest segment and, inside it, the first.             *)
(***************************************************************************)
EXTENDS Integers, Sequences, SequencesExt

CONSTANTS
    Txs,          \* transactions, each run by a thread
    Ids,          \* document identifiers
    Levels,       \* isolation levels that are used
    None,         \* no document
    BatchSize,    \* WriterConfig::batch_size
    WriteErrors,  \* whether write_document may exceed the memory limit
    MaxOps        \* bound: operations staged by a transaction

ASSUME LevelsAssumption == Levels \subseteq {"ReadCommitted", "RepeatableRead", "Serializable"}
ASSUME NoneAssumption == None \notin Txs
ASSUME EngineAssumption == BatchSize \in Nat \ {0} /\ WriteErrors \in BOOLEAN /\ MaxOps \in Nat

VARIABLES
    current_version,  \* the controller's next version
    stored,           \* the newest stored snapshot: copies and deleted
    window,           \* the transaction whose publication is under way, or None
    buffer,           \* documents in the writer's buffer: [id, doc]
    published,        \* history: documents in the order their segments were published
    pc,               \* "idle", "active", "apply", "done", "aborted" or "failed"
    level, snapshot, read_set, write_set, operations,  \* fields of the transaction
    todo,             \* operations that are left to apply, and the flush
    stale             \* history: committed outside a window although a tracked
                      \* document had changed

engine == <<current_version, stored, window, buffer, published>>
fields == <<level, snapshot, read_set, write_set, operations>>
vars == <<current_version, stored, window, buffer, published, pc, level, snapshot,
          read_set, write_set, operations, todo, stale>>

NoCopies == [id \in Ids |-> None]
Placeholder == [version |-> 0, copies |-> NoCopies, deleted |-> {}]

CurrentSnapshot ==
    IF current_version = 0 \/ window # None THEN Placeholder
    ELSE [version |-> current_version - 1, copies |-> stored.copies, deleted |-> stored.deleted]

\* read_from_snapshot.
Visible(s, id) == IF id \in s.deleted THEN None ELSE s.copies[id]

Init ==
    /\ current_version = 0
    /\ stored = [copies |-> NoCopies, deleted |-> {}]
    /\ window = None /\ buffer = <<>> /\ published = <<>>
    /\ pc = [t \in Txs |-> "idle"]
    /\ level \in [Txs -> Levels]
    /\ snapshot = [t \in Txs |-> Placeholder]
    /\ read_set = [t \in Txs |-> {}]
    /\ write_set = [t \in Txs |-> NoCopies]
    /\ operations = [t \in Txs |-> <<>>]
    /\ todo = [t \in Txs |-> <<>>]
    /\ stale = [t \in Txs |-> FALSE]

Goes(t, place) == pc' = [pc EXCEPT ![t] = place]

-----------------------------------------------------------------------------
(* Transaction: begin, read, insert, update, delete.                       *)

Begin(t) ==
    /\ pc[t] = "idle"
    /\ snapshot' = [snapshot EXCEPT ![t] = CurrentSnapshot]
    /\ Goes(t, "active")
    /\ UNCHANGED <<engine, level, read_set, write_set, operations, todo, stale>>

\* What read returns: a staged document, or the one of the snapshot.
ReadValue(t, id) ==
    IF write_set[t][id] # None THEN write_set[t][id] ELSE Visible(snapshot[t], id)

Read(t, id) ==
    /\ pc[t] = "active" /\ write_set[t][id] = None
    /\ read_set' = [read_set EXCEPT ![t] = @ \cup {id}]
    /\ UNCHANGED <<engine, pc, level, snapshot, write_set, operations, todo, stale>>

Doc(t) == <<t, Len(operations[t]) + 1>>

Stage(t, kind, id) ==
    /\ pc[t] = "active" /\ Len(operations[t]) < MaxOps
    /\ write_set' = [write_set EXCEPT ![t][id] = IF kind = "delete" THEN None ELSE Doc(t)]
    /\ operations' = [operations EXCEPT ![t] = Append(@, [kind |-> kind, id |-> id, doc |-> Doc(t)])]
    /\ UNCHANGED <<engine, pc, level, snapshot, read_set, todo, stale>>

\* validate_reads: documents read, staged or named by an operation.
Tracked(t) ==
    read_set[t] \cup {id \in Ids : write_set[t][id] # None}
                \cup {operations[t][i].id : i \in 1 .. Len(operations[t])}

Unchanged(t, s) == \A id \in Tracked(t) : Visible(snapshot[t], id) = Visible(s, id)

\* Mutant: only documents that were read are compared.
ValidReads(t) ==
    \/ level[t] = "ReadCommitted"
    \/ CurrentSnapshot.version = snapshot[t].version
    \/ \A id \in read_set[t] : Visible(snapshot[t], id) = Visible(CurrentSnapshot, id)

Valid(t) ==
    \/ level[t] = "ReadCommitted"
    \/ CurrentSnapshot.version = snapshot[t].version
    \/ Unchanged(t, CurrentSnapshot)

FlushStep == [kind |-> "flush", id |-> None, doc |-> None]

\* What with_transaction does with the operations commit returns.
Plan(t) == Append(operations[t], FlushStep)

\* commit: Committed with the operations to apply, or aborted and cleared.
CommitValid(t) ==
    /\ pc[t] = "active" /\ Valid(t)
    /\ todo' = [todo EXCEPT ![t] = Plan(t)]
    /\ stale' = [stale EXCEPT ![t] = window = None /\ ~Unchanged(t, stored)]
    /\ Goes(t, "apply")
    /\ UNCHANGED <<engine, fields>>

\* abort, by a failed validation or by rollback when the closure fails.
Abort(t) ==
    /\ pc[t] = "active"
    /\ read_set' = [read_set EXCEPT ![t] = {}]
    /\ write_set' = [write_set EXCEPT ![t] = NoCopies]
    /\ operations' = [operations EXCEPT ![t] = <<>>]
    /\ Goes(t, "aborted")
    /\ UNCHANGED <<engine, level, snapshot, todo, stale>>

\* Mutant: a failed validation is reported and the operations applied all the same.
CommitInvalidApplies(t) ==
    /\ pc[t] = "active" /\ ~Valid(t)
    /\ read_set' = [read_set EXCEPT ![t] = {}]
    /\ write_set' = [write_set EXCEPT ![t] = NoCopies]
    /\ operations' = [operations EXCEPT ![t] = <<>>]
    /\ todo' = [todo EXCEPT ![t] = Plan(t)]
    /\ Goes(t, "apply")
    /\ UNCHANGED <<engine, level, snapshot, stale>>

CommitInvalid(t) == ~Valid(t) /\ Abort(t)

ClosureFails(t) == Abort(t)

-----------------------------------------------------------------------------
(* Applying the operations through the writer.                             *)

Applying(t, kinds) == pc[t] = "apply" /\ Head(todo[t]).kind \in kinds

\* Whether the next writer call publishes a snapshot.
Publishes(t) ==
    \/ Applying(t, {"delete", "update"})
    \/ Applying(t, {"insert"}) /\ Len(buffer) + 1 >= BatchSize
    \/ Applying(t, {"flush"}) /\ buffer # <<>>

TakeNumber(t) ==
    /\ pc[t] = "apply" /\ window = None
    /\ Publishes(t)
    /\ current_version' = current_version + 1
    /\ window' = t
    /\ UNCHANGED <<stored, buffer, published, pc, fields, todo, stale>>

\* Mutant: the writer's lock is not released.
ProceedsKeepsLock(t) == /\ window = IF Publishes(t) THEN t ELSE None
                        /\ window' = window

\* The call goes on when it has its number, or needs none.
Proceeds(t) == /\ window = IF Publishes(t) THEN t ELSE None
               /\ window' = None

Advance(t) ==
    /\ todo' = [todo EXCEPT ![t] = Tail(@)]
    /\ IF Tail(todo[t]) = <<>> THEN Goes(t, "done") ELSE pc' = pc

\* Of two copies in one segment the scan finds the first.
CopyIn(segment, id) == SelectSeq(segment, LAMBDA d : d.id = id)


\* create_snapshot: one more segment, an empty deleted bitmap.
PublishSegment(segment) ==
    /\ stored' = [copies |-> [id \in Ids |-> IF CopyIn(segment, id) = <<>> THEN stored.copies[id]
                                             ELSE Head(CopyIn(segment, id)).doc],
                  deleted |-> {}]
    /\ published' = published \o segment
    /\ buffer' = <<>>

ApplyWrite(t) ==
    /\ Applying(t, {"insert"}) /\ Proceeds(t)
    /\ LET filled == Append(buffer, [id |-> Head(todo[t]).id, doc |-> Head(todo[t]).doc]) IN
           IF Publishes(t) THEN PublishSegment(filled)
           ELSE buffer' = filled /\ UNCHANGED <<stored, published>>
    /\ Advance(t)
    /\ UNCHANGED <<current_version, fields, stale>>

\* A deletion, or the first half of an update, whose document is still to be written.
ApplyDelete(t) ==
    /\ Applying(t, {"delete", "update"}) /\ Proceeds(t)
    /\ stored' = [stored EXCEPT !.deleted = @ \cup {Head(todo[t]).id}]
    /\ IF Head(todo[t]).kind = "delete" THEN Advance(t)
       ELSE todo' = [todo EXCEPT ![t][1].kind = "insert"] /\ pc' = pc
    /\ UNCHANGED <<current_version, buffer, published, fields, stale>>


ApplyFlush(t) ==
    /\ Applying(t, {"flush"}) /\ Proceeds(t)
    /\ IF Publishes(t) THEN PublishSegment(buffer) ELSE UNCHANGED <<stored, published, buffer>>
    /\ Advance(t)
    /\ UNCHANGED <<current_version, fields, stale>>

\* write_document cannot account for the document: `?` returns, and what was
\* applied before stays.
ApplyFails(t) ==
    /\ WriteErrors /\ Applying(t, {"insert"}) /\ window # t
    /\ todo' = [todo EXCEPT ![t] = <<>>]
    /\ Goes(t, "failed")
    /\ UNCHANGED <<engine, fields, stale>>

Step(t) ==
    \/ Begin(t)
    \/ \E id \in Ids : Read(t, id) \/ \E kind \in {"insert", "update", "delete"} : Stage(t, kind, id)
    \/ CommitValid(t) \/ CommitInvalid(t) \/ ClosureFails(t)
    \/ TakeNumber(t) \/ ApplyWrite(t) \/ ApplyDelete(t) \/ ApplyFlush(t) \/ ApplyFails(t)

Next == \E t \in Txs : Step(t)

Spec == Init /\ [][Next]_vars

\* The closure and the application of a transaction keep running; the writer's
\* lock is handed over.
FairSpec ==
    Spec /\ \A t \in Txs : /\ WF_vars(CommitValid(t) \/ CommitInvalid(t) \/ ClosureFails(t))
                           /\ SF_vars(TakeNumber(t))
                           /\ SF_vars(ApplyWrite(t) \/ ApplyDelete(t) \/ ApplyFlush(t) \/ ApplyFails(t))
-----------------------------------------------------------------------------
Committed(t) == pc[t] \in {"apply", "done", "failed"}

Writes(t) ==
    {o \in ToSet(operations[t]) : o.kind # "delete"}

(***************************************************************************)
(* Isolation from failed transactions: whatever is in the writer's buffer  *)
(* or in a published segment was staged by a transaction that committed,   *)
(* whichever way others were rolled back or failed validation meanwhile.   *)
(***************************************************************************)
OnlyCommittedData ==
    \A d \in ToSet(buffer) \cup ToSet(published) :
        /\ Committed(d.doc[1])
        /\ \E o \in Writes(d.doc[1]) : o.doc = d.doc /\ o.id = d.id



(***************************************************************************)
(* with_transaction returns: threads that apply operations at once do not  *)
(* block each other for ever.                                              *)
(***************************************************************************)
TransactionsEnd ==
    \A t \in Txs : (pc[t] = "active") ~> (pc[t] \in {"done", "aborted", "failed"})

(***************************************************************************)
(* Validation outside a publication window finds every change of a tracked *)
(* document, with one exception: a transaction whose snapshot has version  *)
(* 0, the number that the placeholder and the first snapshot share.        *)
(***************************************************************************)
StaleOnlyAtVersionZero ==
    \A t \in Txs : Committed(t) /\ stale[t] /\ level[t] # "ReadCommitted"
        => snapshot[t].version = 0

-----------------------------------------------------------------------------
(* A statement of the repository's documentation that the code refutes.    *)

LastWrites(t, id) ==
    LET own == SelectSeq(operations[t], LAMBDA o : o.id = id)
    IN own # <<>> /\ Last(own).kind # "delete"

(***************************************************************************)
(* "Serializable isolation level": of two committed transactions that read *)
(* and then wrote a document, the later one has read what the earlier one  *)
(* wrote; they have not both read the same state of it.                    *)
(***************************************************************************)
NoLostUpdate ==
    \A t, u \in Txs : \A id \in read_set[t] \cap read_set[u] :
        /\ t # u /\ Committed(t) /\ Committed(u)
        /\ level[t] = "Serializable" /\ level[u] = "Serializable"
        /\ LastWrites(t, id) /\ LastWrites(u, id)
        => Visible(snapshot[t], id) # Visible(snapshot[u], id)

-----------------------------------------------------------------------------
(* Why these hold: the inductive invariant of TransactionsProofs.          *)

Operations == [kind : {"insert", "update", "delete"}, id : Ids, doc : Txs \X Nat]
Documents == [id : Ids, doc : Txs \X Nat]

\* The types the argument needs; what a snapshot contains is not looked at.
EngineTypes ==
    /\ current_version \in Nat /\ window \in Txs \cup {None}
    /\ buffer \in Seq(Documents) /\ published \in Seq(Documents)
    /\ pc \in [Txs -> {"idle", "active", "apply", "done", "aborted", "failed"}]
    /\ snapshot = [t \in Txs |-> snapshot[t]] /\ \A t \in Txs : snapshot[t].version \in Nat
    /\ operations \in [Txs -> Seq(Operations)]
    /\ todo \in [Txs -> Seq(Operations \cup {FlushStep})]
    /\ stale \in [Txs -> BOOLEAN]

\* A number above 0 stands for one content: a snapshot of the newest number is the
\* stored one, and none has the number whose publication is under way.
NumbersInv ==
    /\ window # None => current_version > 0
    /\ \A t \in Txs : snapshot[t].version > 0 =>
          /\ snapshot[t].version < current_version
          /\ window # None => snapshot[t].version < current_version - 1
          /\ window = None /\ snapshot[t].version = current_version - 1 =>
                snapshot[t].copies = stored.copies /\ snapshot[t].deleted = stored.deleted

\* What is left to apply comes from the transaction's own operations, the flush last.
PlanInv ==
    \A t \in Txs :
        /\ pc[t] = "apply" => todo[t] # <<>>
        /\ pc[t] \in {"idle", "active"} => todo[t] = <<>>
        /\ \A i \in DOMAIN todo[t] :
              \/ todo[t][i].kind \in {"delete", "flush"}
              \/ \E o \in Writes(t) : o.doc = todo[t][i].doc /\ o.id = todo[t][i].id
        /\ \A o \in ToSet(operations[t]) : o.doc[1] = t

ApplyInv == EngineTypes /\ NumbersInv /\ PlanInv /\ OnlyCommittedData /\ StaleOnlyAtVersionZero
=============================================================================
