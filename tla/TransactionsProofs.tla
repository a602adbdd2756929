-------------------------- MODULE TransactionsProofs --------------------------
(***************************************************************************)
(* Proofs about Transactions, for any number of transactions, documents    *)
(* and operations, any batch size and any isolation levels.                *)
(***************************************************************************)
EXTENDS Transactions, SequenceTheorems, TLAPS

LEMMA ApplyInit == Init => ApplyInv
<1> SUFFICES ASSUME Init PROVE ApplyInv
    OBVIOUS
<1> USE DEF Init
<1>1. EngineTypes
  <2>1. /\ current_version \in Nat /\ window \in Txs \cup {None}
        /\ snapshot = [t \in Txs |-> snapshot[t]] /\ \A t \in Txs : snapshot[t].version \in Nat
    BY DEF Placeholder
  <2>2. buffer \in Seq(Documents) /\ published \in Seq(Documents)
    OBVIOUS
  <2>3. operations \in [Txs -> Seq(Operations)] /\ todo \in [Txs -> Seq(Operations \cup {FlushStep})]
    OBVIOUS
  <2>4. stale \in [Txs -> BOOLEAN]
    BY Zenon
  <2> QED
    BY <2>1, <2>2, <2>3, <2>4 DEF EngineTypes
<1>2. NumbersInv
  BY DEF NumbersInv, Placeholder
<1>3. PlanInv
  BY DEF PlanInv, ToSet
<1>4. OnlyCommittedData
  BY DEF OnlyCommittedData, ToSet
<1>5. StaleOnlyAtVersionZero
  BY DEF StaleOnlyAtVersionZero, Committed
<1> QED
  BY <1>1, <1>2, <1>3, <1>4, <1>5 DEF ApplyInv

-----------------------------------------------------------------------------
(* What a step leaves alone. *)

LEMMA OthersKept ==
    ASSUME EngineTypes, NEW t \in Txs, Step(t), NEW u \in Txs, u # t
    PROVE  /\ pc'[u] = pc[u] /\ snapshot'[u] = snapshot[u] /\ operations'[u] = operations[u]
           /\ todo'[u] = todo[u] /\ stale'[u] = stale[u]
BY DEF EngineTypes, Step, Begin, Read, Stage, CommitValid, CommitInvalid, ClosureFails, Abort, TakeNumber,
       ApplyWrite, ApplyDelete, ApplyFlush, ApplyFails, Advance, Goes, engine, fields

LEMMA LevelKept ==
    ASSUME NEW t \in Txs, Step(t)
    PROVE  level' = level
BY DEF Step, Begin, Read, Stage, CommitValid, CommitInvalid, ClosureFails, Abort, TakeNumber,
       ApplyWrite, ApplyDelete, ApplyFlush, ApplyFails, engine, fields

\* A committed transaction keeps its operations, its snapshot and its verdict, and stays committed.
LEMMA CommittedKept ==
    ASSUME EngineTypes, NEW t \in Txs, Step(t), NEW u \in Txs, Committed(u)
    PROVE  /\ Committed(u)' /\ operations'[u] = operations[u]
           /\ snapshot'[u] = snapshot[u] /\ stale'[u] = stale[u]
<1>1. CASE u # t
  BY <1>1, OthersKept DEF Committed
<1>2. CASE u = t
  BY <1>2 DEF Committed, EngineTypes, Step, Begin, Read, Stage, CommitValid, CommitInvalid, ClosureFails, Abort,
         TakeNumber, ApplyWrite, ApplyDelete, ApplyFlush, ApplyFails, Advance, Goes, engine, fields
<1> QED
  BY <1>1, <1>2

-----------------------------------------------------------------------------
(* Types. *)

\* The next operation to apply, and what is left after it.
LEMMA NextOperation ==
    ASSUME EngineTypes, PlanInv, NEW t \in Txs, pc[t] = "apply"
    PROVE  /\ 1 \in DOMAIN todo[t] /\ Head(todo[t]) = todo[t][1]
           /\ Head(todo[t]) \in Operations \cup {FlushStep}
           /\ Tail(todo[t]) \in Seq(Operations \cup {FlushStep})
           /\ \A i \in DOMAIN Tail(todo[t]) : i + 1 \in DOMAIN todo[t] /\ Tail(todo[t])[i] = todo[t][i + 1]
<1>1. todo[t] \in Seq(Operations \cup {FlushStep}) /\ todo[t] # <<>>
  BY DEF EngineTypes, PlanInv
<1> DEFINE s == todo[t]
           S == Operations \cup {FlushStep}
<1> HIDE DEF s, S
<1>2. s \in Seq(S) /\ s # <<>>
  BY <1>1 DEF s, S
<1>3. /\ 1 \in DOMAIN s /\ Head(s) = s[1] /\ Head(s) \in S /\ Tail(s) \in Seq(S)
      /\ \A i \in DOMAIN Tail(s) : i + 1 \in DOMAIN s /\ Tail(s)[i] = s[i + 1]
  BY <1>2
<1> QED
  BY <1>3 DEF s, S

LEMMA PlanType ==
    ASSUME EngineTypes, NEW t \in Txs
    PROVE  /\ Plan(t) \in Seq(Operations \cup {FlushStep}) /\ Plan(t) # <<>>
           /\ \A i \in DOMAIN Plan(t) : Plan(t)[i] \in ToSet(operations[t]) \cup {FlushStep}
<1> DEFINE s == operations[t]
           S == Operations \cup {FlushStep}
<1>1. s \in Seq(S) /\ FlushStep \in S
  BY DEF EngineTypes
<1> HIDE DEF s, S
<1>2. /\ Append(s, FlushStep) \in Seq(S) /\ Append(s, FlushStep) # <<>>
      /\ \A i \in DOMAIN Append(s, FlushStep) : Append(s, FlushStep)[i] = FlushStep
                                                 \/ (i \in DOMAIN s /\ Append(s, FlushStep)[i] = s[i])
  BY <1>1
<1> QED
  BY <1>2 DEF Plan, s, S, ToSet

\* The document an insertion puts into the buffer.
LEMMA Inserted ==
    ASSUME EngineTypes, PlanInv, NEW t \in Txs, Applying(t, {"insert"})
    PROVE  LET d == [id |-> Head(todo[t]).id, doc |-> Head(todo[t]).doc]
           IN  /\ d \in Documents /\ Append(buffer, d) \in Seq(Documents)
               /\ d.doc[1] = t /\ \E o \in Writes(t) : o.doc = d.doc /\ o.id = d.id
<1> DEFINE h == Head(todo[t])
           d == [id |-> h.id, doc |-> h.doc]
<1>1. pc[t] = "apply" /\ h.kind = "insert"
  BY DEF Applying
<1>2. h \in Operations \cup {FlushStep} /\ h = todo[t][1] /\ 1 \in DOMAIN todo[t]
  BY <1>1, NextOperation
<1>3. h \in Operations
  BY <1>1, <1>2 DEF FlushStep
<1>4. d \in Documents
  BY <1>3 DEF Operations, Documents
<1>5. PICK o \in Writes(t) : o.doc = h.doc /\ o.id = h.id
  BY <1>1, <1>2 DEF PlanInv
<1>6. o.doc[1] = t
  BY <1>5 DEF PlanInv, Writes
<1>7. buffer \in Seq(Documents)
  BY DEF EngineTypes
<1>8. d.id = h.id /\ d.doc = h.doc
  OBVIOUS
<1> HIDE DEF d, h
<1>9. Append(buffer, d) \in Seq(Documents)
  BY <1>4, <1>7
<1>10. d.doc[1] = t /\ \E x \in Writes(t) : x.doc = d.doc /\ x.id = d.id
  BY <1>5, <1>6, <1>8
<1> QED
  BY <1>4, <1>9, <1>10 DEF d, h

\* A step's effect on the documents: they stay, and an insertion adds its own.
LEMMA DocumentsStep ==
    ASSUME EngineTypes, PlanInv, NEW t \in Txs, Step(t)
    PROVE  /\ buffer' \in Seq(Documents) /\ published' \in Seq(Documents)
           /\ \A d \in ToSet(buffer') \cup ToSet(published') :
                 \/ d \in ToSet(buffer) \cup ToSet(published)
                 \/ /\ Applying(t, {"insert"})
                    /\ d = [id |-> Head(todo[t]).id, doc |-> Head(todo[t]).doc]
<1>1. buffer \in Seq(Documents) /\ published \in Seq(Documents)
  BY DEF EngineTypes
<1>2. ASSUME NEW s \in Seq(Documents)
      PROVE  /\ published \o s \in Seq(Documents) /\ <<>> \in Seq(Documents)
             /\ ToSet(published \o s) \subseteq ToSet(published) \cup ToSet(s) /\ ToSet(<<>>) = {}
  <2>1. /\ published \o s \in Seq(Documents) /\ Len(published \o s) = Len(published) + Len(s)
        /\ \A i \in 1 .. Len(published) + Len(s) :
              (published \o s)[i] = IF i <= Len(published) THEN published[i] ELSE s[i - Len(published)]
    BY <1>1, <1>2, ConcatProperties
  <2>2. Len(published) \in Nat /\ Len(s) \in Nat
    BY <1>1, <1>2
  <2>3. ASSUME NEW i \in DOMAIN (published \o s)
        PROVE  (published \o s)[i] \in ToSet(published) \cup ToSet(s)
    <3>1. i \in 1 .. Len(published) + Len(s)
      BY <2>1
    <3>2. CASE i <= Len(published)
      <4>1. i \in DOMAIN published /\ (published \o s)[i] = published[i]
        BY <1>1, <2>1, <2>2, <3>1, <3>2
      <4> QED
        BY <4>1 DEF ToSet
    <3>3. CASE ~(i <= Len(published))
      <4>1. i - Len(published) \in 1 .. Len(s) /\ (published \o s)[i] = s[i - Len(published)]
        BY <2>1, <2>2, <3>1, <3>3
      <4>2. DOMAIN s = 1 .. Len(s)
        BY <1>2
      <4> QED
        BY <4>1, <4>2 DEF ToSet
    <3> QED
      BY <3>2, <3>3
  <2>4. <<>> \in Seq(Documents) /\ ToSet(<<>>) = {}
    BY DEF ToSet
  <2>5. ToSet(published \o s) \subseteq ToSet(published) \cup ToSet(s)
    BY <2>3 DEF ToSet
  <2> QED
    BY <2>1, <2>4, <2>5
<1>3. CASE buffer' = buffer /\ published' = published
  BY <1>1, <1>3
<1>4. CASE ApplyWrite(t)
  <2> DEFINE d == [id |-> Head(todo[t]).id, doc |-> Head(todo[t]).doc]
             filled == Append(buffer, d)
  <2>1. Applying(t, {"insert"}) /\ filled \in Seq(Documents)
    BY <1>4, Inserted DEF ApplyWrite
  <2>2. ToSet(filled) \subseteq ToSet(buffer) \cup {d}
    <3> HIDE DEF d
    <3>1. \A i \in DOMAIN filled : filled[i] = d \/ (i \in DOMAIN buffer /\ filled[i] = buffer[i])
      BY <1>1
    <3> QED
      BY <3>1 DEF ToSet
  <2>3. \/ published' = published \o filled /\ buffer' = <<>>
        \/ published' = published /\ buffer' = filled
    BY <1>4 DEF ApplyWrite, PublishSegment
  <2> HIDE DEF filled, d
  <2>4. /\ buffer' \in Seq(Documents) /\ published' \in Seq(Documents)
        /\ ToSet(buffer') \cup ToSet(published') \subseteq ToSet(buffer) \cup ToSet(published) \cup {d}
    BY <1>1, <1>2, <2>1, <2>2, <2>3
  <2> QED
    BY <2>1, <2>4 DEF d
<1>5. CASE ApplyFlush(t)
  <2>1. \/ published' = published \o buffer /\ buffer' = <<>>
        \/ published' = published /\ buffer' = buffer
    BY <1>5 DEF ApplyFlush, PublishSegment
  <2>2. /\ buffer' \in Seq(Documents) /\ published' \in Seq(Documents)
        /\ ToSet(buffer') \cup ToSet(published') \subseteq ToSet(buffer) \cup ToSet(published)
    BY <1>1, <1>2, <2>1
  <2> QED
    BY <2>2
<1>6. ApplyWrite(t) \/ ApplyFlush(t) \/ (buffer' = buffer /\ published' = published)
  BY DEF Step, Begin, Read, Stage, CommitValid, CommitInvalid, ClosureFails, Abort, TakeNumber,
         ApplyDelete, ApplyFails, engine
<1> QED
  BY <1>3, <1>4, <1>5, <1>6

LEMMA OnlyCommittedStep ==
    ASSUME ApplyInv, NEW t \in Txs, Step(t)
    PROVE  OnlyCommittedData'
<1> USE DEF ApplyInv
<1> SUFFICES ASSUME NEW d \in ToSet(buffer') \cup ToSet(published')
             PROVE  Committed(d.doc[1])' /\ \E o \in Writes(d.doc[1])' : o.doc = d.doc /\ o.id = d.id
  BY DEF OnlyCommittedData
<1>1. d \in Documents
  BY DocumentsStep DEF ToSet
<1>2. d.doc[1] \in Txs
  BY <1>1 DEF Documents
<1>3. Committed(d.doc[1]) /\ \E o \in Writes(d.doc[1]) : o.doc = d.doc /\ o.id = d.id
  <2>1. CASE d \in ToSet(buffer) \cup ToSet(published)
    BY <2>1 DEF OnlyCommittedData
  <2>2. CASE Applying(t, {"insert"}) /\ d = [id |-> Head(todo[t]).id, doc |-> Head(todo[t]).doc]
    <3>1. d.doc[1] = t /\ \E o \in Writes(t) : o.doc = d.doc /\ o.id = d.id
      BY <2>2, Inserted
    <3> QED
      BY <2>2, <3>1 DEF Committed, Applying
  <2> QED
    BY <2>1, <2>2, DocumentsStep
<1>4. Committed(d.doc[1])' /\ operations'[d.doc[1]] = operations[d.doc[1]]
  BY <1>2, <1>3, CommittedKept
<1>5. Writes(d.doc[1])' = Writes(d.doc[1])
  BY <1>4 DEF Writes
<1> QED
  BY <1>3, <1>4, <1>5

\* What is left to apply keeps its type: the plan, its tail, or an update whose
\* deletion is done.
LEMMA TodoStep ==
    ASSUME EngineTypes, PlanInv, NEW t \in Txs, Step(t)
    PROVE  /\ todo' \in [Txs -> Seq(Operations \cup {FlushStep})]
           /\ \/ todo'[t] = todo[t] /\ (pc'[t] = pc[t] \/ (pc[t] \in {"idle", "active"} /\ pc'[t] \in {"active", "aborted"}))
              \/ pc'[t] = "apply" /\ pc[t] = "active" /\ todo'[t] = Plan(t)
              \/ pc[t] = "apply" /\ pc'[t] \in {"done", "failed"} /\ todo'[t] = <<>>
              \/ pc[t] = "apply" /\ pc'[t] = "apply" /\ todo'[t] = Tail(todo[t]) /\ todo'[t] # <<>>
              \/ /\ pc[t] = "apply" /\ pc'[t] = "apply" /\ Head(todo[t]).kind = "update"
                 /\ todo'[t] = [todo[t] EXCEPT ![1].kind = "insert"]
<1> DEFINE S == Operations \cup {FlushStep}
           Keeps == todo'[t] = todo[t] /\ (pc'[t] = pc[t] \/ (pc[t] \in {"idle", "active"} /\ pc'[t] \in {"active", "aborted"}))
           Starts == pc'[t] = "apply" /\ pc[t] = "active" /\ todo'[t] = Plan(t)
           Ends == pc[t] = "apply" /\ pc'[t] \in {"done", "failed"} /\ todo'[t] = <<>>
           Moves == pc[t] = "apply" /\ pc'[t] = "apply" /\ todo'[t] = Tail(todo[t]) /\ todo'[t] # <<>>
           Halves == /\ pc[t] = "apply" /\ pc'[t] = "apply" /\ Head(todo[t]).kind = "update"
                     /\ todo'[t] = [todo[t] EXCEPT ![1].kind = "insert"]
<1>1. /\ todo \in [Txs -> Seq(S)] /\ pc \in [Txs -> {"idle", "active", "apply", "done", "aborted", "failed"}]
  BY DEF EngineTypes
<1>2. CASE \/ Begin(t) \/ CommitInvalid(t) \/ ClosureFails(t) \/ TakeNumber(t)
           \/ \E id \in Ids : Read(t, id) \/ \E kind \in {"insert", "update", "delete"} : Stage(t, kind, id)
  <2>1. todo' = todo /\ Keeps
    BY <1>1, <1>2 DEF Begin, Read, Stage, CommitInvalid, ClosureFails, Abort, TakeNumber, Goes
  <2> QED
    BY <1>1, <2>1
<1>3. CASE CommitValid(t)
  <2>1. todo' = [todo EXCEPT ![t] = Plan(t)] /\ Starts
    BY <1>1, <1>3 DEF CommitValid, Goes
  <2> QED
    BY <1>1, <2>1, PlanType
<1>4. CASE pc[t] = "apply" /\ Advance(t)
  <2>1. todo' = [todo EXCEPT ![t] = Tail(todo[t])] /\ (Ends \/ Moves)
    BY <1>1, <1>4 DEF Advance, Goes
  <2>2. Tail(todo[t]) \in Seq(S)
    BY <1>4, NextOperation
  <2> QED
    BY <1>1, <2>1, <2>2
<1>5. CASE ApplyFails(t)
  <2>1. todo' = [todo EXCEPT ![t] = <<>>] /\ Ends
    BY <1>1, <1>5 DEF ApplyFails, Goes, Applying
  <2>2. <<>> \in Seq(S)
    OBVIOUS
  <2> QED
    BY <1>1, <2>1, <2>2
<1>6. CASE ApplyDelete(t) /\ Head(todo[t]).kind # "delete"
  <2>1. /\ pc[t] = "apply" /\ Head(todo[t]).kind = "update" /\ pc' = pc
        /\ todo' = [todo EXCEPT ![t][1].kind = "insert"]
    BY <1>6 DEF ApplyDelete, Applying
  <2>2. todo[t][1] = Head(todo[t]) /\ Head(todo[t]) \in S /\ 1 \in DOMAIN todo[t]
    BY <2>1, NextOperation
  <2>3. Head(todo[t]) \in Operations
    BY <2>1, <2>2 DEF FlushStep
  <2>4. [todo[t][1] EXCEPT !.kind = "insert"] \in S
    BY <2>2, <2>3 DEF Operations
  <2>5. todo[t] \in Seq(S)
    BY <1>1
  <2> DEFINE new == [todo[t][1] EXCEPT !.kind = "insert"]
             changed == [todo[t] EXCEPT ![1].kind = "insert"]
  <2>6. changed = [todo[t] EXCEPT ![1] = new] /\ todo' = [todo EXCEPT ![t] = changed]
    BY <1>1, <2>1
  <2>7. changed \in Seq(S)
    <3> HIDE DEF new, S, changed
    <3>1. new \in S
      BY <2>4 DEF new
    <3> QED
      BY <2>2, <2>5, <2>6, <3>1
  <2>8. Halves
    BY <1>1, <2>1, <2>6
  <2> QED
    BY <1>1, <2>6, <2>7, <2>8
<1> QED
  BY <1>2, <1>3, <1>4, <1>5, <1>6 DEF Step, ApplyWrite, ApplyDelete, ApplyFlush, Applying

\* What the operations of a transaction become.
LEMMA OperationsStep ==
    ASSUME EngineTypes, PlanInv, NEW t \in Txs, Step(t)
    PROVE  /\ operations' \in [Txs -> Seq(Operations)]
           /\ \A o \in ToSet(operations'[t]) : o.doc[1] = t
           /\ operations'[t] # operations[t] => pc[t] = "active"
<1>1. operations \in [Txs -> Seq(Operations)] /\ \A o \in ToSet(operations[t]) : o.doc[1] = t
  BY DEF EngineTypes, PlanInv
<1>2. CASE operations' = operations
  BY <1>1, <1>2
<1>3. CASE Abort(t)
  <2>1. operations' = [operations EXCEPT ![t] = <<>>] /\ pc[t] = "active"
    BY <1>3 DEF Abort
  <2>2. <<>> \in Seq(Operations) /\ ToSet(<<>>) = {}
    BY DEF ToSet
  <2> QED
    BY <1>1, <2>1, <2>2
<1>4. ASSUME NEW id \in Ids, NEW kind \in {"insert", "update", "delete"}, Stage(t, kind, id)
      PROVE  /\ operations' \in [Txs -> Seq(Operations)]
             /\ \A o \in ToSet(operations'[t]) : o.doc[1] = t
             /\ pc[t] = "active"
  <2> DEFINE s == operations[t]
             o == [kind |-> kind, id |-> id, doc |-> Doc(t)]
  <2>1. operations' = [operations EXCEPT ![t] = Append(s, o)] /\ pc[t] = "active"
    BY <1>4 DEF Stage
  <2>2. s \in Seq(Operations) /\ Len(s) \in Nat
    BY <1>1
  <2>3. o \in Operations /\ o.doc[1] = t
    BY <2>2 DEF Operations, Doc
  <2> HIDE DEF s, o
  <2>4. /\ Append(s, o) \in Seq(Operations)
        /\ \A i \in DOMAIN Append(s, o) : Append(s, o)[i] = o \/ (i \in DOMAIN s /\ Append(s, o)[i] = s[i])
    BY <2>2, <2>3
  <2>5. ToSet(Append(s, o)) \subseteq ToSet(s) \cup {o}
    BY <2>4 DEF ToSet
  <2>6. operations'[t] = Append(s, o)
    BY <1>1, <2>1
  <2>7. \A x \in ToSet(s) : x.doc[1] = t
    BY <1>1 DEF s
  <2>8. \A x \in ToSet(operations'[t]) : x.doc[1] = t
    BY <2>3, <2>5, <2>6, <2>7
  <2> QED
    BY <1>1, <2>1, <2>4, <2>8
<1> QED
  BY <1>2, <1>3, <1>4 DEF Step, Begin, Read, CommitValid, CommitInvalid, ClosureFails, TakeNumber,
     ApplyWrite, ApplyDelete, ApplyFlush, ApplyFails, fields

LEMMA TypesStep ==
    ASSUME EngineTypes, PlanInv, NEW t \in Txs, Step(t)
    PROVE  EngineTypes'
<1>1. buffer' \in Seq(Documents) /\ published' \in Seq(Documents)
  BY DocumentsStep
<1>2. operations' \in [Txs -> Seq(Operations)] /\ todo' \in [Txs -> Seq(Operations \cup {FlushStep})]
  BY OperationsStep, TodoStep
<1>3. current_version' \in Nat /\ window' \in Txs \cup {None}
  <2>1. CASE TakeNumber(t)
    BY <2>1 DEF TakeNumber, EngineTypes
  <2>2. CASE current_version' = current_version /\ Proceeds(t)
    BY <2>2 DEF Proceeds, EngineTypes
  <2>3. CASE UNCHANGED engine
    BY <2>3 DEF engine, EngineTypes
  <2> QED
    BY <2>1, <2>2, <2>3 DEF Step, Begin, Read, Stage, CommitValid, CommitInvalid, ClosureFails, Abort,
       ApplyWrite, ApplyDelete, ApplyFlush, ApplyFails
<1>4. pc' \in [Txs -> {"idle", "active", "apply", "done", "aborted", "failed"}]
  BY DEF EngineTypes, Step, Begin, Read, Stage, CommitValid, CommitInvalid, ClosureFails, Abort, TakeNumber,
         ApplyWrite, ApplyDelete, ApplyFlush, ApplyFails, Advance, Goes
<1>5. snapshot' = [u \in Txs |-> snapshot'[u]] /\ \A u \in Txs : snapshot'[u].version \in Nat
  <2>1. CASE Begin(t)
    <3>1. CurrentSnapshot.version \in Nat
      BY DEF CurrentSnapshot, Placeholder, EngineTypes
    <3> QED
      BY <2>1, <3>1 DEF Begin, EngineTypes
  <2>2. CASE snapshot' = snapshot
    BY <2>2 DEF EngineTypes
  <2> QED
    BY <2>1, <2>2 DEF Step, Read, Stage, CommitValid, CommitInvalid, ClosureFails, Abort, TakeNumber,
       ApplyWrite, ApplyDelete, ApplyFlush, ApplyFails, fields
<1>6. stale' \in [Txs -> BOOLEAN]
  <2>1. CASE stale' = stale
    BY <2>1 DEF EngineTypes
  <2>2. CASE CommitValid(t)
    <3> DEFINE b == window = None /\ ~Unchanged(t, stored)
    <3>1. stale' = [stale EXCEPT ![t] = b] /\ b \in BOOLEAN
      BY <2>2, Zenon DEF CommitValid
    <3> HIDE DEF b
    <3> QED
      BY <3>1 DEF EngineTypes
  <2> QED
    BY <2>1, <2>2 DEF Step, Begin, Read, Stage, CommitInvalid, ClosureFails, Abort, TakeNumber,
       ApplyWrite, ApplyDelete, ApplyFlush, ApplyFails
<1> QED
  BY <1>1, <1>2, <1>3, <1>4, <1>5, <1>6 DEF EngineTypes

-----------------------------------------------------------------------------
(* The remaining conjuncts. *)

LEMMA PlanStep ==
    ASSUME EngineTypes, PlanInv, NEW t \in Txs, Step(t)
    PROVE  PlanInv'
<1> DEFINE From(x, u) == x.kind \in {"delete", "flush"} \/ \E o \in Writes(u) : o.doc = x.doc /\ o.id = x.id
           Ok(u) == /\ pc[u] = "apply" => todo[u] # <<>>
                    /\ pc[u] \in {"idle", "active"} => todo[u] = <<>>
                    /\ \A i \in DOMAIN todo[u] : From(todo[u][i], u)
                    /\ \A o \in ToSet(operations[u]) : o.doc[1] = u
<1>1. \A u \in Txs : Ok(u)
  BY DEF PlanInv
<1> SUFFICES ASSUME NEW u \in Txs PROVE Ok(u)'
  BY DEF PlanInv
<1>2. CASE u # t
  <2>1. pc'[u] = pc[u] /\ operations'[u] = operations[u] /\ todo'[u] = todo[u]
    BY <1>2, OthersKept
  <2> QED
    BY <1>1, <2>1 DEF Writes
<1>3. CASE u = t
  <2>1. \A o \in ToSet(operations'[t]) : o.doc[1] = t
    BY OperationsStep
  <2>2. CASE todo'[t] = todo[t] /\ (pc'[t] = pc[t] \/ (pc[t] \in {"idle", "active"} /\ pc'[t] \in {"active", "aborted"}))
    <3>1. CASE operations'[t] = operations[t]
      BY <1>1, <1>3, <2>1, <2>2, <3>1 DEF Writes
    <3>2. CASE operations'[t] # operations[t]
      <4>1. todo[t] = <<>> /\ pc[t] = "active"
        BY <1>1, <3>2, OperationsStep
      <4> QED
        BY <1>3, <2>1, <2>2, <4>1
    <3> QED
      BY <3>1, <3>2
  <2>3. CASE pc'[t] = "apply" /\ pc[t] = "active" /\ todo'[t] = Plan(t)
    <3>1. CommitValid(t)
      BY <2>3 DEF Step, Begin, Read, Stage, CommitInvalid, ClosureFails, Abort, TakeNumber, ApplyWrite,
             ApplyDelete, ApplyFlush, ApplyFails, Applying, Goes, EngineTypes
    <3>2. operations' = operations
      BY <3>1 DEF CommitValid, fields
    <3>3. ASSUME NEW i \in DOMAIN Plan(t) PROVE From(Plan(t)[i], t)
      <4>1. CASE Plan(t)[i] = FlushStep
        BY <4>1 DEF FlushStep
      <4>2. CASE Plan(t)[i] \in ToSet(operations[t])
        BY <4>2 DEF Writes
      <4> QED
        BY <4>1, <4>2, PlanType
    <3> QED
      BY <1>3, <2>1, <2>3, <3>2, <3>3, PlanType DEF Writes
  <2>4. CASE pc[t] = "apply" /\ pc'[t] \in {"done", "failed"} /\ todo'[t] = <<>>
    BY <1>3, <2>1, <2>4
  <2>5. CASE pc[t] = "apply" /\ pc'[t] = "apply" /\ todo'[t] = Tail(todo[t]) /\ todo'[t] # <<>>
    <3>1. operations'[t] = operations[t]
      BY <2>5, OperationsStep
    <3>2. \A i \in DOMAIN Tail(todo[t]) : i + 1 \in DOMAIN todo[t] /\ Tail(todo[t])[i] = todo[t][i + 1]
      BY <2>5, NextOperation
    <3> QED
      BY <1>1, <1>3, <2>1, <2>5, <3>1, <3>2 DEF Writes
  <2>6. CASE /\ pc[t] = "apply" /\ pc'[t] = "apply" /\ Head(todo[t]).kind = "update"
             /\ todo'[t] = [todo[t] EXCEPT ![1].kind = "insert"]
    <3>1. operations'[t] = operations[t]
      BY <2>6, OperationsStep
    <3>2. todo[t][1] = Head(todo[t]) /\ Head(todo[t]) \in Operations \cup {FlushStep} /\ 1 \in DOMAIN todo[t]
      BY <2>6, NextOperation
    <3>3. todo[t][1] \in Operations /\ todo[t][1].kind = "update"
      BY <2>6, <3>2 DEF FlushStep
    <3>4. DOMAIN todo'[t] = DOMAIN todo[t]
      BY <2>6, <3>2
    <3>5. ASSUME NEW i \in DOMAIN todo[t] PROVE From(todo'[t][i], t)
      <4>1. From(todo[t][i], t)
        BY <1>1
      <4>2. CASE i # 1
        BY <2>6, <3>2, <4>1, <4>2
      <4>3. CASE i = 1
        <5>1. todo'[t][1].doc = todo[t][1].doc /\ todo'[t][1].id = todo[t][1].id
          BY <2>6, <3>2, <3>3 DEF Operations
        <5> QED
          BY <3>3, <4>1, <4>3, <5>1
      <4> QED
        BY <4>2, <4>3
    <3>6. todo'[t] # <<>>
      BY <3>2, <3>4
    <3> QED
      BY <1>3, <2>1, <2>6, <3>1, <3>4, <3>5, <3>6 DEF Writes
  <2> QED
    BY <2>2, <2>3, <2>4, <2>5, <2>6, TodoStep
<1> QED
  BY <1>2, <1>3

\* A step captures a snapshot, takes a number, stores a snapshot under the number it
\* has taken, or does nothing to either.
LEMMA PublicationCases ==
    ASSUME EngineTypes, NEW t \in Txs, Step(t)
    PROVE  \/ Begin(t)
           \/ TakeNumber(t) /\ snapshot' = snapshot
           \/ window = t /\ window' = None /\ current_version' = current_version /\ snapshot' = snapshot
           \/ UNCHANGED <<window, current_version, stored, snapshot>>
<1>1. CASE Begin(t) \/ TakeNumber(t)
  BY <1>1 DEF TakeNumber, fields
<1>2. CASE ApplyWrite(t) \/ ApplyFlush(t)
  <2>1. CASE Publishes(t)
    BY <1>2, <2>1 DEF ApplyWrite, ApplyFlush, Proceeds, fields
  <2>2. CASE ~Publishes(t)
    BY <1>2, <2>2 DEF ApplyWrite, ApplyFlush, Proceeds, fields
  <2> QED
    BY <2>1, <2>2
<1>3. CASE ApplyDelete(t)
  <2>1. Publishes(t)
    BY <1>3 DEF ApplyDelete, Publishes
  <2> QED
    BY <1>3, <2>1 DEF ApplyDelete, Proceeds, fields
<1>4. CASE \/ CommitValid(t) \/ CommitInvalid(t) \/ ClosureFails(t) \/ ApplyFails(t)
           \/ \E id \in Ids : Read(t, id) \/ \E kind \in {"insert", "update", "delete"} : Stage(t, kind, id)
  BY <1>4 DEF CommitValid, CommitInvalid, ClosureFails, Abort, ApplyFails, Read, Stage, engine, fields
<1> QED
  BY <1>1, <1>2, <1>3, <1>4 DEF Step

LEMMA NumbersStep ==
    ASSUME EngineTypes, NumbersInv, NEW t \in Txs, Step(t)
    PROVE  NumbersInv'
<1> USE NoneAssumption
<1>1. CASE Begin(t)
  <2>1. /\ window' = window /\ current_version' = current_version /\ stored' = stored
        /\ snapshot' = [snapshot EXCEPT ![t] = CurrentSnapshot]
    BY <1>1 DEF Begin, engine
  <2>2. \A u \in Txs : snapshot'[u] = IF u = t THEN CurrentSnapshot ELSE snapshot[u]
    BY <2>1 DEF EngineTypes
  <2>3. CASE current_version = 0 \/ window # None
    <3>1. CurrentSnapshot.version = 0
      BY <2>3 DEF CurrentSnapshot, Placeholder
    <3> QED
      BY <2>1, <2>2, <3>1 DEF NumbersInv
  <2>4. CASE current_version # 0 /\ window = None
    <3>1. /\ CurrentSnapshot.version = current_version - 1 /\ CurrentSnapshot.copies = stored.copies
          /\ CurrentSnapshot.deleted = stored.deleted
      BY <2>4 DEF CurrentSnapshot
    <3> QED
      BY <2>1, <2>2, <2>4, <3>1 DEF NumbersInv, EngineTypes
  <2> QED
    BY <2>3, <2>4
<1>2. CASE TakeNumber(t) /\ snapshot' = snapshot
  BY <1>2 DEF TakeNumber, NumbersInv, EngineTypes
<1>3. CASE window = t /\ window' = None /\ current_version' = current_version /\ snapshot' = snapshot
  <2>1. window # None
    BY <1>3
  <2>2. \A u \in Txs : snapshot[u].version > 0 => snapshot[u].version < current_version - 1
    BY <2>1 DEF NumbersInv
  <2> QED
    BY <1>3, <2>2 DEF NumbersInv, EngineTypes
<1>4. CASE UNCHANGED <<window, current_version, stored, snapshot>>
  BY <1>4 DEF NumbersInv
<1> QED
  BY <1>1, <1>2, <1>3, <1>4, PublicationCases

LEMMA StaleStep ==
    ASSUME EngineTypes, NumbersInv, StaleOnlyAtVersionZero, NEW t \in Txs, Step(t)
    PROVE  StaleOnlyAtVersionZero'
<1> SUFFICES ASSUME NEW u \in Txs, Committed(u)', stale'[u], level'[u] # "ReadCommitted"
             PROVE  snapshot'[u].version = 0
  BY DEF StaleOnlyAtVersionZero
<1>0. level' = level
  BY LevelKept
<1>1. CASE Committed(u)
  <2>1. snapshot'[u] = snapshot[u] /\ stale'[u] = stale[u]
    BY <1>1, CommittedKept
  <2> QED
    BY <1>0, <1>1, <2>1 DEF StaleOnlyAtVersionZero
<1>2. CASE ~Committed(u)
  <2>1. u = t
    BY <1>2, OthersKept DEF Committed
  <2>2. CommitValid(t)
    BY <1>2, <2>1 DEF Committed, EngineTypes, Step, Begin, Read, Stage, CommitInvalid, ClosureFails, Abort,
           TakeNumber, ApplyWrite, ApplyDelete, ApplyFlush, ApplyFails, Applying, Goes
  <2>3. Valid(t) /\ snapshot' = snapshot /\ window = None /\ ~Unchanged(t, stored)
    BY <2>1, <2>2 DEF CommitValid, fields, EngineTypes
  <2>4. SUFFICES ASSUME snapshot[t].version # 0 PROVE FALSE
    BY <2>1, <2>3
  <2>5. /\ snapshot[t].version > 0 /\ snapshot[t].version < current_version
        /\ snapshot[t].version = current_version - 1 =>
              snapshot[t].copies = stored.copies /\ snapshot[t].deleted = stored.deleted
    BY <2>3, <2>4 DEF NumbersInv, EngineTypes
  <2>6. /\ CurrentSnapshot.version = current_version - 1 /\ CurrentSnapshot.copies = stored.copies
        /\ CurrentSnapshot.deleted = stored.deleted
    BY <2>3, <2>5 DEF CurrentSnapshot, EngineTypes
  <2>7. CASE CurrentSnapshot.version = snapshot[t].version
    <3>1. \A id \in Tracked(t) : Visible(snapshot[t], id) = Visible(stored, id)
      BY <2>5, <2>6, <2>7 DEF Visible
    <3> QED
      BY <2>3, <3>1 DEF Unchanged
  <2>8. CASE Unchanged(t, CurrentSnapshot)
    <3>1. \A id \in Tracked(t) : Visible(CurrentSnapshot, id) = Visible(stored, id)
      BY <2>6 DEF Visible
    <3> QED
      BY <2>3, <2>8, <3>1 DEF Unchanged
  <2> QED
    BY <1>0, <2>1, <2>3, <2>7, <2>8 DEF Valid
<1> QED
  BY <1>1, <1>2

-----------------------------------------------------------------------------
LEMMA ApplyStep ==
    ASSUME ApplyInv, [Next]_vars
    PROVE  ApplyInv'
<1>1. ASSUME NEW t \in Txs, Step(t) PROVE ApplyInv'
  <2>1. EngineTypes' /\ PlanInv'
    BY <1>1, TypesStep, PlanStep DEF ApplyInv
  <2>2. NumbersInv' /\ StaleOnlyAtVersionZero'
    BY <1>1, NumbersStep, StaleStep DEF ApplyInv
  <2>3. OnlyCommittedData'
    BY <1>1, OnlyCommittedStep
  <2> QED
    BY <2>1, <2>2, <2>3 DEF ApplyInv
<1>2. CASE UNCHANGED vars
  BY <1>2 DEF vars, ApplyInv, EngineTypes, NumbersInv, PlanInv, OnlyCommittedData, StaleOnlyAtVersionZero,
         Committed, Writes
<1> QED
  BY <1>1, <1>2 DEF Next

(***************************************************************************)
(* The inductive invariant of with_transaction (engine.rs:191-223) run by  *)
(* any number of threads.                                                  *)
(***************************************************************************)
THEOREM ApplyInvariance == Spec => []ApplyInv
BY ApplyInit, ApplyStep, PTL DEF Spec

(***************************************************************************)
(* The writer's buffer and the published segments hold only documents that *)
(* a committed transaction staged (transaction.rs:140-188).                *)
(***************************************************************************)
THEOREM OnlyCommitted == Spec => []OnlyCommittedData
<1>1. ApplyInv => OnlyCommittedData
  BY DEF ApplyInv
<1> QED
  BY <1>1, ApplyInvariance, PTL

(***************************************************************************)
(* validate_reads (transaction.rs:190-220) misses a change of a tracked    *)
(* document, outside a publication window, only if the transaction began   *)
(* at version 0.                                                           *)
(***************************************************************************)
THEOREM ConflictsFound == Spec => []StaleOnlyAtVersionZero
<1>1. ApplyInv => StaleOnlyAtVersionZero
  BY DEF ApplyInv
<1> QED
  BY <1>1, ApplyInvariance, PTL
=============================================================================
