----------------------- MODULE TransactionObjectProofs -----------------------
(***************************************************************************)
(* What a shared Transaction guarantees for every set of threads, every    *)
(* set of documents and every number of calls.                             *)
(***************************************************************************)
EXTENDS TransactionObject, FiniteSetTheorems, SequenceTheorems, TLAPS

\* The log with one more operation.
LEMMA ToSetAppend ==
  ASSUME NEW S, NEW s \in Seq(S), NEW e \in S
  PROVE  ToSet(Append(s, e)) = ToSet(s) \cup {e}
<1>1. /\ DOMAIN s = 1 .. Len(s) /\ Len(s) \in Nat
      /\ DOMAIN Append(s, e) = 1 .. Len(s) + 1
      /\ \A i \in 1 .. Len(s) : Append(s, e)[i] = s[i]
      /\ Append(s, e)[Len(s) + 1] = e
  OBVIOUS
<1>2. ToSet(Append(s, e)) \subseteq ToSet(s) \cup {e}
  BY <1>1, SMT DEF ToSet
<1>3. ASSUME NEW x \in ToSet(s) PROVE x \in ToSet(Append(s, e))
  <2>1. PICK i \in 1 .. Len(s) : x = s[i] BY <1>1 DEF ToSet
  <2>2. i \in DOMAIN Append(s, e) /\ Append(s, e)[i] = x BY <1>1, <2>1
  <2> QED BY <2>2 DEF ToSet
<1>4. e \in ToSet(Append(s, e))
  <2>1. Len(s) + 1 \in DOMAIN Append(s, e) BY <1>1
  <2> QED BY <1>1, <2>1 DEF ToSet
<1> QED BY <1>2, <1>3, <1>4

\* An operation that is not in the log yet is in it once afterwards.
LEMMA InjectiveAppend ==
  ASSUME NEW S, NEW s \in Seq(S), NEW e \in S, IsInjective(s), e \notin ToSet(s)
  PROVE  IsInjective(Append(s, e))
<1>1. /\ DOMAIN s = 1 .. Len(s) /\ Len(s) \in Nat
      /\ DOMAIN Append(s, e) = 1 .. Len(s) + 1
      /\ \A i \in 1 .. Len(s) : Append(s, e)[i] = s[i]
      /\ Append(s, e)[Len(s) + 1] = e
  OBVIOUS
<1>2. \A i \in 1 .. Len(s) : s[i] # e BY <1>1 DEF ToSet
<1>3. \A i, j \in 1 .. Len(s) : s[i] = s[j] => i = j BY <1>1 DEF IsInjective
<1> QED BY <1>1, <1>2, <1>3 DEF IsInjective

\* The empty log.
LEMMA EmptyLog == ToSet(<<>>) = {} /\ IsInjective(<<>>)
BY DEF ToSet, IsInjective

\* Numbers stay numbers of calls when another call begins.
LEMMA SeqMonotone ==
  ASSUME NEW S, NEW T, S \subseteq T, NEW s \in Seq(S)
  PROVE  s \in Seq(T)
<1>1. Len(s) \in Nat /\ DOMAIN s = 1 .. Len(s) /\ \A i \in 1 .. Len(s) : s[i] \in S
  OBVIOUS
<1>2. s \in [1 .. Len(s) -> T] BY <1>1
<1> QED BY <1>1, <1>2

\* Every step keeps the types.
LEMMA TypeStep == SharedInv /\ [Next]_vars => TypeOK'
<1> SUFFICES ASSUME SharedInv, [Next]_vars PROVE TypeOK' OBVIOUS
<1> USE DEF SharedInv, sets, history, Goes
<1>1. ASSUME NEW t \in Threads, NEW kind \in Kinds, NEW id \in Ids, CheckActive(t, kind, id) PROVE TypeOK'
  <2>0. calls \in 0 .. MaxCalls /\ calls < MaxCalls /\ calls' = calls + 1
    BY <1>1 DEF CheckActive, TypeOK
  <2>1. calls \in Nat /\ calls' \in 0 .. MaxCalls BY <2>0, CallsAssumption
  <2>2. 1 .. calls \subseteq 1 .. calls' BY <2>0, <2>1
  <2>3. operations \in Seq(1 .. calls') /\ got \in Seq(1 .. calls')
    BY <2>2, SeqMonotone DEF TypeOK
  <2>4. Seq(1 .. calls) \subseteq Seq(1 .. calls') BY <2>2, SeqMonotone
  <2>5. results \in Seq(Seq(1 .. calls')) BY <2>4, SeqMonotone DEF TypeOK
  <2>6. acked' \subseteq 1 .. calls' /\ promised' \subseteq acked' BY <1>1, <2>2 DEF CheckActive, TypeOK
  <2> QED BY <1>1, <2>1, <2>3, <2>5, <2>6 DEF CheckActive, TypeOK
<1>2. ASSUME NEW t \in Threads, StageWrite(t) PROVE TypeOK'
  <2>1. call[t].id \in Ids BY <1>2 DEF StageWrite, CallInv, MutationPlaces
  <2> QED BY <1>2, <2>1 DEF StageWrite, TypeOK
<1>3. ASSUME NEW t \in Threads, LogOperation(t) PROVE TypeOK'
  <2>1. call[t].number \in 1 .. calls BY <1>3 DEF LogOperation, LogInv, MutationPlaces
  <2>2. operations' \in Seq(1 .. calls)
    <3>1. operations \in Seq(1 .. calls) BY DEF TypeOK
    <3>2. operations' = Append(operations, call[t].number) BY <1>3 DEF LogOperation
    <3> QED BY <2>1, <3>1, <3>2
  <2>3. acked' \subseteq 1 .. calls /\ promised' \subseteq acked' BY <1>3, <2>1 DEF LogOperation, TypeOK
  <2> QED BY <1>3, <2>2, <2>3 DEF LogOperation, TypeOK
<1>4. ASSUME NEW t \in Threads, NEW id \in Ids, CheckRead(t, id) PROVE TypeOK'
  BY <1>4 DEF CheckRead, TypeOK, States, CommitPlaces
<1>5. ASSUME NEW t \in Threads, TrackRead(t) PROVE TypeOK'
  <2>1. call[t].id \in Ids BY <1>5 DEF TrackRead, CallInv, MutationPlaces
  <2> QED BY <1>5, <2>1 DEF TrackRead, TypeOK
<1>6. ASSUME NEW t \in Threads, Prepare(t) PROVE TypeOK'
  BY <1>6 DEF Prepare, TypeOK, States, CommitPlaces
<1>7. ASSUME NEW t \in Threads, Validate(t) PROVE TypeOK'
  BY <1>7 DEF Validate, TypeOK, States, CommitPlaces
<1>8. ASSUME NEW t \in Threads, Collect(t) PROVE TypeOK'
  BY <1>8 DEF Collect, TypeOK, States, CommitPlaces
<1>9. ASSUME NEW t \in Threads, MarkCommitted(t) PROVE TypeOK'
  <2>1. results' \in Seq(Seq(1 .. calls)) /\ got' \in Seq(1 .. calls)
    <3>1. got \in Seq(1 .. calls) /\ results \in Seq(Seq(1 .. calls)) BY DEF TypeOK
    <3>2. results' = Append(results, got) /\ got' = <<>> BY <1>9 DEF MarkCommitted
    <3> QED BY <3>1, <3>2
  <2> QED BY <1>9, <2>1 DEF MarkCommitted, TypeOK, States, CommitPlaces
<1>10. ASSUME NEW t \in Threads, Rollback(t) PROVE TypeOK'
  BY <1>10 DEF Rollback, TypeOK, States, CommitPlaces
<1>11. ASSUME NEW t \in Threads, SetAborted(t) PROVE TypeOK'
  BY <1>11 DEF SetAborted, TypeOK, States, CommitPlaces
<1>12. ASSUME NEW t \in Threads, ClearOperations(t) PROVE TypeOK'
  <2>1. operations' \in Seq(1 .. calls)
    <3>1. operations' = <<>> BY <1>12 DEF ClearOperations
    <3> QED BY <3>1
  <2> QED BY <1>12, <2>1 DEF ClearOperations, TypeOK, States, CommitPlaces
<1>13. ASSUME NEW t \in Threads, ClearReads(t) PROVE TypeOK'
  BY <1>13 DEF ClearReads, TypeOK, States, CommitPlaces
<1>14. ASSUME NEW t \in Threads, ClearWrites(t) PROVE TypeOK'
  BY <1>14 DEF ClearWrites, TypeOK, States, CommitPlaces
<1>15. ASSUME Cleanup PROVE TypeOK'
  BY <1>15 DEF Cleanup, TypeOK, States, CommitPlaces
<1>16. CASE UNCHANGED vars
  BY <1>16 DEF vars, TypeOK, States, CommitPlaces
<1> QED BY <1>1, <1>2, <1>3, <1>4, <1>5, <1>6, <1>7, <1>8, <1>9, <1>10, <1>11, <1>12, <1>13, <1>14, <1>15, <1>16 DEF Next, Calls, Runs

\* A thread knows its call until it returns.
LEMMA CallStep == SharedInv /\ [Next]_vars => CallInv'
<1> SUFFICES ASSUME SharedInv, [Next]_vars PROVE CallInv' OBVIOUS
<1> USE DEF SharedInv, sets, history, Goes
<1>1. ASSUME NEW t \in Threads, NEW kind \in Kinds, NEW id \in Ids, CheckActive(t, kind, id) PROVE CallInv'
  <2>0. calls \in 0 .. MaxCalls /\ calls' = calls + 1 BY <1>1 DEF CheckActive, TypeOK
  <2>1. calls \in Nat /\ calls' = calls + 1 BY <2>0, CallsAssumption
  <2>2. 0 .. calls \subseteq 0 .. calls' /\ calls' \in 0 .. calls' BY <2>1
  <2> QED BY <1>1, <2>2 DEF CheckActive, CallInv, TypeOK, MutationPlaces
<1>2. ASSUME NEW t \in Threads, StageWrite(t) PROVE CallInv'
  BY <1>2 DEF StageWrite, CallInv, TypeOK, NoCall, MutationPlaces, CommitPlaces
<1>3. ASSUME NEW t \in Threads, LogOperation(t) PROVE CallInv'
  <2>1. calls \in 0 .. MaxCalls BY DEF TypeOK
  <2>2. NoCall \in [kind : Kinds \cup {"read", "none"}, id : Ids \cup {0}, number : 0 .. calls]
    BY <2>1, CallsAssumption DEF NoCall
  <2> QED BY <1>3, <2>2 DEF LogOperation, CallInv, TypeOK, MutationPlaces, CommitPlaces
<1>4. ASSUME NEW t \in Threads, NEW id \in Ids, CheckRead(t, id) PROVE CallInv'
  <2>1. calls \in 0 .. MaxCalls BY DEF TypeOK
  <2>2. [kind |-> "read", id |-> id, number |-> 0]
           \in [kind : Kinds \cup {"read", "none"}, id : Ids \cup {0}, number : 0 .. calls]
    BY <2>1, CallsAssumption
  <2> QED BY <1>4, <2>2 DEF CheckRead, CallInv, TypeOK, MutationPlaces, CommitPlaces
<1>5. ASSUME NEW t \in Threads, TrackRead(t) PROVE CallInv'
  <2>1. calls \in 0 .. MaxCalls BY DEF TypeOK
  <2>2. NoCall \in [kind : Kinds \cup {"read", "none"}, id : Ids \cup {0}, number : 0 .. calls]
    BY <2>1, CallsAssumption DEF NoCall
  <2> QED BY <1>5, <2>2 DEF TrackRead, CallInv, TypeOK, MutationPlaces, CommitPlaces
<1>6. ASSUME NEW t \in Threads, Prepare(t) PROVE CallInv'
  BY <1>6 DEF Prepare, CallInv, TypeOK, NoCall, MutationPlaces, CommitPlaces
<1>7. ASSUME NEW t \in Threads, Validate(t) PROVE CallInv'
  BY <1>7 DEF Validate, CallInv, TypeOK, NoCall, MutationPlaces, CommitPlaces
<1>8. ASSUME NEW t \in Threads, Collect(t) PROVE CallInv'
  BY <1>8 DEF Collect, CallInv, TypeOK, NoCall, MutationPlaces, CommitPlaces
<1>9. ASSUME NEW t \in Threads, MarkCommitted(t) PROVE CallInv'
  BY <1>9 DEF MarkCommitted, CallInv, TypeOK, NoCall, MutationPlaces, CommitPlaces
<1>10. ASSUME NEW t \in Threads, Rollback(t) PROVE CallInv'
  BY <1>10 DEF Rollback, CallInv, TypeOK, NoCall, MutationPlaces, CommitPlaces
<1>11. ASSUME NEW t \in Threads, SetAborted(t) PROVE CallInv'
  BY <1>11 DEF SetAborted, CallInv, TypeOK, NoCall, MutationPlaces, CommitPlaces
<1>12. ASSUME NEW t \in Threads, ClearOperations(t) PROVE CallInv'
  BY <1>12 DEF ClearOperations, CallInv, TypeOK, NoCall, MutationPlaces, CommitPlaces
<1>13. ASSUME NEW t \in Threads, ClearReads(t) PROVE CallInv'
  BY <1>13 DEF ClearReads, CallInv, TypeOK, NoCall, MutationPlaces, CommitPlaces
<1>14. ASSUME NEW t \in Threads, ClearWrites(t) PROVE CallInv'
  BY <1>14 DEF ClearWrites, CallInv, TypeOK, NoCall, MutationPlaces, CommitPlaces
<1>15. ASSUME Cleanup PROVE CallInv'
  BY <1>15 DEF Cleanup, CallInv, TypeOK, NoCall, MutationPlaces, CommitPlaces
<1>16. CASE UNCHANGED vars
  BY <1>16 DEF vars, CallInv, TypeOK, NoCall, MutationPlaces, CommitPlaces
<1> QED BY <1>1, <1>2, <1>3, <1>4, <1>5, <1>6, <1>7, <1>8, <1>9, <1>10, <1>11, <1>12, <1>13, <1>14, <1>15, <1>16 DEF Next, Calls, Runs

\* Only Prepare lets a thread into a commit, and it finds nobody there.
LEMMA OnceStep == SharedInv /\ [Next]_vars => OnceInv'
<1> SUFFICES ASSUME SharedInv, [Next]_vars PROVE OnceInv' OBVIOUS
<1> USE DEF SharedInv, sets, history, Goes
<1>1. ASSUME NEW t \in Threads, NEW kind \in Kinds, NEW id \in Ids, CheckActive(t, kind, id) PROVE OnceInv'
  BY <1>1 DEF CheckActive, OnceInv, TypeOK, CommitPlaces
<1>2. ASSUME NEW t \in Threads, StageWrite(t) PROVE OnceInv'
  BY <1>2 DEF StageWrite, OnceInv, TypeOK, CommitPlaces
<1>3. ASSUME NEW t \in Threads, LogOperation(t) PROVE OnceInv'
  BY <1>3 DEF LogOperation, OnceInv, TypeOK, CommitPlaces
<1>4. ASSUME NEW t \in Threads, NEW id \in Ids, CheckRead(t, id) PROVE OnceInv'
  BY <1>4 DEF CheckRead, OnceInv, TypeOK, CommitPlaces
<1>5. ASSUME NEW t \in Threads, TrackRead(t) PROVE OnceInv'
  BY <1>5 DEF TrackRead, OnceInv, TypeOK, CommitPlaces
<1>6. ASSUME NEW t \in Threads, Prepare(t) PROVE OnceInv'
  BY <1>6 DEF Prepare, OnceInv, TypeOK, CommitPlaces
<1>7. ASSUME NEW t \in Threads, Validate(t) PROVE OnceInv'
  BY <1>7 DEF Validate, OnceInv, TypeOK, CommitPlaces
<1>8. ASSUME NEW t \in Threads, Collect(t) PROVE OnceInv'
  BY <1>8 DEF Collect, OnceInv, TypeOK, CommitPlaces
<1>9. ASSUME NEW t \in Threads, MarkCommitted(t) PROVE OnceInv'
  <2>1. results = <<>> /\ \A u \in Threads : pc[u] \in CommitPlaces => u = t
    BY <1>9 DEF MarkCommitted, OnceInv, CommitPlaces
  <2>2. Len(results') = 1
    <3>1. results' = Append(<<>>, got) BY <1>9, <2>1 DEF MarkCommitted
    <3> QED BY <3>1
  <2>3. state' = "Committed" /\ pc' = [pc EXCEPT ![t] = "idle"] BY <1>9 DEF MarkCommitted
  <2>4. \A u \in Threads : pc'[u] \notin CommitPlaces BY <2>1, <2>3 DEF TypeOK, CommitPlaces
  <2> QED BY <2>2, <2>3, <2>4 DEF OnceInv
<1>10. ASSUME NEW t \in Threads, Rollback(t) PROVE OnceInv'
  BY <1>10 DEF Rollback, OnceInv, TypeOK, CommitPlaces
<1>11. ASSUME NEW t \in Threads, SetAborted(t) PROVE OnceInv'
  BY <1>11 DEF SetAborted, OnceInv, TypeOK, CommitPlaces
<1>12. ASSUME NEW t \in Threads, ClearOperations(t) PROVE OnceInv'
  BY <1>12 DEF ClearOperations, OnceInv, TypeOK, CommitPlaces
<1>13. ASSUME NEW t \in Threads, ClearReads(t) PROVE OnceInv'
  BY <1>13 DEF ClearReads, OnceInv, TypeOK, CommitPlaces
<1>14. ASSUME NEW t \in Threads, ClearWrites(t) PROVE OnceInv'
  BY <1>14 DEF ClearWrites, OnceInv, TypeOK, CommitPlaces
<1>15. ASSUME Cleanup PROVE OnceInv'
  BY <1>15 DEF Cleanup, OnceInv, TypeOK, CommitPlaces
<1>16. CASE UNCHANGED vars
  BY <1>16 DEF vars, OnceInv, TypeOK, CommitPlaces
<1> QED BY <1>1, <1>2, <1>3, <1>4, <1>5, <1>6, <1>7, <1>8, <1>9, <1>10, <1>11, <1>12, <1>13, <1>14, <1>15, <1>16 DEF Next, Calls, Runs

\* Without rollbacks only the thread that prepared ends the transaction.
LEMMA FinalStep == SharedInv /\ [Next]_vars => FinalInv'
<1> SUFFICES ASSUME SharedInv, [Next]_vars PROVE FinalInv' OBVIOUS
<1> USE DEF SharedInv, sets, history, Goes
<1>1. ASSUME NEW t \in Threads, NEW kind \in Kinds, NEW id \in Ids, CheckActive(t, kind, id) PROVE FinalInv'
  BY <1>1 DEF CheckActive, FinalInv, OnceInv, TypeOK, CommitPlaces, EndPlaces
<1>2. ASSUME NEW t \in Threads, StageWrite(t) PROVE FinalInv'
  BY <1>2 DEF StageWrite, FinalInv, OnceInv, TypeOK, CommitPlaces, EndPlaces
<1>3. ASSUME NEW t \in Threads, LogOperation(t) PROVE FinalInv'
  BY <1>3 DEF LogOperation, FinalInv, OnceInv, TypeOK, CommitPlaces, EndPlaces
<1>4. ASSUME NEW t \in Threads, NEW id \in Ids, CheckRead(t, id) PROVE FinalInv'
  BY <1>4 DEF CheckRead, FinalInv, OnceInv, TypeOK, CommitPlaces, EndPlaces
<1>5. ASSUME NEW t \in Threads, TrackRead(t) PROVE FinalInv'
  BY <1>5 DEF TrackRead, FinalInv, OnceInv, TypeOK, CommitPlaces, EndPlaces
<1>6. ASSUME NEW t \in Threads, Prepare(t) PROVE FinalInv'
  BY <1>6 DEF Prepare, FinalInv, OnceInv, TypeOK, CommitPlaces, EndPlaces
<1>7. ASSUME NEW t \in Threads, Validate(t) PROVE FinalInv'
  BY <1>7 DEF Validate, FinalInv, OnceInv, TypeOK, CommitPlaces, EndPlaces
<1>8. ASSUME NEW t \in Threads, Collect(t) PROVE FinalInv'
  <2>1. /\ pc[t] \in EndPlaces /\ UNCHANGED <<state, managed, rollbacks>>
        /\ pc = [u \in Threads |-> pc[u]] /\ pc' = [pc EXCEPT ![t] = "mark"]
    BY <1>8 DEF Collect, TypeOK, CommitPlaces, EndPlaces
  <2>2. \A u \in Threads : pc'[u] \in EndPlaces => pc[u] \in EndPlaces BY <2>1
  <2>3. \A u \in Threads : pc'[u] = "clear" => pc[u] = "clear" BY <2>1
  <2> QED BY <2>1, <2>2, <2>3 DEF FinalInv
<1>9. ASSUME NEW t \in Threads, MarkCommitted(t) PROVE FinalInv'
  BY <1>9 DEF MarkCommitted, FinalInv, OnceInv, TypeOK, CommitPlaces, EndPlaces
<1>10. ASSUME NEW t \in Threads, Rollback(t) PROVE FinalInv'
  BY <1>10 DEF Rollback, FinalInv, OnceInv, TypeOK, CommitPlaces, EndPlaces
<1>11. ASSUME NEW t \in Threads, SetAborted(t) PROVE FinalInv'
  BY <1>11 DEF SetAborted, FinalInv, OnceInv, TypeOK, CommitPlaces, EndPlaces
<1>12. ASSUME NEW t \in Threads, ClearOperations(t) PROVE FinalInv'
  BY <1>12 DEF ClearOperations, FinalInv, OnceInv, TypeOK, CommitPlaces, EndPlaces
<1>13. ASSUME NEW t \in Threads, ClearReads(t) PROVE FinalInv'
  BY <1>13 DEF ClearReads, FinalInv, OnceInv, TypeOK, CommitPlaces, EndPlaces
<1>14. ASSUME NEW t \in Threads, ClearWrites(t) PROVE FinalInv'
  BY <1>14 DEF ClearWrites, FinalInv, OnceInv, TypeOK, CommitPlaces, EndPlaces
<1>15. ASSUME Cleanup PROVE FinalInv'
  <2>1. state' \in {"Committed", "Aborted"} BY <1>15 DEF Cleanup, TypeOK, States
  <2>2. state' = state /\ pc' = pc /\ rollbacks' = rollbacks BY <1>15 DEF Cleanup
  <2> QED BY <2>1, <2>2 DEF FinalInv
<1>16. CASE UNCHANGED vars
  BY <1>16 DEF vars, FinalInv, OnceInv, TypeOK, CommitPlaces, EndPlaces
<1> QED BY <1>1, <1>2, <1>3, <1>4, <1>5, <1>6, <1>7, <1>8, <1>9, <1>10, <1>11, <1>12, <1>13, <1>14, <1>15, <1>16 DEF Next, Calls, Runs

\* A step that touches neither log and starts no mutation keeps the two apart.
LEMMA LogFrame ==
    ASSUME LogInv,
           UNCHANGED <<state, operations, got, calls, acked, promised, rollbacks>>,
           \A u \in Threads : /\ pc'[u] \in MutationPlaces => pc[u] \in MutationPlaces /\ call'[u] = call[u]
                              /\ pc'[u] = "mark" => pc[u] = "mark"
    PROVE  LogInv'
<1>1. IsInjective(operations') /\ IsInjective(got') BY DEF LogInv
<1>2. ASSUME NEW u \in Threads, pc'[u] \in MutationPlaces
      PROVE  /\ call'[u].number \in (1 .. calls') \ ToSet(operations')
             /\ \A w \in Threads \ {u} : pc'[w] \in MutationPlaces => call'[w].number # call'[u].number
  <2>1. pc[u] \in MutationPlaces /\ call'[u] = call[u] BY <1>2
  <2>2. call[u].number \in (1 .. calls) \ ToSet(operations) BY <2>1 DEF LogInv
  <2>3. ASSUME NEW w \in Threads \ {u}, pc'[w] \in MutationPlaces PROVE call'[w].number # call'[u].number
    <3>1. pc[w] \in MutationPlaces /\ call'[w] = call[w] BY <2>3
    <3>2. call[w].number # call[u].number BY <2>1, <3>1 DEF LogInv
    <3> QED BY <2>1, <3>1, <3>2
  <2> QED BY <2>1, <2>2, <2>3
<1>3. ~rollbacks' /\ state' # "Aborted" => acked' \subseteq ToSet(operations') BY DEF LogInv
<1>4. ASSUME NEW u \in Threads, ~rollbacks', pc'[u] = "mark" PROVE promised' \subseteq ToSet(got')
  <2>1. pc[u] = "mark" /\ ~rollbacks BY <1>4
  <2> QED BY <2>1 DEF LogInv
<1> QED BY <1>1, <1>2, <1>3, <1>4 DEF LogInv

\* The log and the calls under way stay apart.
LEMMA LogStep == SharedInv /\ [Next]_vars => LogInv'
<1> SUFFICES ASSUME SharedInv, [Next]_vars PROVE LogInv' OBVIOUS
<1> USE DEF SharedInv, sets, history, Goes
<1>1. ASSUME NEW t \in Threads, NEW kind \in Kinds, NEW id \in Ids, CheckActive(t, kind, id) PROVE LogInv'
  <2>1. calls \in Nat /\ calls' = calls + 1
    <3>1. calls \in 0 .. MaxCalls /\ calls' = calls + 1 BY <1>1 DEF CheckActive, TypeOK
    <3> QED BY <3>1, CallsAssumption
  <2>2. operations \in Seq(1 .. calls) BY DEF TypeOK
  <2>3. ToSet(operations) \subseteq 1 .. calls
    <3>1. \A i \in DOMAIN operations : operations[i] \in 1 .. calls
      BY <2>2, ElementOfSeq, DOMAIN operations = 1 .. Len(operations)
    <3> QED BY <3>1 DEF ToSet
  <2>4. calls' \in (1 .. calls') \ ToSet(operations) BY <2>1, <2>3
  <2>5. /\ pc' = [pc EXCEPT ![t] = "stage"]
        /\ call' = [call EXCEPT ![t] = [kind |-> kind, id |-> id, number |-> calls']]
        /\ UNCHANGED <<operations, got, rollbacks, state, acked, promised>>
    BY <1>1 DEF CheckActive
  <2>6. call'[t].number = calls' BY <2>5 DEF CallInv
  <2>7. \A u \in Threads \ {t} : call'[u] = call[u] /\ pc'[u] = pc[u] BY <2>5 DEF CallInv, TypeOK
  <2>8. \A u \in Threads \ {t} : pc[u] \in MutationPlaces =>
           call[u].number \in (1 .. calls') \ ToSet(operations) /\ call[u].number # calls'
    BY <2>1 DEF LogInv
  <2>9. \A u \in Threads : pc'[u] \in MutationPlaces =>
          /\ call'[u].number \in (1 .. calls') \ ToSet(operations)
          /\ \A w \in Threads \ {u} : pc'[w] \in MutationPlaces => call'[w].number # call'[u].number
    BY <2>4, <2>6, <2>7, <2>8 DEF LogInv
  <2>10. \A u \in Threads : pc'[u] = "mark" => pc[u] = "mark" BY <2>5 DEF TypeOK
  <2> QED BY <2>5, <2>9, <2>10 DEF LogInv
<1>2. ASSUME NEW t \in Threads, StageWrite(t) PROVE LogInv'
  BY <1>2 DEF StageWrite, LogInv, OnceInv, FinalInv, TypeOK, CommitPlaces, EndPlaces, MutationPlaces
<1>3. ASSUME NEW t \in Threads, LogOperation(t) PROVE LogInv'
  <2>1. /\ operations \in Seq(1 .. calls)
        /\ call[t].number \in 1 .. calls /\ call[t].number \notin ToSet(operations)
    BY <1>3 DEF LogOperation, LogInv, TypeOK, MutationPlaces
  <2>2. operations' = Append(operations, call[t].number) BY <1>3 DEF LogOperation
  <2>3. IsInjective(operations') BY <2>1, <2>2, InjectiveAppend DEF LogInv
  <2>4. ToSet(operations') = ToSet(operations) \cup {call[t].number}
    <3> DEFINE C == 1 .. calls
               n == call[t].number
    <3>1. operations \in Seq(C) /\ n \in C /\ operations' = Append(operations, n) BY <2>1, <2>2
    <3> HIDE DEF C, n
    <3>2. ToSet(Append(operations, n)) = ToSet(operations) \cup {n} BY <3>1, ToSetAppend
    <3>3. ToSet(operations') = ToSet(operations) \cup {n} BY <3>1, <3>2, Zenon DEF ToSet
    <3> QED BY <3>3 DEF n
  <2>5. \A u \in Threads : pc'[u] \in MutationPlaces =>
           pc[u] \in MutationPlaces /\ u # t /\ call'[u] = call[u]
    BY <1>3 DEF LogOperation, TypeOK, CallInv, MutationPlaces
  <2>6. pc[t] \in MutationPlaces BY <1>3 DEF LogOperation, MutationPlaces
  <2>7. \A u \in Threads : pc'[u] \in MutationPlaces =>
          /\ call'[u].number \in (1 .. calls') \ ToSet(operations')
          /\ \A w \in Threads \ {u} : pc'[w] \in MutationPlaces => call'[w].number # call'[u].number
    <3>1. calls' = calls BY <1>3 DEF LogOperation
    <3>2. SUFFICES ASSUME NEW u \in Threads, pc'[u] \in MutationPlaces
          PROVE /\ call[u].number \in (1 .. calls) \ ToSet(operations)
                /\ call[u].number # call[t].number
                /\ \A w \in Threads \ {u} : pc'[w] \in MutationPlaces => call'[w].number # call[u].number
      BY <2>4, <2>5, <3>1
    <3>3. pc[u] \in MutationPlaces /\ u # t BY <2>5, <3>2
    <3> QED BY <2>5, <2>6, <3>3 DEF LogInv
  <2>8. ~rollbacks' /\ state' # "Aborted" => acked' \subseteq ToSet(operations')
    BY <1>3, <2>4 DEF LogOperation, LogInv
  <2>9. \A u \in Threads : ~rollbacks' /\ pc'[u] = "mark" => promised' \subseteq ToSet(got')
    <3>1. /\ pc' = [pc EXCEPT ![t] = "idle"] /\ promised' = promised /\ got' = got
          /\ rollbacks' = rollbacks
      BY <1>3 DEF LogOperation
    <3> QED BY <3>1 DEF LogInv, TypeOK
  <2>10. got' = got BY <1>3 DEF LogOperation
  <2> QED BY <2>3, <2>7, <2>8, <2>9, <2>10 DEF LogInv
<1>4. ASSUME NEW t \in Threads, NEW id \in Ids, CheckRead(t, id) PROVE LogInv'
  <2>1. /\ pc' = [pc EXCEPT ![t] = "read"]
        /\ call' = [call EXCEPT ![t] = [kind |-> "read", id |-> id, number |-> 0]]
        /\ UNCHANGED <<state, operations, got, calls, acked, promised, rollbacks>>
    BY <1>4 DEF CheckRead
  <2>2. \A u \in Threads : /\ pc'[u] \in MutationPlaces => pc[u] \in MutationPlaces /\ call'[u] = call[u]
                           /\ pc'[u] = "mark" => pc[u] = "mark"
    BY <2>1 DEF TypeOK, CallInv, MutationPlaces
  <2> QED BY <2>1, <2>2, LogFrame
<1>5. ASSUME NEW t \in Threads, TrackRead(t) PROVE LogInv'
  <2>1. /\ pc' = [pc EXCEPT ![t] = "idle"] /\ call' = [call EXCEPT ![t] = NoCall]
        /\ UNCHANGED <<state, operations, got, calls, acked, promised, rollbacks>>
    BY <1>5 DEF TrackRead
  <2>2. \A u \in Threads : /\ pc'[u] \in MutationPlaces => pc[u] \in MutationPlaces /\ call'[u] = call[u]
                           /\ pc'[u] = "mark" => pc[u] = "mark"
    BY <2>1 DEF TypeOK, CallInv, MutationPlaces
  <2> QED BY <2>1, <2>2, LogFrame
<1>6. ASSUME NEW t \in Threads, Prepare(t) PROVE LogInv'
  BY <1>6 DEF Prepare, LogInv, OnceInv, FinalInv, TypeOK, CommitPlaces, EndPlaces, MutationPlaces
<1>7. ASSUME NEW t \in Threads, Validate(t) PROVE LogInv'
  <2>1. /\ \E place \in {"collect", "abort", "idle"} : pc' = [pc EXCEPT ![t] = place]
        /\ UNCHANGED <<state, operations, got, call, calls, acked, promised, rollbacks>>
    BY <1>7 DEF Validate
  <2>2. \A u \in Threads : /\ pc'[u] \in MutationPlaces => pc[u] \in MutationPlaces /\ call'[u] = call[u]
                           /\ pc'[u] = "mark" => pc[u] = "mark"
    BY <2>1 DEF TypeOK, MutationPlaces
  <2> QED BY <2>1, <2>2, LogFrame
<1>8. ASSUME NEW t \in Threads, Collect(t) PROVE LogInv'
  <2>1. /\ got' = operations /\ pc' = [pc EXCEPT ![t] = "mark"]
        /\ UNCHANGED <<state, operations, call, calls, acked, promised, rollbacks>>
    BY <1>8 DEF Collect
  <2>2. ~rollbacks => promised \subseteq ToSet(operations)
    <3>1. ~rollbacks => state = "Preparing"
      BY <1>8 DEF Collect, FinalInv, EndPlaces, CommitPlaces
    <3> QED BY <3>1 DEF LogInv, TypeOK
  <2>3. \A u \in Threads : pc'[u] \in MutationPlaces => pc[u] \in MutationPlaces
    BY <2>1 DEF TypeOK, MutationPlaces
  <2> QED BY <2>1, <2>2, <2>3 DEF LogInv
<1>9. ASSUME NEW t \in Threads, MarkCommitted(t) PROVE LogInv'
  <2>1. /\ got' = <<>> /\ pc' = [pc EXCEPT ![t] = "idle"] /\ state' = "Committed"
        /\ UNCHANGED <<operations, call, calls, acked, promised, rollbacks>>
    BY <1>9 DEF MarkCommitted
  <2>2. \A u \in Threads : pc'[u] \in MutationPlaces => pc[u] \in MutationPlaces
    BY <2>1 DEF TypeOK, MutationPlaces
  <2>3. \A u \in Threads : pc'[u] # "mark"
    BY <1>9, <2>1 DEF MarkCommitted, OnceInv, TypeOK, CommitPlaces
  <2>4. ~rollbacks => state # "Aborted"
    BY <1>9 DEF MarkCommitted, FinalInv, EndPlaces, CommitPlaces
  <2> QED BY <2>1, <2>2, <2>3, <2>4, EmptyLog DEF LogInv
<1>10. ASSUME NEW t \in Threads, Rollback(t) PROVE LogInv'
  BY <1>10 DEF Rollback, LogInv, OnceInv, FinalInv, TypeOK, CommitPlaces, EndPlaces, MutationPlaces
<1>11. ASSUME NEW t \in Threads, SetAborted(t) PROVE LogInv'
  BY <1>11 DEF SetAborted, LogInv, OnceInv, FinalInv, TypeOK, CommitPlaces, EndPlaces, MutationPlaces
<1>12. ASSUME NEW t \in Threads, ClearOperations(t) PROVE LogInv'
  <2>1. /\ operations' = <<>> /\ pc' = [pc EXCEPT ![t] = "clear reads"]
        /\ UNCHANGED <<state, got, call, calls, acked, promised, rollbacks>>
    BY <1>12 DEF ClearOperations
  <2>2. ~rollbacks => state = "Aborted" BY <1>12 DEF ClearOperations, FinalInv
  <2>3. \A u \in Threads : /\ pc'[u] \in MutationPlaces => pc[u] \in MutationPlaces
                           /\ pc'[u] = "mark" => pc[u] = "mark"
    BY <2>1 DEF TypeOK, MutationPlaces
  <2>4. IsInjective(operations') /\ ToSet(operations') = {} BY <2>1, EmptyLog
  <2>5. \A u \in Threads : pc'[u] \in MutationPlaces =>
          /\ call'[u].number \in (1 .. calls') \ ToSet(operations')
          /\ \A w \in Threads \ {u} : pc'[w] \in MutationPlaces => call'[w].number # call'[u].number
    <3>1. SUFFICES ASSUME NEW u \in Threads, pc'[u] \in MutationPlaces
                   PROVE  /\ call[u].number \in 1 .. calls
                          /\ \A w \in Threads \ {u} : pc'[w] \in MutationPlaces => call[w].number # call[u].number
      BY <2>1, <2>4
    <3>2. pc[u] \in MutationPlaces BY <2>3, <3>1
    <3> QED BY <2>3, <3>2 DEF LogInv
  <2>6. ~rollbacks' => state' = "Aborted" BY <2>1, <2>2
  <2>7. \A u \in Threads : ~rollbacks' /\ pc'[u] = "mark" => promised' \subseteq ToSet(got')
    <3>1. SUFFICES ASSUME NEW u \in Threads, ~rollbacks', pc'[u] = "mark" PROVE promised' \subseteq ToSet(got')
      OBVIOUS
    <3>2. ~rollbacks /\ pc[u] = "mark" /\ promised' = promised /\ got' = got BY <2>1, <2>3, <3>1
    <3> QED BY <3>2 DEF LogInv
  <2>8. IsInjective(got') BY <2>1 DEF LogInv
  <2> QED BY <2>4, <2>5, <2>6, <2>7, <2>8 DEF LogInv
<1>13. ASSUME NEW t \in Threads, ClearReads(t) PROVE LogInv'
  BY <1>13 DEF ClearReads, LogInv, OnceInv, FinalInv, TypeOK, CommitPlaces, EndPlaces, MutationPlaces
<1>14. ASSUME NEW t \in Threads, ClearWrites(t) PROVE LogInv'
  BY <1>14 DEF ClearWrites, LogInv, OnceInv, FinalInv, TypeOK, CommitPlaces, EndPlaces, MutationPlaces
<1>15. ASSUME Cleanup PROVE LogInv'
  BY <1>15 DEF Cleanup, LogInv, OnceInv, FinalInv, TypeOK, CommitPlaces, EndPlaces, MutationPlaces
<1>16. CASE UNCHANGED vars
  BY <1>16 DEF vars, LogInv, OnceInv, FinalInv, TypeOK, CommitPlaces, EndPlaces, MutationPlaces
<1> QED BY <1>1, <1>2, <1>3, <1>4, <1>5, <1>6, <1>7, <1>8, <1>9, <1>10, <1>11, <1>12, <1>13, <1>14, <1>15, <1>16 DEF Next, Calls, Runs

\* A commit returns what it cloned, and nothing is promised again after it.
LEMMA ResultStep == SharedInv /\ [Next]_vars => AcknowledgedAreCommitted'
<1> SUFFICES ASSUME SharedInv, [Next]_vars PROVE AcknowledgedAreCommitted' OBVIOUS
<1> USE DEF SharedInv, sets, history, Goes
<1>1. ASSUME NEW t \in Threads, NEW kind \in Kinds, NEW id \in Ids, CheckActive(t, kind, id) PROVE AcknowledgedAreCommitted'
  BY <1>1 DEF CheckActive, AcknowledgedAreCommitted
<1>2. ASSUME NEW t \in Threads, StageWrite(t) PROVE AcknowledgedAreCommitted'
  BY <1>2 DEF StageWrite, AcknowledgedAreCommitted
<1>3. ASSUME NEW t \in Threads, LogOperation(t) PROVE AcknowledgedAreCommitted'
  BY <1>3 DEF LogOperation, AcknowledgedAreCommitted
<1>4. ASSUME NEW t \in Threads, NEW id \in Ids, CheckRead(t, id) PROVE AcknowledgedAreCommitted'
  BY <1>4 DEF CheckRead, AcknowledgedAreCommitted
<1>5. ASSUME NEW t \in Threads, TrackRead(t) PROVE AcknowledgedAreCommitted'
  BY <1>5 DEF TrackRead, AcknowledgedAreCommitted
<1>6. ASSUME NEW t \in Threads, Prepare(t) PROVE AcknowledgedAreCommitted'
  <2>1. results' = <<>> BY <1>6 DEF Prepare, OnceInv
  <2>2. 1 .. Len(results') = {} BY <2>1
  <2> QED BY <2>2 DEF AcknowledgedAreCommitted
<1>7. ASSUME NEW t \in Threads, Validate(t) PROVE AcknowledgedAreCommitted'
  BY <1>7 DEF Validate, AcknowledgedAreCommitted
<1>8. ASSUME NEW t \in Threads, Collect(t) PROVE AcknowledgedAreCommitted'
  BY <1>8 DEF Collect, AcknowledgedAreCommitted
<1>9. ASSUME NEW t \in Threads, MarkCommitted(t) PROVE AcknowledgedAreCommitted'
  <2>1. results = <<>> BY <1>9 DEF MarkCommitted, OnceInv, CommitPlaces
  <2>2. results' = <<got>>
    <3>1. results' = Append(<<>>, got) BY <1>9, <2>1 DEF MarkCommitted
    <3> QED BY <3>1
  <2>3. Len(results') = 1 /\ results'[1] = got BY <2>2
  <2>4. IsInjective(got) /\ (~rollbacks => promised \subseteq ToSet(got)) BY <1>9 DEF MarkCommitted, LogInv
  <2>5. promised' = promised /\ rollbacks' = rollbacks BY <1>9 DEF MarkCommitted
  <2>6. \A i \in 1 .. Len(results') : i = 1 BY <2>3
  <2> QED BY <2>3, <2>4, <2>5, <2>6 DEF AcknowledgedAreCommitted
<1>10. ASSUME NEW t \in Threads, Rollback(t) PROVE AcknowledgedAreCommitted'
  BY <1>10 DEF Rollback, AcknowledgedAreCommitted
<1>11. ASSUME NEW t \in Threads, SetAborted(t) PROVE AcknowledgedAreCommitted'
  BY <1>11 DEF SetAborted, AcknowledgedAreCommitted
<1>12. ASSUME NEW t \in Threads, ClearOperations(t) PROVE AcknowledgedAreCommitted'
  BY <1>12 DEF ClearOperations, AcknowledgedAreCommitted
<1>13. ASSUME NEW t \in Threads, ClearReads(t) PROVE AcknowledgedAreCommitted'
  BY <1>13 DEF ClearReads, AcknowledgedAreCommitted
<1>14. ASSUME NEW t \in Threads, ClearWrites(t) PROVE AcknowledgedAreCommitted'
  BY <1>14 DEF ClearWrites, AcknowledgedAreCommitted
<1>15. ASSUME Cleanup PROVE AcknowledgedAreCommitted'
  BY <1>15 DEF Cleanup, AcknowledgedAreCommitted
<1>16. CASE UNCHANGED vars
  BY <1>16 DEF vars, AcknowledgedAreCommitted
<1> QED BY <1>1, <1>2, <1>3, <1>4, <1>5, <1>6, <1>7, <1>8, <1>9, <1>10, <1>11, <1>12, <1>13, <1>14, <1>15, <1>16 DEF Next, Calls, Runs

\* A new transaction satisfies the invariant.
LEMMA InitShared == Init => SharedInv
<1> SUFFICES ASSUME Init PROVE SharedInv OBVIOUS
<1> USE DEF Init
<1>1. TypeOK
  <2>1. operations \in Seq(1 .. calls) /\ got \in Seq(1 .. calls) /\ results \in Seq(Seq(1 .. calls))
    BY EmptySeq
  <2>2. calls \in 0 .. MaxCalls BY CallsAssumption
  <2>3. state \in States /\ managed \in BOOLEAN /\ rollbacks \in BOOLEAN BY DEF States
  <2> QED BY <2>1, <2>2, <2>3 DEF TypeOK
<1>2. CallInv BY DEF CallInv, NoCall, MutationPlaces
<1>3. OnceInv /\ FinalInv BY DEF OnceInv, FinalInv, CommitPlaces, EndPlaces
<1>4. LogInv BY EmptyLog DEF LogInv, MutationPlaces
<1>5. AcknowledgedAreCommitted
  <2>1. 1 .. Len(results) = {} OBVIOUS
  <2> QED BY <2>1 DEF AcknowledgedAreCommitted
<1> QED BY <1>1, <1>2, <1>3, <1>4, <1>5 DEF SharedInv

(***************************************************************************)
(* The fields of a shared Transaction agree with what its threads are      *)
(* doing, in every interleaving of their lock sections.                    *)
(***************************************************************************)
THEOREM SharedInvariance == Spec => []SharedInv
<1>1. SharedInv /\ [Next]_vars => SharedInv'
  BY TypeStep, CallStep, OnceStep, FinalStep, LogStep, ResultStep DEF SharedInv
<1> QED BY <1>1, InitShared, PTL DEF Spec

(***************************************************************************)
(* However many threads call commit, at most one of them gets the          *)
(* operations: Active is left under the lock that checked it.              *)
(***************************************************************************)
THEOREM OneCommit == Spec => []CommitsOnce
<1>1. SharedInv => CommitsOnce
  <2> SUFFICES ASSUME SharedInv PROVE CommitsOnce OBVIOUS
  <2> DEFINE Committing == {t \in Threads : pc[t] \in CommitPlaces}
  <2>1. Len(results) \in Nat /\ Len(results) <= 1
    <3>1. results \in Seq(Seq(1 .. calls)) BY DEF SharedInv, TypeOK
    <3> QED BY <3>1 DEF SharedInv, OnceInv
  <2>2. CASE Committing = {}
    <3>1. Cardinality(Committing) = 0 BY <2>2, FS_EmptySet
    <3> QED BY <2>1, <3>1 DEF CommitsOnce
  <2>3. CASE Committing # {}
    <3>1. PICK t \in Threads : pc[t] \in CommitPlaces BY <2>3
    <3>2. results = <<>> /\ Committing = {t} BY <3>1 DEF SharedInv, OnceInv
    <3>3. Cardinality(Committing) = 1 BY <3>2, FS_Singleton
    <3>4. Len(results) = 0 BY <3>2
    <3> QED BY <3>3, <3>4 DEF CommitsOnce
  <2> QED BY <2>2, <2>3
<1> QED BY <1>1, SharedInvariance, PTL

(***************************************************************************)
(* A commit that succeeds returns every operation acknowledged before it   *)
(* began, once, unless the transaction was rolled back.                    *)
(***************************************************************************)
THEOREM NothingAcknowledgedIsLost == Spec => []AcknowledgedAreCommitted
<1>1. SharedInv => AcknowledgedAreCommitted BY DEF SharedInv
<1> QED BY <1>1, SharedInvariance, PTL

(***************************************************************************)
(* The manager's cleanup drops no transaction that could still commit.     *)
(***************************************************************************)
THEOREM CleanupIsSafe == Spec => []CleanupDropsOnlyFinished
<1>1. SharedInv => CleanupDropsOnlyFinished
  BY DEF SharedInv, FinalInv, CleanupDropsOnlyFinished, EndPlaces, CommitPlaces
<1> QED BY <1>1, SharedInvariance, PTL

(***************************************************************************)
(* Without rollbacks a finished transaction stays as it is: the thread     *)
(* that prepared it is the only one that ends it.                          *)
(***************************************************************************)
THEOREM FinishedStays == Spec => FinishedIsFinal
<1>1. SharedInv /\ [Next]_vars =>
        [~rollbacks /\ state \in {"Committed", "Aborted"} => state' = state \/ rollbacks']_vars
  <2> SUFFICES ASSUME SharedInv, Next, ~rollbacks, state \in {"Committed", "Aborted"}
               PROVE  state' = state
    BY DEF vars
  <2>1. \A t \in Threads : pc[t] \notin EndPlaces BY DEF SharedInv, FinalInv
  <2>2. \A t \in Threads : ~Prepare(t) /\ ~MarkCommitted(t) /\ ~SetAborted(t)
    BY <2>1 DEF Prepare, MarkCommitted, SetAborted, EndPlaces, CommitPlaces
  <2>3. CASE Cleanup BY <2>3 DEF Cleanup
  <2>4. ASSUME NEW t \in Threads, Calls(t) PROVE state' = state
    BY <2>2, <2>4 DEF Calls, CheckActive, CheckRead, Rollback
  <2>5. ASSUME NEW t \in Threads, Runs(t) PROVE state' = state
    BY <2>2, <2>5 DEF Runs, StageWrite, LogOperation, TrackRead, Validate, Collect,
                      ClearOperations, ClearReads, ClearWrites
  <2> QED BY <2>3, <2>4, <2>5 DEF Next
<1> QED BY <1>1, SharedInvariance, PTL DEF Spec, FinishedIsFinal
=============================================================================
