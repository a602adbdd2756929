---------------------------- MODULE SessionsProofs ----------------------------
(***************************************************************************)
(* What concurrent write sessions may count on, for any number of sessions *)
(* and documents: nothing unlogged is visible, a receipt is true, and only *)
(* overlapping commits lose each other's work.                             *)
(***************************************************************************)
EXTENDS Sessions, SequenceTheorems, TLAPS

SessionRecord ==
    [phase : Phases, wal : Seq(Records), synced : Nat, sink : Seq(SessionDocs),
     pending : SUBSET SessionDocs, segments : SUBSET Sessions,
     deleted : SUBSET Marks, number : Nat, receipt : Int]

\* The steps that only one session sees, and those of a commit.
Early(s) ==
    \/ OpenSession(s) \/ FlushSession(s) \/ AbortSession(s) \/ CommitLog(s)
    \/ \E d \in SessionDocs : AddDocument(s, d) \/ DeleteDocument(s, d)
Late == {"reading", "read", "numbered", "committed"}

-----------------------------------------------------------------------------
(* Types.                                                                  *)

\* What current_snapshot returns is a snapshot.
LEMMA CurrentType ==
    ASSUME SessionTypes
    PROVE  /\ Current.version \in Nat /\ Current.segments \subseteq Sessions /\ Current.deleted \subseteq Marks
<1>1. EmptySnapshot.version \in Nat /\ EmptySnapshot.segments = {} /\ EmptySnapshot.deleted = {}
  BY DEF EmptySnapshot
<1> QED BY <1>1 DEF Current, SessionTypes

\* A field of a session's record has its type.
LEMMA RecordType ==
    ASSUME SessionTypes, NEW s \in Sessions
    PROVE  /\ session[s] \in SessionRecord
           /\ session[s].phase \in Phases /\ session[s].wal \in Seq(Records) /\ session[s].synced \in Nat
           /\ session[s].sink \in Seq(SessionDocs) /\ session[s].pending \subseteq SessionDocs
           /\ session[s].segments \subseteq Sessions /\ session[s].deleted \subseteq Marks
           /\ session[s].number \in Nat /\ session[s].receipt \in Int
<1>1. session[s] \in SessionRecord BY DEF SessionTypes, SessionRecord
<1> QED BY <1>1 DEF SessionRecord

\* Appending a record keeps the log a log, and changes what it holds by that record.
LEMMA AppendLog ==
    ASSUME NEW wal \in Seq(Records), NEW r \in Records
    PROVE  /\ Append(wal, r) \in Seq(Records) /\ Append(wal, r) # <<>>
           /\ Len(Append(wal, r)) \in Nat /\ Append(wal, r)[Len(Append(wal, r))] = r
           /\ Range(Append(wal, r)) = Range(wal) \cup {r}
<1>1. /\ Append(wal, r) \in Seq(Records) /\ Len(Append(wal, r)) = Len(wal) + 1 /\ Len(wal) \in Nat
      /\ \A i \in 1 .. Len(wal) : Append(wal, r)[i] = wal[i]
      /\ Append(wal, r)[Len(wal) + 1] = r
      /\ DOMAIN wal = 1 .. Len(wal) /\ DOMAIN Append(wal, r) = 1 .. Len(wal) + 1
  OBVIOUS
<1>2. Range(Append(wal, r)) = Range(wal) \cup {r} BY <1>1 DEF Range
<1>3. Append(wal, r) # <<>> BY <1>1
<1> QED BY <1>1, <1>2, <1>3

\* The same for the documents in a sink.
LEMMA AppendSink ==
    ASSUME NEW sink \in Seq(SessionDocs), NEW d \in SessionDocs
    PROVE  Append(sink, d) \in Seq(SessionDocs) /\ Range(Append(sink, d)) = Range(sink) \cup {d}
<1>1. /\ Append(sink, d) \in Seq(SessionDocs) /\ Len(sink) \in Nat
      /\ \A i \in 1 .. Len(sink) : Append(sink, d)[i] = sink[i]
      /\ Append(sink, d)[Len(sink) + 1] = d
      /\ DOMAIN sink = 1 .. Len(sink) /\ DOMAIN Append(sink, d) = 1 .. Len(sink) + 1
  OBVIOUS
<1> QED BY <1>1 DEF Range

\* The records a session writes.
LEMMA LogType ==
    /\ \A d \in SessionDocs : Log("add", d) \in Records /\ Log("delete", d) \in Records
    /\ Log("commit", 0) \in Records
    /\ \A d \in SessionDocs : /\ Log("add", d).op = "add" /\ Log("add", d).id = d
                              /\ Log("delete", d).op = "delete" /\ Log("delete", d).id = d
    /\ Log("commit", 0).op = "commit"
BY DEF Log, Records

-----------------------------------------------------------------------------
(* What a step does to the session that takes it, field by field.          *)

\* A private step leaves the controller and every other session alone.
LEMMA EarlyEffect ==
    ASSUME SessionTypes, NEW s \in Sessions, Early(s)
    PROVE  /\ UNCHANGED <<versions, version_next, overlapped>>
           /\ \A u \in Sessions \ {s} : session'[u] = session[u]
           /\ session[s].phase \in Phases \ Late /\ session'[s].phase \in Phases \ Late
           /\ session'[s] \in SessionRecord
           /\ session' = [session EXCEPT ![s] = session'[s]]
<1> USE DEF Private, Becomes, Phases, Late
<1> DEFINE t == session[s]
<1>0. t \in SessionRecord /\ session \in [Sessions -> SessionRecord] BY RecordType DEF SessionTypes, SessionRecord
<1>1. CASE OpenSession(s) BY <1>0, <1>1 DEF OpenSession, SessionRecord
<1>2. CASE FlushSession(s)
  <2>1. PICK p \in {"flushed", "failed"} : session' = [session EXCEPT ![s] = [t EXCEPT !.phase = p]]
    BY <1>2 DEF FlushSession
  <2>2. t.phase = "open" /\ UNCHANGED <<versions, version_next, overlapped>> BY <1>2 DEF FlushSession
  <2> QED BY <1>0, <2>1, <2>2 DEF SessionRecord
<1>3. CASE AbortSession(s) BY <1>0, <1>3 DEF AbortSession, SessionRecord
<1>4. CASE CommitLog(s)
  <2>1. t.wal \in Seq(Records) BY RecordType
  <2>2. Append(t.wal, Log("commit", 0)) \in Seq(Records) /\ Len(Append(t.wal, Log("commit", 0))) \in Nat
    BY <2>1, LogType, AppendLog
  <2>3. PICK p \in {"logged", "failed"}, n \in Nat :
           session' = [session EXCEPT ![s] = [[t EXCEPT !.wal = Append(t.wal, Log("commit", 0)), !.synced = n] EXCEPT !.phase = p]]
    <3>1. CASE Becomes(s, "logged", [t EXCEPT !.wal = Append(t.wal, Log("commit", 0)),
                                             !.synced = Len(Append(t.wal, Log("commit", 0)))])
      BY <2>2, <3>1
    <3>2. CASE Becomes(s, "failed", [t EXCEPT !.wal = Append(t.wal, Log("commit", 0))])
      <4>1. t.synced \in Nat /\ [t EXCEPT !.wal = Append(t.wal, Log("commit", 0))]
                                = [t EXCEPT !.wal = Append(t.wal, Log("commit", 0)), !.synced = t.synced]
        BY <1>0 DEF SessionRecord
      <4> QED BY <3>2, <4>1
    <3> QED BY <1>4, <3>1, <3>2 DEF CommitLog
  <2>4. t.phase = "flushed" /\ UNCHANGED <<versions, version_next, overlapped>> BY <1>4 DEF CommitLog
  <2> QED BY <1>0, <2>2, <2>3, <2>4 DEF SessionRecord
<1>5. ASSUME NEW d \in SessionDocs, AddDocument(s, d)
      PROVE  /\ UNCHANGED <<versions, version_next, overlapped>>
             /\ \A u \in Sessions \ {s} : session'[u] = session[u]
             /\ session[s].phase \in Phases \ Late /\ session'[s].phase \in Phases \ Late
             /\ session'[s] \in SessionRecord
             /\ session' = [session EXCEPT ![s] = session'[s]]
  <2>1. t.wal \in Seq(Records) /\ t.sink \in Seq(SessionDocs) BY RecordType
  <2>2. Append(t.wal, Log("add", d)) \in Seq(Records) BY <2>1, LogType, AppendLog
  <2>3. Append(t.sink, d) \in Seq(SessionDocs) BY <2>1, AppendSink
  <2>4. PICK sink \in {t.sink, Append(t.sink, d)} :
           session' = [session EXCEPT ![s] = [[t EXCEPT !.wal = Append(t.wal, Log("add", d)), !.sink = sink] EXCEPT !.phase = "open"]]
    BY <1>5 DEF AddDocument
  <2>5. sink \in Seq(SessionDocs) BY <2>1, <2>3
  <2>6. t.phase = "open" /\ UNCHANGED <<versions, version_next, overlapped>> BY <1>5 DEF AddDocument
  <2> QED BY <1>0, <2>2, <2>4, <2>5, <2>6 DEF SessionRecord
<1>6. ASSUME NEW d \in SessionDocs, DeleteDocument(s, d)
      PROVE  /\ UNCHANGED <<versions, version_next, overlapped>>
             /\ \A u \in Sessions \ {s} : session'[u] = session[u]
             /\ session[s].phase \in Phases \ Late /\ session'[s].phase \in Phases \ Late
             /\ session'[s] \in SessionRecord
             /\ session' = [session EXCEPT ![s] = session'[s]]
  <2>1. t.wal \in Seq(Records) BY RecordType
  <2>2. Append(t.wal, Log("delete", d)) \in Seq(Records) BY <2>1, LogType, AppendLog
  <2> QED BY <1>0, <1>6, <2>2 DEF DeleteDocument, SessionRecord
<1> QED BY <1>1, <1>2, <1>3, <1>4, <1>5, <1>6 DEF Early

\* The fields of a session that a commit does not change.
SameButReads(s) ==
    /\ session'[s].wal = session[s].wal /\ session'[s].synced = session[s].synced
    /\ session'[s].sink = session[s].sink /\ session'[s].pending = session[s].pending

LEMMA ReadSegmentsEffect ==
    ASSUME SessionTypes, NEW s \in Sessions, ReadSegments(s)
    PROVE  /\ UNCHANGED <<versions, version_next>> /\ overlapped' = (overlapped \/ Publishing # {})
           /\ \A u \in Sessions \ {s} : session'[u] = session[u]
           /\ session[s].phase = "logged" /\ session'[s].phase = "reading"
           /\ SameButReads(s)
           /\ session'[s].segments = Current.segments \cup (IF session[s].sink = NoSegment THEN {} ELSE {s})
           /\ session'[s] \in SessionRecord /\ session' = [session EXCEPT ![s] = session'[s]]
<1>1. session[s] \in SessionRecord /\ session \in [Sessions -> SessionRecord] BY RecordType DEF SessionTypes, SessionRecord
<1>2. Current.segments \cup (IF session[s].sink = NoSegment THEN {} ELSE {s}) \subseteq Sessions BY CurrentType
<1> QED BY <1>1, <1>2 DEF ReadSegments, Becomes, SameButReads, SessionRecord, Phases

LEMMA ReadDeletesEffect ==
    ASSUME SessionTypes, NEW s \in Sessions, ReadDeletes(s)
    PROVE  /\ UNCHANGED <<versions, version_next, overlapped>>
           /\ \A u \in Sessions \ {s} : session'[u] = session[u]
           /\ session[s].phase = "reading" /\ session'[s].phase = "read"
           /\ SameButReads(s) /\ session'[s].segments = session[s].segments
           /\ session'[s].deleted = Current.deleted \cup {Cut(d) : d \in session[s].pending}
           /\ session'[s] \in SessionRecord /\ session' = [session EXCEPT ![s] = session'[s]]
<1>1. session[s] \in SessionRecord /\ session \in [Sessions -> SessionRecord] BY RecordType DEF SessionTypes, SessionRecord
<1>2. Current.deleted \cup {Cut(d) : d \in session[s].pending} \subseteq Marks
  BY CurrentType, RecordType DEF Marks
<1> QED BY <1>1, <1>2 DEF ReadDeletes, Becomes, Private, SameButReads, SessionRecord, Phases

LEMMA CommitEmptyEffect ==
    ASSUME SessionTypes, NEW s \in Sessions, CommitEmpty(s)
    PROVE  /\ UNCHANGED <<versions, version_next, overlapped>>
           /\ \A u \in Sessions \ {s} : session'[u] = session[u]
           /\ session[s].phase = "read" /\ session'[s].phase = "committed"
           /\ SameButReads(s) /\ session[s].sink = NoSegment /\ session[s].pending = {}
           /\ session'[s] \in SessionRecord /\ session' = [session EXCEPT ![s] = session'[s]]
<1>1. session[s] \in SessionRecord /\ session \in [Sessions -> SessionRecord] BY RecordType DEF SessionTypes, SessionRecord
<1>2. Current.version \in Int BY CurrentType
<1> QED BY <1>1, <1>2 DEF CommitEmpty, Becomes, Private, SameButReads, SessionRecord, Phases

LEMMA TakeNumberEffect ==
    ASSUME SessionTypes, NEW s \in Sessions, TakeNumber(s)
    PROVE  /\ UNCHANGED <<versions, overlapped>> /\ version_next' = version_next + 1
           /\ \A u \in Sessions \ {s} : session'[u] = session[u]
           /\ session[s].phase = "read" /\ session'[s].phase = "numbered"
           /\ SameButReads(s) /\ session'[s].segments = session[s].segments
           /\ session'[s].deleted = session[s].deleted /\ session'[s].number = version_next
           /\ session'[s] \in SessionRecord /\ session' = [session EXCEPT ![s] = session'[s]]
<1>1. session[s] \in SessionRecord /\ session \in [Sessions -> SessionRecord] BY RecordType DEF SessionTypes, SessionRecord
<1>2. version_next \in Nat BY DEF SessionTypes
<1> QED BY <1>1, <1>2 DEF TakeNumber, Becomes, SameButReads, SessionRecord, Phases

LEMMA PublishEffect ==
    ASSUME SessionTypes, NEW s \in Sessions, Publish(s)
    PROVE  /\ UNCHANGED <<version_next, overlapped>>
           /\ DOMAIN versions' = DOMAIN versions \cup {session[s].number}
           /\ \A v \in DOMAIN versions \ {session[s].number} : versions'[v] = versions[v]
           /\ versions'[session[s].number].segments = session[s].segments
           /\ versions'[session[s].number].deleted = session[s].deleted
           /\ versions' \in [DOMAIN versions' -> [version : Nat, segments : SUBSET Sessions, deleted : SUBSET Marks]]
           /\ \A u \in Sessions \ {s} : session'[u] = session[u]
           /\ session[s].phase = "numbered" /\ session'[s].phase = "committed"
           /\ SameButReads(s) /\ session'[s].receipt = session[s].number
           /\ session'[s] \in SessionRecord /\ session' = [session EXCEPT ![s] = session'[s]]
<1>1. session[s] \in SessionRecord /\ session \in [Sessions -> SessionRecord] BY RecordType DEF SessionTypes, SessionRecord
<1>2. /\ session' = [session EXCEPT ![s] = [[session[s] EXCEPT !.receipt = session[s].number] EXCEPT !.phase = "committed"]]
      /\ session[s].phase = "numbered" /\ UNCHANGED <<version_next, overlapped>>
  BY DEF Publish, Becomes
<1>3. /\ session'[s].phase = "committed" /\ SameButReads(s) /\ session'[s].receipt = session[s].number
      /\ session'[s] \in SessionRecord /\ session' = [session EXCEPT ![s] = session'[s]]
      /\ \A u \in Sessions \ {s} : session'[u] = session[u]
  <2> DEFINE n == session[s].number
             t == [[session[s] EXCEPT !.receipt = n] EXCEPT !.phase = "committed"]
  <2>1. n \in Int /\ "committed" \in Phases BY RecordType DEF Phases
  <2>2. t \in SessionRecord
    <3> HIDE DEF n
    <3> QED BY <1>1, <2>1 DEF SessionRecord
  <2>3. session'[s] = t BY <1>1, <1>2
  <2>4. t.phase = "committed" /\ t.receipt = n /\ t.wal = session[s].wal /\ t.synced = session[s].synced
        /\ t.sink = session[s].sink /\ t.pending = session[s].pending
    BY <1>1 DEF SessionRecord
  <2>5. \A u \in Sessions \ {s} : session'[u] = session[u] BY <1>1, <1>2
  <2>6. session' = [session EXCEPT ![s] = session'[s]] BY <1>2, <2>3
  <2> QED BY <2>2, <2>3, <2>4, <2>5, <2>6 DEF SameButReads
<1>4. versions' = [v \in DOMAIN versions \cup {session[s].number} |->
                      IF v = session[s].number
                      THEN [version |-> session[s].number, segments |-> session[s].segments,
                            deleted |-> session[s].deleted]
                      ELSE versions[v]]
  BY DEF Publish
<1>5. [version |-> session[s].number, segments |-> session[s].segments, deleted |-> session[s].deleted]
        \in [version : Nat, segments : SUBSET Sessions, deleted : SUBSET Marks]
  BY RecordType
<1>6. versions \in [DOMAIN versions -> [version : Nat, segments : SUBSET Sessions, deleted : SUBSET Marks]]
  BY DEF SessionTypes
<1>7. versions' \in [DOMAIN versions' -> [version : Nat, segments : SUBSET Sessions, deleted : SUBSET Marks]]
  <2> DEFINE Snapshots == [version : Nat, segments : SUBSET Sessions, deleted : SUBSET Marks]
             new == [version |-> session[s].number, segments |-> session[s].segments,
                     deleted |-> session[s].deleted]
  <2>1. new \in Snapshots BY <1>5
  <2>2. versions \in [DOMAIN versions -> Snapshots] BY <1>6
  <2>3. versions' = [v \in DOMAIN versions \cup {session[s].number} |->
                        IF v = session[s].number THEN new ELSE versions[v]]
    BY <1>4
  <2> HIDE DEF Snapshots, new
  <2>4. versions' \in [DOMAIN versions' -> Snapshots] BY <2>1, <2>2, <2>3
  <2> QED BY <2>4 DEF Snapshots
<1>8. /\ DOMAIN versions' = DOMAIN versions \cup {session[s].number}
      /\ \A v \in DOMAIN versions \ {session[s].number} : versions'[v] = versions[v]
      /\ versions'[session[s].number].segments = session[s].segments
      /\ versions'[session[s].number].deleted = session[s].deleted
  BY <1>4
<1> QED BY <1>2, <1>3, <1>7, <1>8

\* Every step is one of these.
LEMMA StepsOfSessions ==
    ASSUME SessionNext
    PROVE  \E s \in Sessions : \/ Early(s) \/ ReadSegments(s) \/ ReadDeletes(s) \/ CommitEmpty(s)
                               \/ TakeNumber(s) \/ Publish(s)
BY DEF SessionNext, Early

LEMMA TypesStep == SessionInv /\ [SessionNext]_sessionVars => SessionTypes'
<1> SUFFICES ASSUME SessionInv, [SessionNext]_sessionVars PROVE SessionTypes' OBVIOUS
<1>0. SessionTypes BY DEF SessionInv
<1>1. CASE UNCHANGED sessionVars BY <1>0, <1>1 DEF sessionVars, SessionTypes
<1>2. CASE SessionNext
  <2>1. PICK s \in Sessions : \/ Early(s) \/ ReadSegments(s) \/ ReadDeletes(s) \/ CommitEmpty(s)
                              \/ TakeNumber(s) \/ Publish(s)
    BY <1>2, StepsOfSessions
  <2>2. session'[s] \in SessionRecord /\ session' = [session EXCEPT ![s] = session'[s]]
    BY <1>0, <2>1, EarlyEffect, ReadSegmentsEffect, ReadDeletesEffect, CommitEmptyEffect,
       TakeNumberEffect, PublishEffect
  <2>3. session' \in [Sessions -> SessionRecord] BY <1>0, <2>2 DEF SessionTypes, SessionRecord
  <2>4. version_next' \in Nat
    <3>1. version_next' \in {version_next, version_next + 1}
      BY <1>0, <2>1, EarlyEffect, ReadSegmentsEffect, ReadDeletesEffect, CommitEmptyEffect,
         TakeNumberEffect, PublishEffect
    <3> QED BY <1>0, <3>1 DEF SessionTypes
  <2>5. overlapped' \in BOOLEAN
    <3>1. overlapped' = overlapped \/ overlapped' \in BOOLEAN
      BY <1>0, <2>1, EarlyEffect, ReadSegmentsEffect, ReadDeletesEffect, CommitEmptyEffect,
         TakeNumberEffect, PublishEffect
    <3> QED BY <1>0, <3>1 DEF SessionTypes
  <2>6. /\ versions' \in [DOMAIN versions' -> [version : Nat, segments : SUBSET Sessions, deleted : SUBSET Marks]]
        /\ DOMAIN versions' \subseteq Nat
    <3>1. CASE Publish(s)
      <4>1. session[s].number \in Nat BY <1>0, RecordType
      <4>2. /\ DOMAIN versions' = DOMAIN versions \cup {session[s].number}
            /\ versions' \in [DOMAIN versions' -> [version : Nat, segments : SUBSET Sessions, deleted : SUBSET Marks]]
        BY <1>0, <3>1, PublishEffect
      <4> QED BY <1>0, <4>1, <4>2 DEF SessionTypes
    <3>2. CASE ~Publish(s)
      <4>1. versions' = versions
        BY <1>0, <2>1, <3>2, EarlyEffect, ReadSegmentsEffect, ReadDeletesEffect, CommitEmptyEffect,
           TakeNumberEffect
      <4> QED BY <1>0, <4>1 DEF SessionTypes
    <3> QED BY <3>1, <3>2
  <2> QED BY <2>3, <2>4, <2>5, <2>6 DEF SessionTypes, SessionRecord
<1> QED BY <1>1, <1>2

-----------------------------------------------------------------------------
(* The log.                                                                *)

LEMMA LogAheadStep == SessionInv /\ [SessionNext]_sessionVars => LogAhead'
<1> SUFFICES ASSUME SessionInv, [SessionNext]_sessionVars PROVE LogAhead' OBVIOUS
<1>0. SessionTypes /\ LogAhead BY DEF SessionInv
<1> DEFINE Ids(wal, op) == {r.id : r \in {x \in Range(wal) : x.op = op}}
           Ahead(t) == /\ Range(t.sink) \subseteq Ids(t.wal, "add")
                       /\ t.pending \subseteq Ids(t.wal, "delete")
                       /\ t.phase \in AfterLog => /\ t.synced = Len(t.wal) /\ t.wal # <<>>
                                                  /\ t.wal[Len(t.wal)].op = "commit"
<1>1. \A u \in Sessions : Ahead(session[u]) BY <1>0 DEF LogAhead
<1>2. SUFFICES \A u \in Sessions : Ahead(session'[u]) BY DEF LogAhead
<1>3. ASSUME NEW wal \in Seq(Records), NEW r \in Records
      PROVE  \A op : Ids(wal, op) \subseteq Ids(Append(wal, r), op)
  <2>1. Range(wal) \subseteq Range(Append(wal, r)) BY AppendLog
  <2> QED BY <2>1
<1>4. CASE UNCHANGED sessionVars BY <1>1, <1>4 DEF sessionVars
<1>5. CASE SessionNext
  <2>1. PICK s \in Sessions : \/ Early(s) \/ ReadSegments(s) \/ ReadDeletes(s) \/ CommitEmpty(s)
                              \/ TakeNumber(s) \/ Publish(s)
    BY <1>5, StepsOfSessions
  <2> DEFINE t == session[s]
  <2>2. \A u \in Sessions \ {s} : session'[u] = session[u]
    BY <1>0, <2>1, EarlyEffect, ReadSegmentsEffect, ReadDeletesEffect, CommitEmptyEffect,
       TakeNumberEffect, PublishEffect
  <2>3. /\ t \in SessionRecord /\ session \in [Sessions -> SessionRecord]
        /\ t.wal \in Seq(Records) /\ t.sink \in Seq(SessionDocs)
    BY <1>0, RecordType DEF SessionTypes, SessionRecord
  <2> HIDE DEF Ids
  <2>4. SUFFICES Ahead(session'[s]) BY <1>1, <2>2
  <2>5. Ahead(t) BY <1>1
  <2>6. CASE ReadSegments(s) \/ ReadDeletes(s) \/ CommitEmpty(s) \/ TakeNumber(s) \/ Publish(s)
    <3>1. SameButReads(s) /\ t.phase \in AfterLog
      BY <1>0, <2>6, ReadSegmentsEffect, ReadDeletesEffect, CommitEmptyEffect, TakeNumberEffect,
         PublishEffect DEF AfterLog
    <3> QED BY <2>5, <3>1 DEF SameButReads
  <2>7. CASE OpenSession(s) \/ FlushSession(s) \/ AbortSession(s)
    <3>1. PICK p \in {"open", "flushed", "failed", "aborted"} : session' = [session EXCEPT ![s] = [t EXCEPT !.phase = p]]
      BY <2>7 DEF OpenSession, FlushSession, AbortSession, Becomes
    <3>2. session'[s] = [t EXCEPT !.phase = p] BY <2>3, <3>1
    <3>3. /\ session'[s].phase = p /\ session'[s].sink = t.sink /\ session'[s].pending = t.pending
          /\ session'[s].wal = t.wal
      BY <2>3, <3>2 DEF SessionRecord
    <3> QED BY <2>5, <3>3 DEF AfterLog
  <2>8. CASE CommitLog(s)
    <3> DEFINE wal == Append(t.wal, Log("commit", 0))
    <3>1. /\ wal \in Seq(Records) /\ wal # <<>> /\ wal[Len(wal)] = Log("commit", 0)
          /\ Ids(t.wal, "add") \subseteq Ids(wal, "add") /\ Ids(t.wal, "delete") \subseteq Ids(wal, "delete")
      BY <1>3, <2>3, LogType, AppendLog
    <3>2. \/ session'[s] = [[t EXCEPT !.wal = wal, !.synced = Len(wal)] EXCEPT !.phase = "logged"]
          \/ session'[s] = [[t EXCEPT !.wal = wal] EXCEPT !.phase = "failed"]
      BY <2>3, <2>8 DEF CommitLog, Becomes
    <3> HIDE DEF wal
    <3>3. /\ session'[s].sink = t.sink /\ session'[s].pending = t.pending /\ session'[s].wal = wal
          /\ session'[s].phase = "failed" \/ session'[s].synced = Len(wal)
      BY <2>3, <3>2 DEF SessionRecord
    <3>4. Log("commit", 0).op = "commit" BY LogType
    <3> QED BY <2>5, <3>1, <3>3, <3>4 DEF AfterLog
  <2>9. ASSUME NEW d \in SessionDocs, AddDocument(s, d) PROVE Ahead(session'[s])
    <3> DEFINE wal == Append(t.wal, Log("add", d))
    <3>1. /\ wal \in Seq(Records) /\ Range(wal) = Range(t.wal) \cup {Log("add", d)}
          /\ Ids(t.wal, "add") \subseteq Ids(wal, "add") /\ Ids(t.wal, "delete") \subseteq Ids(wal, "delete")
      BY <1>3, <2>3, LogType, AppendLog
    <3>2. d \in Ids(wal, "add") BY <3>1, LogType DEF Ids
    <3> HIDE DEF wal
    <3>3. PICK sink \in {t.sink, Append(t.sink, d)} :
             session'[s] = [[t EXCEPT !.wal = wal, !.sink = sink] EXCEPT !.phase = "open"]
      BY <2>3, <2>9 DEF AddDocument, Becomes, wal
    <3>4. /\ session'[s].sink = sink /\ session'[s].pending = t.pending /\ session'[s].wal = wal
          /\ session'[s].phase = "open"
      BY <2>3, <3>3 DEF SessionRecord
    <3>5. Range(sink) \subseteq Range(t.sink) \cup {d} BY <2>3, <3>3, AppendSink
    <3> QED BY <2>5, <3>1, <3>2, <3>4, <3>5 DEF AfterLog
  <2>10. ASSUME NEW d \in SessionDocs, DeleteDocument(s, d) PROVE Ahead(session'[s])
    <3> DEFINE wal == Append(t.wal, Log("delete", d))
    <3>1. /\ wal \in Seq(Records) /\ Range(wal) = Range(t.wal) \cup {Log("delete", d)}
          /\ Ids(t.wal, "add") \subseteq Ids(wal, "add") /\ Ids(t.wal, "delete") \subseteq Ids(wal, "delete")
      BY <1>3, <2>3, LogType, AppendLog
    <3>2. d \in Ids(wal, "delete") BY <3>1, LogType DEF Ids
    <3> HIDE DEF wal
    <3>3. session'[s] = [[t EXCEPT !.wal = wal, !.pending = t.pending \cup {d}] EXCEPT !.phase = "open"]
      BY <2>3, <2>10 DEF DeleteDocument, Becomes, wal
    <3>4. /\ session'[s].sink = t.sink /\ session'[s].pending = t.pending \cup {d} /\ session'[s].wal = wal
          /\ session'[s].phase = "open"
      BY <2>3, <3>3 DEF SessionRecord
    <3> QED BY <2>5, <3>1, <3>2, <3>4 DEF AfterLog
  <2> QED BY <2>1, <2>6, <2>7, <2>8, <2>9, <2>10 DEF Early
<1> QED BY <1>4, <1>5

-----------------------------------------------------------------------------
(* What is visible.                                                        *)

\* A private step changes neither what is committed nor what is being published.
LEMMA EarlyFrame ==
    ASSUME SessionTypes, NEW s \in Sessions, Early(s)
    PROVE  /\ Committed' = Committed /\ Publishing' = Publishing /\ Current' = Current
           /\ \A u \in Committed \cup Publishing : session'[u] = session[u] /\ u # s
           /\ \A S \in SUBSET (Committed \cup Publishing) : MarksOf(S)' = MarksOf(S)
           /\ UNCHANGED <<versions, version_next, overlapped>>
           /\ session[s].phase \notin Late /\ session'[s].phase \notin Late
<1>1. /\ UNCHANGED <<versions, version_next, overlapped>>
      /\ \A u \in Sessions \ {s} : session'[u] = session[u]
      /\ session[s].phase \notin Late /\ session'[s].phase \notin Late
  BY EarlyEffect
<1>2. Committed' = Committed /\ Publishing' = Publishing BY <1>1 DEF Committed, Publishing, Late
<1>3. \A u \in Committed \cup Publishing : session'[u] = session[u] /\ u # s
  BY <1>1 DEF Committed, Publishing, Late
<1>4. Current' = Current BY <1>1 DEF Current
<1>5. \A S \in SUBSET (Committed \cup Publishing) : MarksOf(S)' = MarksOf(S) BY <1>3 DEF MarksOf
<1> QED BY <1>1, <1>2, <1>3, <1>4, <1>5

\* A step of a commit changes what no session brings.
LEMMA LateFrame ==
    ASSUME SessionTypes, NEW s \in Sessions,
           ReadSegments(s) \/ ReadDeletes(s) \/ CommitEmpty(s) \/ TakeNumber(s) \/ Publish(s)
    PROVE  /\ \A u \in Sessions : session'[u].sink = session[u].sink /\ session'[u].pending = session[u].pending
           /\ \A S \in SUBSET Sessions : MarksOf(S)' = MarksOf(S)
           /\ \A u \in Sessions \ {s} : session'[u] = session[u]
           /\ (CommitEmpty(s) \/ Publish(s)) => Committed' = Committed \cup {s} /\ Publishing' = Publishing \ {s}
           /\ ~(CommitEmpty(s) \/ Publish(s)) => Committed' = Committed /\ Publishing' = Publishing \cup {s}
<1>1. SameButReads(s) /\ \A u \in Sessions \ {s} : session'[u] = session[u]
  BY ReadSegmentsEffect, ReadDeletesEffect, CommitEmptyEffect, TakeNumberEffect, PublishEffect
<1>2. \A u \in Sessions : session'[u].sink = session[u].sink /\ session'[u].pending = session[u].pending
  BY <1>1 DEF SameButReads
<1>3. \A S \in SUBSET Sessions : MarksOf(S)' = MarksOf(S) BY <1>2 DEF MarksOf
<1>4. (CommitEmpty(s) \/ Publish(s)) => /\ session[s].phase \in {"read", "numbered"}
                                        /\ session'[s].phase = "committed"
  BY CommitEmptyEffect, PublishEffect
<1>5. ~(CommitEmpty(s) \/ Publish(s)) => /\ session[s].phase # "committed"
                                         /\ session'[s].phase \in {"reading", "read", "numbered"}
  BY ReadSegmentsEffect, ReadDeletesEffect, TakeNumberEffect
<1>6. (CommitEmpty(s) \/ Publish(s)) => Committed' = Committed \cup {s} /\ Publishing' = Publishing \ {s}
  BY <1>1, <1>4 DEF Committed, Publishing
<1>7. ~(CommitEmpty(s) \/ Publish(s)) => Committed' = Committed /\ Publishing' = Publishing \cup {s}
  BY <1>1, <1>5 DEF Committed, Publishing
<1> QED BY <1>1, <1>2, <1>3, <1>6, <1>7

\* The newest snapshot shows only what is committed.
LEMMA CurrentCommitted ==
    ASSUME SessionTypes, OnlyCommitted
    PROVE  Current.segments \subseteq Committed /\ Current.deleted \subseteq MarksOf(Committed)
<1>1. EmptySnapshot.segments = {} /\ EmptySnapshot.deleted = {} BY DEF EmptySnapshot
<1> QED BY <1>1 DEF Current, OnlyCommitted

LEMMA MarksGrow == \A S, R : S \subseteq R => MarksOf(S) \subseteq MarksOf(R)
BY DEF MarksOf

LEMMA OnlyCommittedStep == SessionInv /\ [SessionNext]_sessionVars => OnlyCommitted'
<1> SUFFICES ASSUME SessionInv, [SessionNext]_sessionVars PROVE OnlyCommitted' OBVIOUS
<1>0. SessionTypes /\ OnlyCommitted BY DEF SessionInv
<1>1. CASE UNCHANGED sessionVars
  BY <1>0, <1>1 DEF sessionVars, OnlyCommitted, Committed, Publishing, MarksOf
<1>2. CASE SessionNext
  <2>1. PICK s \in Sessions : \/ Early(s) \/ ReadSegments(s) \/ ReadDeletes(s) \/ CommitEmpty(s)
                              \/ TakeNumber(s) \/ Publish(s)
    BY <1>2, StepsOfSessions
  <2>2. CASE Early(s)
    <3>1. /\ Committed' = Committed /\ Publishing' = Publishing /\ versions' = versions
          /\ \A u \in Publishing : session'[u] = session[u]
          /\ MarksOf(Committed)' = MarksOf(Committed)
      BY <1>0, <2>2, EarlyFrame
    <3>2. \A u \in Committed : session'[u] = session[u] BY <1>0, <2>2, EarlyFrame
    <3>3. \A u \in Publishing : {Cut(d) : d \in UNION {session'[x].pending : x \in Committed \cup {u}}}
                                = MarksOf(Committed \cup {u})
      BY <3>1, <3>2 DEF MarksOf
    <3>4. ASSUME NEW u \in Publishing'
          PROVE  /\ session'[u].segments \subseteq Committed' \cup {u}
                 /\ session'[u].phase # "reading" =>
                       session'[u].deleted \subseteq {Cut(d) : d \in UNION {session'[x].pending : x \in Committed' \cup {u}}}
      <4>1. u \in Publishing /\ session'[u] = session[u] BY <3>1, <3>4
      <4>2. /\ session[u].segments \subseteq Committed \cup {u}
            /\ session[u].phase # "reading" => session[u].deleted \subseteq MarksOf(Committed \cup {u})
        BY <1>0, <4>1 DEF OnlyCommitted
      <4> QED BY <3>1, <3>3, <4>1, <4>2
    <3>5. \A v \in DOMAIN versions' : /\ versions'[v].segments \subseteq Committed'
                                      /\ versions'[v].deleted \subseteq MarksOf(Committed)'
      BY <1>0, <3>1 DEF OnlyCommitted
    <3> QED BY <3>4, <3>5 DEF OnlyCommitted, MarksOf
  <2>3. CASE ReadSegments(s) \/ ReadDeletes(s) \/ CommitEmpty(s) \/ TakeNumber(s) \/ Publish(s)
    <3> DEFINE C == Committed'
    <3>1. /\ \A S \in SUBSET Sessions : MarksOf(S)' = MarksOf(S)
          /\ \A u \in Sessions \ {s} : session'[u] = session[u]
          /\ Committed \subseteq C /\ C \subseteq Sessions /\ Publishing' \subseteq Publishing \cup {s}
      BY <1>0, <2>3, LateFrame DEF Committed
    <3>2. \A S \in SUBSET Sessions : {Cut(d) : d \in UNION {session'[x].pending : x \in S}} = MarksOf(S)
      BY <1>0, <2>3, LateFrame DEF MarksOf
    <3>3. MarksOf(Committed) \subseteq MarksOf(C) /\ \A u \in Sessions : MarksOf(Committed \cup {u}) \subseteq MarksOf(C \cup {u})
      <4>1. \A u \in Sessions : Committed \cup {u} \subseteq C \cup {u} BY <3>1
      <4> QED BY <3>1, <4>1, MarksGrow
    <3>4. \A v \in DOMAIN versions' : versions'[v].segments \subseteq C /\ versions'[v].deleted \subseteq MarksOf(C)
      <4>1. CASE Publish(s)
        <5>1. s \in Publishing /\ session[s].phase # "reading" /\ C = Committed \cup {s}
          BY <1>0, <4>1, PublishEffect, LateFrame DEF Publishing
        <5>2. session[s].segments \subseteq C /\ session[s].deleted \subseteq MarksOf(C)
          BY <1>0, <5>1 DEF OnlyCommitted
        <5>3. /\ DOMAIN versions' = DOMAIN versions \cup {session[s].number}
              /\ \A v \in DOMAIN versions \ {session[s].number} : versions'[v] = versions[v]
              /\ versions'[session[s].number].segments = session[s].segments
              /\ versions'[session[s].number].deleted = session[s].deleted
          BY <1>0, <4>1, PublishEffect
        <5> HIDE DEF C
        <5>4. \A v \in DOMAIN versions : versions[v].segments \subseteq C /\ versions[v].deleted \subseteq MarksOf(C)
          BY <1>0, <3>1, <3>3 DEF OnlyCommitted
        <5> QED BY <5>2, <5>3, <5>4
      <4>2. CASE ~Publish(s)
        <5>1. versions' = versions
          BY <1>0, <2>3, <4>2, ReadSegmentsEffect, ReadDeletesEffect, CommitEmptyEffect, TakeNumberEffect
        <5> QED BY <1>0, <3>1, <3>3, <5>1 DEF OnlyCommitted
      <4> QED BY <4>1, <4>2
    <3>5. ASSUME NEW u \in Publishing', u # s
          PROVE  /\ session'[u].segments \subseteq C \cup {u}
                 /\ session'[u].phase # "reading" => session'[u].deleted \subseteq MarksOf(C \cup {u})
      <4>1. u \in Publishing /\ u \in Sessions /\ session'[u] = session[u] BY <3>1, <3>5 DEF Publishing
      <4>2. /\ session[u].segments \subseteq Committed \cup {u}
            /\ session[u].phase # "reading" => session[u].deleted \subseteq MarksOf(Committed \cup {u})
        BY <1>0, <4>1 DEF OnlyCommitted
      <4>3. MarksOf(Committed \cup {u}) \subseteq MarksOf(C \cup {u}) BY <3>3, <4>1
      <4> HIDE DEF C
      <4> QED BY <3>1, <4>1, <4>2, <4>3
    <3>6. s \in Publishing' => /\ session'[s].segments \subseteq C \cup {s}
                               /\ session'[s].phase # "reading" => session'[s].deleted \subseteq MarksOf(C \cup {s})
      <4>1. CASE ReadSegments(s)
        <5>1. session'[s].segments \subseteq Current.segments \cup {s} /\ session'[s].phase = "reading"
          BY <1>0, <4>1, ReadSegmentsEffect
        <5> QED BY <1>0, <3>1, <5>1, CurrentCommitted
      <4>2. CASE ReadDeletes(s)
        <5>1. /\ session'[s].segments = session[s].segments /\ s \in Publishing
              /\ session'[s].deleted = Current.deleted \cup {Cut(d) : d \in session[s].pending}
          BY <1>0, <4>2, ReadDeletesEffect DEF Publishing
        <5>2. session[s].segments \subseteq Committed \cup {s} BY <1>0, <5>1 DEF OnlyCommitted
        <5>3. {Cut(d) : d \in session[s].pending} \subseteq MarksOf(Committed \cup {s}) BY DEF MarksOf
        <5>4. Current.deleted \subseteq MarksOf(Committed) BY <1>0, CurrentCommitted
        <5>5. MarksOf(Committed) \subseteq MarksOf(Committed \cup {s}) BY MarksGrow
        <5>6. MarksOf(Committed \cup {s}) \subseteq MarksOf(C \cup {s}) BY <3>3
        <5> HIDE DEF C
        <5> QED BY <3>1, <5>1, <5>2, <5>3, <5>4, <5>5, <5>6
      <4>3. CASE TakeNumber(s)
        <5>1. /\ session'[s].segments = session[s].segments /\ session'[s].deleted = session[s].deleted
              /\ s \in Publishing /\ session[s].phase # "reading"
          BY <1>0, <4>3, TakeNumberEffect DEF Publishing
        <5>2. session[s].segments \subseteq Committed \cup {s} /\ session[s].deleted \subseteq MarksOf(Committed \cup {s})
          BY <1>0, <5>1 DEF OnlyCommitted
        <5>3. MarksOf(Committed \cup {s}) \subseteq MarksOf(C \cup {s}) BY <3>3
        <5> HIDE DEF C
        <5> QED BY <3>1, <5>1, <5>2, <5>3
      <4>4. CASE CommitEmpty(s) \/ Publish(s)
        <5>1. s \notin Publishing' BY <1>0, <4>4, LateFrame
        <5> QED BY <5>1
      <4> QED BY <2>3, <4>1, <4>2, <4>3, <4>4
    <3>7. \A u \in Publishing' : /\ session'[u].segments \subseteq C \cup {u}
                                 /\ session'[u].phase # "reading" => session'[u].deleted \subseteq MarksOf(C \cup {u})
      BY <3>5, <3>6
    <3>8. \A u \in Publishing' : u \in Sessions BY DEF Publishing
    <3>9. \A v \in DOMAIN versions' :
             versions'[v].deleted \subseteq {Cut(d) : d \in UNION {session'[x].pending : x \in C}}
      BY <3>1, <3>2, <3>4
    <3>10. \A u \in Publishing' : session'[u].phase # "reading" =>
             session'[u].deleted \subseteq {Cut(d) : d \in UNION {session'[x].pending : x \in C \cup {u}}}
      <4> SUFFICES ASSUME NEW u \in Publishing', session'[u].phase # "reading"
                   PROVE  session'[u].deleted \subseteq {Cut(d) : d \in UNION {session'[x].pending : x \in C \cup {u}}}
        OBVIOUS
      <4>1. C \cup {u} \in SUBSET Sessions BY <3>1, <3>8
      <4>2. {Cut(d) : d \in UNION {session'[x].pending : x \in C \cup {u}}} = MarksOf(C \cup {u}) BY <3>2, <4>1
      <4>3. session'[u].deleted \subseteq MarksOf(C \cup {u}) BY <3>7
      <4> QED BY <4>2, <4>3
    <3>11. /\ \A v \in DOMAIN versions' : versions'[v].segments \subseteq Committed'
           /\ \A u \in Publishing' : session'[u].segments \subseteq Committed' \cup {u}
      BY <3>4, <3>7
    <3> QED BY <3>9, <3>10, <3>11 DEF OnlyCommitted, MarksOf
  <2> QED BY <2>1, <2>2, <2>3
<1> QED BY <1>1, <1>2

-----------------------------------------------------------------------------
(* The numbers of the snapshots, and the receipts.                         *)

LEMMA NumbersStep == SessionInv /\ [SessionNext]_sessionVars => NumbersTaken'
<1> SUFFICES ASSUME SessionInv, [SessionNext]_sessionVars PROVE NumbersTaken' OBVIOUS
<1>0. SessionTypes /\ NumbersTaken /\ version_next \in Nat BY DEF SessionInv, SessionTypes
<1>1. CASE UNCHANGED sessionVars BY <1>0, <1>1 DEF sessionVars, NumbersTaken, Publishing
<1>2. CASE SessionNext
  <2>1. PICK s \in Sessions : \/ Early(s) \/ ReadSegments(s) \/ ReadDeletes(s) \/ CommitEmpty(s)
                              \/ TakeNumber(s) \/ Publish(s)
    BY <1>2, StepsOfSessions
  <2>2. CASE Early(s)
    <3>1. /\ Publishing' = Publishing /\ UNCHANGED <<versions, version_next>>
          /\ \A u \in Publishing : session'[u] = session[u]
      BY <1>0, <2>2, EarlyFrame
    <3>2. \A u \in Sessions : (session[u].phase = "numbered" => u \in Publishing)
                             /\ (session'[u].phase = "numbered" => u \in Publishing')
      BY DEF Publishing
    <3> QED BY <1>0, <3>1, <3>2 DEF NumbersTaken
  <2>3. CASE ReadSegments(s)
    <3>1. /\ UNCHANGED <<versions, version_next>> /\ \A u \in Sessions \ {s} : session'[u] = session[u]
          /\ session'[s].phase = "reading" /\ session'[s].sink = session[s].sink
          /\ session[s].sink # NoSegment => s \in session'[s].segments
      BY <1>0, <2>3, ReadSegmentsEffect DEF SameButReads
    <3>2. Publishing' \subseteq Publishing \cup {s} BY <1>0, <2>3, LateFrame
    <3>3. \A u \in Publishing' : u \in Sessions BY DEF Publishing
    <3> QED BY <1>0, <3>1, <3>2, <3>3 DEF NumbersTaken
  <2>4. CASE ReadDeletes(s)
    <3>1. /\ UNCHANGED <<versions, version_next>> /\ \A u \in Sessions \ {s} : session'[u] = session[u]
          /\ session'[s].phase = "read" /\ session'[s].sink = session[s].sink
          /\ session'[s].segments = session[s].segments /\ session'[s].pending = session[s].pending
          /\ {Cut(d) : d \in session[s].pending} \subseteq session'[s].deleted
          /\ s \in Publishing
      BY <1>0, <2>4, ReadDeletesEffect DEF SameButReads, Publishing
    <3>2. Publishing' \subseteq Publishing \cup {s} BY <1>0, <2>4, LateFrame
    <3>3. \A u \in Publishing' : u \in Sessions BY DEF Publishing
    <3> QED BY <1>0, <3>1, <3>2, <3>3 DEF NumbersTaken
  <2>5. CASE CommitEmpty(s)
    <3>1. /\ UNCHANGED <<versions, version_next>> /\ \A u \in Sessions \ {s} : session'[u] = session[u]
          /\ session'[s].phase = "committed"
      BY <1>0, <2>5, CommitEmptyEffect
    <3>2. Publishing' = Publishing \ {s} BY <1>0, <2>5, LateFrame
    <3>3. \A u \in Publishing' : u \in Sessions BY DEF Publishing
    <3> QED BY <1>0, <3>1, <3>2, <3>3 DEF NumbersTaken
  <2>6. CASE TakeNumber(s)
    <3>1. /\ versions' = versions /\ version_next' = version_next + 1
          /\ \A u \in Sessions \ {s} : session'[u] = session[u]
          /\ session'[s].phase = "numbered" /\ session'[s].number = version_next
          /\ session'[s].sink = session[s].sink /\ session'[s].pending = session[s].pending
          /\ session'[s].segments = session[s].segments /\ session'[s].deleted = session[s].deleted
          /\ session[s].phase = "read" /\ s \in Publishing
      BY <1>0, <2>6, TakeNumberEffect DEF SameButReads, Publishing
    <3>2. Publishing' = Publishing \cup {s}
      <4>1. ~(CommitEmpty(s) \/ Publish(s)) BY <1>0, <3>1, CommitEmptyEffect, PublishEffect
      <4> QED BY <1>0, <2>6, <4>1, LateFrame
    <3>3. /\ \A v \in DOMAIN versions : v < version_next /\ v \in Nat
          /\ \A u \in Sessions : session[u].number \in Nat
          /\ \A u \in Sessions : session[u].phase = "numbered" => session[u].number < version_next
      BY <1>0, RecordType DEF NumbersTaken, SessionTypes
    <3>4. \A v \in DOMAIN versions' : v < version_next' BY <1>0, <3>1, <3>3
    <3>5. ASSUME NEW u \in Sessions, session'[u].phase = "numbered"
          PROVE  /\ session'[u].number < version_next' /\ session'[u].number \notin DOMAIN versions'
                 /\ \A w \in Sessions : session'[w].phase = "numbered" /\ session'[w].number = session'[u].number => w = u
      <4>1. CASE u = s BY <1>0, <3>1, <3>3, <4>1
      <4>2. CASE u # s BY <1>0, <3>1, <3>3, <3>5, <4>2 DEF NumbersTaken
      <4> QED BY <4>1, <4>2
    <3>6. \A u \in Publishing' :
             /\ session'[u].sink # NoSegment => u \in session'[u].segments
             /\ session'[u].phase # "reading" => {Cut(d) : d \in session'[u].pending} \subseteq session'[u].deleted
      <4>1. \A u \in Publishing : u \in Sessions BY DEF Publishing
      <4> QED BY <1>0, <3>1, <3>2, <4>1 DEF NumbersTaken
    <3> QED BY <3>4, <3>5, <3>6 DEF NumbersTaken
  <2>7. CASE Publish(s)
    <3>1. /\ version_next' = version_next /\ \A u \in Sessions \ {s} : session'[u] = session[u]
          /\ session'[s].phase = "committed" /\ session[s].phase = "numbered"
          /\ DOMAIN versions' = DOMAIN versions \cup {session[s].number}
      BY <1>0, <2>7, PublishEffect
    <3>2. Publishing' = Publishing \ {s} BY <1>0, <2>7, LateFrame
    <3>3. \A u \in Publishing' : u \in Sessions BY DEF Publishing
    <3> QED BY <1>0, <3>1, <3>2, <3>3 DEF NumbersTaken
  <2> QED BY <2>1, <2>2, <2>3, <2>4, <2>5, <2>6, <2>7
<1> QED BY <1>1, <1>2

LEMMA ReceiptStep == SessionInv /\ [SessionNext]_sessionVars => ReceiptHonest'
<1> SUFFICES ASSUME SessionInv, [SessionNext]_sessionVars PROVE ReceiptHonest' OBVIOUS
<1>0. SessionTypes /\ NumbersTaken /\ ReceiptHonest BY DEF SessionInv
<1>1. CASE UNCHANGED sessionVars BY <1>0, <1>1 DEF sessionVars, ReceiptHonest
<1>2. CASE SessionNext
  <2>1. PICK s \in Sessions : \/ Early(s) \/ ReadSegments(s) \/ ReadDeletes(s) \/ CommitEmpty(s)
                              \/ TakeNumber(s) \/ Publish(s)
    BY <1>2, StepsOfSessions
  <2>2. \A u \in Sessions \ {s} : session'[u] = session[u]
    BY <1>0, <2>1, EarlyEffect, ReadSegmentsEffect, ReadDeletesEffect, CommitEmptyEffect,
       TakeNumberEffect, PublishEffect
  <2>3. CASE ~Publish(s)
    <3>1. versions' = versions
      BY <1>0, <2>1, <2>3, EarlyEffect, ReadSegmentsEffect, ReadDeletesEffect, CommitEmptyEffect,
         TakeNumberEffect
    <3>2. session'[s].phase # "committed" \/ (session'[s].sink = NoSegment /\ session'[s].pending = {})
      <4>1. CASE Early(s) BY <1>0, <4>1, EarlyEffect DEF Late
      <4>2. CASE ReadSegments(s) BY <1>0, <4>2, ReadSegmentsEffect DEF SameButReads
      <4>3. CASE ReadDeletes(s) BY <1>0, <4>3, ReadDeletesEffect DEF SameButReads
      <4>4. CASE CommitEmpty(s) BY <1>0, <4>4, CommitEmptyEffect DEF SameButReads
      <4>5. CASE TakeNumber(s) BY <1>0, <4>5, TakeNumberEffect DEF SameButReads
      <4> QED BY <2>1, <2>3, <4>1, <4>2, <4>3, <4>4, <4>5
    <3> QED BY <1>0, <2>2, <3>1, <3>2 DEF ReceiptHonest
  <2>4. CASE Publish(s)
    <3> DEFINE n == session[s].number
    <3>1. /\ DOMAIN versions' = DOMAIN versions \cup {n}
          /\ \A v \in DOMAIN versions \ {n} : versions'[v] = versions[v]
          /\ versions'[n].segments = session[s].segments /\ versions'[n].deleted = session[s].deleted
          /\ session[s].phase = "numbered" /\ session'[s].receipt = n
          /\ session'[s].sink = session[s].sink /\ session'[s].pending = session[s].pending
      BY <1>0, <2>4, PublishEffect DEF SameButReads
    <3>2. n \notin DOMAIN versions BY <1>0, <3>1 DEF NumbersTaken
    <3>3. /\ session[s].sink # NoSegment => s \in session[s].segments
          /\ {Cut(d) : d \in session[s].pending} \subseteq session[s].deleted
      <4>1. s \in Publishing BY <3>1 DEF Publishing
      <4> QED BY <1>0, <3>1, <4>1 DEF NumbersTaken
    <3> HIDE DEF n
    <3>4. ASSUME NEW u \in Sessions, session'[u].phase = "committed",
                 session'[u].sink # NoSegment \/ session'[u].pending # {}
          PROVE  /\ session'[u].receipt \in DOMAIN versions'
                 /\ session'[u].sink # NoSegment => u \in versions'[session'[u].receipt].segments
                 /\ {Cut(d) : d \in session'[u].pending} \subseteq versions'[session'[u].receipt].deleted
      <4>1. CASE u = s BY <3>1, <3>3, <4>1
      <4>2. CASE u # s
        <5>1. session'[u] = session[u] BY <2>2, <4>2
        <5>2. /\ session[u].receipt \in DOMAIN versions
              /\ session[u].sink # NoSegment => u \in versions[session[u].receipt].segments
              /\ {Cut(d) : d \in session[u].pending} \subseteq versions[session[u].receipt].deleted
          BY <1>0, <3>4, <5>1 DEF ReceiptHonest
        <5>3. versions'[session[u].receipt] = versions[session[u].receipt] BY <3>1, <3>2, <5>2
        <5> QED BY <3>1, <5>1, <5>2, <5>3
      <4> QED BY <4>1, <4>2
    <3> QED BY <3>4 DEF ReceiptHonest
  <2> QED BY <2>3, <2>4
<1> QED BY <1>1, <1>2

-----------------------------------------------------------------------------
(* Commits that do not overlap.                                            *)

LEMMA SerialStep == SessionInv /\ [SessionNext]_sessionVars => SerialInv'
<1> SUFFICES ASSUME SessionInv, [SessionNext]_sessionVars, ~overlapped' PROVE SerialInv'
  BY DEF SerialInv
<1>0. SessionTypes /\ NumbersTaken /\ SerialInv /\ version_next \in Nat BY DEF SessionInv, SessionTypes
<1>1. CASE UNCHANGED sessionVars
  BY <1>0, <1>1 DEF sessionVars, SerialInv, Publishing, Committed, KeepsSegments, KeepsDeletes, Current
<1>2. CASE SessionNext
  <2>1. PICK s \in Sessions : \/ Early(s) \/ ReadSegments(s) \/ ReadDeletes(s) \/ CommitEmpty(s)
                              \/ TakeNumber(s) \/ Publish(s)
    BY <1>2, StepsOfSessions
  <2>2. ~overlapped
    BY <1>0, <2>1, EarlyEffect, ReadSegmentsEffect, ReadDeletesEffect, CommitEmptyEffect,
       TakeNumberEffect, PublishEffect
  <2>3. /\ \A u, w \in Publishing : u = w
        /\ (\A u \in Sessions : session[u].phase # "numbered") =>
              KeepsSegments(Current.segments) /\ KeepsDeletes(Current.deleted)
        /\ \A u \in Publishing :
              /\ KeepsSegments(session[u].segments)
              /\ session[u].phase # "reading" => KeepsDeletes(session[u].deleted)
              /\ session[u].phase = "numbered" => session[u].number = version_next - 1
    BY <1>0, <2>2 DEF SerialInv
  <2>4. \A u \in Sessions : session[u].phase = "numbered" => u \in Publishing BY DEF Publishing
  <2>5. CASE Early(s)
    <3>1. /\ Committed' = Committed /\ Publishing' = Publishing /\ Current' = Current /\ version_next' = version_next
          /\ \A u \in Committed \cup Publishing : session'[u] = session[u]
      BY <1>0, <2>5, EarlyFrame
    <3>2. /\ \A S : KeepsSegments(S) => \A u \in Committed' : session'[u].sink # NoSegment => u \in S
          /\ \A D : KeepsDeletes(D) => \A u \in Committed' : {Cut(d) : d \in session'[u].pending} \subseteq D
      BY <3>1 DEF KeepsSegments, KeepsDeletes
    <3>3. (\A u \in Sessions : session'[u].phase # "numbered") => \A u \in Sessions : session[u].phase # "numbered"
      BY <2>4, <3>1
    <3>4. (\A u \in Sessions : session'[u].phase # "numbered") =>
              /\ \A u \in Committed' : session'[u].sink # NoSegment => u \in Current'.segments
              /\ \A u \in Committed' : {Cut(d) : d \in session'[u].pending} \subseteq Current'.deleted
      BY <2>3, <3>1, <3>2, <3>3
    <3>5. ASSUME NEW w \in Publishing'
          PROVE  /\ \A u \in Committed' : session'[u].sink # NoSegment => u \in session'[w].segments
                 /\ session'[w].phase # "reading" =>
                       \A u \in Committed' : {Cut(d) : d \in session'[u].pending} \subseteq session'[w].deleted
                 /\ session'[w].phase = "numbered" => session'[w].number = version_next' - 1
      <4>1. w \in Publishing /\ session'[w] = session[w] BY <3>1, <3>5
      <4> QED BY <2>3, <3>1, <3>2, <4>1
    <3>6. \A u, w \in Publishing' : u = w BY <2>3, <3>1
    <3> QED BY <3>4, <3>5, <3>6 DEF SerialInv, KeepsSegments, KeepsDeletes
  <2>6. CASE ReadSegments(s) \/ ReadDeletes(s) \/ CommitEmpty(s) \/ TakeNumber(s) \/ Publish(s)
    <3>1. \A u \in Sessions : session'[u].sink = session[u].sink /\ session'[u].pending = session[u].pending
      BY <1>0, <2>6, LateFrame
    <3>2. /\ (CommitEmpty(s) \/ Publish(s)) => Committed' = Committed \cup {s} /\ Publishing' = Publishing \ {s}
          /\ ~(CommitEmpty(s) \/ Publish(s)) => Committed' = Committed /\ Publishing' = Publishing \cup {s}
      BY <1>0, <2>6, LateFrame
    <3>3. Committed \subseteq Sessions BY DEF Committed
    <3>4. /\ \A S : KeepsSegments(S) => \A u \in Committed : session'[u].sink # NoSegment => u \in S
          /\ \A D : KeepsDeletes(D) => \A u \in Committed : {Cut(d) : d \in session'[u].pending} \subseteq D
      BY <3>1, <3>3 DEF KeepsSegments, KeepsDeletes
    <3>5. CASE ReadSegments(s)
      <4>1. /\ Publishing = {} /\ UNCHANGED <<versions, version_next>>
            /\ session'[s].phase = "reading" /\ Current.segments \subseteq session'[s].segments
            /\ session[s].phase = "logged"
        BY <1>0, <3>5, ReadSegmentsEffect
      <4>2. Committed' = Committed /\ Publishing' = {s}
        <5>1. ~(CommitEmpty(s) \/ Publish(s)) BY <1>0, <4>1, CommitEmptyEffect, PublishEffect
        <5> QED BY <3>2, <4>1, <5>1
      <4>3. Current' = Current BY <4>1 DEF Current
      <4>4. KeepsSegments(Current.segments) /\ KeepsDeletes(Current.deleted) BY <2>3, <2>4, <4>1
      <4>5. /\ \A u \in Committed : session'[u].sink # NoSegment => u \in Current.segments
            /\ \A u \in Committed : {Cut(d) : d \in session'[u].pending} \subseteq Current.deleted
        BY <3>4, <4>4
      <4> QED BY <4>1, <4>2, <4>3, <4>5 DEF SerialInv, KeepsSegments, KeepsDeletes
    <3>6. CASE ReadDeletes(s)
      <4>1. /\ s \in Publishing /\ UNCHANGED <<versions, version_next>>
            /\ session'[s].phase = "read" /\ session'[s].segments = session[s].segments
            /\ session[s].phase = "reading" /\ Current.deleted \subseteq session'[s].deleted
        BY <1>0, <3>6, ReadDeletesEffect DEF Publishing
      <4>2. Committed' = Committed /\ Publishing' = {s} /\ Publishing = {s}
        <5>1. ~(CommitEmpty(s) \/ Publish(s)) BY <1>0, <4>1, CommitEmptyEffect, PublishEffect
        <5> QED BY <2>3, <3>2, <4>1, <5>1
      <4>3. Current' = Current BY <4>1 DEF Current
      <4>4. KeepsSegments(Current.segments) /\ KeepsDeletes(Current.deleted) BY <2>3, <2>4, <4>1, <4>2
      <4>5. /\ \A u \in Committed : session'[u].sink # NoSegment => u \in Current.segments
            /\ \A u \in Committed : {Cut(d) : d \in session'[u].pending} \subseteq Current.deleted
            /\ \A u \in Committed : session'[u].sink # NoSegment => u \in session[s].segments
        BY <2>3, <3>4, <4>1, <4>4
      <4> QED BY <4>1, <4>2, <4>3, <4>5 DEF SerialInv, KeepsSegments, KeepsDeletes
    <3>7. CASE CommitEmpty(s)
      <4>1. /\ s \in Publishing /\ UNCHANGED <<versions, version_next>>
            /\ session[s].phase = "read" /\ session[s].sink = NoSegment /\ session[s].pending = {}
        BY <1>0, <3>7, CommitEmptyEffect DEF Publishing
      <4>2. Committed' = Committed \cup {s} /\ Publishing' = {} /\ Publishing = {s} BY <2>3, <3>2, <3>7, <4>1
      <4>3. Current' = Current BY <4>1 DEF Current
      <4>4. KeepsSegments(Current.segments) /\ KeepsDeletes(Current.deleted) BY <2>3, <2>4, <4>1, <4>2
      <4>5. /\ \A u \in Committed' : session'[u].sink # NoSegment => u \in Current.segments
            /\ \A u \in Committed' : {Cut(d) : d \in session'[u].pending} \subseteq Current.deleted
        BY <3>1, <3>4, <4>1, <4>2, <4>4
      <4> QED BY <4>2, <4>3, <4>5 DEF SerialInv, KeepsSegments, KeepsDeletes
    <3>8. CASE TakeNumber(s)
      <4>1. /\ s \in Publishing /\ version_next' = version_next + 1
            /\ session[s].phase = "read" /\ session'[s].phase = "numbered"
            /\ session'[s].segments = session[s].segments /\ session'[s].deleted = session[s].deleted
            /\ session'[s].number = version_next
        BY <1>0, <3>8, TakeNumberEffect DEF Publishing
      <4>2. Committed' = Committed /\ Publishing' = {s} /\ Publishing = {s}
        <5>1. ~(CommitEmpty(s) \/ Publish(s)) BY <1>0, <3>8, <4>1, PublishEffect DEF CommitEmpty, TakeNumber
        <5> QED BY <2>3, <3>2, <4>1, <5>1
      <4>3. session'[s].number = version_next' - 1 BY <1>0, <4>1
      <4>4. /\ \A u \in Committed : session'[u].sink # NoSegment => u \in session[s].segments
            /\ \A u \in Committed : {Cut(d) : d \in session'[u].pending} \subseteq session[s].deleted
        BY <2>3, <3>4, <4>1
      <4> QED BY <4>1, <4>2, <4>3, <4>4 DEF SerialInv, KeepsSegments, KeepsDeletes
    <3>9. CASE Publish(s)
      <4>1. /\ s \in Publishing /\ version_next' = version_next /\ session[s].phase = "numbered"
            /\ DOMAIN versions' = DOMAIN versions \cup {session[s].number}
            /\ versions'[session[s].number].segments = session[s].segments
            /\ versions'[session[s].number].deleted = session[s].deleted
        BY <1>0, <3>9, PublishEffect DEF Publishing
      <4>2. Committed' = Committed \cup {s} /\ Publishing' = {} BY <2>3, <3>2, <3>9, <4>1
      <4>3. Current'.segments = session[s].segments /\ Current'.deleted = session[s].deleted
        <5>1. session[s].number = version_next - 1 /\ session[s].number \in Nat BY <1>0, <2>3, <4>1, RecordType
        <5>2. version_next' > 0 /\ version_next' - 1 = session[s].number BY <1>0, <4>1, <5>1
        <5> QED BY <4>1, <5>2 DEF Current
      <4>4. /\ \A u \in Committed : session'[u].sink # NoSegment => u \in session[s].segments
            /\ \A u \in Committed : {Cut(d) : d \in session'[u].pending} \subseteq session[s].deleted
        BY <2>3, <3>4, <4>1
      <4>5. /\ session'[s].sink # NoSegment => s \in session[s].segments
            /\ {Cut(d) : d \in session'[s].pending} \subseteq session[s].deleted
        BY <1>0, <3>1, <4>1 DEF NumbersTaken
      <4> QED BY <4>2, <4>3, <4>4, <4>5 DEF SerialInv, KeepsSegments, KeepsDeletes
    <3> QED BY <2>6, <3>5, <3>6, <3>7, <3>8, <3>9
  <2> QED BY <2>1, <2>5, <2>6
<1> QED BY <1>1, <1>2

-----------------------------------------------------------------------------
(* The theorems.                                                           *)

\* Before any session is opened the invariant holds.
LEMMA InitSessions == SessionInit => SessionInv
<1> SUFFICES ASSUME SessionInit PROVE SessionInv OBVIOUS
<1>1. \A s \in Sessions : /\ session[s].phase = "new" /\ session[s].sink = <<>> /\ session[s].pending = {}
  BY DEF SessionInit
<1>2. SessionTypes
  <2>1. session \in [Sessions -> SessionRecord]
    <3>1. <<>> \in Seq(Records) /\ <<>> \in Seq(SessionDocs) OBVIOUS
    <3> DEFINE new == [phase |-> "new", wal |-> <<>>, synced |-> 0, sink |-> <<>>, pending |-> {},
                       segments |-> {}, deleted |-> {}, number |-> 0, receipt |-> -1]
    <3>2. new \in SessionRecord BY <3>1 DEF SessionRecord, Phases
    <3>3. session = [s \in Sessions |-> new] BY DEF SessionInit
    <3> HIDE DEF new
    <3> QED BY <3>2, <3>3
  <2>2. DOMAIN versions = {} /\ versions = [v \in {} |-> EmptySnapshot] BY DEF SessionInit
  <2>3. versions \in [DOMAIN versions -> [version : Nat, segments : SUBSET Sessions, deleted : SUBSET Marks]]
    BY <2>2
  <2> QED BY <2>1, <2>2, <2>3 DEF SessionInit, SessionTypes, SessionRecord
<1>3. LogAhead
  <2>1. Range(<<>>) = {} BY DEF Range
  <2> QED BY <1>1, <2>1 DEF LogAhead, AfterLog
<1>4. DOMAIN versions = {} /\ Committed = {} /\ Publishing = {} BY <1>1 DEF SessionInit, Committed, Publishing
<1>5. OnlyCommitted BY <1>4 DEF OnlyCommitted
<1>6. NumbersTaken BY <1>1, <1>4 DEF NumbersTaken
<1>7. ReceiptHonest BY <1>1 DEF ReceiptHonest
<1>8. SerialInv BY <1>4 DEF SerialInv, KeepsSegments, KeepsDeletes
<1> QED BY <1>2, <1>3, <1>5, <1>6, <1>7, <1>8 DEF SessionInv

(***************************************************************************)
(* Sessions, logs and snapshots agree at every step of every commit,       *)
(* however many sessions there are (session.rs:118-170).                   *)
(***************************************************************************)
THEOREM SessionsInvariance == SessionSpec => []SessionInv
<1>1. SessionInv /\ [SessionNext]_sessionVars => SessionInv'
  BY TypesStep, LogAheadStep, OnlyCommittedStep, NumbersStep, ReceiptStep, SerialStep DEF SessionInv
<1> QED BY <1>1, InitSessions, PTL DEF SessionSpec

(***************************************************************************)
(* Nothing a snapshot shows can be taken back by a crash: commit syncs its *)
(* log before it reads the first snapshot (session.rs:125-129).            *)
(***************************************************************************)
THEOREM VisibleIsDurable == SessionSpec => []PublishedIsDurable
<1>1. SessionInv => PublishedIsDurable
  <2> SUFFICES ASSUME SessionInv PROVE PublishedIsDurable OBVIOUS
  <2> DEFINE done == {s \in Sessions : Durable(s) # <<>> /\ Last(Durable(s)).op = "commit"}
  <2>1. ASSUME NEW s \in Committed
        PROVE  /\ s \in Sessions /\ Durable(s) = session[s].wal /\ s \in done
               /\ Range(session[s].sink) \subseteq Logged(s, "add")
               /\ session[s].pending \subseteq Logged(s, "delete")
    <3>1. s \in Sessions /\ session[s].phase \in AfterLog BY <2>1 DEF Committed, AfterLog
    <3>2. session[s].wal \in Seq(Records) BY <3>1, RecordType DEF SessionInv
    <3>3. /\ session[s].synced = Len(session[s].wal) /\ session[s].wal # <<>>
          /\ session[s].wal[Len(session[s].wal)].op = "commit"
          /\ Range(session[s].sink) \subseteq {r.id : r \in {x \in Range(session[s].wal) : x.op = "add"}}
          /\ session[s].pending \subseteq {r.id : r \in {x \in Range(session[s].wal) : x.op = "delete"}}
      BY <3>1 DEF SessionInv, LogAhead
    <3>4. Durable(s) = session[s].wal BY <3>2, <3>3 DEF Durable
    <3> QED BY <3>1, <3>3, <3>4 DEF Logged, Last
  <2>2. MarksOf(Committed) \subseteq {Cut(d) : d \in UNION {Logged(s, "delete") : s \in done}}
    <3>1. UNION {session[s].pending : s \in Committed} \subseteq UNION {Logged(s, "delete") : s \in done}
      BY <2>1
    <3> QED BY <3>1 DEF MarksOf
  <2>3. \A v \in DOMAIN versions : versions[v].segments \subseteq Committed /\ versions[v].deleted \subseteq MarksOf(Committed)
    BY DEF SessionInv, OnlyCommitted
  <2>4. \A s \in Committed : session[s].phase \notin {"aborted", "failed"} BY DEF Committed
  <2> QED BY <2>1, <2>2, <2>3, <2>4 DEF PublishedIsDurable
<1> QED BY <1>1, SessionsInvariance, PTL

(***************************************************************************)
(* Every receipt is true for good, and commits that do not overlap lose    *)
(* nothing of each other (session.rs:129-149).                             *)
(***************************************************************************)
THEOREM CommitsAreKept == SessionSpec => []CommitsKept
<1>1. SessionInv => CommitsKept
  <2> SUFFICES ASSUME SessionInv PROVE CommitsKept OBVIOUS
  <2>1. ReceiptHonest BY DEF SessionInv
  <2>2. SerialCommitsKeepAll
    <3> SUFFICES ASSUME ~overlapped, Publishing = {}
                 PROVE  \A s \in Committed : /\ session[s].sink # NoSegment => s \in Current.segments
                                             /\ {Cut(d) : d \in session[s].pending} \subseteq Current.deleted
      BY DEF SerialCommitsKeepAll, Committed
    <3>1. \A s \in Sessions : session[s].phase # "numbered" BY DEF Publishing
    <3> QED BY <3>1 DEF SessionInv, SerialInv, KeepsSegments, KeepsDeletes
  <2> QED BY <2>1, <2>2 DEF CommitsKept
<1> QED BY <1>1, SessionsInvariance, PTL
=============================================================================
