------------------------------- MODULE Sessions -------------------------------
(***************************************************************************)
(* Write sessions (src/writer/session.rs): a session logs and buffers, is  *)
(* flushed, and commits or is aborted; each phase consumes the one before. *)
(* Sessions of several threads share only the snapshot controller, so a    *)
(* commit is one step per call it makes on the controller.  A session has  *)
(* a log of its own (the Box<dyn WriteAheadLog> given to open_session) and *)
(* its segment is named after it.  Log and sink may fail.                  *)
(***************************************************************************)
EXTENDS Integers, Sequences, SequencesExt, FiniteSets

CONSTANTS
    Sessions,     \* the write sessions of the program, each opened once
    SessionDocs,  \* ids of documents written and deleted
    U32,          \* 2^32: an id is cut to u32 when it is marked deleted
    MaxLogged     \* bound: operations of a session

VARIABLES
    session,      \* session -> its state
    versions,     \* MVCCController::versions
    version_next, \* MVCCController::current_version
    overlapped    \* history: a commit read the newest snapshot while another was publishing

sessionVars == <<session, versions, version_next, overlapped>>

NoSegment == <<>>
EmptySnapshot == [version |-> 0, segments |-> {}, deleted |-> {}]

SessionInit ==
    /\ session = [s \in Sessions |->
          [phase |-> "new", wal |-> <<>>, synced |-> 0, sink |-> <<>>, pending |-> {},
           segments |-> {}, deleted |-> {}, number |-> 0, receipt |-> -1]]
    /\ versions = [v \in {} |-> EmptySnapshot]
    /\ version_next = 0
    /\ overlapped = FALSE

\* Mutant: the counter is taken for the newest number.
CurrentAtCounter ==
    IF version_next \in DOMAIN versions THEN versions[version_next] ELSE EmptySnapshot

\* current_snapshot: a number that is taken and not inserted yet reads as empty.
Current ==
    LET v == IF version_next > 0 THEN version_next - 1 ELSE 0
    IN  IF v \in DOMAIN versions THEN versions[v] ELSE EmptySnapshot

Cut(id) == id % U32

Log(op, id) == [op |-> op, id |-> id]

\* The session goes to its next phase with the fields of state changed.
Becomes(s, phase, state) == session' = [session EXCEPT ![s] = [state EXCEPT !.phase = phase]]

Private == UNCHANGED <<versions, version_next, overlapped>>

OpenSession(s) ==
    /\ session[s].phase = "new"
    /\ Becomes(s, "open", session[s])
    /\ Private

\* The document is logged before the sink takes it; a sink that fails leaves it logged.
AddDocument(s, d) ==
    LET t == session[s] IN
    /\ t.phase = "open" /\ Len(t.wal) < MaxLogged
    /\ \E sink \in {t.sink, Append(t.sink, d)} :
          Becomes(s, "open", [t EXCEPT !.wal = Append(@, Log("add", d)), !.sink = sink])
    /\ Private

DeleteDocument(s, d) ==
    LET t == session[s] IN
    /\ t.phase = "open" /\ Len(t.wal) < MaxLogged
    /\ Becomes(s, "open", [t EXCEPT !.wal = Append(@, Log("delete", d)), !.pending = @ \cup {d}])
    /\ Private

\* The sink becomes the segment; an empty one is dropped.  A failing finish ends the session.
FlushSession(s) ==
    /\ session[s].phase = "open"
    /\ \/ Becomes(s, "flushed", session[s])
       \/ session[s].sink # NoSegment /\ Becomes(s, "failed", session[s])
    /\ Private

AbortSession(s) ==
    /\ session[s].phase \in {"open", "flushed"}
    /\ Becomes(s, "aborted", session[s])
    /\ Private

\* Mutant: the log is not synced.
CommitLogUnsynced(s) ==
    /\ session[s].phase = "flushed"
    /\ Becomes(s, "logged", [session[s] EXCEPT !.wal = Append(@, Log("commit", 0))])
    /\ Private

\* commit, its log: the record, then the sync, which may fail with the record written.
CommitLog(s) ==
    LET wal == Append(session[s].wal, Log("commit", 0)) IN
    /\ session[s].phase = "flushed"
    /\ \/ Becomes(s, "logged", [session[s] EXCEPT !.wal = wal, !.synced = Len(wal)])
       \/ Becomes(s, "failed", [session[s] EXCEPT !.wal = wal])
    /\ Private

Publishing == {s \in Sessions : session[s].phase \in {"reading", "read", "numbered"}}

\* commit, first read: the newest segments and the session's own.
ReadSegments(s) ==
    LET own == IF session[s].sink = NoSegment THEN {} ELSE {s} IN
    /\ session[s].phase = "logged"
    /\ Becomes(s, "reading", [session[s] EXCEPT !.segments = Current.segments \cup own])
    /\ overlapped' = (overlapped \/ Publishing # {})
    /\ UNCHANGED <<versions, version_next>>

\* Mutant: only a session with documents keeps its deletions.
ReadDeletesOfSegment(s) ==
    LET t == session[s] IN
    /\ t.phase = "reading"
    /\ Becomes(s, "read", [t EXCEPT !.deleted =
          Current.deleted \cup {Cut(d) : d \in {x \in t.pending : t.sink # NoSegment}}])
    /\ Private

\* commit, second read: the newest deletions and the session's own.
ReadDeletes(s) ==
    LET t == session[s] IN
    /\ t.phase = "reading"
    /\ Becomes(s, "read", [t EXCEPT !.deleted = Current.deleted \cup {Cut(d) : d \in t.pending}])
    /\ Private

\* A commit with neither documents nor deletions reports the newest version.
CommitEmpty(s) ==
    LET t == session[s] IN
    /\ t.phase = "read" /\ t.sink = NoSegment /\ t.pending = {}
    /\ Becomes(s, "committed", [t EXCEPT !.receipt = Current.version])
    /\ Private

\* create_snapshot_with_deletes takes its number ...
TakeNumber(s) ==
    LET t == session[s] IN
    /\ t.phase = "read" /\ (t.sink # NoSegment \/ t.pending # {})
    /\ Becomes(s, "numbered", [t EXCEPT !.number = version_next])
    /\ version_next' = version_next + 1
    /\ UNCHANGED <<versions, overlapped>>

\* ... and inserts the snapshot under it; the receipt names it.
Publish(s) ==
    LET t == session[s]
        snapshot == [version |-> t.number, segments |-> t.segments, deleted |-> t.deleted] IN
    /\ t.phase = "numbered"
    /\ versions' = [v \in DOMAIN versions \cup {t.number} |->
                       IF v = t.number THEN snapshot ELSE versions[v]]
    /\ Becomes(s, "committed", [t EXCEPT !.receipt = t.number])
    /\ UNCHANGED <<version_next, overlapped>>

SessionNext ==
    \E s \in Sessions :
        \/ OpenSession(s) \/ FlushSession(s) \/ AbortSession(s)
        \/ \E d \in SessionDocs : AddDocument(s, d) \/ DeleteDocument(s, d)
        \/ CommitLog(s) \/ ReadSegments(s) \/ ReadDeletes(s)
        \/ CommitEmpty(s) \/ TakeNumber(s) \/ Publish(s)

SessionSpec == SessionInit /\ [][SessionNext]_sessionVars

-----------------------------------------------------------------------------
\* What of the session's log survives a crash at any time from now on.
Durable(s) == SubSeq(session[s].wal, 1, session[s].synced)
Logged(s, op) == {r.id : r \in {x \in Range(Durable(s)) : x.op = op}}

\* Nothing is visible that a crash could take back: every segment of every
\* published snapshot belongs to a session whose durable log holds all its
\* documents and ends with Commit, and every deletion mark is the mark of an id
\* such a log deletes; an aborted or failed session shows nothing.  (commit
\* appends and syncs at session.rs:125-126, before the first snapshot read.)
PublishedIsDurable ==
    LET done == {s \in Sessions : Durable(s) # <<>> /\ Last(Durable(s)).op = "commit"}
    IN  \A v \in DOMAIN versions :
            /\ \A s \in versions[v].segments :
                  s \in done /\ session[s].phase \notin {"aborted", "failed"}
                  /\ Range(session[s].sink) \subseteq Logged(s, "add")
            /\ versions[v].deleted \subseteq {Cut(d) : d \in UNION {Logged(s, "delete") : s \in done}}

\* CommittedSession tells the truth: the version on the receipt holds the
\* session's segment and all its deletions, whatever other sessions published
\* meanwhile (session.rs:146-149 and 167-170).  This is all that concurrent
\* commits keep: a later version may lack them.
ReceiptHonest ==
    \A s \in Sessions :
        LET t == session[s] IN
        (t.phase = "committed" /\ (t.sink # NoSegment \/ t.pending # {})) =>
            /\ t.receipt \in DOMAIN versions
            /\ t.sink # NoSegment => s \in versions[t.receipt].segments
            /\ {Cut(d) : d \in t.pending} \subseteq versions[t.receipt].deleted

\* Commits that do not overlap lose nothing: as long as no commit read the
\* newest snapshot while another was between its read and its insertion, the
\* newest snapshot has the segment and the deletions of every committed session
\* (the read-modify-write of session.rs:129-144 holds no lock).
SerialCommitsKeepAll ==
    (~overlapped /\ Publishing = {}) =>
        \A s \in {x \in Sessions : session[x].phase = "committed"} :
            /\ session[s].sink # NoSegment => s \in Current.segments
            /\ {Cut(d) : d \in session[s].pending} \subseteq Current.deleted

\* What a commit may count on: its receipt, and that only commits that overlap lose
\* each other's work (session.rs:129-149).
CommitsKept == ReceiptHonest /\ SerialCommitsKeepAll

-----------------------------------------------------------------------------
(* Why these hold: the inductive invariant of SessionsProofs.              *)

Records == [op : {"add", "delete", "commit"}, id : SessionDocs \cup {0}]
Marks == {Cut(d) : d \in SessionDocs}
Phases == {"new", "open", "flushed", "aborted", "failed", "logged", "reading", "read", "numbered", "committed"}
AfterLog == {"logged", "reading", "read", "numbered", "committed"}

SessionTypes ==
    /\ session \in [Sessions -> [phase : Phases, wal : Seq(Records), synced : Nat, sink : Seq(SessionDocs),
                                 pending : SUBSET SessionDocs, segments : SUBSET Sessions,
                                 deleted : SUBSET Marks, number : Nat, receipt : Int]]
    /\ version_next \in Nat /\ overlapped \in BOOLEAN
    /\ versions \in [DOMAIN versions -> [version : Nat, segments : SUBSET Sessions, deleted : SUBSET Marks]]
    /\ DOMAIN versions \subseteq Nat

\* The log runs ahead of the sink and of the deletions, and is durable once a commit reads.
LogAhead ==
    \A s \in Sessions :
        LET t == session[s] IN
        /\ Range(t.sink) \subseteq {r.id : r \in {x \in Range(t.wal) : x.op = "add"}}
        /\ t.pending \subseteq {r.id : r \in {x \in Range(t.wal) : x.op = "delete"}}
        /\ t.phase \in AfterLog => /\ t.synced = Len(t.wal) /\ t.wal # <<>>
                                   /\ t.wal[Len(t.wal)].op = "commit"

Committed == {s \in Sessions : session[s].phase = "committed"}
MarksOf(S) == {Cut(d) : d \in UNION {session[s].pending : s \in S}}

\* Only committed sessions are visible; a commit under way adds its own to them.
OnlyCommitted ==
    /\ \A v \in DOMAIN versions : versions[v].segments \subseteq Committed /\ versions[v].deleted \subseteq MarksOf(Committed)
    /\ \A s \in Publishing :
          /\ session[s].segments \subseteq Committed \cup {s}
          /\ session[s].phase # "reading" => session[s].deleted \subseteq MarksOf(Committed \cup {s})

\* A number is taken once, its snapshot inserted once, with what its session brought.
NumbersTaken ==
    /\ \A v \in DOMAIN versions : v < version_next
    /\ \A s \in Sessions : session[s].phase = "numbered" =>
          /\ session[s].number < version_next /\ session[s].number \notin DOMAIN versions
          /\ \A u \in Sessions : session[u].phase = "numbered" /\ session[u].number = session[s].number => u = s
    /\ \A s \in Publishing :
          /\ session[s].sink # NoSegment => s \in session[s].segments
          /\ session[s].phase # "reading" => {Cut(d) : d \in session[s].pending} \subseteq session[s].deleted

\* S and D hold what the committed sessions brought.
KeepsSegments(S) == \A s \in Committed : session[s].sink # NoSegment => s \in S
KeepsDeletes(D) == \A s \in Committed : {Cut(d) : d \in session[s].pending} \subseteq D

\* While commits do not overlap, the newest snapshot, or the one commit that is about
\* to replace it, holds what every committed session brought.
SerialInv ==
    ~overlapped =>
        /\ \A s, u \in Publishing : s = u
        /\ (\A s \in Sessions : session[s].phase # "numbered") =>
              KeepsSegments(Current.segments) /\ KeepsDeletes(Current.deleted)
        /\ \A s \in Publishing :
              /\ KeepsSegments(session[s].segments)
              /\ session[s].phase # "reading" => KeepsDeletes(session[s].deleted)
              /\ session[s].phase = "numbered" => session[s].number = version_next - 1

\* The sessions, their logs and the controller's snapshots agree at every step of
\* every commit (session.rs:118-170).
SessionInv ==
    SessionTypes /\ LogAhead /\ OnlyCommitted /\ NumbersTaken /\ ReceiptHonest /\ SerialInv
=============================================================================
