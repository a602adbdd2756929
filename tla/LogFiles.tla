------------------------------- MODULE LogFiles -------------------------------
(***************************************************************************)
(* The files of the write-ahead log (src/storage/wal.rs) and the recovery  *)
(* manager over them (src/storage/checkpoint.rs).  A record is a length    *)
(* and its data; a crash keeps what was synced and any part of the rest,   *)
(* so that the last record may be cut.  A file is named by a sequence      *)
(* number, which counts records from the number the file was opened with.  *)
(* Operations are numbered as they are appended.                           *)
(***************************************************************************)
EXTENDS Integers, Sequences, SequencesExt, FiniteSets, Functions

CONSTANTS
    MaxOperations, MaxCheckpoints, MaxCrashes   \* bounds

VARIABLES
    log_files,   \* file number -> its records, how many are synced, and its end
    log,         \* the open WAL: its file and its next sequence number
    checkpoint,  \* checkpoint.bin: a set of at most one wal_position
    replayed,    \* what recover returned, or Unread
    appended,    \* history: operations appended
    since,       \* history: the operations after the checkpoint that no crash took
    strayed,     \* history: an append or a checkpoint went where recover does not look
    checkpoints, crashes

logVars == <<log_files, log, checkpoint, replayed, appended, since, strayed, checkpoints, crashes>>

Unread == <<-1>>
Failed == <<-2>>

NewFile == [records |-> <<>>, synced |-> 0, end |-> "whole"]

\* OpenOptions::create and append: an existing file is continued at its end.
Opened(files, number) == [f \in DOMAIN files \cup {number} |-> IF f \in DOMAIN files THEN files[f] ELSE NewFile]

LogInit ==
    /\ log_files = [f \in {0} |-> NewFile]
    /\ log = [file |-> 0, sequence |-> 0]
    /\ checkpoint = {} /\ replayed = Unread
    /\ appended = 0 /\ since = <<>> /\ strayed = FALSE
    /\ checkpoints = 0 /\ crashes = 0

\* After a cut record the next one cannot be told from its rest.
AppendRecord ==
    LET f == log_files[log.file] IN
    /\ appended < MaxOperations
    /\ appended' = appended + 1
    /\ log_files' = [log_files EXCEPT ![log.file] =
          IF f.end = "whole" THEN [f EXCEPT !.records = Append(@, appended + 1)] ELSE [f EXCEPT !.end = "mixed"]]
    /\ log' = [log EXCEPT !.sequence = @ + 1]
    /\ since' = Append(since, appended + 1)
    /\ strayed' = (strayed \/ f.end # "whole" \/ \E p \in checkpoint : p # log.file)
    /\ replayed' = Unread
    /\ UNCHANGED <<checkpoint, checkpoints, crashes>>

SyncLog ==
    /\ log_files' = [log_files EXCEPT ![log.file].synced = Len(log_files[log.file].records)]
    /\ UNCHANGED <<log, checkpoint, replayed, appended, since, strayed, checkpoints, crashes>>

\* rotate: sync, then the file named by the next sequence number.
Rotate ==
    LET synced == [log_files EXCEPT ![log.file].synced = Len(log_files[log.file].records)] IN
    /\ log_files' = Opened(synced, log.sequence)
    /\ log' = [log EXCEPT !.file = log.sequence]
    /\ replayed' = Unread
    /\ UNCHANGED <<checkpoint, appended, since, strayed, checkpoints, crashes>>


\* create_checkpoint names the next sequence number, whether or not that file exists.
CreateCheckpoint ==
    /\ checkpoints < MaxCheckpoints /\ checkpoints' = checkpoints + 1
    /\ checkpoint' = {log.sequence} /\ since' = <<>>
    /\ strayed' = (strayed \/ (log.sequence \in DOMAIN log_files /\ log_files[log.sequence].records # <<>>))
    /\ replayed' = Unread
    /\ UNCHANGED <<log_files, log, appended, crashes>>

\* What a crash leaves of a file: any number of the records not synced, and of the
\* next one nothing, a part of its length, or its length and a part of its data.
Left(f) ==
    {[records |-> SubSeq(f.records, 1, n), synced |-> n, end |-> e] :
        n \in f.synced .. Len(f.records) - 1, e \in {"whole", "short", "cut"}}
    \cup {[f EXCEPT !.synced = Len(f.records)]}

\* RecoveryManager::new opens the file of the checkpoint, or the first, and counts from its name.
Restart(files) ==
    LET number == IF checkpoint = {} THEN 0 ELSE CHOOSE p \in checkpoint : TRUE IN
    /\ log_files' = Opened(files, number)
    /\ log' = [file |-> number, sequence |-> number]

Crash ==
    /\ crashes < MaxCrashes /\ crashes' = crashes + 1
    /\ \E left \in Left(log_files[log.file]) :
          /\ since' = SelectSeq(since, LAMBDA n : n \notin Range(log_files[log.file].records)
                                                  \/ n \in Range(left.records))
          /\ Restart([log_files EXCEPT ![log.file] = left])
    /\ replayed' = Unread
    /\ UNCHANGED <<checkpoint, appended, strayed, checkpoints>>

\* replay_wal_from: a length that cannot be read ends the file, a record that
\* cannot be read or decoded is an error; after a mixed end either may happen.
Replayed(f) ==
    CASE f.end \in {"whole", "short"} -> {f.records}
      [] f.end = "cut" -> {Failed}
      [] f.end = "mixed" -> {Failed, f.records}

\* recover: without a checkpoint nothing is replayed.
Recover ==
    /\ replayed = Unread
    /\ IF checkpoint = {} THEN replayed' = <<>>
       ELSE \E p \in checkpoint :
               IF p \in DOMAIN log_files THEN replayed' \in Replayed(log_files[p]) ELSE replayed' = Failed
    /\ UNCHANGED <<log_files, log, checkpoint, appended, since, strayed, checkpoints, crashes>>

LogNext == AppendRecord \/ SyncLog \/ Rotate \/ CreateCheckpoint \/ Crash \/ Recover

-----------------------------------------------------------------------------
=============================================================================
