----------------------------- MODULE SegmentFile -----------------------------
(***************************************************************************)
(* The bytes of a segment file: written by SegmentWriter                   *)
(* (src/storage/segment_writer.rs), read by the search path, which skips   *)
(* the header by deserializing it (src/query/matcher.rs), and by           *)
(* SegmentReader's iterator and get_document, which seek to                *)
(* SegmentHeader::SIZE (src/storage/segment_reader.rs).                    *)
(*                                                                         *)
(* A byte has Base values (256 in the code) so that a u64 fits an integer  *)
(* of the checker.  A document is its serialized bytes; blocks are stored  *)
(* with CompressionType::None, whose compress copies the bytes.            *)
(***************************************************************************)
EXTENDS Integers, Sequences, SequencesExt, Folds

CONSTANTS
    Base,         \* values of a byte
    Payloads,     \* serialized documents
    BufferLimit,  \* bytes SegmentWriter buffers before it writes (1 MiB)
    MaxDocs       \* bound: documents in the segment

VARIABLES
    docs,       \* the documents written so far
    buffer,     \* SegmentWriter::buffer
    file,       \* the file's bytes
    path,       \* "write", then the path that reads the file: "search", "iter" or "get"
    pos,        \* the reader's offset
    remaining,  \* documents its loop still expects
    out,        \* documents it has read
    status      \* "open", "done" or "err"

writer == <<docs, buffer, file>>
vars == <<docs, buffer, file, path, pos, remaining, out, status>>

-----------------------------------------------------------------------------
(* bincode: little-endian fixed-width integers; a Vec is its u64 length    *)
(* and its bytes; an enum is a u32 index.                                  *)

Le(n, width) == [i \in 1 .. width |-> (n \div Base ^ (i - 1)) % Base]
U32(n) == Le(n, 4)
U64(n) == Le(n, 8)
Value(bytes) == FoldFunction(+, 0, [i \in DOMAIN bytes |-> bytes[i] * Base ^ (i - 1)])

Header(count) == U32(1) \o U32(count) \o U32(0) \o U32(0)
HEADER_SIZE == 24

\* CompressedBlock: data, original_size, compression; behind a u32 length.
Block(data) == U64(Len(data)) \o data \o U64(Len(data)) \o U32(0)
Frame(data) == U32(Len(Block(data))) \o Block(data)

Bytes(from, n) == SubSeq(file, from + 1, from + n)
Available(from, n) == from + n <= Len(file)

\* Deserializing a block and its document; trailing bytes are allowed.
BlockData(b) == SubSeq(b, 9, 8 + Value(SubSeq(b, 1, 8)))
BlockOk(b) ==
    /\ Len(b) >= 8
    /\ Len(b) >= 20 + Value(SubSeq(b, 1, 8))
    /\ BlockData(b) \in Payloads

-----------------------------------------------------------------------------
Init ==
    /\ docs = <<>> /\ buffer = <<>>
    /\ file = Header(0)
    /\ path = "write" /\ pos = 0 /\ remaining = 0 /\ out = <<>> /\ status = "open"

WriteDocument(p) ==
    /\ path = "write" /\ Len(docs) < MaxDocs
    /\ docs' = Append(docs, p)
    /\ LET filled == buffer \o Frame(p) IN
           IF Len(filled) > BufferLimit
           THEN file' = file \o filled /\ buffer' = <<>>
           ELSE file' = file /\ buffer' = filled
    /\ UNCHANGED <<path, pos, remaining, out, status>>

\* Mutant: the search path seeks as well.
StartAtSize(reading) == HEADER_SIZE

\* Where each reader starts: behind the header it deserialized, or at SIZE.
Start(reading) == IF reading = "search" THEN Len(Header(0)) ELSE HEADER_SIZE

\* finish rewrites the header in place; a reader then opens the file.
FinishAndOpen(reading) ==
    /\ path = "write"
    /\ LET flushed == file \o buffer IN
           file' = Header(Len(docs)) \o SubSeq(flushed, Len(Header(0)) + 1, Len(flushed))
    /\ buffer' = <<>>
    /\ path' = reading
    /\ pos' = Start(reading)
    /\ remaining' = Value(SubSeq(file', 5, 8))
    /\ UNCHANGED <<docs, out, status>>

Ends(result) == status' = result /\ UNCHANGED <<pos, remaining, out>>

\* One round of a reader's loop: the length, the block, the document.
ReadNext ==
    /\ path # "write" /\ status = "open"
    /\ LET len == Value(Bytes(pos, 4))
           block == Bytes(pos + 4, len) IN
       CASE remaining = 0 -> Ends("done")
         [] remaining > 0 /\ ~Available(pos, 4) ->
                Ends(IF path = "get" THEN "err" ELSE "done")
         [] remaining > 0 /\ Available(pos, 4) /\ ~Available(pos + 4, len) -> Ends("err")
         [] remaining > 0 /\ Available(pos, 4) /\ Available(pos + 4, len) ->
                IF BlockOk(block)
                THEN /\ out' = Append(out, BlockData(block))
                     /\ pos' = pos + 4 + len
                     /\ remaining' = remaining - 1
                     /\ status' = "open"
                ELSE Ends("err")
    /\ UNCHANGED <<writer, path>>

Next ==
    \/ \E p \in Payloads : WriteDocument(p)
    \/ \E reading \in {"search", "iter", "get"} : FinishAndOpen(reading)
    \/ ReadNext

Spec == Init /\ [][Next]_vars

-----------------------------------------------------------------------------
(***************************************************************************)
(* The search path reads back what was written: every document, in order,  *)
(* whatever was flushed early, and without an error.                       *)
(***************************************************************************)
SearchReadsBack ==
    path = "search" => /\ status # "err"
                       /\ status = "done" => out = docs

=============================================================================
