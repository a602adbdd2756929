------------------------------- MODULE Codecs -------------------------------
(***************************************************************************)
(* Integer encodings (src/compression/vbyte.rs, delta.rs and the integer   *)
(* blocks of compress.rs) and the posting lists stored with them           *)
(* (src/index/posting.rs).                                                 *)
(*                                                                         *)
(* A byte is a group of payload values (Group of them: 128 in the code)    *)
(* and a continuation bit, a word is WordBytes bytes (4), and a variable   *)
(* byte number has at most MaxGroups bytes (5).                            *)
(***************************************************************************)
EXTENDS Integers, Sequences, SequencesExt, FiniteSetsExt

CONSTANTS
    Group,      \* values of a byte without its continuation bit
    WordBytes,  \* bytes of a u32
    MaxGroups   \* bytes of the longest variable-byte number

Word == (2 * Group) ^ WordBytes

ASSUME CodecAssumption ==
    /\ Group \in Nat \ {0, 1} /\ WordBytes \in Nat \ {0} /\ MaxGroups \in Nat
    /\ Group ^ MaxGroups >= Word /\ Group ^ (MaxGroups - 1) < Word

\* A decoder returns a list or an error.
Ok(nums) == [ok |-> TRUE, nums |-> nums]
Err == [ok |-> FALSE, nums |-> <<>>]

-----------------------------------------------------------------------------
(* Raw words.                                                              *)

LeBytes(n) == [i \in 1 .. WordBytes |-> (n \div (2 * Group) ^ (i - 1)) % (2 * Group)]
FromLeBytes(data, from) ==
    FoldLeft(LAMBDA v, i : v + data[from + i - 1] * (2 * Group) ^ (i - 1), 0,
             [i \in 1 .. WordBytes |-> i])

-----------------------------------------------------------------------------
(* Variable byte: groups from the low end, all but the last marked.        *)

\* Mutant: the loop stops one value late, so a full group is not split.
EncodeU32Late(value) ==
    LET groups == Min({g \in 1 .. MaxGroups + 1 : value <= Group ^ g}) IN
        [i \in 1 .. groups |->
            IF i < groups THEN ((value \div Group ^ (i - 1)) % Group) + Group
                          ELSE value \div Group ^ (i - 1)]

EncodeU32(value) ==
    LET groups == Min({g \in 1 .. MaxGroups : value < Group ^ g}) IN
        [i \in 1 .. groups |->
            ((value \div Group ^ (i - 1)) % Group) + IF i < groups THEN Group ELSE 0]

EncodeVByte(nums) == FlattenSeq([i \in DOMAIN nums |-> EncodeU32(nums[i])])

\* The positions where the number that starts at pos may end: the loop gives
\* up after MaxGroups marked bytes, or when the input is over.
Ends(data, pos) ==
    {q \in pos .. Len(data) : q < pos + MaxGroups /\ data[q] < Group}

DecodeU32(data, pos) ==
    LET last == Min(Ends(data, pos)) IN
        [value |-> FoldLeft(LAMBDA v, i : v + (data[i] % Group) * Group ^ (i - pos), 0,
                            [i \in 1 .. last - pos + 1 |-> pos + i - 1]) % Word,
         next  |-> last + 1]

\* The loop of decode_u32_list from a position on.
DecodeVByteFrom(data, start) ==
    LET rest[pos \in 1 .. Len(data) + 1] ==
            IF pos > Len(data) THEN Ok(<<>>)
            ELSE IF Ends(data, pos) = {} THEN Err
            ELSE LET number == DecodeU32(data, pos)
                     tail == rest[number.next] IN
                 [ok |-> tail.ok, nums |-> <<number.value>> \o tail.nums]
    IN  rest[start]

DecodeVByte(data) == DecodeVByteFrom(data, 1)

-----------------------------------------------------------------------------
(* Delta: the first number as a raw word, then wrapping differences.       *)

EncodeDelta(nums) ==
    IF nums = <<>> THEN <<>>
    ELSE LeBytes(nums[1])
         \o EncodeVByte([i \in 1 .. Len(nums) - 1 |-> (nums[i + 1] - nums[i]) % Word])

\* Fewer bytes than a word are an empty list, not an error.
DecodeDelta(data) ==
    IF Len(data) < WordBytes THEN Ok(<<>>)
    ELSE LET first == FromLeBytes(data, 1)
             deltas == DecodeVByteFrom(data, WordBytes + 1) IN
         IF ~deltas.ok THEN Err
         ELSE Ok([i \in 1 .. Len(deltas.nums) + 1 |->
                     FoldLeft(+, first, SubSeq(deltas.nums, 1, i - 1)) % Word])

-----------------------------------------------------------------------------
(* Integer blocks.                                                         *)

EncodeBlock(nums, encoding) ==
    CASE encoding = "None"  -> FlattenSeq([i \in DOMAIN nums |-> LeBytes(nums[i])])
      [] encoding = "Delta" -> EncodeDelta(nums)
      [] encoding = "VByte" -> EncodeVByte(nums)

\* chunks_exact drops the bytes behind the last whole word.
DecodeBlock(data, encoding) ==
    CASE encoding = "None"  ->
            Ok([i \in 1 .. Len(data) \div WordBytes |->
                   FromLeBytes(data, (i - 1) * WordBytes + 1)])
      [] encoding = "Delta" -> DecodeDelta(data)
      [] encoding = "VByte" -> DecodeVByte(data)

-----------------------------------------------------------------------------
(* Posting lists.  A posting is a document id, which may exceed a word,    *)
(* and its positions; the term frequency is their number.                  *)

PostingListNew(postings) ==
    [doc_ids    |-> EncodeBlock([i \in DOMAIN postings |-> postings[i].doc_id % Word], "Delta"),
     term_freqs |-> [i \in DOMAIN postings |-> postings[i].term_freq],
     positions  |-> [i \in DOMAIN postings |-> EncodeBlock(postings[i].positions, "VByte")]]

DecodeDocIds(list) == DecodeBlock(list.doc_ids, "Delta")
DocFreq(list) == Len(list.term_freqs)
TotalFreq(list) == FoldLeft(+, 0, list.term_freqs)

GetPosting(list, i) ==
    [doc_id    |-> DecodeDocIds(list).nums[i],
     term_freq |-> list.term_freqs[i],
     positions |-> DecodeBlock(list.positions[i], "VByte").nums]

\* All postings, with the ids decoded once.
Iter(list) ==
    LET ids == DecodeDocIds(list).nums IN
    [i \in 1 .. Len(list.term_freqs) |->
        [doc_id    |-> ids[i],
         term_freq |-> list.term_freqs[i],
         positions |-> DecodeBlock(list.positions[i], "VByte").nums]]

\* binary_search of a slice (external): some index of the target if the slice
\* is sorted and holds it.
FindDoc(list, target) ==
    {i \in 1 .. DocFreq(list) : DecodeDocIds(list).nums[i] = target % Word}
=============================================================================
