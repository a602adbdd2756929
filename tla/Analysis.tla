------------------------------- MODULE Analysis -------------------------------
(***************************************************************************)
(* From text to tokens (src/analysis: tokenizers, filters, the English     *)
(* and Vietnamese analyzers) and from tokens to positions: the inverted    *)
(* index keeps a token's own position, the parallel indexer                *)
(* (src/parallel/indexer.rs) and the index half of the parallel writer     *)
(* (src/index/index_writer.rs) number the tokens again.                    *)
(*                                                                         *)
(* A text is a sequence of words one space apart.  Unicode segmentation,   *)
(* lower case and the stemmer are functions on words.                      *)
(***************************************************************************)
EXTENDS Integers, Sequences, SequencesExt

CONSTANTS
    Length,          \* bytes of each word
    Lower, Stem,     \* [DOMAIN Length -> DOMAIN Length]
    StopWords,
    MaxTokenLength,  \* StandardTokenizer::max_token_length
    MinGram, MaxGram \* NGramFilter

Bytes(text, n) == FoldLeft(LAMBDA sum, w : sum + Length[w], 0, SubSeq(text, 1, n))

-----------------------------------------------------------------------------
(* Tokenizers.                                                             *)

\* Mutant: the position counts the dropped words too.
StandardTokenizeCounting(text) ==
    LET kept == SelectSeq([i \in DOMAIN text |-> i], LAMBDA i : Length[text[i]] <= MaxTokenLength) IN
    [k \in DOMAIN kept |-> [text     |-> Lower[text[kept[k]]],
                            position |-> kept[k] - 1,
                            offset   |-> Bytes(text, kept[k] - 1)]]

\* Long words are dropped without a position; the offset counts their bytes,
\* but no separators.
StandardTokenize(text) ==
    LET kept == SelectSeq([i \in DOMAIN text |-> i], LAMBDA i : Length[text[i]] <= MaxTokenLength) IN
    [k \in DOMAIN kept |-> [text     |-> Lower[text[kept[k]]],
                            position |-> k - 1,
                            offset   |-> Bytes(text, kept[k] - 1)]]

VietnameseTokenize(text) ==
    [i \in DOMAIN text |-> [text     |-> text[i],
                            position |-> i - 1,
                            offset   |-> Bytes(text, i - 1) + (i - 1)]]

-----------------------------------------------------------------------------
(* Filters and analyzers.                                                  *)

Rewrite(tokens, f) == [k \in DOMAIN tokens |-> [tokens[k] EXCEPT !.text = f[@]]]

LowercaseFilter(tokens) == Rewrite(tokens, Lower)
StemmerFilter(tokens) == Rewrite(tokens, Stem)

\* The tokens left keep their positions.
StopWordFilter(tokens) == SelectSeq(tokens, LAMBDA t : t.text \notin StopWords)

\* Every window of n letters; an n-gram is the word, where it starts and n.
NGramFilter(tokens) ==
    LET grams(t) ==
            FlattenSeq([n \in 1 .. MaxGram |->
                IF n < MinGram \/ n > Length[t.text] THEN <<>>
                ELSE [i \in 1 .. Length[t.text] - n + 1 |->
                        [text |-> <<t.text, i, n>>, position |-> t.position,
                         offset |-> t.offset + i - 1]]])
    IN  FlattenSeq([k \in DOMAIN tokens |-> grams(tokens[k])])

StandardEnglish(text) == StemmerFilter(StopWordFilter(LowercaseFilter(StandardTokenize(text))))
VietnameseSearch(text) == LowercaseFilter(VietnameseTokenize(text))

-----------------------------------------------------------------------------
(* Positions by term.  A document is the sequence of its text fields.      *)

PositionsBy(tokens, positions) ==
    [term \in {tokens[k].text : k \in DOMAIN tokens} |->
        LET occurrences == SelectSeq([k \in DOMAIN tokens |-> k], LAMBDA k : tokens[k].text = term) IN
        [o \in DOMAIN occurrences |-> positions[occurrences[o]]]]

\* InvertedIndex::add_document groups by the position the token carries.
OwnPositions(tokens) == PositionsBy(tokens, [k \in DOMAIN tokens |-> tokens[k].position])

\* ParallelIndexer::index_document concatenates the tokens of all fields.
IndexDocument(fields) == FlattenSeq([f \in DOMAIN fields |-> StandardEnglish(fields[f])])

\* build_inverted_index and IndexWriter::index_document count them anew.
RenumberedPositions(tokens) == PositionsBy(tokens, [k \in DOMAIN tokens |-> k - 1])
=============================================================================
