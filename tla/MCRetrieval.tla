----------------------------- MODULE MCRetrieval -----------------------------
(* Index and search for TLC.  part says what a behaviour is about: one     *)
(* input of an algorithm, an inverted index that grows, or one search; the *)
(* variables of the other two stay as they are.                            *)
EXTENDS Algorithms, InvertedIndex, Search

VARIABLE part

A == <<1>>
B == <<2>>
AB == <<1, 2>>
And == <<3, 1>>
Or == <<3, 2>>
Not == <<3, 3>>
SomeWords == {A, B, AB}

Doc(id, text, number) == [id |-> id, text |-> text, number |-> number]
SomeDocs == <<Doc(1, <<A, A>>, 1), Doc(2, <<B>>, 2), Doc(3, <<B, A>>, 3), Doc(9, <<AB, B>>, 4)>>

\* Inputs of the parser: up to four tokens, ranges, fuzzy terms and phrases.
Words(tokens, marks) == [tokens |-> tokens, marks |-> marks, numbers |-> <<>>,
                         open |-> "[", close |-> "]", distance |-> {}]
TokenLists == UNION {[1 .. n -> {A, B, And, Or, Not}] : n \in 0 .. 3}
              \cup {<<A, And, Not, B>>, <<Not, A, And, B>>, <<A, And, B, And, AB>>, <<A, Or, B, Or, AB>>}
Inputs ==
    {Words(t, {}) : t \in TokenLists}
    \cup {Words(t, {"quoted"}) : t \in {<<A>>, <<B, A>>, <<A, B>>}}
    \cup {[Words(<<A>>, {"colon", "bracket"}) EXCEPT !.open = o, !.close = c, !.numbers = ns] :
             o \in {"[", "{"}, c \in {"]", "}"}, ns \in {<<1, 3>>, <<2, 2>>, <<1>>}}
    \cup {[Words(<<A>>, {"tilde"}) EXCEPT !.distance = d] : d \in {{}, {-1}, {0}, {1}, {3}}}
    \cup {Words(<<v>>, {"colon"}) : v \in {<<1, Star>>, <<Star, 1>>, <<OneChar, 2>>, A}}
    \cup {Words(<<<<1, OneChar>>>>, {})}
NoInput == Words(<<>>, {})

\* Syntax trees the parser does not build: boosts, filters, nesting.
Leaves == {TermQuery(A), TermQuery(B), [TermQuery(A) EXCEPT !.boost = 2], MatchAll, RangeQuery({}, {2}, {}, {3})}
UpTo1(S) == {<<>>} \cup {<<x>> : x \in S}
Flat == {BoolQuery(m, s, n, <<>>) : m \in UpTo1(Leaves), s \in UpTo1(Leaves), n \in UpTo1({TermQuery(B)})}
Pair == BoolQuery(<<TermQuery(A), TermQuery(B)>>, <<>>, <<>>, <<>>)
Both == BoolQuery(<<TermQuery(B)>>, <<TermQuery(A)>>, <<>>, <<>>)
Nested == {BoolQuery(m, s, <<>>, f) : m \in UpTo1({Both, Pair}), s \in UpTo1({Both, Pair, MatchAll}), f \in UpTo1({Both, TermQuery(A)})}
Deep == {BoolQuery(<<q>>, <<>>, <<>>, <<>>) : q \in Nested} \cup {BoolQuery(<<>>, <<>>, <<>>, <<q>>) : q \in Nested}
Wide == {[Pair EXCEPT !.boost = 2],
         BoolQuery(<<TermQuery(A), TermQuery(B), TermQuery(AB)>>, <<>>, <<>>, <<>>)}
        \cup {PhraseQuery(<<B, A>>, 1), PhraseQuery(<<A, A>>, 1)}

SomeJobs ==
    {[query |-> Parse(i), input |-> i, limit |-> 2, idf |-> 0, path |-> p] :
        i \in {x \in Inputs : Parse(x) # Error}, p \in {"execute", "run"}}
    \cup {[query |-> q, input |-> NoInput, limit |-> k, idf |-> w, path |-> p] :
        q \in Leaves \cup Flat \cup Nested \cup Deep \cup Wide, k \in {1, 2}, w \in {0, 1},
        p \in {"execute", "run", "execute_simple"}}
    \cup {[query |-> q, input |-> NoInput, limit |-> 0, idf |-> 1, path |-> "execute"] : q \in Leaves}


-----------------------------------------------------------------------------
(* Inputs of the algorithms: numbers at the group and word boundaries of a *)
(* 16-valued byte and a two-byte word; words of up to three letters.       *)
UpTo(n, S) == UNION {[1 .. k -> S] : k \in 0 .. n}
SomeNumberLists == UpTo(3, {0, 1, 7, 8, 63, 64, 255})
SomeAscendingLists == {InOrder(S, <) : S \in SUBSET (1 .. 6)}
SomeWordList == UpTo(3, {1, 2})
SomePatterns == UpTo(3, {1, 2, Star}) \cup {<<1, Star, 2, Star>>, <<Star, 1, Star, 2>>, <<Star, 2, Star, 2>>, <<1, Star, 2, Star, 1>>}
SomeSizeLists == UpTo(4, {1, 2, 3, 5, 8}) \cup [1 .. 6 -> {1, 4}]
Quarters == [w \in 1 .. 4 |-> w]                     \* word n has n bytes; 2 is a stop word
Lowered == [w \in 1 .. 4 |-> IF w = 3 THEN 1 ELSE w]
Stemmed == [w \in 1 .. 4 |-> IF w = 4 THEN 1 ELSE w]
SomeFieldLists == {<<t>> : t \in UpTo(4, 1 .. 4)} \cup {<<t, u>> : t, u \in UpTo(2, 1 .. 3)}
SomePositionLists == UNION {[1 .. k -> {InOrder(S, <) : S \in SUBSET (0 .. 4) \ {{}}}] : k \in 2 .. 2}
                     \cup [1 .. 3 -> {InOrder(S, <) : S \in SUBSET (0 .. 3) \ {{}}}]
Inputs0 == {Scan, Seek(A)}
Wrapped(S) == {Limit(n, p) : n \in {1, 2}, p \in S} \cup {Sort(p) : p \in S} \cup {Filter(TermQuery(B), p) : p \in S}
SomePlans == Inputs0 \cup Wrapped(Inputs0 \cup Wrapped(Inputs0 \cup Wrapped(Inputs0)))
\* Ids 1 .. 8 in ascending order, one at a time in a segment of up to three; 5 .. 8 share the marks of 1 .. 4.
SomeMatchLists == {<<>>} \cup {<<SubSeq(ids, 1, i), SubSeq(ids, i + 1, j), SubSeq(ids, j + 1, 8)>> :
                                  ids \in {[k \in 1 .. 8 |-> k]}, i \in 0 .. 8, j \in 0 .. 8}

\* Documents of the inverted index, one with an id beyond a word.
Tokens(words) == [k \in DOMAIN words |-> [text |-> words[k], position |-> k - 1]]
SomeTokens == {Tokens(<<>>), Tokens(<<AB, A>>), Tokens(<<B, B>>), Tokens(<<B, A, B>>)}
SomeDocIds == {1, 2, Word + 1}

-----------------------------------------------------------------------------
NoProbe == probe = [of |-> "none"]
NoSearch == job = [query |-> MatchAll, input |-> NoInput, limit |-> 0, idf |-> 0, path |-> "run"]
            /\ deleted = {} /\ indexed = {} /\ Ready

Init ==
    \/ part = "algorithm" /\ ProbeInit /\ IndexInit /\ NoSearch
    \/ part = "index" /\ NoProbe /\ IndexInit /\ NoSearch
    \/ part = "search" /\ NoProbe /\ IndexInit /\ SearchInit

Next ==
    \/ part = "index" /\ IndexNext /\ UNCHANGED <<part, probe, searchVars>>
    \/ part = "search" /\ SearchNext /\ UNCHANGED <<part, probe, indexVars>>

Spec == Init /\ [][Next]_<<part, probe, indexVars, searchVars>>
=============================================================================
