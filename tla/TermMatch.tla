------------------------------ MODULE TermMatch ------------------------------
(***************************************************************************)
(* Approximate matching of terms: edit distance (src/core/utils.rs,        *)
(* src/search/fuzzy.rs), the prefix index and its wildcards                *)
(* (src/search/prefix.rs), and the dictionary searches of InvertedIndex    *)
(* (src/index/inverted.rs).  A word is a sequence of letters; in a pattern *)
(* Star and OneChar stand for `*' and `?'.                                 *)
(***************************************************************************)
EXTENDS Integers, Sequences, SequencesExt, FiniteSetsExt

CONSTANTS
    Star, OneChar,  \* the wildcards of a pattern: not letters
    MinPrefixLen    \* least length of a prefix that is looked up (1)

Drop(w, n) == SubSeq(w, n + 1, Len(w))

\* The elements of a set in a total order, by rank.
InOrder(S, Less(_, _)) ==
    [i \in 1 .. Cardinality(S) |-> CHOOSE x \in S : Cardinality({y \in S : Less(y, x)}) = i - 1]

-----------------------------------------------------------------------------
(* Edit distance.                                                          *)


Levenshtein(a, b) ==
    LET matrix[i \in 0 .. Len(a), j \in 0 .. Len(b)] ==
            CASE i = 0 -> j
              [] i > 0 /\ j = 0 -> i
              [] i > 0 /\ j > 0 -> Min({matrix[i - 1, j] + 1, matrix[i, j - 1] + 1,
                                        matrix[i - 1, j - 1] + IF a[i] = b[j] THEN 0 ELSE 1})
    IN  matrix[Len(a), Len(b)]

\* The last two letters of the prefixes a[1..i] and b[1..j] are swapped.
Swapped(a, b, i, j) == i > 1 /\ j > 1 /\ a[i] = b[j - 1] /\ a[i - 1] = b[j]

\* FuzzyAutomaton::edit_distance: the transposition branch takes the minimum
\* with the substitution it already has.
EditDistance(term, other) ==
    LET cost(i, j) == IF term[i] = other[j] THEN 0 ELSE 1
        row[i \in 0 .. Len(term), j \in 0 .. Len(other)] ==
            IF i = 0 THEN j
            ELSE IF j = 0 THEN i
            ELSE LET best == Min({row[i - 1, j] + 1, row[i, j - 1] + 1,
                                  row[i - 1, j - 1] + cost(i, j)}) IN
                 IF Swapped(term, other, i, j)
                 THEN Min({best, row[i - 1, j - 1] + cost(i, j)}) ELSE best
    IN  IF Len(term) = 0 THEN Len(other)
        ELSE IF Len(other) = 0 THEN Len(term)
        ELSE row[Len(term), Len(other)]

\* The automaton of the levenshtein_automata crate, built with transpositions.
DfaDistance(term, other) ==
    LET row[i \in 0 .. Len(term), j \in 0 .. Len(other)] ==
            IF i = 0 THEN j
            ELSE IF j = 0 THEN i
            ELSE Min({row[i - 1, j] + 1, row[i, j - 1] + 1,
                      row[i - 1, j - 1] + IF term[i] = other[j] THEN 0 ELSE 1}
                     \cup IF Swapped(term, other, i, j) THEN {row[i - 2, j - 2] + 1} ELSE {})
    IN  row[Len(term), Len(other)]

FuzzyMatches(built, term, maxEdits, candidate) ==
    IF built THEN DfaDistance(term, candidate) <= maxEdits
    ELSE EditDistance(term, candidate) <= maxEdits

\* LevenshteinDFA: in state <<pos, dist>> only the match transition overwrites;
\* the insertion comes next and takes every other letter, so the deletion and
\* substitution entries never get in.  The states behind the pattern have no
\* transitions, and those are the final ones.
DfaTransition(pattern, maxDistance, state, ch) ==
    LET pos == state[1]  dist == state[2] IN
    CASE pos = Len(pattern) -> <<>>
      [] pos < Len(pattern) /\ dist = 0 /\ ch = pattern[pos + 1] -> <<pos + 1, 0>>
      [] pos < Len(pattern) /\ ~(dist = 0 /\ ch = pattern[pos + 1]) ->
            IF dist < maxDistance THEN <<pos, dist + 1>> ELSE <<>>

DfaMatches(pattern, maxDistance, text) ==
    LET end == FoldLeft(LAMBDA state, ch :
                            IF state = <<>> THEN <<>>
                            ELSE DfaTransition(pattern, maxDistance, state, ch),
                        <<0, 0>>, text)
    IN  end # <<>> /\ end[1] = Len(pattern)

-----------------------------------------------------------------------------
(* The prefix index: an ordered map from terms to frequencies.             *)

LexLess(a, b) ==
    \/ IsStrictPrefix(a, b)
    \/ \E i \in 1 .. Min({Len(a), Len(b)}) :
          a[i] < b[i] /\ SubSeq(a, 1, i - 1) = SubSeq(b, 1, i - 1)

\* Mutant: the terms are ordered by length first.
PrefixBuildByLength(terms) ==
    InOrder(terms, LAMBDA a, b : Len(a) < Len(b) \/ (Len(a) = Len(b) /\ LexLess(a, b)))

PrefixBuild(terms) == InOrder(terms, LexLess)

\* Streams from the prefix on and stops at the first term without it.
SearchPrefix(sorted, prefix) ==
    LET from == {i \in DOMAIN sorted : ~LexLess(sorted[i], prefix)}
        stop == {i \in from : ~IsPrefix(prefix, sorted[i])} IN
    IF Len(prefix) < MinPrefixLen THEN {}
    ELSE {sorted[i] : i \in {k \in from : \A s \in stop : k < s}}

\* pattern.split('*')
Parts(pattern) ==
    LET cuts == InOrder({0, Len(pattern) + 1}
                        \cup {i \in DOMAIN pattern : pattern[i] = Star}, <)
    IN  [i \in 1 .. Len(cuts) - 1 |-> SubSeq(pattern, cuts[i] + 1, cuts[i + 1] - 1)]

\* Mutant: the text before the occurrence is not skipped.
FindEndUnmoved(text, part) ==
    IF \E k \in 0 .. Len(text) - Len(part) : IsPrefix(part, Drop(text, k)) THEN Len(part) ELSE 0

\* str::find: how much of the text is before and in the first occurrence.
FindEnd(text, part) ==
    LET found == {k \in 0 .. Len(text) - Len(part) : IsPrefix(part, Drop(text, k))} IN
    IF found = {} THEN 0 ELSE Min(found) + Len(part)

\* The loop of matches_wildcard over the parts, with what is left of the text.
MatchesWildcard(text, pattern) ==
    LET parts == Parts(pattern)
        from[i \in 1 .. Len(parts) + 1, pos \in 0 .. Len(text)] ==
            IF i > Len(parts) THEN TRUE
            ELSE LET part == parts[i]  rest == Drop(text, pos) IN
                 CASE part = <<>> -> from[i + 1, pos]
                   [] part # <<>> /\ i = 1 ->
                        IsPrefix(part, rest) /\ from[i + 1, pos + Len(part)]
                   [] part # <<>> /\ i > 1 /\ i = Len(parts) ->
                        IsSuffix(part, rest) /\ from[i + 1, pos]
                   [] part # <<>> /\ i > 1 /\ i < Len(parts) ->
                        FindEnd(rest, part) > 0 /\ from[i + 1, pos + FindEnd(rest, part)]
    IN  from[1, 0]

SearchWildcard(sorted, pattern) ==
    LET parts == Parts(pattern) IN
    IF Len(parts) = 2 /\ parts[2] = <<>>
    THEN SearchPrefix(sorted, parts[1])
    ELSE {t \in ToSet(sorted) : MatchesWildcard(t, pattern)}

-----------------------------------------------------------------------------
(* Wildcards through a regular expression, `*' as `.*' and `?' as `.'.     *)

\* The whole text against the pattern.
Glob(text, pattern) ==
    LET ok[i \in 0 .. Len(text), j \in 0 .. Len(pattern)] ==
            IF j = Len(pattern) THEN i = Len(text)
            ELSE IF pattern[j + 1] = Star
            THEN ok[i, j + 1] \/ (i < Len(text) /\ ok[i + 1, j])
            ELSE /\ i < Len(text) /\ pattern[j + 1] \in {text[i + 1], OneChar}
                 /\ ok[i + 1, j + 1]
    IN  ok[0, 0]

\* Regex::is_match is not anchored: some piece of the text matches.
RegexIsMatch(text, pattern) ==
    \E from \in 0 .. Len(text) : \E to \in from .. Len(text) :
        Glob(SubSeq(text, from + 1, to), pattern)

WildcardSearch(terms, pattern) == {t \in terms : RegexIsMatch(t, pattern)}

\* Mutant: the locked prefix is compared but not cut off the term.
FuzzySearchUncut(terms, term, maxDistance, prefixLength) ==
    LET locked == IF prefixLength > 0 /\ Len(term) >= prefixLength THEN prefixLength ELSE 0 IN
    {t \in terms : /\ IsPrefix(SubSeq(term, 1, locked), t)
                   /\ Levenshtein(Drop(term, locked), t) <= maxDistance}

\* A lock longer than the term is no lock.
FuzzySearch(terms, term, maxDistance, prefixLength) ==
    LET locked == IF prefixLength > 0 /\ Len(term) >= prefixLength THEN prefixLength ELSE 0 IN
    {t \in terms : /\ IsPrefix(SubSeq(term, 1, locked), t)
                   /\ Levenshtein(Drop(term, locked), Drop(t, locked)) <= maxDistance}
=============================================================================
