-------------------------------- MODULE Query --------------------------------
(***************************************************************************)
(* Queries: parsing (src/query/parser.rs), validation (types.rs), what a   *)
(* query matches (matcher.rs), planning and optimization (planner.rs,      *)
(* optimizer.rs, and the conversions of src/search/executor.rs, which      *)
(* src/search/pipeline.rs repeats).                                        *)
(*                                                                         *)
(* A document is its id, the words of its text field and a number field;   *)
(* words and patterns are sequences of letters, as in TermMatch, and the   *)
(* operators of the query language are reserved words.                     *)
(***************************************************************************)
EXTENDS TermMatch

CONSTANTS
    AND, OR, NOT,                   \* the operators, as words
    Space,                          \* the letter between two words
    MaxQueryDepth, MaxBoolClauses,  \* ValidationConfig
    MaxFuzzy                        \* the parser's largest edit distance (2)

-----------------------------------------------------------------------------
(* The syntax tree.  A bound of a range is a set of at most one number.    *)

TermQuery(value) == [type |-> "Term", value |-> value, boost |-> 1]
PhraseQuery(words, slop) == [type |-> "Phrase", words |-> words, slop |-> slop]
PrefixQuery(prefix) == [type |-> "Prefix", prefix |-> prefix]
WildcardQuery(pattern) == [type |-> "Wildcard", pattern |-> pattern]
FuzzyQuery(term, edits) == [type |-> "Fuzzy", term |-> term, max_edits |-> edits]
RangeQuery(gt, gte, lt, lte) ==
    [type |-> "Range", gt |-> gt, gte |-> gte, lt |-> lt, lte |-> lte]
BoolQuery(must, should, mustNot, filter) ==
    [type |-> "Bool", must |-> must, should |-> should, must_not |-> mustNot, filter |-> filter,
     boost |-> 1]
MatchAll == [type |-> "MatchAll"]
Error == [type |-> "Err"]

-----------------------------------------------------------------------------
(* Parsing.  An input is its tokens, with the marks parse looks for: it is *)
(* quoted, it has a colon, the value behind the colon opens a bracket, a   *)
(* tilde.  A range has its brackets and the numbers between its " TO "s, a *)
(* fuzzy term the distance behind its tilde.                               *)

Joined(words) ==
    FlattenSeq([i \in DOMAIN words |-> IF i = 1 THEN words[1] ELSE <<Space>> \o words[i]])

\* One token of parse_boolean_query: the clauses, the operator in force (OR
\* until the first one is read) and whether the next term is negated.
ParseToken(acc, token) ==
    CASE token \in {AND, OR} -> [acc EXCEPT !.op = token]
      [] token = NOT -> [acc EXCEPT !.negate = TRUE]
      [] token \notin {AND, OR, NOT} ->
            IF acc.negate
            THEN [acc EXCEPT !.query.must_not = Append(@, TermQuery(token)), !.negate = FALSE]
            ELSE IF acc.op = AND
            THEN [acc EXCEPT !.query.must = Append(@, TermQuery(token))]
            ELSE [acc EXCEPT !.query.should = Append(@, TermQuery(token))]

ParseBooleanQuery(tokens) ==
    FoldLeft(ParseToken,
             [query |-> BoolQuery(<<>>, <<>>, <<>>, <<>>), op |-> OR, negate |-> FALSE],
             tokens).query

\* Mutant: the closing bracket decides both ends.
ParseRangeByEnd(open, close, numbers) ==
    LET start == {numbers[1]}  end == {numbers[2]} IN
    IF Len(numbers) # 2 THEN Error
    ELSE IF close = "]" THEN RangeQuery({}, start, {}, end) ELSE RangeQuery(start, {}, end, {})

ParseRangeQuery(open, close, numbers) ==
    LET start == {numbers[1]}  end == {numbers[2]} IN
    IF Len(numbers) # 2 THEN Error
    ELSE RangeQuery(IF open = "[" THEN {} ELSE start, IF open = "[" THEN start ELSE {},
                    IF close = "]" THEN {} ELSE end, IF close = "]" THEN end ELSE {})

\* A value that is one word and a final star is a prefix.
ParseValue(value) ==
    LET wild == {i \in DOMAIN value : value[i] \in {Star, OneChar}} IN
    IF wild = {Len(value)} /\ value[Len(value)] = Star THEN PrefixQuery(Front(value))
    ELSE IF wild # {} THEN WildcardQuery(value) ELSE TermQuery(value)

\* The early returns of parse, in their order.  An unreadable distance (-1)
\* is the largest; no distance is 1.
Parse(input) ==
    LET value == Joined(input.tokens)
        has(mark) == mark \in input.marks IN
    IF input.tokens = <<>> THEN MatchAll
    ELSE IF has("quoted") THEN PhraseQuery(input.tokens, 0)
    ELSE IF {AND, OR, NOT} \cap ToSet(input.tokens) # {} THEN ParseBooleanQuery(input.tokens)
    ELSE IF has("colon")
         THEN IF has("bracket") THEN ParseRangeQuery(input.open, input.close, input.numbers)
              ELSE ParseValue(value)
    ELSE IF has("tilde")
         THEN FuzzyQuery(value, CASE input.distance = {} -> 1
                                  [] input.distance = {-1} -> MaxFuzzy
                                  [] OTHER -> Min(input.distance \cup {MaxFuzzy}))
    ELSE IF \E i \in DOMAIN value : value[i] \in {Star, OneChar} THEN WildcardQuery(value)
    ELSE TermQuery(value)

-----------------------------------------------------------------------------
(* Validation: filters are not visited.                                    *)

Clauses(q) == ToSet(q.must) \cup ToSet(q.should) \cup ToSet(q.must_not)

RECURSIVE ValidDepth(_, _)
ValidDepth(q, depth) ==
    /\ depth <= MaxQueryDepth
    /\ q.type = "Bool" => \A c \in Clauses(q) : ValidDepth(c, depth + 1)

RECURSIVE ValidClauses(_)
ValidClauses(q) ==
    q.type = "Bool" =>
        /\ Len(q.must) + Len(q.should) + Len(q.must_not) <= MaxBoolClauses
        /\ \A c \in Clauses(q) : ValidClauses(c)

Valid(q) == ValidDepth(q, 0) /\ ValidClauses(q)

-----------------------------------------------------------------------------
(* Matching one document.  occurs gives the positions of a word in the     *)
(* document's postings: the empty sequence when it has none.               *)

\* Mutant: a gap as wide as the slop is one too wide.
NearStrictly(positions, current, slop) ==
    {p \in DOMAIN positions : positions[p] > current /\ positions[p] < current + slop + 1}

\* The greedy walk of check_proximity_positions: from each start, the first
\* position of the next word that is near enough.
Near(positions, current, slop) ==
    {p \in DOMAIN positions : positions[p] >= current + 1 /\ positions[p] <= current + slop + 1}

WalkFrom(lists, start, slop) ==
    FoldLeft(LAMBDA at, positions :
                 IF at = <<>> \/ Near(positions, at[1], slop) = {} THEN <<>>
                 ELSE <<positions[Min(Near(positions, at[1], slop))]>>,
             <<start>>, Tail(lists)) # <<>>

CheckProximityPositions(lists, slop) ==
    lists # <<>> /\ \E start \in ToSet(lists[1]) : WalkFrom(lists, start, slop)

CheckAdjacentPositions(lists) ==
    /\ lists # <<>>
    /\ \E start \in ToSet(lists[1]) :
          \A i \in 2 .. Len(lists) : start + i - 1 \in ToSet(lists[i])

VisitPhrase(q, occurs) ==
    LET lists == [i \in DOMAIN q.words |-> occurs[q.words[i]]] IN
    /\ \A i \in DOMAIN lists : lists[i] # <<>>
    /\ IF q.slop = 0 THEN CheckAdjacentPositions(lists)
       ELSE CheckProximityPositions(lists, q.slop)

\* field_contains_text: anywhere in the text, across word boundaries too.
FieldContainsText(text, value) ==
    \E k \in 0 .. Len(text) - Len(value) : IsPrefix(value, Drop(text, k))

NumberInRange(n, q) ==
    /\ \A b \in q.gt : n > b
    /\ \A b \in q.gte : n >= b
    /\ \A b \in q.lt : n < b
    /\ \A b \in q.lte : n <= b

\* Mutant: no should clause has to match when there is a must clause.
ShouldOptional(q, any) == q.should = <<>> \/ q.must # <<>> \/ any
ShouldHolds(q, any) == q.should = <<>> \/ any

RECURSIVE Matches(_, _, _)
Matches(q, doc, occurs) ==
    CASE q.type = "Term" -> FieldContainsText(Joined(doc.text), q.value)
      [] q.type = "Phrase" -> VisitPhrase(q, occurs)
      [] q.type = "Range" -> NumberInRange(doc.number, q)
      [] q.type = "Prefix" -> \E w \in ToSet(doc.text) : IsPrefix(q.prefix, w)
      [] q.type = "Wildcard" -> RegexIsMatch(Joined(doc.text), q.pattern)
      [] q.type = "Fuzzy" -> \E w \in ToSet(doc.text) : Levenshtein(q.term, w) <= q.max_edits
      [] q.type = "MatchAll" -> TRUE
      [] q.type = "Bool" ->
            /\ \A c \in ToSet(q.must) : Matches(c, doc, occurs)
            /\ \A c \in ToSet(q.must_not) : ~Matches(c, doc, occurs)
            /\ ShouldHolds(q, \E c \in ToSet(q.should) : Matches(c, doc, occurs))
            /\ \A c \in ToSet(q.filter) : Matches(c, doc, occurs)

-----------------------------------------------------------------------------
(* Plans.                                                                  *)

Scan == [type |-> "Scan"]
Seek(value) == [type |-> "IndexSeek", value |-> value]
Inner(type, inputs) == [type |-> type, inputs |-> inputs]
Limit(n, input) == [type |-> "Limit", n |-> n, input |-> input]
Sort(input) == [type |-> "Sort", input |-> input]
Filter(predicate, input) == [type |-> "Filter", predicate |-> predicate, input |-> input]

\* Mutant: the must clauses become a union.
RECURSIVE PlanAsUnion(_)
PlanAsUnion(q) ==
    CASE q.type = "Term" -> Seek(q.value)
      [] q.type = "Bool" ->
            IF q.must \o q.should = <<>> THEN Scan
            ELSE Inner("Union", [i \in DOMAIN (q.must \o q.should) |-> PlanAsUnion((q.must \o q.should)[i])])
      [] q.type \notin {"Term", "Bool"} -> Scan

\* Must clauses hide the should clauses; everything but terms and boolean
\* queries is a scan.
RECURSIVE Plan(_)
Plan(q) ==
    CASE q.type = "Term" -> Seek(q.value)
      [] q.type = "Bool" ->
            IF q.must # <<>> THEN Inner("Intersection", [i \in DOMAIN q.must |-> Plan(q.must[i])])
            ELSE IF q.should # <<>> THEN Inner("Union", [i \in DOMAIN q.should |-> Plan(q.should[i])])
            ELSE Scan
      [] q.type \notin {"Term", "Bool"} -> Scan

FilterPushdown(plan) ==
    IF plan.type = "Sort" /\ plan.input.type = "Filter"
    THEN Filter(plan.input.predicate, Sort(plan.input.input)) ELSE plan

\* Mutant: the outer limit wins.
LimitMergeOuter(plan) ==
    IF plan.type = "Limit" /\ plan.input.type = "Limit"
    THEN Limit(plan.n, plan.input.input) ELSE plan

LimitMerge(plan) ==
    IF plan.type = "Limit" /\ plan.input.type = "Limit"
    THEN Limit(Min({plan.n, plan.input.n}), plan.input.input) ELSE plan

\* Each rule once, in order, at the root.
OptimizePlan(plan) == LimitMerge(FilterPushdown(plan))

\* A scan anywhere below makes the whole conversion fail.
RECURSIVE PlanToQuery(_)
PlanToQuery(plan) ==
    LET inputs == [i \in DOMAIN plan.inputs |-> PlanToQuery(plan.inputs[i])]
        failed == \E i \in DOMAIN plan.inputs : inputs[i] = Error IN
    CASE plan.type = "IndexSeek" -> TermQuery(plan.value)
      [] plan.type = "Filter" -> plan.predicate
      [] plan.type = "Union" -> IF failed THEN Error ELSE BoolQuery(<<>>, inputs, <<>>, <<>>)
      [] plan.type = "Intersection" ->
            IF failed THEN Error ELSE BoolQuery(inputs, <<>>, <<>>, <<>>)
      [] plan.type = "Difference" ->
            IF failed THEN Error ELSE BoolQuery(<<inputs[1]>>, <<>>, <<inputs[2]>>, <<>>)
      [] plan.type \in {"Limit", "Sort"} -> PlanToQuery(plan.input)
      [] plan.type = "Scan" -> Error

RECURSIVE IsSafeToOptimize(_)
IsSafeToOptimize(q) ==
    \/ q.type \in {"Term", "MatchAll"}
    \/ /\ q.type = "Bool" /\ q.must_not = <<>> /\ q.filter = <<>>
       /\ \A c \in ToSet(q.must) \cup ToSet(q.should) : IsSafeToOptimize(c)

OptimizeQuery(q) ==
    LET optimized == PlanToQuery(OptimizePlan(Plan(q))) IN
    IF ~IsSafeToOptimize(q) \/ optimized = Error THEN q ELSE optimized
=============================================================================
