-------------------------------- MODULE Search --------------------------------
(***************************************************************************)
(* One search: QueryExecutor::execute (src/search/executor.rs) and         *)
(* SearchPipeline::run (src/search/pipeline.rs) over the documents of a    *)
(* reader's segments, with the top-k collector (src/search/results.rs).    *)
(* The pipeline has its own copies of the optimizer and scoring functions. *)
(*                                                                         *)
(* Scores are integers: a posting scores its term frequency times the      *)
(* weight of its term, a stand-in for the real-valued formulas.  That      *)
(* weight is 0 until calculate_idf is called, which nothing in the         *)
(* repository does.                                                        *)
(***************************************************************************)
EXTENDS Query

CONSTANTS
    Docs,        \* the documents of all segments, in scanning order
    Vocabulary,  \* the words queries and documents are made of
    IdWord,      \* values of a u32 document id
    Jobs,        \* searches: query, the input it came from, limit, idf, entry point
    Deletions,   \* possible deleted bitmaps of the snapshot
    Indexes      \* sets of documents in the reader's inverted index

VARIABLES
    job,       \* the search
    deleted,   \* IndexReader::deleted_docs
    indexed,   \* the documents in IndexReader::index
    stage,     \* "start", "scan", "done", "rejected"
    executed,  \* the query after optimization
    cursor,    \* documents scanned
    heap,      \* TopKCollector::heap: indices of Docs
    minScore,  \* TopKCollector::min_score
    total,     \* TopKCollector::total_collected
    results    \* SearchResults

searchVars == <<job, deleted, indexed, stage, executed, cursor, heap, minScore, total, results>>

-----------------------------------------------------------------------------
(* Postings and scores.                                                    *)

\* The positions of the words in a document's postings; ids in postings are
\* cut to a word and compared with the whole id.
Occurs(d) ==
    [w \in Vocabulary |->
        IF d \in indexed /\ Docs[d].id < IdWord
        THEN SelectSeq([p \in DOMAIN Docs[d].text |-> p], LAMBDA p : Docs[d].text[p] = w)
        ELSE <<>>]

SumOver(scores) == FoldLeft(LAMBDA sum, score : sum + score, 0, scores)

\* executor.rs: the boost is multiplied in after the scorer.
ScoreTermQuery(q, d) ==
    IF q.value \in Vocabulary THEN job.idf * Len(Occurs(d)[q.value]) * q.boost ELSE 0

RECURSIVE CalculateScore(_, _)
CalculateScore(q, d) ==
    CASE q.type = "Term" -> ScoreTermQuery(q, d)
      [] q.type = "Bool" -> q.boost * (SumOver([i \in DOMAIN q.must |-> CalculateScore(q.must[i], d)])
                                       + SumOver([i \in DOMAIN q.should |-> CalculateScore(q.should[i], d)]))
      [] q.type \notin {"Term", "Bool"} -> 1

\* pipeline.rs: one function, and the boost is part of the scoring context.
RECURSIVE CalculateScoreWith(_, _)
CalculateScoreWith(q, d) ==
    CASE q.type = "Term" ->
            IF q.value \notin Vocabulary \/ Occurs(d)[q.value] = <<>> THEN 0
            ELSE job.idf * q.boost * Len(Occurs(d)[q.value])
      [] q.type = "Bool" -> LET clauses == q.must \o q.should IN
                            SumOver([i \in DOMAIN clauses |-> CalculateScoreWith(clauses[i], d)]) * q.boost
      [] q.type \notin {"Term", "Bool"} -> 1

-----------------------------------------------------------------------------
(* The pipeline's copies of is_safe_to_optimize, plan_to_query and         *)
(* optimize_query.                                                         *)

RECURSIVE PipelineSafe(_)
PipelineSafe(q) ==
    CASE q.type = "Bool" ->
            /\ Len(q.must_not) + Len(q.filter) = 0
            /\ \A i \in DOMAIN q.must : PipelineSafe(q.must[i])
            /\ \A i \in DOMAIN q.should : PipelineSafe(q.should[i])
      [] q.type # "Bool" -> q.type \in {"Term", "MatchAll"}

RECURSIVE PipelinePlanToQuery(_)
PipelinePlanToQuery(plan) ==
    LET all == [i \in DOMAIN plan.inputs |-> PipelinePlanToQuery(plan.inputs[i])] IN
    CASE plan.type = "Scan" -> Error
      [] plan.type = "IndexSeek" -> TermQuery(plan.value)
      [] plan.type = "Filter" -> plan.predicate
      [] plan.type \in {"Limit", "Sort"} -> PipelinePlanToQuery(plan.input)
      [] plan.type \in {"Union", "Intersection", "Difference"} ->
            IF Error \in ToSet(all) THEN Error
            ELSE [Union        |-> BoolQuery(<<>>, all, <<>>, <<>>),
                  Intersection |-> BoolQuery(all, <<>>, <<>>, <<>>),
                  Difference   |-> BoolQuery(<<Head(all)>>, <<>>, Tail(all), <<>>)][plan.type]

\* Mutant: a query that cannot be converted back matches everything.
PipelineOptimizeQueryOrAll(q) ==
    LET optimized == PipelinePlanToQuery(OptimizePlan(Plan(q))) IN
    IF ~PipelineSafe(q) THEN q ELSE IF optimized = Error THEN MatchAll ELSE optimized

PipelineOptimizeQuery(q) ==
    LET optimized == PipelinePlanToQuery(OptimizePlan(Plan(q))) IN
    IF ~PipelineSafe(q) THEN q ELSE IF optimized = Error THEN q ELSE optimized

-----------------------------------------------------------------------------
\* A search before it starts.
Ready ==
    /\ stage = "start" /\ executed = job.query /\ cursor = 0
    /\ heap = {} /\ minScore = 0 /\ total = 0
    /\ results = [hits |-> <<>>, total_hits |-> 0, max_score |-> 0]
SearchInit == job \in Jobs /\ deleted \in Deletions /\ indexed \in Indexes /\ Ready

\* What the search runs with, by the function that runs it.
Optimized == IF job.path = "run" THEN PipelineOptimizeQuery(job.query) ELSE OptimizeQuery(job.query)
Score(d) ==
    CASE job.path = "run" -> CalculateScoreWith(executed, d)
      [] job.path = "execute" -> CalculateScore(executed, d)
      [] job.path = "execute_simple" -> 1

\* Mutant: the pipeline optimizes without validating.
BeginUnvalidated ==
    /\ stage = "start"
    /\ IF job.path = "execute" /\ ~Valid(job.query)
       THEN stage' = "rejected" /\ executed' = executed
       ELSE stage' = "scan" /\ executed' = IF job.path = "execute_simple" THEN job.query ELSE Optimized
    /\ UNCHANGED <<job, deleted, indexed, cursor, heap, minScore, total, results>>

\* execute and run validate the query they were given and run the optimized
\* one; execute_simple does neither.
Begin ==
    /\ stage = "start"
    /\ IF job.path # "execute_simple" /\ ~Valid(job.query)
       THEN stage' = "rejected" /\ executed' = executed
       ELSE stage' = "scan" /\ executed' = IF job.path = "execute_simple" THEN job.query ELSE Optimized
    /\ UNCHANGED <<job, deleted, indexed, cursor, heap, minScore, total, results>>

\* Deleted ids are cut to a word.
Hit(d) == Matches(executed, Docs[d], Occurs(d)) /\ Docs[d].id % IdWord \notin deleted

SkipDocument ==
    /\ stage = "scan" /\ cursor < Len(Docs) /\ ~Hit(cursor + 1)
    /\ cursor' = cursor + 1
    /\ UNCHANGED <<job, deleted, indexed, stage, executed, heap, minScore, total, results>>

Least(docs) == Min({Score(d) : d \in docs})

\* Mutant: without the reversed order the heap pops its greatest.
PopsGreatest(docs) == {d \in docs : \A e \in docs : Score(e) <= Score(d)}
Pops(docs) == {d \in docs : Score(d) = Least(docs)}

\* TopKCollector::collect: push if above the bound or below the limit, then
\* pop a least one when there is one too many and raise the bound.
CollectDocument ==
    /\ stage = "scan" /\ cursor < Len(Docs) /\ Hit(cursor + 1)
    /\ cursor' = cursor + 1 /\ total' = total + 1
    /\ IF Score(cursor + 1) > minScore \/ Cardinality(heap) < job.limit
       THEN LET pushed == heap \cup {cursor + 1} IN
            IF Cardinality(pushed) > job.limit
            THEN \E out \in Pops(pushed) :
                    /\ heap' = pushed \ {out}
                    /\ minScore' = IF heap' = {} THEN minScore ELSE Least(heap')
            ELSE heap' = pushed /\ minScore' = minScore
       ELSE UNCHANGED <<heap, minScore>>
    /\ UNCHANGED <<job, deleted, indexed, stage, executed, results>>

\* Mutant: the greatest score.
MaxScoreGreatest == IF heap = {} THEN 0 ELSE Max({Score(d) : d \in heap})
\* The root of a heap whose order is reversed.
MaxScore == IF heap = {} THEN 0 ELSE Least(heap)

Finish ==
    /\ stage = "scan" /\ cursor = Len(Docs)
    /\ stage' = "done"
    /\ \E hits \in {h \in [1 .. Cardinality(heap) -> heap] :
                       /\ ToSet(h) = heap
                       /\ \A i, j \in DOMAIN h : i < j => Score(h[i]) >= Score(h[j])} :
          results' = [hits |-> hits, total_hits |-> total,
                      max_score |-> MaxScore]
    /\ UNCHANGED <<job, deleted, indexed, executed, cursor, heap, minScore, total>>

SearchNext == Begin \/ SkipDocument \/ CollectDocument \/ Finish

-----------------------------------------------------------------------------
(***************************************************************************)
(* Nothing above the bound is missed and nothing is counted twice: when    *)
(* the scan of execute_on_segments is over, the hits are as many live      *)
(* matches as the limit allows, none left out scores more than one kept,   *)
(* they come best first, and total_hits counts all live matches.           *)
(***************************************************************************)
TopKExact ==
    stage = "done" =>
        LET live == {d \in DOMAIN Docs : Hit(d)}
            kept == ToSet(results.hits) IN
        /\ kept \subseteq live /\ Len(results.hits) = Cardinality(kept)
        /\ Cardinality(kept) = Min({job.limit, Cardinality(live)})
        /\ \A d \in kept : \A e \in live \ kept : Score(d) >= Score(e)
        /\ \A i, j \in DOMAIN results.hits :
              i < j => Score(results.hits[i]) >= Score(results.hits[j])
        /\ results.total_hits = Cardinality(live)

(***************************************************************************)
(* max_score is not the best score: TopKCollector::max_score looks at the  *)
(* root of the reversed heap, the least score among the hits, so it is the *)
(* score of the last hit.                                                  *)
(***************************************************************************)
MaxScoreIsLeast ==
    stage = "done" =>
        results.max_score = IF results.hits = <<>> THEN 0 ELSE Score(Last(results.hits))

\* Some boolean query in q has must and should clauses; some part of q is boosted.
RECURSIVE HidesShould(_)
HidesShould(q) ==
    q.type = "Bool" /\ \/ q.must # <<>> /\ q.should # <<>>
                       \/ \E c \in ToSet(q.must) \cup ToSet(q.should) : HidesShould(c)
RECURSIVE Boosted(_)
Boosted(q) ==
    \/ q.type \in {"Term", "Bool"} /\ q.boost # 1
    \/ q.type = "Bool" /\ \E c \in ToSet(q.must) \cup ToSet(q.should) : Boosted(c)

(***************************************************************************)
(* What optimize_query may change: it never loses a match; it adds matches *)
(* only where the planner drops the should clauses of a query that has     *)
(* must clauses; and it changes scores only there or where a boost is      *)
(* lost in the plan.                                                       *)
(***************************************************************************)
OptimizationKeepsMatches ==
    stage # "start" =>
        \A d \in DOMAIN Docs :
            LET before == Matches(job.query, Docs[d], Occurs(d))
                after == Matches(executed, Docs[d], Occurs(d)) IN
            /\ before => after
            /\ ~HidesShould(job.query) => (after => before)
            /\ ~HidesShould(job.query) /\ ~Boosted(job.query) =>
                  CalculateScore(executed, d) = CalculateScore(job.query, d)

(***************************************************************************)
(* The copies in pipeline.rs have not drifted: on every query they         *)
(* optimize to what the executor optimizes to and score every document the *)
(* same.                                                                   *)
(***************************************************************************)
PipelineAgrees ==
    stage = "start" =>
        /\ PipelineOptimizeQuery(job.query) = OptimizeQuery(job.query)
        /\ \A d \in DOMAIN Docs :
              CalculateScoreWith(job.query, d) = CalculateScore(job.query, d)

(***************************************************************************)
(* QueryValidator sees the query before optimization; the query that runs  *)
(* is within its limits all the same.                                      *)
(***************************************************************************)
ExecutedWithinLimits ==
    stage \in {"scan", "done"} /\ job.path # "execute_simple" => Valid(executed)

\* Word i of the input is an operand, a connective, and a negated operand.
Operand(i) == job.input.tokens[i] \notin {AND, OR, NOT}
Connective(i) == job.input.tokens[i] \in {AND, OR}
Negated(i) == i > 1 /\ job.input.tokens[i - 1] = NOT
Operands == {i \in DOMAIN job.input.tokens : Operand(i)}

\* Operands, negated or not, with one connective between two of them.
WellFormed ==
    /\ job.input.marks = {} /\ job.input.tokens # <<>>
    /\ \A i \in DOMAIN job.input.tokens :
          CASE Connective(i) -> i \in 2 .. Len(job.input.tokens) - 1 /\ Operand(i - 1) /\ ~Connective(i + 1)
            [] job.input.tokens[i] = NOT -> i < Len(job.input.tokens) /\ Operand(i + 1) /\ (i = 1 \/ Connective(i - 1))
            [] OTHER -> i = 1 \/ ~Operand(i - 1)
Uses(words) == {AND, OR, NOT} \cap ToSet(job.input.tokens) = words
HasWord(d, i) == FieldContainsText(Joined(Docs[d].text), job.input.tokens[i])

(***************************************************************************)
(* What the parser's boolean queries mean to the matcher: a conjunction    *)
(* finds the documents with every word and none of the negated ones, a     *)
(* disjunction without negation those with one of the words.               *)
(***************************************************************************)
ParsedMeaning ==
    WellFormed =>
        \A d \in DOMAIN Docs :
            LET found == Matches(job.query, Docs[d], Occurs(d)) IN
            /\ Uses({AND}) \/ Uses({AND, NOT}) =>
                  (found <=> \A i \in Operands : HasWord(d, i) # Negated(i))
            /\ Uses({OR}) => (found <=> \E i \in Operands : HasWord(d, i))

(***************************************************************************)
(* A bracketed range finds exactly the numbers between its ends, with the  *)
(* ends whose bracket is square; a fuzzy term never allows more edits than *)
(* the parser's limit.                                                     *)
(***************************************************************************)
ParsedBounds ==
    /\ "bracket" \in job.input.marks /\ job.query.type = "Range" =>
          \A n \in 0 .. 4 :
              NumberInRange(n, job.query) <=>
                  /\ n > job.input.numbers[1] \/ (n = job.input.numbers[1] /\ job.input.open = "[")
                  /\ n < job.input.numbers[2] \/ (n = job.input.numbers[2] /\ job.input.close = "]")
    /\ job.query.type = "Fuzzy" => job.query.max_edits <= MaxFuzzy

(***************************************************************************)
(* What a search returns is what its query has coming, on either path.     *)
(***************************************************************************)
ResultsExact == TopKExact /\ MaxScoreIsLeast /\ PipelineAgrees /\ ExecutedWithinLimits

=============================================================================
