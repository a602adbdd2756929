---------------------------- MODULE InvertedIndex ----------------------------
(***************************************************************************)
(* InvertedIndex and TermDictionary (src/index/inverted.rs): adding a      *)
(* document decodes the posting lists of its terms, adds a posting to      *)
(* each, sorts and encodes them again, and refreshes the dictionary and    *)
(* the skip lists.  The prefix index is built on request and is not        *)
(* refreshed.  Terms are words of TermMatch; document ids may exceed the   *)
(* u32 they are stored in.                                                 *)
(***************************************************************************)
EXTENDS Codecs, PostingSets, TermMatch, BagsExt

CONSTANTS
    DocIds,     \* ids documents are added under
    Texts,      \* token sequences: records of a text and a position
    MaxAdds     \* bound: calls of add_document

VARIABLES
    postings,      \* term -> PostingList
    dictionary,    \* term -> TermInfo
    skip_lists,    \* term -> SkipList
    doc_count, total_tokens,
    prefix_index,  \* <<>> for None, <<sorted terms>>
    added,         \* history: the documents added
    builtAt        \* history: how many of them when the prefix index was built

indexVars == <<postings, dictionary, skip_lists, doc_count, total_tokens, prefix_index, added, builtAt>>

-----------------------------------------------------------------------------
IndexInit ==
    /\ postings = <<>> /\ dictionary = <<>> /\ skip_lists = <<>>
    /\ doc_count = 0 /\ total_tokens = 0 /\ prefix_index = <<>>
    /\ added = <<>> /\ builtAt = 0

TermsOf(tokens) == {tokens[k].text : k \in DOMAIN tokens}
PositionsOf(tokens, term) ==
    LET of == SelectSeq(tokens, LAMBDA t : t.text = term) IN [k \in DOMAIN of |-> of[k].position]

\* sort_by_key: stable.
SortByDocId(list) ==
    LET before(i, j) == list[i].doc_id < list[j].doc_id \/ (list[i].doc_id = list[j].doc_id /\ i < j)
        order == InOrder(DOMAIN list, before)
    IN  [k \in DOMAIN list |-> list[order[k]]]


\* The new posting sorts by its whole id, the decoded ones by what is left
\* of theirs.
Extended(term, doc, tokens) ==
    LET positions == PositionsOf(tokens, term)
        posting == [doc_id |-> doc, term_freq |-> Len(positions), positions |-> positions] IN
    PostingListNew(SortByDocId(
        Append(IF term \in DOMAIN postings THEN Iter(postings[term]) ELSE <<>>, posting)))

\* Mutant: the count of a known term is left as it was.
AddTermOnce(term, docFreq) ==
    IF term \in DOMAIN dictionary THEN dictionary[term]
    ELSE [doc_freq |-> docFreq, total_freq |-> docFreq]

\* total_freq keeps the value of the first call.
AddTerm(term, docFreq) ==
    IF term \in DOMAIN dictionary THEN [dictionary[term] EXCEPT !.doc_freq = docFreq]
    ELSE [doc_freq |-> docFreq, total_freq |-> docFreq]

\* Mutant: a known term keeps its skip list.
SkipListKept(term, list) ==
    IF term \in DOMAIN skip_lists THEN skip_lists[term] ELSE SkipListBuild(DecodeDocIds(list).nums)
SkipListFor(term, list) == SkipListBuild(DecodeDocIds(list).nums)

AddDocument(doc, tokens) ==
    LET terms == TermsOf(tokens)
        lists == [t \in terms |-> Extended(t, doc, tokens)] IN
    /\ Len(added) < MaxAdds
    /\ postings' = lists @@ postings
    /\ dictionary' = [t \in terms |-> AddTerm(t, DocFreq(lists[t]))] @@ dictionary
    /\ skip_lists' = [t \in terms |-> SkipListFor(t, lists[t])] @@ skip_lists
    /\ doc_count' = doc_count + 1
    /\ total_tokens' = total_tokens + Len(tokens)
    /\ added' = Append(added, [doc |-> doc, tokens |-> tokens])
    /\ UNCHANGED <<prefix_index, builtAt>>

BuildPrefixIndex ==
    /\ prefix_index' = <<PrefixBuild(DOMAIN dictionary)>>
    /\ builtAt' = Len(added)
    /\ UNCHANGED <<postings, dictionary, skip_lists, doc_count, total_tokens, added>>

IndexNext ==
    \/ \E doc \in DocIds, tokens \in Texts : AddDocument(doc, tokens)
    \/ BuildPrefixIndex

-----------------------------------------------------------------------------
(* Queries.                                                                *)

Ids(term) == [k \in DOMAIN Iter(postings[term]) |-> Iter(postings[term])[k].doc_id]

IntersectTerms(terms) ==
    IF terms = <<>> \/ \E k \in DOMAIN terms : terms[k] \notin DOMAIN postings THEN <<>>
    ELSE FoldLeft(LAMBDA found, t : IntersectSorted(found, Ids(t)), Ids(Head(terms)), Tail(terms))

\* Mutant: a term without postings ends the union.
UnionTermsStopping(terms) ==
    IF terms = <<>> \/ \E k \in DOMAIN terms : terms[k] \notin DOMAIN postings THEN <<>>
    ELSE FoldLeft(LAMBDA found, t : UnionSorted(found, Ids(t)), <<>>, terms)

UnionTerms(terms) ==
    LET known == SelectSeq(terms, LAMBDA t : t \in DOMAIN postings) IN
    IF known = <<>> THEN <<>>
    ELSE FoldLeft(LAMBDA found, t : UnionSorted(found, Ids(t)), Ids(Head(known)), Tail(known))

\* IndexStatistics::from_index: the length of the collection.
TotalLength == MapThenSumSet(LAMBDA t : TotalFreq(postings[t]), DOMAIN postings)

-----------------------------------------------------------------------------
(* Reference: the documents as they were added.                            *)

Holds(a, term) == term \in TermsOf(added[a].tokens)
Holding(term) == {a \in DOMAIN added : Holds(a, term)}
Known == UNION {TermsOf(added[a].tokens) : a \in DOMAIN added}
IdsFit == \A a \in DOMAIN added : added[a].doc < Word
AddedOnce == \A a, b \in DOMAIN added : added[a].doc = added[b].doc => a = b

(***************************************************************************)
(* Decoding, sorting and encoding a posting list over and over loses,      *)
(* invents and changes no posting, beyond cutting the id to a word; and    *)
(* the list is ascending as long as every id fits.                         *)
(***************************************************************************)
PostingsFaithful ==
    \A t \in Known :
        LET list == Iter(postings[t]) IN
        /\ FoldLeft(LAMBDA bag, p : BagAdd(bag, <<p.doc_id, p.positions>>), EmptyBag, list)
             = FoldLeft(LAMBDA bag, a : IF Holds(a, t)
                                        THEN BagAdd(bag, <<added[a].doc % Word, PositionsOf(added[a].tokens, t)>>)
                                        ELSE bag,
                        EmptyBag, [a \in DOMAIN added |-> a])
        /\ IdsFit => \A i, j \in DOMAIN list : i < j => list[i].doc_id <= list[j].doc_id

(***************************************************************************)
(* The statistics that are maintained agree with the lists they are about: *)
(* a term's doc_freq is the number of its postings, and total_tokens, from *)
(* which stats() takes the average length, is the sum of the frequencies,  *)
(* from which IndexStatistics::from_index takes it.                        *)
(***************************************************************************)
StatisticsAgree ==
    /\ DOMAIN dictionary = Known /\ DOMAIN postings = Known
    /\ \A t \in Known : dictionary[t].doc_freq = Cardinality(Holding(t))
    /\ TotalLength = total_tokens /\ doc_count = Len(added)

(***************************************************************************)
(* A document is found again: while ids fit, the skip list and find_doc    *)
(* both lead to a posting of every document that holds the term, with its  *)
(* positions there, and to none of any other.                              *)
(***************************************************************************)
LookupsFind ==
    IdsFit => \A t \in Known : \A doc \in DocIds :
        LET held == \E a \in Holding(t) : added[a].doc = doc IN
        /\ (SkipFind(skip_lists[t], doc) # 0) = (doc < Word /\ held)
        /\ doc < Word => (FindDoc(postings[t], doc) # {}) = held
        /\ doc < Word => \A i \in FindDoc(postings[t], doc) : \E a \in Holding(t) :
              /\ added[a].doc = doc
              /\ GetPosting(postings[t], i).positions = PositionsOf(added[a].tokens, t)

(***************************************************************************)
(* While ids fit, intersect_terms and union_terms return the documents     *)
(* that hold all and some of the terms, unknown terms included, and none   *)
(* twice unless it was added twice.                                        *)
(***************************************************************************)
SetQueriesExact ==
    IdsFit => \A terms \in UNION {[1 .. n -> Known \cup {<<>>}] : n \in 1 .. 2} :
        LET docs(as) == {added[a].doc : a \in as}
            all == {d \in docs(DOMAIN added) : \A t \in ToSet(terms) : d \in docs(Holding(t))} IN
        /\ ToSet(IntersectTerms(terms)) = all
        /\ ToSet(UnionTerms(terms)) = docs(UNION {Holding(t) : t \in ToSet(terms)})
        /\ AddedOnce => IsInjective(IntersectTerms(terms)) /\ IsInjective(UnionTerms(terms))

(***************************************************************************)
(* prefix_search answers for the dictionary of the moment the prefix index *)
(* was built: exactly the terms of the documents added by then that have   *)
(* the prefix, and nothing for the empty prefix.                           *)
(***************************************************************************)
PrefixAnswersAsBuilt ==
    prefix_index # <<>> =>
        LET then == UNION {TermsOf(added[a].tokens) : a \in 1 .. builtAt} IN
        \A word \in Known : \A n \in 0 .. Len(word) :
            LET prefix == SubSeq(word, 1, n) IN
            SearchPrefix(prefix_index[1], prefix) =
                {t \in then : n >= MinPrefixLen /\ IsPrefix(prefix, t)}

=============================================================================
