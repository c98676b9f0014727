----------------------------- MODULE RankFusion -----------------------------
(***************************************************************************)
(* What the searches of an index return for one query (retrieval/bm25.py,  *)
(* symbols.py, hybrid.py, reranking.py, db/repositories.py, db/hybrid.py). *)
(* A chunk carries what the searches would compute from its text for this  *)
(* query: how near its vector is, its lexical score, and how the query     *)
(* names its symbol (tier 0 qualified, 1 strong, 2 weak, 3 not at all).    *)
(***************************************************************************)
EXTENDS Integers, SequencesExt

CONSTANTS TopK,           \* results asked for
          Multiplier,     \* DEFAULT_CANDIDATE_MULTIPLIER: candidates of a search per result
          RerankPool,     \* results retrieved for a reranking, TopK if that is more
          SymbolLimit,    \* DEFAULT_SYMBOL_CANDIDATE_LIMIT
          MaxCandidates,  \* RerankingConfig.max_candidates
          MaxRerankChars  \* RerankingConfig.max_context_chars

ASSUME FusionAssumption ==
    {TopK, Multiplier, RerankPool, SymbolLimit, MaxCandidates, MaxRerankChars} \subseteq Nat \ {0}

RRF_K == 60
UNIT  == 1000000  \* fusion scores are in millionths

Sum(seq) == FoldLeft(+, 0, seq)
Take(seq, n) == SubSeq(seq, 1, IF Len(seq) < n THEN Len(seq) ELSE n)

Size(c)     == Sum(c.sizes)
EndLine(c)  == c.from + Len(c.sizes) - 1
Identity(c) == <<c.path, c.index, c.from, EndLine(c)>>
Before(x, y) ==  \* the order of identities, and of all keys that are compared
    \E i \in DOMAIN x : x[i] < y[i] /\ \A k \in 1..(i - 1) : x[k] = y[k]

\* What has a key, in the order of the keys: each has so many before it.
Arranged(key) ==
    [i \in 1..Cardinality(DOMAIN key) |->
        CHOOSE x \in DOMAIN key : Cardinality({y \in DOMAIN key : Before(key[y], key[x])}) = i - 1]

\* The members of a corpus that have a key, the smallest first, in the order of the corpus on
\* ties.
Ranked(corpus, key, limit) ==
    LET order == Arranged([i \in DOMAIN key |-> <<key[i], i>>])
    IN Take([i \in 1..Len(order) |-> corpus[order[i]]], limit)

\* The exact cosine search, and BM25Index.search: a chunk without a term of the query has
\* no score.
SemanticSearch(corpus, depth) == Ranked(corpus, [i \in DOMAIN corpus |-> corpus[i].near], depth)
LexicalSearch(corpus, depth) ==
    LET matching == {i \in DOMAIN corpus : corpus[i].score > 0} IN
    Ranked(corpus, [i \in matching |-> -corpus[i].score], depth)

SameSymbol(c, d) == c.path = d.path /\ c.symbol = d.symbol

\* Mutant: every fragment of a symbol is a candidate of its own.
SymbolsEveryFragment(corpus) ==
    LET named == {i \in DOMAIN corpus : corpus[i].tier < 3} IN
    Ranked(corpus, [i \in named |-> corpus[i].tier], SymbolLimit)
\* find_symbol_candidates, symbol_search: the first chunk of every symbol that is named, by
\* tier, before the limit applies.
SymbolSearch(corpus) ==
    LET First(c) == \A d \in ToSet(corpus) : SameSymbol(c, d) => c.index <= d.index
        named == {i \in DOMAIN corpus : corpus[i].tier < 3 /\ First(corpus[i])}
    IN Ranked(corpus, [i \in named |-> corpus[i].tier], SymbolLimit)

\* select_evidence_backed_symbol_fragments: the vote of a symbol goes to its chunk that the
\* other searches like best.
Project(symbols, evidence) ==
    [i \in 1..Len(symbols) |->
        LET backed == {k \in 1..Len(evidence) :
                         evidence[k].symbol # "none" /\ SameSymbol(evidence[k], symbols[i])}
        IN IF backed = {} THEN symbols[i] ELSE evidence[Min(backed)]]
-----------------------------------------------------------------------------
(* fuse_ranked_sources *)

\* A source with two results of one identity, or two sources that disagree about one.
Conflict(sources) ==
    \E s, t \in DOMAIN sources : \E i \in 1..Len(sources[s]), k \in 1..Len(sources[t]) :
        /\ Identity(sources[s][i]) = Identity(sources[t][k])
        /\ sources[s][i] # sources[t][k] \/ (s = t /\ i # k)

RankIn(source, c) == SelectInSeq(source, LAMBDA d : d = c)  \* 0: not there
Ranks(sources, c) == {RankIn(sources[s], c) : s \in DOMAIN sources} \ {0}
FusionScore(sources, c) ==
    Sum([s \in 1..Len(sources) |-> IF RankIn(sources[s], c) = 0 THEN 0
                                   ELSE UNIT \div (RRF_K + RankIn(sources[s], c))])

\* The highest score first, then the best rank, then the order of identities.
FusionKey(sources, c) == <<-FusionScore(sources, c), Min(Ranks(sources, c))>> \o Identity(c)
Fuse(sources, limit) ==
    Take(Arranged([c \in UNION {ToSet(sources[s]) : s \in DOMAIN sources} |-> FusionKey(sources, c)]),
         limit)
-----------------------------------------------------------------------------
(* LLMReranker.rerank *)

\* The candidates that fit into the prompt, and always the first; block[c] is the size of c in it.
Bounded(candidates, block) ==
    LET few == Take(candidates, MaxCandidates)
        Fits(n) == Sum([i \in 1..n |-> block[few[i]]]) <= MaxRerankChars
    IN Take(few, Max({n \in 1..Len(few) : n = 1 \/ \A m \in 2..n : Fits(m)}))

\* Mutant: an answer that names known candidates is an order of them.
OrdersLoosely(answer, count) == ToSet(answer) \subseteq 1..count
\* _validate_response_ids: every candidate exactly once.
Orders(answer, count) == Len(answer) = count /\ ToSet(answer) = 1..count
=============================================================================
