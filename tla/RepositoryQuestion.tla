------------------------- MODULE RepositoryQuestion -------------------------
(***************************************************************************)
(* One RAG question (api/services/execution.py rag, rag/pipeline.py,       *)
(* rag/assembly.py, rag/context.py) against the persisted index.  A search *)
(* is several statements of one session and the neighbours are loaded in   *)
(* another, all under READ COMMITTED; a question does not take the         *)
(* repository's execution lock, so an index run of another process may     *)
(* commit between any two of them.                                         *)
(***************************************************************************)
EXTENDS RankFusion

CONSTANTS Indexes,         \* the indexes that may be committed: [model, dimensions, chunks]
          QueryModel,      \* the model the query is embedded with ...
          QueryDimensions, \* ... and the size of its vector
          Radius,          \* neighbor_radius
          BudgetTokens,    \* context_budget_tokens
          MaxContextChars, \* max_context_chars
          Markup,          \* characters of a source block around its content ...
          TruncatedMark,   \* ... more for one that is marked as truncated ...
          Wrapper,         \* ... and around all blocks
          MaxCommits       \* bound: index runs that commit during the question

\* A row of code_chunks, and what the searches compute from it.
CodeChunks == [path : Nat, index : Nat, from : Nat, sizes : Seq(Nat \ {0}) \ {<<>>}, text : STRING,
               symbol : STRING, tier : 0..3, near : Int, score : Int, fragment : BOOLEAN,
               strategy : STRING]

\* A chunk has a place in its file, and no other chunk of the index has it.
ASSUME QuestionAssumption ==
    /\ \A x \in Indexes :
         /\ x.chunks \in Seq(CodeChunks)
         /\ \A i, k \in DOMAIN x.chunks :
              x.chunks[i].path = x.chunks[k].path /\ x.chunks[i].index = x.chunks[k].index => i = k
    /\ Radius \in Nat /\ MaxCommits \in Nat
    /\ {BudgetTokens, MaxContextChars, Markup, TruncatedMark, Wrapper} \subseteq Nat \ {0}

VARIABLES index,     \* the committed index
          commits,
          asked,     \* the request: [strategy, expanded, exact]
          step,      \* where the question is
          searched,  \* what the statements of the search returned: the corpus, and two rankings
          results,   \* the ranked chunks
          context,   \* the sources of the prompt
          citations,
          seen,      \* ghost: every chunk that was committed at some moment of the question
          torn       \* ghost: an index run committed within the search

questionVars == <<index, commits, asked, step, searched, results, context, citations, seen, torn>>

NothingSearched == [corpus |-> <<>>, semantic |-> <<>>, symbols |-> <<>>]

QuestionInit ==
    /\ index \in Indexes /\ commits = 0
    /\ asked \in [strategy : {"semantic", "hybrid", "hybrid_symbol", "hybrid_rerank"},
                  expanded : BOOLEAN, exact : BOOLEAN]
    /\ asked.exact => asked.strategy = "hybrid_symbol"
    /\ step = "asked"
    /\ searched = NothingSearched /\ results = <<>> /\ context = <<>> /\ citations = <<>>
    /\ seen = ToSet(index.chunks) /\ torn = FALSE

Searching == {"sizing", "ranking", "naming"}  \* after the first statement, before the last
Over == {"answered", "insufficient", "failed", "conflict", "cancelled"}

\* apply_index_update of another process commits a whole index.
IndexCommits ==
    /\ step \notin Over /\ commits < MaxCommits
    /\ index' \in Indexes \ {index} /\ commits' = commits + 1
    /\ seen' = seen \cup ToSet(index'.chunks)
    /\ torn' = (torn \/ step \in Searching)
    /\ UNCHANGED <<asked, step, searched, results, context, citations>>

\* cancellation.checkpoint, wherever the pipeline has one.
CancelQuestion ==
    /\ step \in {"asked", "retrieved", "built", "generated"}
    /\ step' = "cancelled"
    /\ UNCHANGED <<index, commits, asked, searched, results, context, citations, seen, torn>>

\* An embedding or a model request fails, after its retries.
RequestFails ==
    /\ step \in {"asked", "fused", "built"}
    /\ step' = "failed"
    /\ UNCHANGED <<index, commits, asked, searched, results, context, citations, seen, torn>>
-----------------------------------------------------------------------------
(* RepositoryStore.search: one statement, one step. *)

Hybrid    == asked.strategy # "semantic"
Reranking == asked.strategy = "hybrid_rerank"
Wanted    == IF Reranking THEN Max({RerankPool, TopK}) ELSE TopK
Depth     == IF Hybrid THEN Multiplier * Wanted ELSE Wanted

Search(from, to) == step = from /\ step' = to
             /\ UNCHANGED <<index, commits, asked, results, context, citations, seen, torn>>

EmbedQuery == Search("asked", IF Hybrid THEN "loading" ELSE "sizing") /\ UNCHANGED searched

\* load_chunks
LoadChunks == /\ Search("loading", "sizing")
              /\ searched' = [searched EXCEPT !.corpus = index.chunks]

\* pgvector_semantic_search, first statement: no vector of the model means no results, and
\* vectors of another size an error.
AfterRanking == CASE asked.strategy = "hybrid_symbol" -> "naming" [] OTHER -> "fusing"
ReadDimensions ==
    /\ step = "sizing"
    /\ Search("sizing", IF index.model # QueryModel \/ index.chunks = <<>> THEN AfterRanking
                        ELSE IF index.dimensions = QueryDimensions THEN "ranking" ELSE "failed")
    /\ UNCHANGED searched

\* Its last statement ranks what the index holds by then.
RankBySimilarity ==
    /\ Search("ranking", AfterRanking)
    /\ searched' = [searched EXCEPT !.semantic =
          IF index.model = QueryModel /\ index.dimensions = QueryDimensions
            THEN SemanticSearch(index.chunks, Depth) ELSE <<>>]

\* find_symbol_candidates
FindSymbols == /\ Search("naming", "fusing")
               /\ searched' = [searched EXCEPT !.symbols = SymbolSearch(index.chunks)]

\* The sources that are fused: the lexical ranking is that of the corpus loaded first.
Evidence == <<searched.semantic, LexicalSearch(searched.corpus, Depth)>>
Votes == IF asked.exact THEN searched.symbols
         ELSE Project(searched.symbols, Fuse(Evidence, Len(Evidence[1]) + Len(Evidence[2])))
Rankings == Append(Evidence, Votes)

FuseRankings ==
    /\ step = "fusing"
    /\ IF Hybrid /\ (Conflict(Evidence) \/ Conflict(Rankings))
         THEN step' = "conflict" /\ UNCHANGED results
         ELSE /\ results' = IF Hybrid THEN Fuse(Rankings, Wanted) ELSE searched.semantic
              /\ step' = IF Reranking /\ results' # <<>> THEN "fused" ELSE "retrieved"
    /\ UNCHANGED <<index, commits, asked, searched, context, citations, seen, torn>>

Block(c) == Markup + Size(c)

\* LLMReranker.rerank: what the model answers is validated before any of it is used.
Rerank ==
    /\ step = "fused"
    /\ LET candidates == Bounded(results, [c \in ToSet(results) |-> Block(c)]) IN
       \E n \in 0..(Len(candidates) + 1) : \E answer \in [1..n -> 0..Len(candidates)] :
         IF Orders(answer, Len(candidates))
           THEN /\ results' = Take([i \in 1..n |-> candidates[answer[i]]], TopK)
                /\ step' = "retrieved"
           ELSE step' = "failed" /\ UNCHANGED results
    /\ UNCHANGED <<index, commits, asked, searched, context, citations, seen, torn>>
-----------------------------------------------------------------------------
(* rag/context.py: a source is a chunk, or the shown prefix of one. *)

Whole(c) == [chunk |-> c, truncated |-> FALSE]
BlockSize(s) == Block(s.chunk) + (IF s.truncated THEN TruncatedMark ELSE 0)

\* Mutant: a cut keeps the lines of the chunk it was cut from.
CutKeepsRange(c, keep) ==
    [c EXCEPT !.sizes = [i \in 1..Len(c.sizes) |-> IF i = 1 THEN keep ELSE 0]]
\* The first keep characters of a chunk, to the end of a line if one ends there, and only
\* the lines of these.
Cut(c, keep) ==
    LET whole == {n \in 0..Len(c.sizes) : Sum(Take(c.sizes, n)) <= keep} IN
    [c EXCEPT !.sizes = IF Max(whole) = 0 THEN <<keep>> ELSE Take(c.sizes, Max(whole))]

\* truncate_source_to_fit: at least one character is kept.
Truncate(s, room) ==
    IF BlockSize(s) <= room \/ Size(s.chunk) = 0 THEN s
    ELSE [chunk |-> Cut(s.chunk, Max({1, room - Markup - TruncatedMark})), truncated |-> TRUE]

ContextChars(sources) == Wrapper + Sum([i \in 1..Len(sources) |-> BlockSize(sources[i])])

\* build_repository_context: up to the first that does not fit; the first is cut instead.
BuildContext(ranked) ==
    LET Add(acc, s) ==
          IF acc.full THEN acc
          ELSE IF ContextChars(Append(acc.sources, s)) <= MaxContextChars
            THEN [acc EXCEPT !.sources = Append(@, s)]
          ELSE IF acc.sources # <<>> THEN [acc EXCEPT !.full = TRUE]
          ELSE [acc EXCEPT !.sources = <<Truncate(s, MaxContextChars - Wrapper)>>]
    IN FoldLeft(Add, [sources |-> <<>>, full |-> FALSE], ranked).sources
-----------------------------------------------------------------------------
(* assemble_context *)

Tokens(chars) == (chars + 3) \div 4

Contained(inner, outer) ==
    inner.path = outer.path /\ outer.from <= inner.from /\ EndLine(inner) <= EndLine(outer)

\* The neighbours of the seeds among the loaded chunks, each at the best of its priorities:
\* a fragment of the seed's symbol first, then the rank of the seed, then the distance.
Neighbours(seeds, loaded) ==
    LET Key(i, c) == <<IF seeds[i].fragment /\ c.fragment /\ seeds[i].symbol = c.symbol THEN 0 ELSE 1,
                       i, IF c.index < seeds[i].index THEN seeds[i].index - c.index
                                                      ELSE c.index - seeds[i].index>>
        Near(i, c) == /\ c.path = seeds[i].path /\ c.strategy = seeds[i].strategy
                      /\ Key(i, c)[3] \in 1..Radius
        pool == {c \in loaded : /\ \E i \in 1..Len(seeds) : Near(i, c)
                                /\ \A i \in 1..Len(seeds) : Identity(seeds[i]) # Identity(c)}
        Keys(c) == {Key(i, c) : i \in {k \in 1..Len(seeds) : Near(k, c)}}
        Best(c) == Arranged([x \in Keys(c) |-> x])[1]
    IN Arranged([c \in pool |-> Best(c) \o Identity(c)])

\* Mutant: the budget is compared with what was packed before.
PackLate(seeds, neighbours) ==
    LET Add(acc, s) ==
          IF acc.tokens > BudgetTokens THEN acc
          ELSE [sources |-> Append(acc.sources, s), tokens |-> acc.tokens + Tokens(BlockSize(s))]
        all == seeds \o neighbours
    IN FoldLeft(Add, [sources |-> <<>>, tokens |-> 0], [i \in 1..Len(all) |-> Whole(all[i])]).sources
\* Seeds, then neighbours that no packed source contains, as the token budget allows; the
\* very first is cut to fit.
Pack(seeds, neighbours) ==
    LET Add(acc, s) ==
          LET fits == acc.tokens + Tokens(BlockSize(s)) <= BudgetTokens
              cut  == Truncate(s, 4 * BudgetTokens)
          IN IF ~(s.chunk \in ToSet(seeds))
                  /\ \E k \in ToSet(acc.sources) : Contained(s.chunk, k.chunk) THEN acc
             ELSE IF fits THEN [sources |-> Append(acc.sources, s),
                                tokens |-> acc.tokens + Tokens(BlockSize(s))]
             ELSE IF acc.sources # <<>> THEN acc
             ELSE [sources |-> <<cut>>, tokens |-> Tokens(BlockSize(cut))]
        all == seeds \o neighbours
    IN FoldLeft(Add, [sources |-> <<>>, tokens |-> 0], [i \in 1..Len(all) |-> Whole(all[i])]).sources

\* build_rag_context; without results there is nothing to ask the model.
Assemble ==
    /\ step = "retrieved"
    /\ IF results = <<>> THEN step' = "insufficient" /\ UNCHANGED context
       ELSE /\ step' = "built"
            /\ context' = BuildContext(
                 IF asked.expanded THEN Pack(results, Neighbours(results, ToSet(index.chunks)))
                 ELSE [i \in 1..Len(results) |-> Whole(results[i])])
    /\ UNCHANGED <<index, commits, asked, searched, results, citations, seen, torn>>
-----------------------------------------------------------------------------
(* The answer. *)

Generate ==
    /\ step = "built"
    /\ step' = "generated"
    /\ UNCHANGED <<index, commits, asked, searched, results, context, citations, seen, torn>>

Cited(s) == [path |-> s.chunk.path, from |-> s.chunk.from, to |-> EndLine(s.chunk)]

\* _map_answer: only known sources are cited, each once, and an answer cites at least one.
MapAnswer ==
    /\ step = "generated"
    /\ \E n \in 0..2 : \E ids \in [1..n -> 0..Len(context)], insufficient \in BOOLEAN :
         IF 0 \in ToSet(ids) \/ (ids = <<>> /\ ~insufficient)
           THEN step' = "failed" /\ UNCHANGED citations
           ELSE LET kept == IF n = 2 /\ ids[1] = ids[n] THEN <<ids[1]>> ELSE ids IN
                /\ citations' = [i \in 1..Len(kept) |-> Cited(context[kept[i]])]
                /\ step' = IF insufficient THEN "insufficient" ELSE "answered"
    /\ UNCHANGED <<index, commits, asked, searched, results, context, seen, torn>>

QuestionNext ==
    \/ IndexCommits \/ CancelQuestion \/ RequestFails
    \/ EmbedQuery \/ LoadChunks \/ ReadDimensions \/ RankBySimilarity \/ FindSymbols
    \/ FuseRankings \/ Rerank \/ Assemble \/ Generate \/ MapAnswer
QuestionSpec == QuestionInit /\ [][QuestionNext]_questionVars
-----------------------------------------------------------------------------
(* Properties. *)

\* What a search returns is one ranking: no chunk twice, none that no statement returned,
\* and none before another that every statement preferred; and it fails over two chunks
\* of one identity only if an index run really committed between its statements, never
\* because of the symbols and fragments of a single index.
SearchSound ==
    /\ step = "conflict" => torn
    /\ step \in {"fused", "retrieved"} =>
         /\ Len(results) <= Wanted
         /\ \A i, k \in 1..Len(results) : Identity(results[i]) = Identity(results[k]) => i = k
         /\ Hybrid => ToSet(results) \subseteq UNION {ToSet(Rankings[s]) : s \in 1..3}
         /\ Hybrid /\ ~Reranking =>
              \A i, k \in 1..Len(results) :
                  (\A s \in 1..3 :
                      RankIn(Rankings[s], results[i]) # 0 =>
                          RankIn(Rankings[s], results[k]) \in 1..(RankIn(Rankings[s], results[i])))
                  => k <= i

\* What the model was shown is within both budgets, except for the one character that is
\* always kept, and every citation of an answer names lines it was shown, of a chunk that
\* was in the index at some moment of the question, however the index changed and wherever
\* the text was cut.
CitationsWereShown ==
    /\ step \in {"built", "generated", "answered"} =>
         /\ context # <<>>
         /\ \/ ContextChars(context) <= MaxContextChars
            \/ Len(context) = 1 /\ Size(context[1].chunk) = 1
         /\ asked.expanded =>
              \/ Sum([i \in 1..Len(context) |-> Tokens(BlockSize(context[i]))]) <= BudgetTokens
              \/ Len(context) = 1 /\ Size(context[1].chunk) = 1
    /\ step = "answered" => citations # <<>>
    /\ \A i \in 1..Len(citations) : \E s \in ToSet(context) : \E c \in seen :
         /\ citations[i] = Cited(s)
         /\ s.chunk = [c EXCEPT !.sizes = s.chunk.sizes]
         /\ s.truncated \/ s.chunk = c
         /\ Len(s.chunk.sizes) <= Len(c.sizes)
         /\ \A k \in 1..Len(s.chunk.sizes) :
              /\ s.chunk.sizes[k] > 0
              /\ s.chunk.sizes[k] = c.sizes[k] \/ (k = 1 /\ s.chunk.sizes[k] < c.sizes[k]
                                                   /\ Len(s.chunk.sizes) = 1)
=============================================================================
