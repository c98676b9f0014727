---------------------------- MODULE MCRetrieval -----------------------------
(***************************************************************************)
(* From a file to an answer, side by side: a behaviour reads a working     *)
(* tree, chunks one file, or asks one question of the index.  They share   *)
(* nothing, so the part is chosen in the initial state and the others keep *)
(* one initial value.                                                      *)
(***************************************************************************)
EXTENDS Chunking, SourceIngestion, RepositoryQuestion

VARIABLE part

mcVars == <<ingestionVars, chunkingVars, questionVars, part>>

\* A tree with a file, a directory with a file, and names in the order of the paths.
MCNames == {[path |-> 1, dir |-> 0], [path |-> 2, dir |-> 0], [path |-> 3, dir |-> 2]}
MCKinds == {Entry("directory", 0, "text"), Entry("link", 1, "text"), Entry("special", 0, "text"),
            Entry("file", 1, "text"), Entry("file", 3, "text"), Entry("file", 1, "binary"),
            Entry("file", 1, "undecodable"), Entry("file", 1, "unreadable")}

\* Files of up to four lines: short, blank, as long as a chunk may be, and longer; Python
\* files with the definitions ast.parse may find in four lines, none, two, or three nested.
LineFiles   == UNION {[1..n -> {1, 2, 3, 7}] : n \in 1..4}
PythonLines == {<<2, 3, 2, 3>>, <<3, 1, 7, 2>>, <<1, 2, 1, 2>>}
Spans == {d \in [from : 1..4, to : 1..4, class : BOOLEAN, direct : BOOLEAN] : d.from <= d.to}
Nested(S) == \A d, e \in S : d = e \/ (d.from # e.from /\ (\/ d.to < e.from \/ e.to < d.from
                                                          \/ Inside(d, e) \/ Inside(e, d)))
Families ==
    {S \in {{}} \cup {{d, e} : d, e \in Spans} : Nested(S)} \cup
    { {[from |-> 1, to |-> 4, class |-> c1, direct |-> TRUE],
       [from |-> 2, to |-> t, class |-> c2, direct |-> x],
       [from |-> 3, to |-> u, class |-> c3, direct |-> y]} :
         c1, c2, c3, x, y \in BOOLEAN, t \in {2, 4}, u \in {3, 4} }
MCSources ==
    [lines : LineFiles, python : {FALSE}, definitions : {{}}, ends : {{}}] \cup
    {s \in [lines : PythonLines, python : {TRUE}, definitions : Families,
            ends : {{}, {2}, {3, 4}, {2, 3, 4}}] :
        \A d \in s.definitions : ~Blank(s.lines, d.from) /\ ~Blank(s.lines, d.to)}
MCConfigs == [structural : {FALSE}, lines : {2, 3}, overlap : {1}, chars : {3, 5}] \cup
             [structural : {TRUE}, lines : {2}, overlap : {1}, chars : {5}]

\* Indexes of two files: a function of two chunks and other symbols; the same files after
\* an edit; two of another model or vector size; and an empty one.
MCChunk(path, i, from, sizes, text, symbol, tier, near, score) ==
    [path |-> path, index |-> i, from |-> from, sizes |-> sizes, text |-> text, symbol |-> symbol,
     tier |-> tier, near |-> near, score |-> score, fragment |-> symbol # "none",
     strategy |-> "structural"]
Indexed(model, dimensions, stored) == [model |-> model, dimensions |-> dimensions, chunks |-> stored]
OneChunk == <<MCChunk(1, 0, 1, <<4, 4>>, "a", "f", 0, 2, 1)>>
MCIndexes ==
    { Indexed("m", 1, << MCChunk(1, 0, 1, <<4, 4>>, "a", "f", 0, 2, 1),
                         MCChunk(1, 1, 3, <<8>>, "b", "f", 0, 3, 3),
                         MCChunk(1, 2, 4, <<10, 20>>, "c", "g", 2, 1, 0),
                         MCChunk(2, 0, 1, <<4>>, "d", "none", 3, 4, 2) >>),
      Indexed("m", 1, << MCChunk(1, 0, 1, <<4, 4>>, "A", "f", 0, 1, 1),
                         MCChunk(1, 1, 3, <<30>>, "B", "g", 2, 2, 2),
                         MCChunk(2, 0, 1, <<4>>, "d", "none", 3, 3, 2) >>),
      Indexed("n", 2, OneChunk), Indexed("m", 2, OneChunk), Indexed("m", 1, <<>>) }

\* The one value the state of a part has in a behaviour of the others.
StillTree   == [p \in Paths |-> Entry(IF p = 2 THEN "directory" ELSE "file", IF p = 2 THEN 0 ELSE 1, "text")]
StillSource == [lines |-> <<1>>, python |-> FALSE, definitions |-> {}, ends |-> {}]
StillConfig == [structural |-> TRUE, lines |-> 2, overlap |-> 1, chars |-> 5]
StillIndex  == Indexed("m", 1, <<>>)
StillAsked  == [strategy |-> "semantic", expanded |-> FALSE, exact |-> FALSE]

MCInit ==
    /\ part \in {"ingestion", "chunking", "question"}
    /\ part # "ingestion" => entry = StillTree /\ trait = [p \in Paths |-> "supported"]
    /\ part # "chunking" => source = StillSource /\ config = StillConfig
    /\ part # "question" => index = StillIndex /\ asked = StillAsked
    /\ IngestionInit /\ ChunkingInit /\ QuestionInit

Ingest == part = "ingestion" /\ IngestionNext /\ UNCHANGED <<chunkingVars, questionVars, part>>
Divide == part = "chunking" /\ ChunkSourceFile /\ UNCHANGED <<ingestionVars, questionVars, part>>
Ask    == part = "question" /\ QuestionNext /\ UNCHANGED <<ingestionVars, chunkingVars, part>>

MCSpec == MCInit /\ [][Ingest \/ Divide \/ Ask]_mcVars
=============================================================================
