--------------------------- MODULE WorkspaceTools ---------------------------
(***************************************************************************)
(* What the inspection tools of an agent return for a working tree         *)
(* (tools/filesystem.py, tools/search.py, tools/indexed_search.py).  A     *)
(* tree gives every path its kind and, for a file that the tools can read, *)
(* its lines; a line is the set of words that a search finds in it, each   *)
(* with whether the line declares it.  The paths are numbered in the order *)
(* in which a search visits them.                                          *)
(***************************************************************************)
EXTENDS Naturals, SequencesExt

CONSTANTS MaxPath,          \* the paths are 1..MaxPath
          Metadata,         \* those that name Git metadata
          MaxSearchResults  \* ToolConfig.max_search_results

ASSUME ToolsAssumption ==
    MaxPath \in Nat \ {0} /\ Metadata \subseteq 1..MaxPath /\ MaxSearchResults \in Nat \ {0}

Paths == 1..MaxPath

Absent     == [kind |-> "absent", lines |-> <<>>]
Folder     == [kind |-> "directory", lines |-> <<>>]
Unreadable == [kind |-> "unreadable", lines |-> <<>>]  \* too large, binary, undecodable
Text(lines) == [kind |-> "text", lines |-> lines]

Failed(tool, path, error) ==
    [tool |-> tool, path |-> path, ok |-> FALSE, error |-> error, locations |-> <<>>,
     truncated |-> FALSE]
Returned(tool, path, locations) ==
    [tool |-> tool, path |-> path, ok |-> TRUE, error |-> "none", locations |-> locations,
     truncated |-> FALSE]
Location(path, from, to) == [path |-> path, from |-> from, to |-> to]

\* read_file: the requested range is cut at the end of the file (0: not given).
ReadFile(tree, path, from, to) ==
    LET file  == tree[path]
        total == Len(file.lines)
        start == IF from = 0 THEN 1 ELSE from
        end   == IF to = 0 \/ to > total THEN total ELSE to
    IN IF path \in Metadata             THEN Failed("read_file", path, "metadata")
       ELSE IF file.kind = "absent"     THEN Failed("read_file", path, "missing")
       ELSE IF file.kind = "directory"  THEN Failed("read_file", path, "not_a_file")
       ELSE IF file.kind = "unreadable" THEN Failed("read_file", path, "unreadable")
       ELSE IF total = 0                THEN Returned("read_file", path, <<Location(path, 0, 0)>>)
       ELSE IF start > total            THEN Failed("read_file", path, "out_of_range")
       ELSE Returned("read_file", path, <<Location(path, start, end)>>)

\* _source_lines: the lines of every readable source file, in the order of the paths.
SourceLines(tree) ==
    FlattenSeq([p \in Paths |->
        IF p \in Metadata \/ tree[p].kind # "text" THEN <<>>
        ELSE [n \in 1..Len(tree[p].lines) |-> [path |-> p, line |-> n, words |-> tree[p].lines[n]]]])

\* The elements of a sequence that belong to a set, in their order.
Within(seq, S) == FoldLeft(LAMBDA kept, x : IF x \in S THEN Append(kept, x) ELSE kept, <<>>, seq)

\* The first lines with one of the words, and whether there are more.
Found(tool, tree, words, limit) ==
    LET lines == SourceLines(tree)
        hits  == Within(lines, {l \in ToSet(lines) : l.words \cap words # {}})
        shown == IF limit < MaxSearchResults THEN limit ELSE MaxSearchResults
        kept  == SubSeq(hits, 1, IF Len(hits) < shown THEN Len(hits) ELSE shown)
    IN [Returned(tool, 0, [i \in 1..Len(kept) |-> Location(kept[i].path, kept[i].line, kept[i].line)])
           EXCEPT !.truncated = Len(hits) > shown]

SearchCode(tree, word, limit) ==
    Found("search_code", tree, [word : {word}, declares : BOOLEAN], limit)
FindSymbol(tree, word, limit) ==
    Found("find_symbol", tree, [word : {word}, declares : {TRUE}], limit)

\* indexed_code_search: the locations of the index, whatever the tree holds now.
IndexedCodeSearch(hits) ==
    Returned("indexed_code_search", 0, [i \in 1..Len(hits) |-> Location(hits[i], 1, 1)])
=============================================================================
