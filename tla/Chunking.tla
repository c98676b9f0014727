------------------------------ MODULE Chunking ------------------------------
(***************************************************************************)
(* How a source file becomes chunks (ingestion/chunker.py, structural.py,  *)
(* lines.py).  A file is the sequence of the lengths of its lines, each    *)
(* with its ending, and a line of one character is blank.  A text is the   *)
(* sequence of the positions of its characters, so that a chunk says which *)
(* characters of the file it holds.  What ast.parse finds is a set of      *)
(* definitions: their lines with the decorators, whether they are classes, *)
(* and whether they are statements of their scope or of an if or try in it.*)
(***************************************************************************)
EXTENDS Integers, SequencesExt

CONSTANTS Sources,  \* [lines, python, definitions, ends]: ends are the last lines of statements
          Configs   \* ChunkingConfig: [structural, lines, overlap, chars]

ASSUME ChunkingAssumption ==
    /\ \A s \in Sources : s.lines \in Seq(Nat \ {0}) /\ \A d \in s.definitions : d.from \in 1..Len(s.lines)
    /\ \A c \in Configs : {c.lines, c.chars} \subseteq Nat \ {0} /\ c.overlap \in 0..(c.lines - 1)

VARIABLES source, config, chunks

chunkingVars == <<source, config, chunks>>

NoSymbol == [from |-> 0, to |-> 0, class |-> FALSE, direct |-> FALSE]
Blank(file, n) == file[n] = 1
TextOf(file, from, to) ==
    FlattenSeq([i \in 1..(to - from + 1) |-> [k \in 1..file[from + i - 1] |-> <<from + i - 1, k>>]])
Chars(file, from, to) == Len(TextOf(file, from, to))

Chunk(from, to, text, kind, symbol) ==
    [from |-> from, to |-> to, text |-> text, kind |-> kind, symbol |-> symbol]

\* split_oversized_line: the fewest pieces of at most max characters, the longer first.
Split(text, max) ==
    LET count    == (Len(text) + max - 1) \div max
        size     == Len(text) \div count
        Start(i) == i * size + (IF i < Len(text) % count THEN i ELSE Len(text) % count)
    IN [i \in 1..count |-> SubSeq(text, Start(i - 1) + 1, Start(i))]
-----------------------------------------------------------------------------
(* _line_chunks. *)

\* The last line of the window that begins at start; the line before start if that line
\* alone is too long.
WindowEnd(file, c, start) ==
    Max({start - 1} \cup {e \in start..Len(file) : /\ e - start < c.lines
                                                   /\ Chars(file, start, e) <= c.chars})

\* Mutant: the overlap of a full window, whatever the next line needs.
OverlapUncapped(file, c, start, end) == ((end - start + 1) * c.overlap) \div c.lines
\* The lines repeated by the next window: the configured share, less what keeps the first
\* new line out.
Overlap(file, c, start, end) ==
    LET share == ((end - start + 1) * c.overlap) \div c.lines IN
    Max({0} \cup {o \in 1..share : Chars(file, end - o + 1, end + 1) <= c.chars})

\* The first line of the next window; a line that is too long is repeated nowhere, and
\* after the last line no window begins.
NextStart(file, c, start) ==
    LET end == WindowEnd(file, c, start) IN
    IF end < start THEN start + 1
    ELSE IF end = Len(file) THEN Len(file) + 1
    ELSE end + 1 - Overlap(file, c, start, end)

\* Where the scan begins its windows: at the first line and then at every next start.
Starts(file, c) ==
    {line \in 1..Len(file) :
        \A S \in SUBSET (1..Len(file)) :
            (1 \in S /\ \A start \in S : NextStart(file, c, start) \in S \cup {Len(file) + 1})
                => line \in S}

\* One window: a chunk of whole lines, or the pieces of a line that is too long.
Window(file, c, kind, start) ==
    LET end    == WindowEnd(file, c, start)
        pieces == Split(TextOf(file, start, start), c.chars)
    IN IF end < start
         THEN [i \in 1..Len(pieces) |-> Chunk(start, start, pieces[i], kind, NoSymbol)]
         ELSE <<Chunk(start, end, TextOf(file, start, end), kind, NoSymbol)>>

LineChunks(file, c, kind) ==
    LET starts == Starts(file, c) IN
    FlattenSeq([line \in 1..Len(file) |->
                  IF line \in starts THEN Window(file, c, kind, line) ELSE <<>>])
-----------------------------------------------------------------------------
(* The structural units. *)

Inside(d, e) == d # e /\ e.from < d.from /\ d.to <= e.to
Outermost(S) == {d \in S : \A e \in S : ~Inside(d, e)}
InOrder(S)   == SetToSortSeq(S, LAMBDA d, e : d.from < e.from)

Unit(from, to, kind, symbol, breaks) ==
    [from |-> from, to |-> to, kind |-> kind, symbol |-> symbol, breaks |-> breaks]

\* A scope that is one unit, but for its children: what is left of it before, between and
\* after them, and their units.
Scope(unit, children, UnitsOf) ==
    LET Own(from, to) == [unit EXCEPT !.from = from, !.to = to]
        cursor == IF children = <<>> THEN unit.from ELSE Last(children).to + 1
    IN
    FlattenSeq([i \in 1..Len(children) |->
        LET start == IF i = 1 THEN unit.from ELSE children[i - 1].to + 1 IN
        (IF start < children[i].from THEN <<Own(start, children[i].from - 1)>> ELSE <<>>)
            \o UnitsOf[children[i]]])
      \o (IF cursor <= unit.to THEN <<Own(cursor, unit.to)>> ELSE <<>>)

\* The last lines of the statements of d itself: none within one of its children.
Breaks(src, d) ==
    {n \in src.ends : /\ d.from <= n /\ n <= d.to
                      /\ \A e \in src.definitions : Inside(e, d) => ~(e.from <= n /\ n < e.to)}

\* _definition_units.  A function is one unit with all its lines, followed by the units of
\* the definitions nested in it anywhere; the methods of a class are cut out of it.
DefinitionUnits(src) ==
    LET UnitsOf[d \in src.definitions] ==
          LET nested   == Outermost({e \in src.definitions : Inside(e, d)})
              children == InOrder({e \in nested : e.direct})
          IN IF d.class /\ children # <<>>
               THEN Scope(Unit(d.from, d.to, "class", d, {}), children, UnitsOf)
               ELSE <<Unit(d.from, d.to, IF d.class THEN "class" ELSE "function", d, Breaks(src, d))>>
                      \o (IF d.class THEN <<>>
                          ELSE FlattenSeq([i \in 1..Cardinality(nested) |-> UnitsOf[InOrder(nested)[i]]]))
    IN UnitsOf

ModuleUnits(src) ==
    Scope(Unit(1, Len(src.lines), "module", NoSymbol, {}),
          InOrder({d \in Outermost(src.definitions) : d.direct}), DefinitionUnits(src))

\* _pieces_for_range
Pieces(file, unit, c) ==
    FlattenSeq([i \in 1..(unit.to - unit.from + 1) |->
        Split(TextOf(file, unit.from + i - 1, unit.from + i - 1), c.chars)])

\* Mutant: the lines between the ends of a part are counted, not the lines of the part.
FitsLoosely(pieces, cursor, end, c) ==
    /\ Len(FlattenSeq(SubSeq(pieces, cursor, end))) <= c.chars
    /\ pieces[end][1][1] - pieces[cursor][1][1] <= c.lines
Fits(pieces, cursor, end, c) ==
    /\ Len(FlattenSeq(SubSeq(pieces, cursor, end))) <= c.chars
    /\ pieces[end][1][1] - pieces[cursor][1][1] + 1 <= c.lines

\* _bounded_parts: as many pieces as fit, cut back to the end of a statement if one ends
\* there and something follows.
Parts(file, unit, c) ==
    LET pieces  == Pieces(file, unit, c)
        Line(i) == pieces[i][1][1]
        From[cursor \in 1..(Len(pieces) + 1)] ==
          LET fitting   == {e \in cursor..Len(pieces) : Fits(pieces, cursor, e, c)}
              preferred == {e \in fitting : /\ Line(e) \in unit.breaks
                                            /\ e < Len(pieces) => Line(e + 1) # Line(e)}
              end       == IF Max(fitting) < Len(pieces) /\ preferred # {}
                             THEN Max(preferred) ELSE Max(fitting)
          IN IF cursor > Len(pieces) THEN <<>>
             ELSE <<FlattenSeq(SubSeq(pieces, cursor, end))>> \o From[end + 1]
    IN From[1]

\* A unit of blank lines has no chunks, and one of several parts has fragments.
UnitChunks(file, unit, c) ==
    LET parts == Parts(file, unit, c) IN
    IF \A n \in unit.from..unit.to : Blank(file, n) THEN <<>>
    ELSE [i \in 1..Len(parts) |->
            Chunk(Head(parts[i])[1], Last(parts[i])[1], parts[i],
                  IF Len(parts) > 1 THEN "fragment" ELSE unit.kind, unit.symbol)]

\* chunk_source_file; a file that is no Python or does not parse falls back to lines.
Chunks(src, c) ==
    IF ~c.structural THEN LineChunks(src.lines, c, "line")
    ELSE IF ~src.python THEN LineChunks(src.lines, c, "line_fallback")
    ELSE LET units == ModuleUnits(src) IN
         FlattenSeq([i \in 1..Len(units) |-> UnitChunks(src.lines, units[i], c)])

ChunkingInit == source \in Sources /\ config \in Configs /\ chunks = <<>>
ChunkSourceFile ==
    /\ chunks = <<>> /\ source.lines # <<>>
    /\ chunks' = Chunks(source, config)
    /\ UNCHANGED <<source, config>>

ChunkingSpec == ChunkingInit /\ [][ChunkSourceFile]_chunkingVars
-----------------------------------------------------------------------------
(* Properties. *)

\* The chunk is an unbroken piece of the file within both limits and cites exactly its lines,
\* and a line window brings a character that no earlier one had.
HonestChunk(i) ==
    LET k     == chunks[i]
        whole == TextOf(source.lines, 1, Len(source.lines))
        At(p) == CHOOSE x \in 1..Len(whole) : whole[x] = p
    IN /\ Len(k.text) \in 1..config.chars /\ k.to - k.from < config.lines
       /\ k.text = SubSeq(whole, At(Head(k.text)), At(Last(k.text)))
       /\ Head(k.text)[1] = k.from /\ Last(k.text)[1] = k.to
       /\ k.kind \in {"line", "line_fallback"} =>
            ~(ToSet(k.text) \subseteq UNION {ToSet(chunks[m].text) : m \in 1..(i - 1)})

InChunk(chunk, n) == ToSet(chunk.text) \cap {<<n, k>> : k \in 1..source.lines[n]}
\* Nothing of the line is missing.
LineKept(n) ==
    UNION {InChunk(chunks[i], n) : i \in 1..Len(chunks)} = {<<n, k>> : k \in 1..source.lines[n]}

\* The fragments of a function join to the function.
FunctionWhole(d) ==
    (\E i \in 1..Len(chunks) : chunks[i].symbol = d) =>
        LET own == SelectSeq(chunks, LAMBDA k : k.symbol = d) IN
        FlattenSeq([i \in 1..Len(own) |-> own[i].text]) = TextOf(source.lines, d.from, d.to)

\* The chunks are an honest index of the file: each says truly where it is from and none only
\* repeats, no line that holds anything is lost, also between two definitions, and a function
\* is in its fragments with all its lines.
ChunksCover == chunks # <<>> =>
    /\ \A i \in 1..Len(chunks) : HonestChunk(i)
    /\ \A n \in 1..Len(source.lines) : ~Blank(source.lines, n) => LineKept(n)
    /\ \A d \in source.definitions : ~d.class => FunctionWhole(d)
=============================================================================
