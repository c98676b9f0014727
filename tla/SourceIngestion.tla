--------------------------- MODULE SourceIngestion --------------------------
(***************************************************************************)
(* How a repository is read for indexing (ingestion/repository.py).  The   *)
(* walk lists one directory at a time and looks at every file four times:  *)
(* when it decides what the file is, when it asks again for links, when it *)
(* resolves the path, and when it opens what it has resolved.  Nothing     *)
(* keeps the working tree still meanwhile.  A file that cannot be read is  *)
(* skipped with a reason, and indexing goes on without it; a directory     *)
(* that cannot be listed looks empty.                                      *)
(***************************************************************************)
EXTENDS Naturals, SequencesExt

CONSTANTS Names,       \* the entries: [path |-> rank in the sorted order, dir |-> path of its directory]
          Root,        \* the path of the root, which is nobody's entry
          Kinds,       \* what an entry may be, of the records below
          MaxSize,     \* max_file_size_bytes
          MaxTreeSteps \* bound: changes of the tree during the walk

ASSUME IngestionAssumption ==
    /\ MaxSize \in Nat \ {0} /\ MaxTreeSteps \in Nat
    /\ \A k \in Kinds : k.size \in Nat
    /\ IsFiniteSet(Names)
    /\ \A n \in Names : /\ n.path \in Nat /\ n.path # Root
                        /\ n.dir \in {Root} \cup {m.path : m \in Names}
                        /\ n.dir # Root => n.dir < n.path  \* its name is how theirs begin

\* An entry: absent, directory, link, special, or file; a directory may be ignored, a file
\* unsupported or ignored by its name; bytes are text, binary, undecodable or unreadable.
Entry(type, size, bytes) == [type |-> type, size |-> size, bytes |-> bytes]
Gone == Entry("absent", 0, "text")

VARIABLES entry,    \* entry[path]: what is there now
          trait,    \* trait[path]: what its name says: supported, unsupported, ignored
          moved,    \* ghost: the paths that were changed during the walk
          unlisted, \* ghost: the directories that could not be listed
          refused,  \* ghost: the files that could not be looked at
          dirs,     \* directories still to be listed, as a stack
          names,    \* the files of the current directory still to be looked at
          at,       \* walking, checking, resolving, reading, or done
          target,   \* the path that was resolved, Root if none
          files,    \* SourceFile: [walked, path, size], walked under one path, recorded under another
          skipped,  \* SkippedFile: [path, reason]
          steps

walkVars == <<unlisted, refused, dirs, names, at, target, files, skipped>>
ingestionVars == <<entry, trait, moved, steps, walkVars>>

Paths == {n.path : n \in Names}
DirOf(p) == (CHOOSE n \in Names : n.path = p).dir
\* The list of a set in ascending order: each of its paths has so many before it.
Sorted(S) == [i \in 1..Cardinality(S) |-> CHOOSE p \in S : Cardinality({q \in S : q < p}) = i - 1]
\* Somewhere below a directory: whatever holds the directory of p, and the directory of
\* everything it holds, holds d.
Upward(S)   == \A q \in S : DirOf(q) \in S \cup {Root}
Under(p, d) == \A S \in SUBSET Paths : DirOf(p) \in S \cup {Root} /\ Upward(S) => d \in S
Below(p, d) == d = Root \/ Under(p, d)

\* A directory that is gone, or is a link, holds nothing.
Reachable(e, p) == \A d \in Paths : Under(p, d) => e[d].type = "directory"

IngestionInit ==
    /\ entry \in [Paths -> Kinds] /\ trait \in [Paths -> {"supported", "unsupported", "ignored"}]
    /\ \A p \in Paths : \/ (\E q \in Paths : Under(q, p)) /\ entry[p].type = "directory"
                        \/ ~(\E q \in Paths : Under(q, p)) /\ entry[p].type # "directory"
    /\ moved = {} /\ unlisted = {} /\ refused = {} /\ steps = 0
    /\ dirs = <<Root>> /\ names = <<>> /\ at = "walking" /\ target = Root
    /\ files = {} /\ skipped = {}

\* Somebody edits, replaces or deletes an entry.
TreeChanges(p) ==
    /\ at # "done" /\ steps < MaxTreeSteps
    /\ entry[p].type # "directory" => \E k \in Kinds \cup {Gone} :
                                        k.type # "directory" /\ entry' = [entry EXCEPT ![p] = k]
    /\ entry[p].type = "directory" => entry' = [entry EXCEPT ![p] = Gone]
    /\ entry' # entry
    /\ moved' = moved \cup {p} \cup {q \in Paths : Under(q, p)} /\ steps' = steps + 1
    /\ UNCHANGED <<trait, walkVars>>
-----------------------------------------------------------------------------
(* _iter_repository_files *)

Present(d) == {p \in Paths : DirOf(p) = d /\ Reachable(entry, p) /\ entry[p].type # "absent"}

\* os.walk lists a directory: its files, and its directories but those that are ignored or
\* linked.  The files come first, then the directories below.
ListDirectory ==
    /\ at = "walking" /\ names = <<>> /\ dirs # <<>>
    /\ LET here == Present(Head(dirs))
           below == {p \in here : entry[p].type = "directory" /\ trait[p] # "ignored"}
       IN /\ names' = Sorted({p \in here : entry[p].type # "directory"})
          /\ dirs' = Sorted(below) \o Tail(dirs)
    /\ UNCHANGED <<entry, trait, moved, unlisted, refused, at, target, files, skipped, steps>>

\* Without onerror, os.walk passes over a directory that cannot be listed as if it were
\* empty, and one whose path cannot be examined is pruned; nobody is told of either.
ListingFails ==
    /\ at = "walking" /\ names = <<>> /\ dirs # <<>>
    /\ unlisted' = unlisted \cup {Head(dirs)}
    /\ dirs' = Tail(dirs)
    /\ UNCHANGED <<entry, trait, moved, refused, names, at, target, files, skipped, steps>>

\* The next file is done with: it is left out for a reason, or for none.
Done == names' = Tail(names) /\ at' = "walking" /\ target' = Root
Skip(p, reason) ==
    /\ skipped' = skipped \cup {[path |-> p, reason |-> reason]}
    /\ Done /\ UNCHANGED files

\* What is at a path now; below a directory that went away there is nothing.
Now(p) == IF Reachable(entry, p) THEN entry[p] ELSE Gone

\* The first look: links and names are skipped; what is no file any more is passed over.
CheckFile ==
    /\ at = "walking" /\ names # <<>>
    /\ LET p == Head(names) IN
         CASE Now(p).type = "link" -> Skip(p, "symlink")
           [] Now(p).type = "file" /\ trait[p] = "unsupported" -> Skip(p, "unsupported_extension")
           [] Now(p).type = "file" /\ trait[p] = "ignored"     -> Skip(p, "ignored_file_pattern")
           [] Now(p).type = "file" /\ trait[p] = "supported" ->
                at' = "checking" /\ UNCHANGED <<names, target, files, skipped>>
           [] OTHER -> Done /\ UNCHANGED <<files, skipped>>
    /\ UNCHANGED <<entry, trait, moved, unlisted, refused, dirs, steps>>

\* resolve_repository_path asks again: it may have become a link.
CheckLinks ==
    /\ at = "checking"
    /\ IF Now(Head(names)).type = "link"
         THEN Skip(Head(names), "symlink")
         ELSE at' = "resolving" /\ UNCHANGED <<names, target, files, skipped>>
    /\ UNCHANGED <<entry, trait, moved, unlisted, refused, dirs, steps>>

\* _is_link_or_junction takes what it cannot examine for a link.
LookFails ==
    /\ at \in {"walking", "checking"} /\ names # <<>>
    /\ Skip(Head(names), "symlink")
    /\ refused' = refused \cup {Head(names)}
    /\ UNCHANGED <<entry, trait, moved, unlisted, dirs, steps>>

\* What load_source_file makes of the path that was resolved.
Resolved(q) ==
    \/ trait[q] = "unsupported" /\ Skip(Head(names), "unsupported_extension")
    \/ trait[q] = "ignored" /\ Skip(Head(names), "ingestion_error")
    \/ /\ trait[q] = "supported"
       /\ at' = "reading" /\ target' = q
       /\ UNCHANGED <<names, files, skipped>>

\* candidate.resolve follows what has become a link since, within the repository or out
\* of it, although resolve_repository_path promises to follow none.
ResolveFile ==
    /\ at = "resolving"
    /\ LET p == Head(names) IN
         \/ Now(p).type # "link" /\ Resolved(p)
         \/ Now(p).type = "link" /\ \E q \in Paths : Now(q).type # "link" /\ Resolved(q)
         \/ Now(p).type = "link" /\ Skip(p, "path_outside_repository")
    /\ UNCHANGED <<entry, trait, moved, unlisted, refused, dirs, steps>>

\* What load_source_file says of what it opens: the first error that applies.  A link to
\* nowhere, a directory or a missing file is a read error, as is one that may not be read.
ReadResult(e) ==
    IF e.type \notin {"file", "link"} \/ e.bytes = "unreadable" THEN "read_error"
    ELSE IF e.size > MaxSize THEN "file_too_large"
    ELSE IF e.bytes = "binary" THEN "binary_content"
    ELSE IF e.bytes = "undecodable" THEN "decode_error"
    ELSE "loaded"

\* The file is recorded under the path that was resolved, whatever was walked.
Load(p) ==
    /\ files' = files \cup {[walked |-> p, path |-> target, size |-> Now(target).size]}
    /\ Done /\ UNCHANGED skipped

\* Mutant: a file that cannot be read ends the walk, and the snapshot is used as it is.
ReadFileOrStop ==
    /\ at = "reading"
    /\ LET p == Head(names) result == ReadResult(Now(target)) IN
         \/ result = "loaded" /\ Load(p)
         \/ result \notin {"loaded", "read_error"} /\ Skip(p, result)
         \/ result = "read_error" /\ at' = "done" /\ UNCHANGED <<names, target, files, skipped>>
    /\ UNCHANGED <<entry, trait, moved, unlisted, refused, dirs, steps>>
\* It opens whatever is there now, a link included.
ReadSource ==
    /\ at = "reading"
    /\ LET p == Head(names) result == ReadResult(Now(target)) IN
         \/ result = "loaded" /\ Load(p)
         \/ result # "loaded" /\ Skip(p, result)
    /\ UNCHANGED <<entry, trait, moved, unlisted, refused, dirs, steps>>

\* The snapshot: files and skipped files sorted by path, with their count and total size.
EndWalk ==
    /\ at = "walking" /\ names = <<>> /\ dirs = <<>>
    /\ at' = "done"
    /\ UNCHANGED <<entry, trait, moved, unlisted, refused, dirs, names, target, files, skipped, steps>>

IngestionNext ==
    \/ ListDirectory \/ ListingFails \/ EndWalk
    \/ CheckFile \/ CheckLinks \/ LookFails \/ ResolveFile \/ ReadSource
    \/ \E p \in Paths : TreeChanges(p)
IngestionSpec == IngestionInit /\ [][IngestionNext]_ingestionVars
-----------------------------------------------------------------------------
(* Properties. *)

\* What the walk owes to a path that nobody touched.
Verdict(p) ==
    LET e == entry[p] IN
    IF e.type = "link" THEN "symlink"
    ELSE IF e.type # "file" THEN "nothing"
    ELSE IF trait[p] = "unsupported" THEN "unsupported_extension"
    ELSE IF trait[p] = "ignored" THEN "ignored_file_pattern"
    ELSE IF e.bytes = "unreadable" THEN "read_error"
    ELSE IF e.size > MaxSize THEN "file_too_large"
    ELSE IF e.bytes = "binary" THEN "binary_content"
    ELSE IF e.bytes = "undecodable" THEN "decode_error"
    ELSE "loaded"
\* What could not be looked at passes for a link.
Owed(p) == IF p \in refused THEN "symlink" ELSE Verdict(p)
\* Below no directory that is ignored or could not be listed.
Visited(p) == /\ Reachable(entry, p)
              /\ \A d \in Paths : Under(p, d) => trait[d] # "ignored"
              /\ \A d \in unlisted : ~Below(p, d)

\* The snapshot decides which rows of the index are kept or deleted.  Every path that
\* nobody touched and that is below no unlisted directory is loaded under its own name, or
\* skipped for the true reason, exactly as if the rest of the tree had stood still; no file
\* of the walk is both loaded and skipped, or has two records; and only what was
\* touched is recorded under another path than it was walked as (which may be the path
\* of another record).
SnapshotFaithful ==
    at = "done" =>
        /\ \A p \in Paths \ moved :
             LET loaded  == {f \in files : f.walked = p}
                 reasons == {s.reason : s \in {t \in skipped : t.path = p}}
             IN IF ~Visited(p) \/ Owed(p) = "nothing" THEN loaded = {} /\ reasons = {}
                ELSE IF Owed(p) = "loaded"
                  THEN loaded = {[walked |-> p, path |-> p, size |-> entry[p].size]} /\ reasons = {}
                  ELSE loaded = {} /\ reasons = {Owed(p)}
        /\ \A f \in files : f.size <= MaxSize /\ (f.path # f.walked => f.walked \in moved)
        /\ \A p \in Paths :
             Cardinality({f \in files : f.walked = p}) + Cardinality({s \in skipped : s.path = p}) <= 1
=============================================================================
