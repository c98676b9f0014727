------------------------- MODULE MCRepositoryIndex -------------------------
(* Instances of RepositoryIndex: three calls, two paths, two contents. *)
EXTENDS RepositoryIndex, TLC

CONSTANTS r1, r2, r3, p1, p2, small, large, f1, f2

MCRuns       == {r1, r2, r3}
MCPaths      == {p1, p2}
MCContents   == {small, large}
MCConfigs    == {f1, f2}
MCChunksIn   == small :> 1 @@ large :> 2 @@ Missing :> 0

MCSymmetry   == Permutations(MCRuns)
=============================================================================
