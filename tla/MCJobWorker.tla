---------------------------- MODULE MCJobWorker ----------------------------
(* Instances of JobWorker: two processes and up to two jobs in one repository. *)
EXTENDS JobWorker, TLC

CONSTANTS c1, i1, q1, w1, w2, r1

MCWorkers    == {w1, w2}
MCRepos      == {r1}
MCSymmetry   == Permutations(MCWorkers)

\* An index job alone: two attempts that compete for the lock of r1.
MCIndex       == {i1}
MCNone        == {}
MCIndexType   == i1 :> "index"
MCIndexRepo   == i1 :> r1

\* A coding job and a query, one attempt each.
MCMixed       == {c1, q1}
MCCoding      == {c1}
MCMixedTypes  == c1 :> "coding" @@ q1 :> "query"
MCMixedRepos  == c1 :> r1 @@ q1 :> r1
=============================================================================
