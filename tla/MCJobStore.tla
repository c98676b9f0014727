----------------------------- MODULE MCJobStore -----------------------------
(* Instance of JobStore: one coding job, one job of another type, two workers. *)
EXTENDS JobStore

CONSTANTS c1, n1, w1, w2

MCJobs       == {c1, n1}
MCCodingJobs == {c1}
MCWorkers    == {w1, w2}
=============================================================================
