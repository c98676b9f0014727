----------------------- MODULE MCRepositoryRegistry ------------------------
(* Instance: two processes, nested and separate directories, two names. *)
EXTENDS RepositoryRegistry, TLC

CONSTANTS c1, c2, c3, p1, p2, m, n, a, b

MCCalls      == {c1, c2, c3}
MCProcesses  == {p1, p2}
MCHosts      == c1 :> p1 @@ c2 :> p1 @@ c3 :> p2
MCNames      == {m, n}
MCComponents == {a, b}

\* A directory, one inside it, and one beside it.
MCDirs       == {<<a>>, <<a, b>>, <<b>>}

\* A registration that waits for the lock gets its answer.  Stated of c1, which
\* competes with c2 in its own process and with c3 in the other.
RegistrationAnswered == Answered(c1)
=============================================================================
