----------------------- MODULE CodingWorkflow_proofs -----------------------
(***************************************************************************)
(* What TLAPS proves of the coding workflow, for any paths and budgets.    *)
(*                                                                         *)
(* Completion is sound because every change of the tree is either counted  *)
(* by the revision, which makes older evidence stale, or leaves behind a   *)
(* path that the final Git status reports as unexpected (Accountable).     *)
(***************************************************************************)
EXTENDS CodingWorkflow, TLAPS

\* Where the agent may still ask for completion, and an attempt is left.
Working == at \in {"preflight", "planning", "deciding", "acting", "executed"}

TypeInv == /\ WorkflowTypeOK
           /\ Working => attempts < MaxAttempts
           /\ at = "preflight" => dirty \subseteq Paths

\* Paths that Git shows and nobody accounts for.
Suspect == (Shown \ baseline) \ mutated

\* Passing evidence of the current revision has seen the present tree, unless
\* a tool changed it without counting, and then Git shows an unexpected path.
Sees ==
    /\ outcome # "lost" =>
          \A c \in Verifiers : /\ evidence[c].rev <= revision
                               /\ Fresh(c) => c \in saw \/ Suspect # {}
    /\ at = "preflight" => \A c \in Verifiers : ~Fresh(c)

\* The Git evidence that is judged was captured from the present tree.
Captured ==
    /\ at \in {"judging", "reviewing", "gating"} /\ git # NoGit =>
          /\ git.unexpected = Suspect
          /\ git.kind \in {"partial", "truncated", "complete"}
          /\ git.kind = "complete" => "git" \in saw
    /\ at \in {"reviewing", "gating"} => git # NoGit /\ git.kind = "complete"

\* The edits of the run are recorded in the job row, and outcomes that
\* nothing revises are only reached at the end.
Recorded ==
    /\ mutated # {} /\ outcome # "lost" => marked
    /\ outcome \in {"completed", "cancelled", "lost"} => at = "ended"

\* A run that insists on a clean tree starts with an empty baseline.
CleanStart == RequireClean /\ at \notin {"preflight", "ended"} => baseline = {}

\* Recorded edits, honest cancellation, the baseline and the stamps of Git
\* evidence and review.
BookInv == ReviewIsCurrent /\ Recorded /\ CleanStart /\ CancelledBeforeEdits

\* The inductive invariant.
TaskInv == TypeInv /\ BookInv /\ Sees /\ Captured /\ CompletedIsVerified

-----------------------------------------------------------------------------
\* Absent evidence and whatever a verifier or Git returns is well-formed.
LEMMA NoneType == NoResult \in Results /\ NoGit \in GitReviews /\ NoReview \in Reviews
  <1>1. -1 \in -1..MaxMutations
    BY WorkflowAssumption
  <1> QED BY <1>1 DEF NoResult, NoGit, NoReview, Results, GitReviews, Reviews

\* Whatever a capture returns is well-formed evidence.
LEMMA CaptureType ==
  ASSUME WorkflowTypeOK, NEW g, Capture(g) PROVE g \in GitReviews
  <1>1. CASE g = NoGit
    BY <1>1, NoneType
  <1>2. ASSUME NEW kind \in {"partial", "truncated", "complete"}, NEW rendered \in BOOLEAN,
               g = [rev |-> revision, kind |-> kind, workflow |-> mutated \cap Shown,
                    unexpected |-> (Shown \ baseline) \ mutated, rendered |-> rendered]
        PROVE  g \in GitReviews
    <2>1. /\ revision \in -1..MaxMutations
          /\ Shown \subseteq Paths \cup {Temporary} /\ mutated \subseteq Paths
      BY WorkflowAssumption DEF WorkflowTypeOK, Shown
    <2> QED BY <2>1, <1>2 DEF GitReviews
  <1> QED BY <1>1, <1>2 DEF Capture

\* A verifier records well-formed evidence.
LEMMA RecordType ==
  ASSUME WorkflowTypeOK, NEW c \in Verifiers, Record(c)
  PROVE  evidence' \in [Verifiers -> Results] /\ saw' \subseteq saw \cup Verifiers
  <1>1. \A result \in {"passed", "failed", "error"} :
           [rev |-> revision, result |-> result] \in Results
    BY WorkflowAssumption DEF WorkflowTypeOK, Results
  <1> QED BY <1>1 DEF Record, WorkflowTypeOK
-----------------------------------------------------------------------------
\* The invariant holds before the run has looked at anything.
LEMMA TaskInvInit == Init => TaskInv
  <1> SUFFICES ASSUME Init PROVE TaskInv
    OBVIOUS
  <1> USE DEF Init
  <1>1. WorkflowTypeOK
    <2>1. /\ evidence \in [Verifiers -> Results]
          /\ git \in GitReviews /\ review \in Reviews
      BY NoneType
    <2>2. /\ dirty \subseteq Paths \cup {Temporary}
          /\ revision \in 0..MaxMutations
          /\ attempts \in 0..MaxAttempts /\ iteration \in 0..MaxIterations
      BY WorkflowAssumption
    <2> QED BY <2>1, <2>2 DEF WorkflowTypeOK
  <1>2. TypeInv
    BY <1>1, WorkflowAssumption DEF TypeInv, Working
  <1>3. ReviewIsCurrent /\ Captured /\ Recorded /\ CleanStart
    BY DEF ReviewIsCurrent, Captured, Recorded, CleanStart
  <1>4. Sees
    <2>1. \A c \in Verifiers : evidence[c].rev = -1 /\ evidence[c].result = "none"
      BY DEF NoResult
    <2>2. \A c \in Verifiers : ~Fresh(c) /\ evidence[c].rev <= revision
      BY <2>1 DEF Fresh
    <2> QED BY <2>2 DEF Sees
  <1>5. CompletedIsVerified /\ CancelledBeforeEdits
    BY DEF CompletedIsVerified, CancelledBeforeEdits
  <1> QED BY <1>2, <1>3, <1>4, <1>5 DEF TaskInv, BookInv
-----------------------------------------------------------------------------
\* Types are preserved, and so is the attempt that a working agent has left.
LEMMA TypeInvStep == TypeInv /\ [Next]_vars => TypeInv'
  <1> SUFFICES ASSUME TypeInv, [Next]_vars PROVE TypeInv'
    OBVIOUS
  <1> USE WorkflowAssumption, NoneType DEF TypeInv, Working, WorkflowTypeOK
  <1>1. CASE Preflight
    BY <1>1 DEF Preflight, Cancelled, Finish, Goto, tree, proofs, counters, Shown
  <1>2. CASE Planning
    BY <1>2 DEF Planning, Cancelled, Finish, Goto, tree, proofs, counters
  <1>3. CASE Decide
    BY <1>3 DEF Decide, Cancelled, Finish, Goto, Close, tree, proofs, counters
  <1>4. CASE Act
    <2>1. CASE Cancelled
      BY <2>1, <1>4 DEF Act, Cancelled, Finish, tree, proofs, counters
    <2>2. CASE Inspect
      BY <2>2, <1>4 DEF Act, Inspect, Answered, Returned, Goto, tree, proofs, counters
    <2>3. ASSUME NEW p \in Paths, Edit(p) PROVE TypeInv'
      <3>1. dirty' \subseteq Paths \cup {Temporary} /\ at = "acting"
        BY <2>3, <1>4 DEF Act, Edit, Written
      <3>2. mutated' \subseteq Paths /\ revision' \in 0..MaxMutations
        BY <2>3 DEF Edit
      <3>3. at' \in {"executed", "ended"} /\ outcome' \in {outcome, "lost"}
        BY <2>3 DEF Edit, Returned, Goto, Finish
      <3>4. /\ git' \in GitReviews /\ review' \in Reviews /\ marked' \in BOOLEAN
            /\ saw' = {} /\ UNCHANGED <<evidence, counters, baseline, cancel>>
        BY <2>3 DEF Edit
      <3> QED BY <3>1, <3>2, <3>3, <3>4 DEF counters
    <2>4. ASSUME NEW p \in Paths, HalfCreate(p) PROVE TypeInv'
      BY <2>4, <1>4 DEF Act, HalfCreate, Returned, Goto, counters
    <2>5. ASSUME NEW c \in Verifiers, Verify(c) PROVE TypeInv'
      BY <2>5, <1>4, RecordType DEF Act, Verify, Returned, Goto, tree, counters
    <2> QED BY <2>1, <2>2, <2>3, <2>4, <2>5, <1>4 DEF Act
  <1>5. CASE AfterTool
    BY <1>5 DEF AfterTool, Cancelled, Finish, Goto, tree, proofs, counters
  <1>6. CASE RequiredVerification("tests", "tests", "ruff")
    BY <1>6, RecordType DEF RequiredVerification, Verifiers, Cancelled, Finish, Goto,
                              tree, proofs, counters
  <1>7. CASE RequiredVerification("ruff", "ruff", "capturing")
    BY <1>7, RecordType DEF RequiredVerification, Verifiers, Cancelled, Finish, Goto,
                              tree, proofs, counters
  <1>8. CASE CaptureFinal
    BY <1>8, CaptureType DEF CaptureFinal, Cancelled, Finish, Goto, tree, proofs, counters
  <1>9. CASE Judge
    BY <1>9 DEF Judge, Blocked, Close, Goto, tree, counters
  <1>10. CASE Review
    BY <1>10 DEF Review, Cancelled, Finish, Goto, tree, proofs, counters, Reviews
  <1>11. CASE Gate
    BY <1>11 DEF Gate, Blocked, Close, Cancelled, Finish, Goto, tree, proofs, counters
  <1>12. CASE Closing
    <2>1. CASE Cancelled
      BY <2>1, <1>12 DEF Closing, Cancelled, Finish, tree, proofs, counters
    <2>2. CASE /\ Capture(git') /\ Finish(outcome)
               /\ UNCHANGED <<tree, evidence, review, saw, counters, baseline, cancel>>
      BY <2>2, <1>12, CaptureType DEF Closing, Finish, tree, counters
    <2>3. CASE /\ Finish(outcome)
               /\ UNCHANGED <<tree, proofs, counters, baseline, cancel>>
      BY <2>3, <1>12 DEF Closing, Finish, tree, proofs, counters
    <2> QED BY <2>1, <2>2, <2>3, <1>12 DEF Closing
  <1>13. CASE RequestCancel
    BY <1>13 DEF RequestCancel, tree, proofs, counters
  <1>14. CASE UNCHANGED vars
    BY <1>14 DEF vars
  <1> QED BY <1>1, <1>2, <1>3, <1>4, <1>5, <1>6, <1>7, <1>8, <1>9, <1>10, <1>11, <1>12,
             <1>13, <1>14 DEF Next, Step
-----------------------------------------------------------------------------
\* The bookkeeping of edits, outcomes and stamps survives every step.
LEMMA BookInvStep == TypeInv /\ BookInv /\ [Next]_vars => BookInv'
  <1> SUFFICES ASSUME TypeInv, BookInv, [Next]_vars PROVE BookInv'
    OBVIOUS
  <1> USE WorkflowAssumption
          DEF BookInv, ReviewIsCurrent, Recorded, CleanStart, CancelledBeforeEdits
  <1>1. CASE Preflight
    <2>1. CASE Cancelled
      BY <2>1, <1>1 DEF Preflight, Cancelled, MustStop, Finish, tree, proofs, counters
    <2>2. CASE ~MustStop
      BY <2>2, <1>1 DEF Preflight, Cancelled, Finish, Goto, tree, proofs, counters
    <2> QED BY <2>1, <2>2, <1>1 DEF Preflight
  <1>2. CASE Planning
    BY <1>2 DEF Planning, Cancelled, MustStop, Finish, Goto, tree, proofs, counters
  <1>3. CASE Decide
    BY <1>3 DEF Decide, Cancelled, MustStop, Finish, Goto, Close, tree, proofs, counters
  <1>4. CASE Act
    <2>1. CASE Cancelled
      BY <2>1, <1>4 DEF Act, Cancelled, MustStop, Finish, tree, proofs, counters
    <2>2. CASE Inspect
      BY <2>2, <1>4 DEF Act, Inspect, Answered, Returned, Goto, tree, proofs, counters
    <2>3. ASSUME NEW p \in Paths, Edit(p) PROVE BookInv'
      BY <2>3, <1>4 DEF Act, Edit, Returned, Goto, Finish, counters, NoGit, NoReview
    <2>4. ASSUME NEW p \in Paths, HalfCreate(p) PROVE BookInv'
      BY <2>4, <1>4 DEF Act, HalfCreate, Returned, Goto, counters
    <2>5. ASSUME NEW c \in Verifiers, Verify(c) PROVE BookInv'
      BY <2>5, <1>4 DEF Act, Verify, Record, Returned, Goto, tree, counters
    <2> QED BY <2>1, <2>2, <2>3, <2>4, <2>5, <1>4 DEF Act
  <1>5. CASE AfterTool
    BY <1>5 DEF AfterTool, Cancelled, MustStop, Finish, Goto, tree, proofs, counters
  <1>6. CASE RequiredVerification("tests", "tests", "ruff")
    BY <1>6 DEF RequiredVerification, Cancelled, MustStop, Finish, Goto, tree, proofs, counters
  <1>7. CASE RequiredVerification("ruff", "ruff", "capturing")
    BY <1>7 DEF RequiredVerification, Cancelled, MustStop, Finish, Goto, tree, proofs, counters
  <1>8. CASE CaptureFinal
    BY <1>8 DEF CaptureFinal, Capture, Cancelled, MustStop, Finish, Goto, tree, proofs, counters, NoGit
  <1>9. CASE Judge
    BY <1>9 DEF Judge, Blocked, Close, Goto, tree, counters, NoReview
  <1>10. CASE Review
    BY <1>10 DEF Review, Cancelled, MustStop, Finish, Goto, tree, proofs, counters, NoReview
  <1>11. CASE Gate
    BY <1>11 DEF Gate, Blocked, Close, Cancelled, MustStop, Finish, Goto, tree, proofs, counters
  <1>12. CASE Closing
    BY <1>12 DEF Closing, Capture, Cancelled, MustStop, Finish, tree, proofs, counters, NoGit
  <1>13. CASE RequestCancel
    BY <1>13 DEF RequestCancel, tree, proofs, counters
  <1>14. CASE UNCHANGED vars
    BY <1>14 DEF vars
  <1> QED BY <1>1, <1>2, <1>3, <1>4, <1>5, <1>6, <1>7, <1>8, <1>9, <1>10, <1>11, <1>12,
             <1>13, <1>14 DEF Next, Step

-----------------------------------------------------------------------------
\* Evidence keeps having seen the tree while neither changes.
LEMMA SeesQuiet ==
  ASSUME Sees, UNCHANGED <<dirty, mutated, baseline, revision, evidence>>,
         saw \cap Verifiers \subseteq saw', at' # "preflight" \/ UNCHANGED at,
         outcome = "lost" => outcome' = "lost"
  PROVE  Sees'
  <1>1. UNCHANGED Suspect /\ \A c \in Verifiers : UNCHANGED Fresh(c)
    BY DEF Suspect, Shown, Fresh
  <1> QED BY <1>1 DEF Sees

\* A verifier records what it saw of the present tree.
LEMMA SeesRecord ==
  ASSUME TypeInv, Sees, NEW c \in Verifiers, Record(c), at' # "preflight",
         UNCHANGED <<dirty, mutated, baseline, revision, outcome>>
  PROVE  Sees'
  <1>1. UNCHANGED Suspect /\ \A d \in Verifiers \ {c} : UNCHANGED Fresh(d)
    BY DEF Suspect, Shown, Fresh, Record, TypeInv, WorkflowTypeOK
  <1>2. evidence'[c].rev = revision /\ c \in saw' /\ saw \subseteq saw'
    BY DEF Record, TypeInv, WorkflowTypeOK
  <1>3. \A d \in Verifiers \ {c} : evidence'[d] = evidence[d]
    BY DEF Record, TypeInv, WorkflowTypeOK
  <1>4. revision \in Nat
    BY WorkflowAssumption DEF TypeInv, WorkflowTypeOK
  <1> QED BY <1>1, <1>2, <1>3, <1>4 DEF Sees

\* A counted edit makes all evidence stale; after an uncounted one nothing is
\* recorded any more.
LEMMA SeesEdit ==
  ASSUME TypeInv, BookInv, Sees, at = "acting", NEW p \in Paths, Edit(p)
  PROVE  Sees'
  <1>1. CASE outcome' = "lost"
    BY <1>1 DEF Edit, Returned, Goto, Finish, Sees
  <1>2. CASE outcome' # "lost"
    <2>1. /\ revision' = revision + 1 /\ UNCHANGED evidence
          /\ at' = "executed" /\ outcome # "lost"
      BY <1>2 DEF Edit, Returned, Goto, Finish, BookInv, Recorded
    <2>2. revision \in Nat /\ \A c \in Verifiers : evidence[c].rev \in Int
      BY WorkflowAssumption DEF TypeInv, WorkflowTypeOK, Results
    <2>3. \A c \in Verifiers : evidence'[c].rev < revision'
      BY <2>1, <2>2 DEF Sees
    <2>4. \A c \in Verifiers : ~Fresh(c)' /\ evidence'[c].rev <= revision'
      BY <2>1, <2>2, <2>3 DEF Fresh
    <2> QED BY <2>1, <2>4 DEF Sees
  <1> QED BY <1>1, <1>2

\* A creation that fails half way is not counted, but Git lists what it left.
LEMMA SeesHalfCreate ==
  ASSUME Accountable, TypeInv, BookInv, Sees, at = "acting", NEW p \in Paths, HalfCreate(p)
  PROVE  Sees'
  <1> USE WorkflowAssumption
  <1>1. /\ p \in dirty' /\ p \notin mutated
        /\ p \in TemporaryShown => Temporary \in dirty'
        /\ UNCHANGED <<mutated, baseline, revision, evidence, outcome>>
        /\ at' = "executed"
    BY DEF HalfCreate, Creatable, Returned, Goto
  <1>2. Temporary \notin Ignored \cup baseline \cup mutated
    BY DEF TypeInv, WorkflowTypeOK
  <1>3. CASE p \in TemporaryShown
    <2>1. Temporary \in Suspect'
      BY <1>1, <1>2, <1>3 DEF Suspect, Shown
    <2> QED BY <1>1, <2>1 DEF Sees, Fresh
  <1>4. CASE p \notin TemporaryShown
    <2>1. baseline = {} /\ p \notin Ignored
      BY <1>4 DEF Accountable, BookInv, CleanStart
    <2>2. p \in Suspect'
      BY <1>1, <2>1 DEF Suspect, Shown
    <2> QED BY <1>1, <2>2 DEF Sees, Fresh
  <1> QED BY <1>3, <1>4

\* Evidence keeps having seen the tree through every step of the workflow.
LEMMA SeesStep == Accountable /\ TypeInv /\ BookInv /\ Sees /\ [Next]_vars => Sees'
  <1> SUFFICES ASSUME Accountable, TypeInv, BookInv, Sees, [Next]_vars PROVE Sees'
    OBVIOUS
  <1> DEFINE Still == /\ UNCHANGED <<dirty, mutated, baseline, revision, evidence>>
                      /\ saw \cap Verifiers \subseteq saw'
                      /\ at' # "preflight" \/ UNCHANGED at
                      /\ outcome = "lost" => outcome' = "lost"
  <1> USE DEF BookInv, Recorded
  <1>0. Still => Sees'
    BY SeesQuiet
  <1>1. CASE Preflight
    <2>1. \A c \in Verifiers : ~Fresh(c) /\ evidence[c].rev <= revision
      BY <1>1 DEF Preflight, Sees
    <2>2. UNCHANGED <<revision, evidence>> /\ at' # "preflight"
      BY <1>1 DEF Preflight, Cancelled, Finish, Goto, tree, proofs
    <2> QED BY <2>1, <2>2 DEF Sees, Fresh
  <1>2. CASE Planning
    BY <1>2, <1>0 DEF Planning, Cancelled, Finish, Goto, tree, proofs
  <1>3. CASE Decide
    BY <1>3, <1>0 DEF Decide, Cancelled, Finish, Goto, Close, tree, proofs
  <1>4. CASE Act
    <2>1. CASE Cancelled
      BY <2>1, <1>4, <1>0 DEF Act, Cancelled, Finish, tree, proofs
    <2>2. CASE Inspect
      BY <2>2, <1>4, <1>0 DEF Act, Inspect, Answered, Returned, Goto, tree, proofs
    <2>3. ASSUME NEW p \in Paths, Edit(p) PROVE Sees'
      BY <2>3, <1>4, SeesEdit DEF Act
    <2>4. ASSUME NEW p \in Paths, HalfCreate(p) PROVE Sees'
      BY <2>4, <1>4, SeesHalfCreate DEF Act
    <2>5. ASSUME NEW c \in Verifiers, Verify(c) PROVE Sees'
      <3>1. /\ Record(c) /\ at' # "preflight"
            /\ UNCHANGED <<dirty, mutated, baseline, revision, outcome>>
        BY <2>5 DEF Verify, Returned, Goto, tree
      <3> QED BY <3>1, SeesRecord
    <2> QED BY <2>1, <2>2, <2>3, <2>4, <2>5, <1>4 DEF Act
  <1>5. CASE AfterTool
    BY <1>5, <1>0 DEF AfterTool, Cancelled, Finish, Goto, tree, proofs
  <1>6. ASSUME NEW c \in Verifiers, NEW step, NEW next, next # "preflight",
               at # "ended", RequiredVerification(step, c, next)
        PROVE  Sees'
    <2>1. CASE Cancelled
      BY <2>1, <1>6, <1>0 DEF Cancelled, Finish, tree, proofs
    <2>2. CASE Still
      BY <2>2, <1>0
    <2>3. CASE /\ Record(c) /\ at' # "preflight"
               /\ UNCHANGED <<dirty, mutated, baseline, revision, outcome>>
      BY <2>3, SeesRecord
    <2> QED BY <2>1, <2>2, <2>3, <1>6 DEF RequiredVerification, Goto, tree
  <1>7. CASE \/ RequiredVerification("tests", "tests", "ruff")
             \/ RequiredVerification("ruff", "ruff", "capturing")
    BY <1>6, <1>7 DEF RequiredVerification, Verifiers
  <1>8. CASE CaptureFinal
    <2>1. saw \cap Verifiers \subseteq saw'
      BY <1>8 DEF CaptureFinal, Cancelled, proofs, Verifiers
    <2> QED BY <2>1, <1>8, <1>0 DEF CaptureFinal, Cancelled, Finish, Goto, tree, proofs
  <1>9. CASE Judge
    BY <1>9, <1>0 DEF Judge, Blocked, Close, Goto, tree
  <1>10. CASE Review
    BY <1>10, <1>0 DEF Review, Cancelled, Finish, Goto, tree, proofs
  <1>11. CASE Gate
    BY <1>11, <1>0 DEF Gate, Blocked, Close, Cancelled, Finish, Goto, tree, proofs
  <1>12. CASE Closing
    BY <1>12, <1>0 DEF Closing, Cancelled, Finish, tree, proofs
  <1>13. CASE RequestCancel
    BY <1>13, <1>0 DEF RequestCancel, tree, proofs
  <1>14. CASE UNCHANGED vars
    BY <1>14, <1>0 DEF vars
  <1> QED BY <1>1, <1>2, <1>3, <1>4, <1>5, <1>7, <1>8, <1>9, <1>10, <1>11, <1>12,
             <1>13, <1>14 DEF Next, Step
-----------------------------------------------------------------------------
\* The gates judge Git evidence of the present tree, and only complete evidence
\* goes to the reviewer.
LEMMA CapturedStep == TypeInv /\ Captured /\ [Next]_vars => Captured'
  <1> SUFFICES ASSUME TypeInv, Captured, [Next]_vars PROVE Captured'
    OBVIOUS
  <1> DEFINE Elsewhere == at' \notin {"judging", "reviewing", "gating"}
             Same == UNCHANGED <<dirty, mutated, baseline, git, saw>>
  <1>0. Elsewhere => Captured'
    BY DEF Captured
  <1>1. Same => UNCHANGED Suspect
    BY DEF Suspect, Shown
  <1>2. CASE CaptureFinal
    <2>1. CASE Cancelled
      BY <2>1, <1>0 DEF Cancelled, Finish
    <2>2. CASE ~MustStop
      <3>1. /\ Capture(git') /\ at' = "judging" /\ UNCHANGED <<dirty, mutated, baseline>>
            /\ git'.kind = "complete" => "git" \in saw'
        BY <2>2, <1>2 DEF CaptureFinal, Cancelled, Goto, tree
      <3>2. UNCHANGED Suspect
        BY <3>1 DEF Suspect, Shown
      <3>3. git' = NoGit \/ (/\ git'.unexpected = Suspect
                             /\ git'.kind \in {"partial", "truncated", "complete"})
        BY <3>1 DEF Capture, Suspect
      <3> QED BY <3>1, <3>2, <3>3 DEF Captured
    <2> QED BY <2>1, <2>2, <1>2 DEF CaptureFinal
  <1>3. CASE Judge
    <2>1. CASE Elsewhere
      BY <2>1, <1>0
    <2>2. CASE ~Elsewhere
      <3>1. at' = "reviewing" /\ ~ReviewBlocked /\ git.kind # "truncated" /\ at = "judging"
        BY <2>2, <1>3 DEF Judge, Blocked, Close, Goto
      <3>2. git # NoGit /\ git.kind = "complete"
        BY <3>1 DEF ReviewBlocked, Captured
      <3>3. Same
        BY <1>3 DEF Judge, tree
      <3> QED BY <3>1, <3>2, <3>3, <1>1 DEF Captured
    <2> QED BY <2>1, <2>2
  <1>4. CASE Review
    <2>1. CASE Elsewhere
      BY <2>1, <1>0
    <2>2. CASE ~Elsewhere
      <3>1. at = "reviewing" /\ at' = "gating" /\ Same
        BY <2>2, <1>4 DEF Review, Cancelled, Finish, Goto, tree
      <3> QED BY <3>1, <1>1 DEF Captured
    <2> QED BY <2>1, <2>2
  <1>5. CASE RequestCancel \/ UNCHANGED vars
    <2>1. Same /\ UNCHANGED at
      BY <1>5 DEF RequestCancel, tree, proofs, vars
    <2> QED BY <2>1, <1>1 DEF Captured
  <1>6. CASE Preflight \/ Planning \/ Decide \/ AfterTool
    BY <1>6, <1>0 DEF Preflight, Planning, Decide, AfterTool, Cancelled, Finish, Goto, Close
  <1>7. CASE Act
    <2>1. Elsewhere
      BY <1>7 DEF Act, Cancelled, Inspect, Answered, Edit, HalfCreate, Verify, Returned,
                  Finish, Goto
    <2> QED BY <2>1, <1>0
  <1>8. CASE \/ RequiredVerification("tests", "tests", "ruff")
             \/ RequiredVerification("ruff", "ruff", "capturing")
    BY <1>8, <1>0 DEF RequiredVerification, Cancelled, Finish, Goto
  <1>9. CASE Gate \/ Closing
    BY <1>9, <1>0 DEF Gate, Closing, Blocked, Close, Cancelled, Finish, Goto
  <1> QED BY <1>2, <1>3, <1>4, <1>5, <1>6, <1>7, <1>8, <1>9 DEF Next, Step

\* Only the last gate completes a task, and it judges what is there.
LEMMA CompletedStep ==
  TypeInv /\ BookInv /\ Sees /\ Captured /\ CompletedIsVerified /\ [Next]_vars
    => CompletedIsVerified'
  <1> SUFFICES ASSUME TypeInv, BookInv, Sees, Captured, CompletedIsVerified, [Next]_vars,
                      outcome' = "completed"
               PROVE  CompletedIsVerified'
    BY DEF CompletedIsVerified
  <1> USE DEF BookInv, Recorded
  <1>1. CASE Gate /\ outcome # "completed"
    <2>1. /\ at = "gating" /\ ~VerificationBlocked /\ ~ReviewBlocked
          /\ ~IndependentReviewBlocked
          /\ UNCHANGED <<dirty, mutated, baseline, evidence, git, review, saw>>
      BY <1>1 DEF Gate, Blocked, Close, Cancelled, Finish, Goto, tree, proofs
    <2>2. Suspect = {} /\ "git" \in saw
      BY <2>1 DEF ReviewBlocked, Captured
    <2>3. \A c \in Verifiers : evidence[c] = [rev |-> revision, result |-> "passed"]
      <3> TAKE c \in Verifiers
      <3>1. evidence[c].result = "passed" /\ evidence[c].rev = revision
        BY <2>1 DEF VerificationBlocked
      <3>2. evidence[c] \in Results
        BY DEF TypeInv, WorkflowTypeOK
      <3> QED BY <3>1, <3>2 DEF Results
    <2>4. Verifiers \subseteq saw /\ outcome # "lost"
      BY <2>1, <2>2, <2>3 DEF Sees, Fresh
    <2>5. saw = Verifiers \cup {"git"}
      BY <2>2, <2>4 DEF TypeInv, WorkflowTypeOK
    <2>6. Shown \subseteq mutated \cup baseline /\ UNCHANGED Shown
      BY <2>1, <2>2 DEF Suspect, Shown
    <2>7. review.verdict = "approve"
      BY <2>1 DEF IndependentReviewBlocked
    <2> QED BY <2>1, <2>3, <2>5, <2>6, <2>7 DEF CompletedIsVerified
  <1>2. CASE outcome = "completed"
    <2>1. at = "ended"
      BY <1>2
    <2>2. UNCHANGED vars
      BY <2>1 DEF Next, Step, Preflight, Planning, Decide, Act, AfterTool, CaptureFinal, Judge,
                  Review, Gate, Closing, RequiredVerification, RequestCancel
    <2>3. UNCHANGED Shown
      BY <2>2 DEF vars, Shown
    <2> QED BY <2>2, <2>3, <1>2 DEF vars, CompletedIsVerified
  <1>3. CASE ~Gate /\ outcome # "completed"
    BY <1>3 DEF Next, Step, vars, Preflight, Planning, Decide, Act, AfterTool, CaptureFinal,
                Judge, Review, Closing, RequiredVerification, RequestCancel, Cancelled, Inspect,
                Answered, Edit, HalfCreate, Verify, Returned, Blocked, Close, Finish, Goto
  <1> QED BY <1>1, <1>2, <1>3
-----------------------------------------------------------------------------
\* Every invariant of the coding workflow, as long as Git lists something of
\* what a half creation leaves behind.
THEOREM TaskConsistent == ASSUME Accountable PROVE Spec => []TaskInv
  <1>1. TaskInv /\ [Next]_vars => TaskInv'
    <2> SUFFICES ASSUME TaskInv, [Next]_vars PROVE TaskInv'
      OBVIOUS
    <2>1. TypeInv' /\ BookInv'
      BY TypeInvStep, BookInvStep DEF TaskInv
    <2>2. Sees' /\ Captured'
      BY SeesStep, CapturedStep, Accountable DEF TaskInv
    <2>3. CompletedIsVerified'
      BY CompletedStep DEF TaskInv
    <2> QED BY <2>1, <2>2, <2>3 DEF TaskInv
  <1> QED BY <1>1, TaskInvInit, PTL DEF Spec

\* The types of the coding workflow, whatever the tree it begins with.
THEOREM TaskTypes == Spec => []WorkflowTypeOK
  <1>1. Init => TypeInv
    BY TaskInvInit DEF TaskInv
  <1>2. TypeInv => WorkflowTypeOK
    BY DEF TypeInv
  <1> QED BY <1>1, <1>2, TypeInvStep, PTL DEF Spec

\* A completed task was tested, linted and looked at by Git as its files are
\* now, and accounts for every change that Git lists (coding/workflow.py, the
\* gates of handle_final).
THEOREM TaskCompletedIsVerified ==
  ASSUME Accountable PROVE Spec => []CompletedIsVerified
  <1>1. TaskInv => CompletedIsVerified
    BY DEF TaskInv
  <1> QED BY <1>1, TaskConsistent, Accountable, PTL

\* The stamps and records of a task, whatever tree it began with.
LEMMA TaskBooks == Spec => [](TypeInv /\ BookInv)
  <1>1. Init => TypeInv /\ BookInv
    BY TaskInvInit DEF TaskInv
  <1>2. TypeInv /\ BookInv /\ [Next]_vars => TypeInv' /\ BookInv'
    BY TypeInvStep, BookInvStep
  <1> QED BY <1>1, <1>2, PTL DEF Spec

\* A task that ends as cancelled has no recorded edit: MustStop looks at
\* side_effect_started, which every recorded edit has set before.
THEOREM TaskCancelledBeforeEdits == Spec => []CancelledBeforeEdits
  <1>1. BookInv => CancelledBeforeEdits
    BY DEF BookInv
  <1> QED BY <1>1, TaskBooks, PTL

\* The Git evidence and the review that a task holds or returns are of its
\* present revision: through failed attempts, edits and the error path nothing
\* older survives.
THEOREM TaskReviewIsCurrent == Spec => []ReviewIsCurrent
  <1>1. BookInv => ReviewIsCurrent
    BY DEF BookInv
  <1> QED BY <1>1, TaskBooks, PTL
=============================================================================
