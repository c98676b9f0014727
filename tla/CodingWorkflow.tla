--------------------------- MODULE CodingWorkflow ---------------------------
(***************************************************************************)
(* One coding task: run_coding_task (coding/workflow.py) around the agent  *)
(* loop (agent/loop.py), the editing, verification and Git tools it calls, *)
(* and the completion gates of coding/completion.py.                       *)
(*                                                                         *)
(* The model decides anything the schema allows; tools fail, verifiers     *)
(* fail, and a client may ask for cancellation between any two steps.      *)
(* Evidence carries the logical revision that the code stamps on it.       *)
(* Whether it really saw the files as they are now is the ghost "saw".     *)
(*                                                                         *)
(* Nobody else edits the working tree during the run: the execution lock   *)
(* keeps other runs away, and the code cannot see other editors.           *)
(***************************************************************************)
EXTENDS Integers

CONSTANTS Paths,          \* paths the model may edit
          Tracked,        \* those that HEAD has
          Ignored,        \* those that .gitignore hides from Git
          Temporary,      \* a temporary file that a failed creation left behind
          TemporaryShown, \* the paths beside which Git would show one
          RequireClean,   \* CodingWorkflowConfig.require_clean_worktree
          MaxAttempts,    \* CodingWorkflowConfig.max_completion_attempts
          MaxIterations,  \* AgentConfig.max_iterations
          MaxMutations    \* EditingAgentConfig.max_mutations_per_run

ASSUME WorkflowAssumption ==
    /\ Tracked \subseteq Paths /\ Ignored \subseteq Paths \ Tracked
    /\ Temporary \notin Paths /\ TemporaryShown \subseteq Paths /\ RequireClean \in BOOLEAN
    /\ MaxAttempts \in Nat \ {0} /\ MaxIterations \in Nat \ {0}
    /\ MaxMutations \in Nat \ {0}

VARIABLES at,        \* where the run stands
          outcome,   \* how it ends, "none" until that is decided
          dirty,     \* paths that differ from HEAD
          baseline,  \* WorkspaceBaseline.changed_files
          mutated,   \* _WorkflowState.mutated_paths
          revision,  \* workspace_revision, and the mutation count of the loop
          evidence,  \* evidence[c]: the last recorded result of verifier c
          git,       \* final_review: the Git evidence
          review,    \* the independent review
          attempts,  \* completion_attempts
          iteration,
          cancel,    \* job.cancel_requested
          marked,    \* job.side_effect_started
          saw        \* ghost: evidence that saw the files as they are now

vars == <<at, outcome, dirty, baseline, mutated, revision, evidence, git, review,
          attempts, iteration, cancel, marked, saw>>

tree     == <<dirty, mutated, revision, marked>>
proofs   == <<evidence, git, review, saw>>
counters == <<attempts, iteration>>

Verifiers == {"tests", "ruff"}
NoResult  == [rev |-> -1, result |-> "none"]
NoGit     == [rev |-> -1, kind |-> "none", unexpected |-> {}, workflow |-> {},
              rendered |-> FALSE]
NoReview  == [rev |-> -1, verdict |-> "none"]

\* What git status lists.
Shown == dirty \ Ignored

\* Mutant: a cancellation request stops the run although files were edited.
MustStopAlways == cancel
\* DurableCancellationToken.checkpoint: deferred once side effects began.
MustStop == cancel /\ ~marked

\* The paths after a write to p; a tracked file may get its old content back.
Written(p) == {dirty \cup {p}} \cup (IF p \in Tracked THEN {dirty \ {p}} ELSE {})

\* A file can be created at p: it never existed, or the user has deleted it.
Creatable(p) == p \notin mutated /\ IF p \in Tracked THEN p \in baseline ELSE p \notin dirty

Goto(step) == at' = step /\ UNCHANGED outcome
Finish(status) == at' = "ended" /\ outcome' = status
\* The agent loop is left; Git evidence is captured if there is none.
Close(status) == at' = "closing" /\ outcome' = status

\* A step that begins at a checkpoint: JobCancellationRequested leaves the run.
Cancelled == /\ MustStop
             /\ Finish("cancelled")
             /\ UNCHANGED <<tree, proofs, counters, baseline, cancel>>
-----------------------------------------------------------------------------
(* Before the agent loop. *)

Init ==
    /\ at = "preflight" /\ outcome = "none"
    /\ dirty \in SUBSET (Paths \ Ignored)
    /\ baseline = {} /\ mutated = {} /\ revision = 0
    /\ evidence = [c \in Verifiers |-> NoResult]
    /\ git = NoGit /\ review = NoReview
    /\ attempts = 0 /\ iteration = 0
    /\ cancel = FALSE /\ marked = FALSE /\ saw = {}

\* git_status, its failure, and the clean-worktree precondition.  A truncated
\* status lists only some of the files, and is not clean even if it lists none.
Preflight ==
    /\ at = "preflight"
    /\ \/ Cancelled
       \/ /\ ~MustStop
          /\ \/ Finish("precondition_failed") /\ UNCHANGED baseline
             \/ /\ baseline' \in SUBSET Shown
                /\ IF RequireClean /\ Shown # {}
                     THEN Finish("precondition_failed") ELSE Goto("planning")
          /\ UNCHANGED <<tree, proofs, counters, cancel>>

\* generate_coding_plan: one model call, any failure of which ends the run.
Planning ==
    /\ at = "planning"
    /\ \/ Cancelled
       \/ /\ ~MustStop
          /\ Finish("error") \/ Goto("deciding")
          /\ UNCHANGED <<tree, proofs, counters, baseline, cancel>>
-----------------------------------------------------------------------------
(* _run_agent: one decision per iteration. *)

\* Mutant: a blocked completion request does not use up an iteration.
DecideFree ==
    /\ at = "deciding" /\ ~MustStop
    /\ \/ /\ iteration < MaxIterations
          /\ iteration' = iteration + 1 /\ Goto("acting") /\ UNCHANGED attempts
       \/ Goto("tests") /\ UNCHANGED <<attempts, iteration>>
       \/ iteration = MaxIterations /\ Close("agent_limit_reached") /\ UNCHANGED counters
    /\ UNCHANGED <<tree, proofs, baseline, cancel>>
\* The iteration limit, a failing model (AgentError), a tool call, or "final".
Decide ==
    /\ at = "deciding"
    /\ \/ iteration < MaxIterations /\ Cancelled
       \/ /\ iteration = MaxIterations
          /\ Close("agent_limit_reached")
          /\ UNCHANGED <<tree, proofs, counters, baseline, cancel>>
       \/ /\ ~MustStop /\ iteration < MaxIterations
          /\ iteration' = iteration + 1
          /\ \/ Close("error") /\ UNCHANGED attempts
             \/ Goto("acting") /\ UNCHANGED attempts
             \/ Goto("tests") /\ attempts' = attempts + 1
          /\ UNCHANGED <<tree, proofs, baseline, cancel>>

\* A tool returns to its checkpoint; a call that the loop blocks never gets there.
Returned == Goto("executed")
Answered == Returned \/ Goto("deciding")

\* A read-only tool, or a call that fails or is blocked without any effect.
Inspect ==
    /\ Answered
    /\ UNCHANGED <<tree, proofs, counters, baseline, cancel>>

\* Mutant: the Git evidence and the review survive an edit.
EditKeepReview(p) ==
    /\ revision < MaxMutations
    /\ revision' = revision + 1
    /\ dirty' \in Written(p)
    /\ mutated' = mutated \cup {p}
    /\ marked' = TRUE
    /\ saw' = {}
    /\ Returned
    /\ UNCHANGED <<evidence, git, review, counters, baseline, cancel>>
\* create_file or replace_text succeeds; replace_text may restore what HEAD has.
\* side_effect_started may raise, and then nothing observes the edit.
Edit(p) ==
    /\ revision < MaxMutations
    /\ dirty' \in Written(p)
    /\ saw' = {}
    /\ \/ /\ revision' = revision + 1
          /\ mutated' = mutated \cup {p}
          /\ marked' = TRUE
          /\ git' = NoGit /\ review' = NoReview
          /\ Returned
          /\ UNCHANGED <<evidence, counters, baseline, cancel>>
       \/ /\ Finish("lost")
          /\ UNCHANGED <<mutated, revision, marked, evidence, git, review, counters,
                         baseline, cancel>>

\* _atomic_create published the file, then failed to remove its temporary name:
\* the tool reports an error although the file exists, and nothing is counted.
HalfCreate(p) ==
    /\ revision < MaxMutations
    /\ Creatable(p)
    /\ dirty' = dirty \cup {p} \cup (IF p \in TemporaryShown THEN {Temporary} ELSE {})
    /\ saw' = {}
    /\ Returned
    /\ UNCHANGED <<mutated, revision, marked, evidence, git, review, counters,
                   baseline, cancel>>

\* A verifier ran, or could not: its result is stamped with the revision.
Record(c) ==
    \E result \in {"passed", "failed", "error"} :
        /\ evidence' = [evidence EXCEPT ![c] = [rev |-> revision, result |-> result]]
        /\ saw' = saw \cup {c}

\* The model calls run_tests or run_ruff with the scope of the policy.  A call
\* that was repeated too often is recorded as one that could not execute.
Verify(c) ==
    /\ Record(c)
    /\ Returned \/ (evidence'[c].result = "error" /\ Goto("deciding"))
    /\ UNCHANGED <<tree, git, review, counters, baseline, cancel>>

Act ==
    /\ at = "acting"
    /\ \/ Cancelled
       \/ /\ ~MustStop
          /\ \/ Inspect
             \/ \E p \in Paths : Edit(p) \/ HalfCreate(p)
             \/ \E c \in Verifiers : Verify(c)

\* The checkpoint behind a tool; an observation that it drops is not used again.
AfterTool ==
    /\ at = "executed"
    /\ \/ Cancelled
       \/ /\ ~MustStop
          /\ Goto("deciding")
          /\ UNCHANGED <<tree, proofs, counters, baseline, cancel>>
-----------------------------------------------------------------------------
(* handle_final: verification, Git evidence, gates, review, gates. *)

Fresh(c) == evidence[c] = [rev |-> revision, result |-> "passed"]

\* _run_required_verification, one verifier after the other.
RequiredVerification(step, c, next) ==
    /\ at = step
    /\ \/ Cancelled
       \/ /\ ~MustStop
          /\ (Fresh(c) /\ UNCHANGED <<evidence, saw>>) \/ (~Fresh(c) /\ Record(c))
          /\ Goto(next)
          /\ UNCHANGED <<tree, git, review, counters, baseline, cancel>>

\* _capture_final_review.  "partial": the status is truncated or a diff failed;
\* "truncated": a diff is too long or leaves a file out.  The diffs may render
\* nothing of what the status lists, as after a change of line ends.
Capture(g) ==
    \/ g = NoGit
    \/ \E kind \in {"partial", "truncated", "complete"}, rendered \in BOOLEAN :
          /\ rendered => Shown # {}
          /\ g = [rev |-> revision, kind |-> kind, workflow |-> mutated \cap Shown,
                  unexpected |-> (Shown \ baseline) \ mutated, rendered |-> rendered]

CaptureFinal ==
    /\ at = "capturing"
    /\ \/ Cancelled
       \/ /\ ~MustStop
          /\ Capture(git')
          /\ saw' = IF git'.kind = "complete" THEN saw \cup {"git"} ELSE saw \ {"git"}
          /\ Goto("judging")
          /\ UNCHANGED <<tree, evidence, review, counters, baseline, cancel>>

VerificationBlocked ==
    \E c \in Verifiers : evidence[c].result # "passed" \/ evidence[c].rev # revision

\* Mutant: files that neither the run nor the baseline knows are let through.
ReviewBlockedExpected == git = NoGit \/ git.rev # revision \/ git.kind = "partial"
\* _review_blockers and _missing_change_evidence.
ReviewBlocked ==
    \/ git = NoGit \/ git.rev # revision \/ git.kind = "partial"
    \/ git.unexpected # {}
    \/ git.workflow # {} /\ ~git.rendered

IndependentReviewBlocked == review # [rev |-> revision, verdict |-> "approve"]

\* Feedback for the next iteration, or the end of the attempts.
Blocked == IF attempts >= MaxAttempts THEN Close("verification_failed") ELSE Goto("deciding")

\* The deterministic gates stand before the reviewer is asked.
Judge ==
    /\ at = "judging"
    /\ IF VerificationBlocked \/ ReviewBlocked
         THEN Blocked /\ UNCHANGED review
         ELSE /\ review' = NoReview
              /\ IF git.kind = "truncated" THEN Blocked ELSE Goto("reviewing")
    /\ UNCHANGED <<tree, evidence, git, saw, counters, baseline, cancel>>

\* generate_coding_review; a review of another revision does not validate.
Review ==
    /\ at = "reviewing"
    /\ \/ Cancelled
       \/ /\ ~MustStop
          /\ review' \in {NoReview} \cup
                         [rev : {revision}, verdict : {"approve", "changes_required"}]
          /\ Goto("gating")
          /\ UNCHANGED <<tree, evidence, git, saw, counters, baseline, cancel>>

\* The checkpoint after the review, then the gates once more.
Gate ==
    /\ at = "gating"
    /\ \/ Cancelled
       \/ /\ ~MustStop
          /\ IF VerificationBlocked \/ ReviewBlocked \/ IndependentReviewBlocked
               THEN Blocked ELSE Finish("completed")
          /\ UNCHANGED <<tree, proofs, counters, baseline, cancel>>

\* After the loop: an AgentError always captures, the other ends if need be.
Closing ==
    /\ at = "closing"
    /\ IF outcome = "error" \/ git = NoGit
         THEN \/ Cancelled
              \/ /\ ~MustStop
                 /\ Capture(git')
                 /\ Finish(outcome)
                 /\ UNCHANGED <<tree, evidence, review, saw, counters, baseline, cancel>>
         ELSE Finish(outcome) /\ UNCHANGED <<tree, proofs, counters, baseline, cancel>>
-----------------------------------------------------------------------------
(* request_cancel of the job, at any time. *)
RequestCancel ==
    /\ at # "ended" /\ ~cancel
    /\ cancel' = TRUE
    /\ UNCHANGED <<at, outcome, tree, proofs, counters, baseline>>

Step == \/ Preflight \/ Planning \/ Decide \/ Act \/ AfterTool
        \/ RequiredVerification("tests", "tests", "ruff")
        \/ RequiredVerification("ruff", "ruff", "capturing")
        \/ CaptureFinal \/ Judge \/ Review \/ Gate \/ Closing

Next == Step \/ RequestCancel

Spec == Init /\ [][Next]_vars

\* Model calls and tools return or time out: the single thread goes on.
FairSpec == Spec /\ WF_vars(Step)
-----------------------------------------------------------------------------
(* Properties. *)

\* What a half creation leaves behind is listed by Git: the temporary file, or
\* the file itself, if none of the user's own changes stands in its place.
Accountable == \A p \in Paths : p \in TemporaryShown \/ (RequireClean /\ p \notin Ignored)

Results == [rev : -1..MaxMutations, result : {"none", "passed", "failed", "error"}]
GitReviews ==
    [rev : -1..MaxMutations, kind : {"none", "partial", "truncated", "complete"},
     unexpected : SUBSET (Paths \cup {Temporary}), workflow : SUBSET Paths,
     rendered : BOOLEAN]
Reviews == [rev : -1..MaxMutations, verdict : {"none", "approve", "changes_required"}]

WorkflowTypeOK ==
    /\ at \in {"preflight", "planning", "deciding", "acting", "executed", "tests", "ruff", "capturing",
               "judging", "reviewing", "gating", "closing", "ended"}
    /\ outcome \in {"none", "precondition_failed", "error", "agent_limit_reached", "lost",
                    "verification_failed", "completed", "cancelled"}
    /\ dirty \subseteq Paths \cup {Temporary} /\ baseline \subseteq Paths
    /\ mutated \subseteq Paths /\ revision \in 0..MaxMutations
    /\ evidence \in [Verifiers -> Results]
    /\ git \in GitReviews /\ review \in Reviews
    /\ attempts \in 0..MaxAttempts /\ iteration \in 0..MaxIterations
    /\ cancel \in BOOLEAN /\ marked \in BOOLEAN
    /\ saw \subseteq Verifiers \cup {"git"}

\* A completed task was tested, linted and looked at by Git as its files are
\* now, ignored ones included, and every change that Git lists is the run's own
\* or was there before.  Revisions are only counters, so this rests on every
\* effect of every tool being either counted or visible to the final Git status
\* (Accountable); in an ignored directory a half creation is neither.
CompletedIsVerified ==
    outcome = "completed" =>
        /\ \A c \in Verifiers : evidence[c].result = "passed"
        /\ review.verdict = "approve"
        /\ saw = Verifiers \cup {"git"}
        /\ Shown \subseteq mutated \cup baseline

\* A cancelled task has no recorded edit: a request that comes after the first
\* one is deferred until the workflow has come to its own end.
CancelledBeforeEdits == outcome = "cancelled" => mutated = {}

\* Git evidence and review, in the state and in the result, are of the current
\* revision, through failed attempts, edits and the error path.
ReviewIsCurrent == /\ git # NoGit => git.rev = revision
                   /\ review # NoReview => review.rev = revision

\* Reviewers, gates and edits may send each other round, but not for ever.
EventuallyEnded == <>(at = "ended")

\* completion.py 72-73: "A change the diff cannot show (for example a file Git
\* does not render) must never reach review as an empty diff".
NoBlindReview ==
    at = "reviewing" /\ dirty \cap mutated # {} => git.rendered
=============================================================================
