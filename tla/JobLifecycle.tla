---------------------------- MODULE JobLifecycle ----------------------------
(***************************************************************************)
(* What a durable job promises to the client that enqueued it, without     *)
(* workers, leases or transactions.  A job is queued, attempted a bounded  *)
(* number of times, and concluded once; its conclusion is final.  A coding *)
(* job gets one attempt, because an attempt may have edited files, and it  *)
(* is never reported as cancelled after its side effects began.            *)
(*                                                                         *)
(* The job store implements this with FOR UPDATE row locks; see JobStore.  *)
(* One transaction of the store may recover several jobs, so a step moves  *)
(* any set of jobs, each by one move of its own.                           *)
(***************************************************************************)
EXTENDS Naturals

CONSTANTS Jobs,         \* job identities
          CodingJobs,   \* the jobs whose job_type is "coding"
          MaxAttempts   \* how often a job may be attempted

VARIABLE view           \* view[j]: what a client of job j can rely on

View(status, attempts, cancel, touched) ==
    [status |-> status, attempts |-> attempts, cancel |-> cancel, touched |-> touched]

Fresh == View("absent", 0, FALSE, FALSE)

\* The client enqueues the job.
Submit(v, n) == v.status = "absent" /\ n = View("queued", 0, FALSE, FALSE)

\* An attempt begins; never once the job was asked to stop.
Attempt(j, v, n) ==
    /\ v.status = "queued" /\ ~v.cancel /\ v.attempts < MaxAttempts
    /\ j \in CodingJobs => v.attempts = 0
    /\ n = View("running", v.attempts + 1, v.cancel, v.touched)

\* An attempt was lost and the job waits for another one.
Retry(j, v, n) ==
    /\ v.status = "running" /\ ~v.cancel /\ v.attempts < MaxAttempts
    /\ j \notin CodingJobs
    /\ n = View("queued", v.attempts, v.cancel, v.touched)

\* A running attempt announces that it has changed the workspace.
Touch(v, n) == v.status = "running" /\ n = View(v.status, v.attempts, v.cancel, TRUE)

\* The client asks for cancellation: a queued job stops at once.
AskCancel(v, n) ==
    \/ v.status = "queued"  /\ n = View("cancelled", v.attempts, TRUE, v.touched)
    \/ v.status = "running" /\ n = View("running", v.attempts, TRUE, v.touched)

\* A running job concludes; "cancelled" only on request and before side effects.
Conclude(j, v, n) ==
    /\ v.status = "running"
    /\ \E outcome \in {"succeeded", "failed", "cancelled"} :
          /\ n = View(outcome, v.attempts, v.cancel, v.touched)
          /\ outcome = "cancelled" => v.cancel /\ (j \in CodingJobs => ~v.touched)

Move(j, v, n) ==
    Submit(v, n) \/ Attempt(j, v, n) \/ Retry(j, v, n) \/ Touch(v, n)
                 \/ AskCancel(v, n) \/ Conclude(j, v, n)

Init == view = [j \in Jobs |-> Fresh]

Next == /\ view' = [j \in Jobs |-> view'[j]]
        /\ \A j \in Jobs : view'[j] = view[j] \/ Move(j, view[j], view'[j])

Spec == Init /\ [][Next]_view
=============================================================================
