------------------------------ MODULE JobStore ------------------------------
(***************************************************************************)
(* The jobs table of PostgreSQL and the operations of PostgresJobStore     *)
(* (jobs/store.py).  Every operation is one transaction that reads its     *)
(* rows FOR UPDATE, so it is one step.  The callers are unconstrained: any *)
(* worker identity may call any operation on any job at any time, which    *)
(* covers workers that are late, restarted or wrong about their lease.     *)
(*                                                                         *)
(* A lease is the number of ticks it still has.  The operations read the   *)
(* clock before their transaction begins, and on the caller's host: the    *)
(* lease they write may therefore be any shorter one.                      *)
(***************************************************************************)
EXTENDS Integers

CONSTANTS Jobs,          \* job identities
          CodingJobs,    \* the jobs whose job_type is "coding"
          Workers,       \* worker identities (a fresh uuid per process)
          NoWorker,      \* lease_owner IS NULL
          MaxAttempts,   \* PostgresJobStore.max_attempts
          Lease          \* lease_seconds, in ticks

ASSUME StoreAssumption ==
    /\ CodingJobs \subseteq Jobs
    /\ NoWorker \notin Workers
    /\ MaxAttempts \in Nat \ {0}
    /\ Lease \in Nat \ {0}

VARIABLE row             \* row[j]: the row of job j

NoLease == -1            \* lease_expires_at IS NULL

Terminals == {"succeeded", "failed", "cancelled"}
Statuses  == {"absent", "queued", "running"} \cup Terminals
Errors    == {"none", "job_interrupted", "job_attempts_exhausted", "reported"}

\* trace is the attempt whose trace_run_id is linked, 0 for NULL.
Row == [status : Statuses, attempts : Nat, owner : Workers \cup {NoWorker},
        lease : {NoLease} \cup 0..Lease, cancel : BOOLEAN, sideEffect : BOOLEAN,
        trace : Nat, error : Errors, result : BOOLEAN]

Absent == [status |-> "absent", attempts |-> 0, owner |-> NoWorker,
           lease |-> NoLease, cancel |-> FALSE, sideEffect |-> FALSE,
           trace |-> 0, error |-> "none", result |-> FALSE]

Terminal(r)    == r.status \in Terminals
Expired(r)     == r.status = "running" /\ r.lease = 0
Unsafe(j, r)   == j \in CodingJobs /\ r.sideEffect

\* Mutant: any worker passes the ownership check of a running job.
HoldsAny(w, r) == r.status = "running"
\* The ownership check of every guarded transition.
Holds(w, r) == r.status = "running" /\ r.owner = w

Unleased(r) == [r EXCEPT !.owner = NoWorker, !.lease = NoLease]
-----------------------------------------------------------------------------
(* The row each operation writes. *)

Claimed(w, r, d) == [r EXCEPT !.status = "running", !.attempts = r.attempts + 1,
                              !.owner = w, !.lease = d]

\* Mutant: a queued job is only flagged, as a running one is.
CancelRequestedFlagOnly(r) == IF Terminal(r) THEN r ELSE [r EXCEPT !.cancel = TRUE]
\* Mutant: no early return for a job that has concluded.
CancelRequestedAlways(r) ==
    [r EXCEPT !.cancel = TRUE, !.status = IF r.status = "queued" THEN "cancelled" ELSE @]
CancelRequested(r) ==
    CASE Terminal(r)          -> r
      [] r.status = "queued"  -> [r EXCEPT !.cancel = TRUE, !.status = "cancelled"]
      [] OTHER                -> [r EXCEPT !.cancel = TRUE]

\* PostgresJobStore._terminal and mark_cancelled: the lease ends with the outcome.
Concluded(r, status, error, result) ==
    [Unleased(r) EXCEPT !.status = status, !.error = error, !.result = result]

\* Mutant: a coding job is requeued like any other.
RecoveredReplay(j, r) ==
    CASE r.cancel -> [Unleased(r) EXCEPT !.status = "cancelled"]
      [] ~r.cancel /\ r.attempts >= MaxAttempts ->
           [Unleased(r) EXCEPT !.status = "failed", !.error = "job_attempts_exhausted"]
      [] OTHER -> [Unleased(r) EXCEPT !.status = "queued"]
\* Mutant: attempt_count > max_attempts, and no error code for coding jobs.
RecoveredOffByOne(j, r) ==
    IF j \in CodingJobs \/ r.attempts > MaxAttempts
      THEN [Unleased(r) EXCEPT !.status = "failed"]
      ELSE [Unleased(r) EXCEPT !.status = IF r.cancel THEN "cancelled" ELSE "queued"]
\* A lapsed lease: a coding job may have edited files and is never replayed.
Recovered(j, r) ==
    CASE j \in CodingJobs ->
           [Unleased(r) EXCEPT !.status = "failed", !.error = "job_interrupted"]
      [] j \notin CodingJobs /\ r.cancel ->
           [Unleased(r) EXCEPT !.status = "cancelled"]
      [] j \notin CodingJobs /\ ~r.cancel /\ r.attempts >= MaxAttempts ->
           [Unleased(r) EXCEPT !.status = "failed", !.error = "job_attempts_exhausted"]
      [] OTHER ->
           [Unleased(r) EXCEPT !.status = "queued"]
-----------------------------------------------------------------------------
(* The operations. *)

Init == row = [j \in Jobs |-> Absent]

Create(j) ==
    /\ row[j].status = "absent"
    /\ row' = [row EXCEPT ![j] = [Absent EXCEPT !.status = "queued"]]

\* The oldest queued row that no other transaction has locked (SKIP LOCKED).
\* Any set of rows may be locked at that instant, so any queued row may be it.
ClaimNext(w, j) ==
    /\ row[j].status = "queued"
    /\ \E d \in 0..Lease : row' = [row EXCEPT ![j] = Claimed(w, row[j], d)]

RenewLease(w, j) ==
    /\ Holds(w, row[j])
    /\ \E d \in 0..Lease : row' = [row EXCEPT ![j].lease = d]

LinkTrace(w, j, attempt) ==
    /\ Holds(w, row[j])
    /\ row' = [row EXCEPT ![j].trace = attempt]

\* Idempotent, and a no-op on a job that has already concluded.
RequestCancel(j) ==
    /\ row[j].status # "absent"
    /\ row' = [row EXCEPT ![j] = CancelRequested(row[j])]

MarkSideEffectStarted(w, j) ==
    /\ Holds(w, row[j])
    /\ row' = [row EXCEPT ![j].sideEffect = TRUE]

\* Mutant: recorded side effects of a coding job are not looked at.
MarkCancelledAlways(w, j) ==
    /\ Holds(w, row[j]) /\ row[j].cancel
    /\ row' = [row EXCEPT ![j] = Concluded(row[j], "cancelled", "none", FALSE)]
MarkCancelled(w, j) ==
    /\ Holds(w, row[j]) /\ row[j].cancel /\ ~Unsafe(j, row[j])
    /\ row' = [row EXCEPT ![j] = Concluded(row[j], "cancelled", "none", FALSE)]

MarkSucceeded(w, j) ==
    /\ Holds(w, row[j])
    /\ row' = [row EXCEPT ![j] = Concluded(row[j], "succeeded", "none", TRUE)]

MarkFailed(w, j) ==
    /\ Holds(w, row[j])
    /\ row' = [row EXCEPT ![j] = Concluded(row[j], "failed", "reported", FALSE)]

\* One transaction over every expired row that is not locked elsewhere.
RecoverExpired ==
    \E S \in SUBSET {j \in Jobs : Expired(row[j])} :
        row' = [j \in Jobs |-> IF j \in S THEN Recovered(j, row[j]) ELSE row[j]]

\* One tick of the wall clock.
Tick == row' = [j \in Jobs |-> [row[j] EXCEPT !.lease = IF row[j].lease > 0
                                                       THEN row[j].lease - 1
                                                       ELSE row[j].lease]]

WorkerCall(w, j) ==
    \/ ClaimNext(w, j)
    \/ RenewLease(w, j)
    \/ \E attempt \in 1..MaxAttempts : LinkTrace(w, j, attempt)
    \/ MarkSideEffectStarted(w, j)
    \/ MarkCancelled(w, j)
    \/ MarkSucceeded(w, j)
    \/ MarkFailed(w, j)

Next ==
    \/ \E j \in Jobs : Create(j) \/ RequestCancel(j)
    \/ \E w \in Workers, j \in Jobs : WorkerCall(w, j)
    \/ RecoverExpired
    \/ Tick

Spec == Init /\ [][Next]_row
-----------------------------------------------------------------------------
(* Properties. *)

\* Every row is a well-formed row of the jobs table.
TypeOK == row \in [Jobs -> Row]

\* A lease has an owner exactly while the job runs: recovery, conclusion and
\* requeueing (store.py 195-201, 222-227, 261-262) all clear both columns.
LeaseWhileRunning ==
    \A j \in Jobs :
        /\ row[j].status = "running" <=> row[j].owner # NoWorker
        /\ row[j].status = "running" <=> row[j].lease # NoLease

\* attempt_count never passes max_attempts, however often workers claim, die
\* and are recovered: a job that waits still has an attempt left.
AttemptsBounded ==
    \A j \in Jobs :
        /\ row[j].attempts <= MaxAttempts
        /\ row[j].status = "queued" => row[j].attempts < MaxAttempts

\* A coding job is never replayed: it waits only before its first attempt.
CodingRunsOnce ==
    \A j \in CodingJobs :
        /\ row[j].attempts <= 1
        /\ row[j].status \in {"absent", "queued"} => row[j].attempts = 0

\* A cancelled job was asked to stop, a waiting one was not, and a coding job
\* with recorded side effects is never reported as cancelled.
CancellationHonest ==
    \A j \in Jobs :
        /\ row[j].status = "cancelled" => row[j].cancel /\ ~Unsafe(j, row[j])
        /\ row[j].status \in {"absent", "queued"} => ~row[j].cancel
        /\ row[j].status \in {"absent", "queued"} => ~Unsafe(j, row[j])

\* Exactly a failed job carries an error code and a succeeded one a result.
OutcomeRecorded ==
    \A j \in Jobs :
        /\ row[j].error # "none" <=> row[j].status = "failed"
        /\ row[j].result <=> row[j].status = "succeeded"

StoreInv == /\ TypeOK /\ LeaseWhileRunning /\ AttemptsBounded
            /\ CodingRunsOnce /\ CancellationHonest /\ OutcomeRecorded

\* No attempt of a job begins after its cancellation was requested, whichever
\* of claim_next, request_cancel and recover_expired wins the row lock.
NoStartAfterCancel ==
    [][\A j \in Jobs : row[j].cancel /\ row[j].status # "running"
                         => row'[j].status # "running"]_row

\* A concluded row is never rewritten: a worker that outlived its lease cannot
\* change the outcome that recovery or another worker recorded.
OutcomeFinal == [][\A j \in Jobs : Terminal(row[j]) => row'[j] = row[j]]_row

\* The store keeps the promise of JobLifecycle.
Lifecycle == INSTANCE JobLifecycle WITH
    view <- [j \in Jobs |-> [status |-> row[j].status, attempts |-> row[j].attempts,
                             cancel |-> row[j].cancel, touched |-> row[j].sideEffect]]

\* Every behaviour of the store is a behaviour of the abstract job lifecycle.
ImplementsLifecycle == Lifecycle!Spec
=============================================================================
