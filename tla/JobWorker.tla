----------------------------- MODULE JobWorker -----------------------------
(***************************************************************************)
(* Worker processes (worker.py, jobs/worker.py, jobs/control.py) executing *)
(* the jobs of JobStore through the execution services, under the advisory *)
(* lock of jobs/locks.py.  A process runs one job at a time in its main    *)
(* thread and renews the job's lease from a heartbeat thread.              *)
(*                                                                         *)
(* Processes crash, are stopped by SIGTERM, lose their lease while they    *)
(* keep executing, and lose the database session of their advisory lock.   *)
(* A store call may fail before or after its transaction committed.        *)
(* A restarted process has a new worker id: another member of Workers.     *)
(***************************************************************************)
EXTENDS JobStore

CONSTANTS TypeOf,        \* TypeOf[j]: "index", "coding", or "query" (rag, agent)
          RepoOf,        \* RepoOf[j]: the repository of j
          Repos,         \* repository identities
          NoJob, Http,   \* no job; a synchronous API request holding a lock
          MaxEdits,      \* bound: file edits of one coding run
          MaxFaults,     \* bound: failing store calls and lost sessions
          MaxDown        \* bound: processes that crash or are stopped

ASSUME WorkerAssumption ==
    /\ TypeOf \in [Jobs -> {"index", "coding", "query"}]
    /\ CodingJobs = {j \in Jobs : TypeOf[j] = "coding"}
    /\ RepoOf \in [Jobs -> Repos]
    /\ NoJob \notin Jobs
    /\ Http \notin Workers /\ Http # NoWorker
    /\ MaxEdits \in Nat /\ MaxFaults \in Nat /\ MaxDown \in Nat

VARIABLES
    pc,        \* pc[w]: where the main thread of process w stands
    job,       \* job[w]: the job it claimed
    attempt,   \* attempt[w]: the attempt_count that the claim returned
    outcome,   \* outcome[w]: how the operation ended, while it is reported
    beat,      \* beat[w]: the job its heartbeat thread renews
    late,      \* late[w]: a renewal that outlived heartbeat.join(timeout=1)
    stopping,  \* processes that received SIGTERM
    lock,      \* lock[r]: the session holding the advisory lock of r
    lost,      \* processes whose lock session died under them
    runs,      \* runs[j]: how often a process set out to execute j
    edits,     \* edits[j]: file edits made on behalf of j
    lateEdits, \* lateEdits[j]: those made when the lease was already lost
    applied,   \* applied[j]: attempts of j whose index update committed
    faults, down

local   == <<pc, job, attempt, outcome>>
beats   == <<beat, late>>
locks   == <<lock, lost>>
effects == <<runs, edits, lateEdits, applied>>
env     == <<stopping, down>>
workerVars == <<row, local, beats, locks, effects, env, faults>>

Steps == {"idle", "claiming", "linking", "starting", "locking", "building",
          "applying", "querying", "coding", "editing", "marking", "releasing",
          "reporting", "exited", "dead"}

Up(w) == pc[w] \notin {"exited", "dead"}

\* The steps inside execution_lock.hold().
Critical(w) == pc[w] \in {"building", "applying", "coding", "editing", "marking", "releasing"}

Goto(w, step) == pc' = [pc EXCEPT ![w] = step]

\* A store call: it commits and returns, or it raises without or with effect.
Call(Operation, Returned, Raised) ==
    \/ Operation /\ Returned /\ UNCHANGED faults
    \/ /\ faults < MaxFaults /\ faults' = faults + 1
       /\ Operation \/ UNCHANGED row
       /\ Raised

\* cancellation_state of the row a checkpoint reads; CANCELLED wins over DEFERRED.
MustStop(j) == row[j].cancel /\ ~(Unsafe(j, row[j]) /\ row[j].status # "cancelled")

WorkerInit ==
    /\ Init
    /\ pc = [w \in Workers |-> "idle"]
    /\ job = [w \in Workers |-> NoJob]
    /\ attempt = [w \in Workers |-> 0]
    /\ outcome = [w \in Workers |-> "none"]
    /\ beat = [w \in Workers |-> NoJob]
    /\ late = [w \in Workers |-> NoJob]
    /\ stopping = {} /\ lost = {}
    /\ lock = [r \in Repos |-> NoWorker]
    /\ runs = [j \in Jobs |-> 0]
    /\ edits = [j \in Jobs |-> 0]
    /\ lateEdits = [j \in Jobs |-> 0]
    /\ applied = [j \in Jobs |-> {}]
    /\ faults = 0 /\ down = 0
-----------------------------------------------------------------------------
(* run() and run_once(): recover, claim, link the trace. *)

\* Mutant: the loop does not look at the stop event.
PollForever(w) ==
    /\ pc[w] = "idle"
    /\ Call(RecoverExpired, Goto(w, "claiming"), UNCHANGED pc)
    /\ UNCHANGED <<job, attempt, outcome, beats, locks, effects, env>>
\* A stopping process leaves the loop; otherwise it recovers expired leases.
\* An exception is logged and the iteration is retried after a backoff.
Poll(w) ==
    /\ pc[w] = "idle"
    /\ UNCHANGED <<job, attempt, outcome, beats, locks, effects, env>>
    /\ IF w \in stopping
         THEN Goto(w, "exited") /\ UNCHANGED <<row, faults>>
         ELSE Call(RecoverExpired, Goto(w, "claiming"), UNCHANGED pc)

Claim(w) ==
    /\ pc[w] = "claiming"
    /\ UNCHANGED <<outcome, beats, locks, effects, env>>
    /\ \/ /\ \A j \in Jobs : row[j].status # "queued"
          /\ Goto(w, "idle")
          /\ UNCHANGED <<row, job, attempt, faults>>
       \/ \E j \in Jobs :
             Call(ClaimNext(w, j),
                  /\ Goto(w, "linking")
                  /\ job' = [job EXCEPT ![w] = j]
                  /\ attempt' = [attempt EXCEPT ![w] = row[j].attempts + 1],
                  /\ row[j].status = "queued"
                  /\ Goto(w, "idle")
                  /\ UNCHANGED <<job, attempt>>)

\* Mutant: the process tries its job again instead of leaving it to recovery.
AbandonRetry(w) == Goto(w, "linking") /\ UNCHANGED <<job, attempt>>
\* The process is done with its job, whatever became of it.
Abandon(w) == /\ Goto(w, "idle")
              /\ job' = [job EXCEPT ![w] = NoJob]
              /\ attempt' = [attempt EXCEPT ![w] = 0]

\* A lost lease skips the job; a failing call escapes to the polling loop.
Link(w) ==
    /\ pc[w] = "linking"
    /\ UNCHANGED <<outcome, late, locks, effects, env>>
    /\ \/ /\ ~Holds(w, row[job[w]])
          /\ Abandon(w)
          /\ UNCHANGED <<row, beat, faults>>
       \/ /\ Holds(w, row[job[w]])
          /\ Call(LinkTrace(w, job[w], attempt[w]),
                  /\ Goto(w, "starting")
                  /\ beat' = [beat EXCEPT ![w] = job[w]]
                  /\ UNCHANGED <<job, attempt>>,
                  Abandon(w) /\ UNCHANGED beat)
-----------------------------------------------------------------------------
(* The heartbeat thread. *)

\* It stops when the lease is gone and retries after a failed call.
Heartbeat(w) ==
    /\ beat[w] # NoJob
    /\ UNCHANGED <<local, late, locks, effects, env>>
    /\ \/ /\ ~Holds(w, row[beat[w]])
          /\ beat' = [beat EXCEPT ![w] = NoJob]
          /\ UNCHANGED <<row, faults>>
       \/ /\ Holds(w, row[beat[w]])
          /\ Call(RenewLease(w, beat[w]), TRUE, TRUE)
          /\ UNCHANGED beat

\* Mutant: done.set() is forgotten.
StopHeartbeatForgotten(w) == UNCHANGED beats
\* done.set() and join(timeout=1); one renewal may still be in flight.
StopHeartbeat(w) == /\ beat' = [beat EXCEPT ![w] = NoJob]
                    /\ late' \in {late, [late EXCEPT ![w] = beat[w]]}

\* Mutant: the renewal does not look at the owner of the row.
LateRenewalBlind(w) ==
    /\ late[w] # NoJob
    /\ late' = [late EXCEPT ![w] = NoJob]
    /\ row' = [row EXCEPT ![late[w]].lease = Lease]
    /\ UNCHANGED <<local, beat, locks, effects, env, faults>>
\* A renewal still in flight when join() gave up commits after the fact.
LateRenewal(w) ==
    /\ late[w] # NoJob
    /\ late' = [late EXCEPT ![w] = NoJob]
    /\ RenewLease(w, late[w]) \/ (~Holds(w, row[late[w]]) /\ UNCHANGED row)
    /\ UNCHANGED <<local, beat, locks, effects, env, faults>>
-----------------------------------------------------------------------------
(* The execution services. *)

\* The operation ends with result; an advisory lock is released first.
Conclude(w, result) ==
    /\ outcome' = [outcome EXCEPT ![w] = result]
    /\ Goto(w, IF Critical(w) THEN "releasing" ELSE "reporting")
    /\ UNCHANGED <<job, attempt>>

\* A cooperative checkpoint reads the row: JobCancellationRequested ends the
\* operation as cancelled, a failing read ends it as failed.
Checkpoint(w, next) ==
    /\ UNCHANGED row
    /\ \/ MustStop(job[w]) /\ Conclude(w, "cancelled") /\ UNCHANGED faults
       \/ /\ ~MustStop(job[w])
          /\ Goto(w, next)
          /\ UNCHANGED <<job, attempt, outcome, faults>>
       \/ /\ faults < MaxFaults /\ faults' = faults + 1
          /\ Conclude(w, "failed")

\* The checkpoints of _execute and of the service before any lock is taken.
Start(w) ==
    /\ pc[w] = "starting"
    /\ Checkpoint(w, IF TypeOf[job[w]] = "query" THEN "querying" ELSE "locking")
    /\ runs' = [runs EXCEPT ![job[w]] = @ + 1]
    /\ UNCHANGED <<beats, locks, edits, lateEdits, applied, env>>

\* Mutant: NullRepositoryExecutionLock in production.
LockNothing(w) ==
    /\ pc[w] = "locking"
    /\ Goto(w, IF TypeOf[job[w]] = "coding" THEN "coding" ELSE "building")
    /\ UNCHANGED <<row, job, attempt, outcome, beats, locks, effects, env, faults>>
\* pg_try_advisory_lock never waits: 409 repository_busy if it is taken.
Lock(w) ==
    LET r == RepoOf[job[w]] IN
    /\ pc[w] = "locking"
    /\ \/ /\ lock[r] = NoWorker
          /\ lock' = [lock EXCEPT ![r] = w]
          /\ Goto(w, IF TypeOf[job[w]] = "coding" THEN "coding" ELSE "building")
          /\ UNCHANGED <<job, attempt, outcome>>
       \/ lock[r] # NoWorker /\ Conclude(w, "failed") /\ UNCHANGED lock
    /\ UNCHANGED <<row, beats, lost, effects, env, faults>>

\* RepositoryService.index up to its last checkpoint, which precedes the commit.
Build(w) ==
    /\ pc[w] = "building"
    /\ \/ Checkpoint(w, "applying")
       \/ Conclude(w, "failed") /\ UNCHANGED <<row, faults>>
    /\ UNCHANGED <<beats, locks, effects, env>>

\* Mutant: a failing commit is reported as success.
ApplyHopeful(w) ==
    /\ pc[w] = "applying"
    /\ applied' \in {applied, [applied EXCEPT ![job[w]] = @ \cup {attempt[w]}]}
    /\ Conclude(w, "succeeded")
    /\ UNCHANGED <<row, beats, locks, runs, edits, lateEdits, env, faults>>
\* apply_index_update is one transaction; nothing after it is a checkpoint.
Apply(w) ==
    LET commit == applied' = [applied EXCEPT ![job[w]] = @ \cup {attempt[w]}] IN
    /\ pc[w] = "applying"
    /\ \/ commit /\ Conclude(w, "succeeded") /\ UNCHANGED faults
       \/ /\ faults < MaxFaults /\ faults' = faults + 1
          /\ commit \/ UNCHANGED applied
          /\ Conclude(w, "failed")
    /\ UNCHANGED <<row, beats, locks, runs, edits, lateEdits, env>>

\* A rag or agent run: checkpoints between model calls and read-only tools.
Query(w) ==
    /\ pc[w] = "querying"
    /\ \/ MustStop(job[w]) /\ Conclude(w, "cancelled")
       \/ Conclude(w, "succeeded")
       \/ Conclude(w, "failed")
    /\ UNCHANGED <<row, beats, locks, effects, env, faults>>

\* A coding run between two tool calls: stop, edit a file, or come to an end.
Code(w) ==
    /\ pc[w] = "coding"
    /\ \/ edits[job[w]] < MaxEdits /\ Checkpoint(w, "editing")
       \/ \E result \in {"succeeded", "failed"} :
             Conclude(w, result) /\ UNCHANGED <<row, faults>>
    /\ UNCHANGED <<beats, locks, effects, env>>

\* A mutation tool succeeds; the job row does not know it yet.
Edit(w) ==
    /\ pc[w] = "editing"
    /\ edits' = [edits EXCEPT ![job[w]] = @ + 1]
    /\ lateEdits' = [lateEdits EXCEPT
                       ![job[w]] = IF Holds(w, row[job[w]]) THEN @ ELSE @ + 1]
    /\ Goto(w, "marking")
    /\ UNCHANGED <<row, job, attempt, outcome, beats, locks, runs, applied, env, faults>>

\* Mutant: the checkpoint precedes the record of the side effect.
MarkAfterCheckpoint(w) ==
    /\ pc[w] = "marking"
    /\ \/ Checkpoint(w, "coding")
       \/ /\ Holds(w, row[job[w]]) /\ MarkSideEffectStarted(w, job[w])
          /\ Goto(w, "coding") /\ UNCHANGED <<job, attempt, outcome, faults>>
    /\ UNCHANGED <<beats, locks, effects, env>>
\* Mutant: "Job lease is no longer active" is ignored.
MarkIfHeld(w) ==
    /\ pc[w] = "marking"
    /\ MarkSideEffectStarted(w, job[w]) \/ (~Holds(w, row[job[w]]) /\ UNCHANGED row)
    /\ Goto(w, "coding")
    /\ UNCHANGED <<job, attempt, outcome, beats, locks, effects, env, faults>>
\* side_effect_started(): without the lease it raises and ends the run.
Mark(w) ==
    /\ pc[w] = "marking"
    /\ \/ ~Holds(w, row[job[w]]) /\ Conclude(w, "failed") /\ UNCHANGED <<row, faults>>
       \/ /\ Holds(w, row[job[w]])
          /\ Call(MarkSideEffectStarted(w, job[w]),
                  Goto(w, "coding") /\ UNCHANGED <<job, attempt, outcome>>,
                  Conclude(w, "failed"))
    /\ UNCHANGED <<beats, locks, effects, env>>

\* pg_advisory_unlock; on a dead session it raises and replaces the outcome.
Release(w) ==
    LET r == RepoOf[job[w]] IN
    /\ pc[w] = "releasing"
    /\ lock' = [lock EXCEPT ![r] = IF lock[r] = w THEN NoWorker ELSE lock[r]]
    /\ lost' = lost \ {w}
    /\ outcome' = [outcome EXCEPT ![w] = IF w \in lost THEN "failed" ELSE @]
    /\ Goto(w, "reporting")
    /\ UNCHANGED <<row, job, attempt, beats, effects, env, faults>>

\* _finish: a lost lease or a failing call leaves the row to lease recovery.
\* Then the heartbeat is told to stop.
Report(w) ==
    LET j == job[w]
        Record == CASE outcome[w] = "cancelled" -> MarkCancelled(w, j)
                    [] outcome[w] = "succeeded" -> MarkSucceeded(w, j)
                    [] OTHER                    -> MarkFailed(w, j)
        refused == \/ ~Holds(w, row[j])
                   \/ outcome[w] = "cancelled" /\ (~row[j].cancel \/ Unsafe(j, row[j]))
    IN
    /\ pc[w] = "reporting"
    /\ \/ refused /\ UNCHANGED <<row, faults>>
       \/ ~refused /\ Call(Record, TRUE, TRUE)
    /\ Abandon(w)
    /\ outcome' = [outcome EXCEPT ![w] = "none"]
    /\ StopHeartbeat(w)
    /\ UNCHANGED <<locks, effects, env>>
-----------------------------------------------------------------------------
(* The environment. *)

Sigterm(w) ==
    /\ Up(w) /\ w \notin stopping /\ down < MaxDown
    /\ stopping' = stopping \cup {w} /\ down' = down + 1
    /\ UNCHANGED <<row, local, beats, locks, effects, faults>>

\* The process dies: its threads and its database sessions go with it.
Crash(w) ==
    /\ Up(w) /\ down < MaxDown
    /\ down' = down + 1
    /\ Goto(w, "dead")
    /\ job' = [job EXCEPT ![w] = NoJob]
    /\ attempt' = [attempt EXCEPT ![w] = 0]
    /\ outcome' = [outcome EXCEPT ![w] = "none"]
    /\ beat' = [beat EXCEPT ![w] = NoJob]
    /\ late' = [late EXCEPT ![w] = NoJob]
    /\ lock' = [r \in Repos |-> IF lock[r] = w THEN NoWorker ELSE lock[r]]
    /\ lost' = lost \ {w}
    /\ UNCHANGED <<row, effects, stopping, faults>>

\* PostgreSQL drops the session that holds the lock; the process goes on.
LoseSession(w) ==
    /\ faults < MaxFaults /\ faults' = faults + 1
    /\ \E r \in Repos : lock[r] = w /\ lock' = [lock EXCEPT ![r] = NoWorker]
    /\ lost' = lost \cup {w}
    /\ UNCHANGED <<row, local, beats, effects, env>>

\* A synchronous index or coding request of the API takes or leaves the lock.
HttpLock(r) ==
    /\ \/ lock[r] = NoWorker /\ lock' = [lock EXCEPT ![r] = Http]
       \/ lock[r] = Http /\ lock' = [lock EXCEPT ![r] = NoWorker]
    /\ UNCHANGED <<row, local, beats, lost, effects, env, faults>>

Client ==
    /\ \E j \in Jobs : Create(j) \/ RequestCancel(j)
    /\ UNCHANGED <<local, beats, locks, effects, env, faults>>

Time == Tick /\ UNCHANGED <<local, beats, locks, effects, env, faults>>

MainThread(w) ==
    \/ Poll(w) \/ Claim(w) \/ Link(w) \/ Start(w) \/ Lock(w) \/ Build(w)
    \/ Apply(w) \/ Query(w) \/ Code(w) \/ Edit(w) \/ Mark(w) \/ Release(w)
    \/ Report(w)

WorkerNext ==
    \/ \E w \in Workers : \/ MainThread(w) \/ Heartbeat(w) \/ LateRenewal(w)
                          \/ Sigterm(w) \/ Crash(w) \/ LoseSession(w)
    \/ \E r \in Repos : HttpLock(r)
    \/ Client
    \/ Time

WorkerSpec == WorkerInit /\ [][WorkerNext]_workerVars

\* A poll whose recovery meets no row that another transaction has locked.
FullRecovery == /\ \E w \in Workers : Poll(w)
                /\ \A j \in Jobs : ~Expired(row'[j])

\* A process that is up keeps executing, the clock keeps running, and row locks
\* are held briefly: recovery does not skip an expired row for ever.
FairWorkerSpec ==
    /\ WorkerSpec
    /\ WF_workerVars(Time)
    /\ \A w \in Workers : WF_workerVars(MainThread(w))
    /\ SF_workerVars(FullRecovery)
-----------------------------------------------------------------------------
(* Properties. *)

WorkerTypeOK ==
    /\ TypeOK
    /\ pc \in [Workers -> Steps]
    /\ job \in [Workers -> Jobs \cup {NoJob}]
    /\ attempt \in [Workers -> 0..MaxAttempts]
    /\ outcome \in [Workers -> {"none", "succeeded", "failed", "cancelled"}]
    /\ beat \in [Workers -> Jobs \cup {NoJob}] /\ late \in [Workers -> Jobs \cup {NoJob}]
    /\ stopping \subseteq Workers /\ lost \subseteq Workers
    /\ lock \in [Repos -> Workers \cup {NoWorker, Http}]
    /\ runs \in [Jobs -> Nat] /\ edits \in [Jobs -> Nat] /\ lateEdits \in [Jobs -> Nat]
    /\ applied \in [Jobs -> SUBSET (1..MaxAttempts)]
    /\ faults \in Nat /\ down \in Nat

\* A process has a claimed job exactly between its claim and its report.
Busy(w) == pc[w] \notin {"idle", "claiming", "exited", "dead"}

JobAtHand ==
    \A w \in Workers :
        /\ Busy(w) => job[w] \in Jobs /\ attempt[w] \in 1..MaxAttempts
        /\ ~Busy(w) => job[w] = NoJob

\* A coding job is reported as cancelled only if it never edited a file: an
\* edit, its record in the row and the next checkpoint are three steps, and
\* requests, lease expiry, crashes and failing calls may fall between them.
CancelledMeansUntouched ==
    \A j \in CodingJobs : row[j].status = "cancelled" => edits[j] = 0

\* No attempt is executed twice: each execution was paid for by a claim.  With
\* CodingRunsOnce, a coding job is executed at most once by all processes.
OneRunPerClaim == \A j \in Jobs : runs[j] <= row[j].attempts

\* A succeeded index job was applied by the very attempt whose trace it links.
SuccessWasApplied ==
    \A j \in Jobs : row[j].status = "succeeded" /\ TypeOf[j] = "index"
                      => row[j].trace \in applied[j]

\* Two processes index or edit the same repository at once only when one of
\* them has lost its lock session (execution_lock.hold).
RepositoryExclusive ==
    \A v, w \in Workers :
        /\ v # w /\ Critical(v) /\ Critical(w)
        /\ RepoOf[job[v]] = RepoOf[job[w]]
        => v \in lost \/ w \in lost

\* Checkpoints do not look at the lease, so a process that lost it goes on, but
\* only to its first edit: recording the side effect then ends the run.
OneLateEdit == \A j \in Jobs : lateEdits[j] <= 1

\* Only a claim, or the holder while it has the job or its last renewal in flight, gives a
\* row more time.  A lease that its process has abandoned (a crash, a claim whose answer was
\* lost, an outcome that was not recorded) runs out, whatever other processes still send.
AbandonedLeaseLapses ==
    [][\A j \in Jobs : row'[j].lease > row[j].lease =>
         \/ row[j].status = "queued"
         \/ \E w \in Workers : row[j].owner = w /\ j \in {job[w], late[w]}]_workerVars

\* Every enqueued job concludes although wakeups are lost, calls fail, leases
\* expire and processes die, as long as one process survives.
EventuallyConcluded ==
    \A j \in Jobs : row[j].status # "absent" ~> Terminal(row[j])

\* SIGTERM lets the current job finish and then the process exits.
StopsAfterCurrentJob ==
    \A w \in Workers : w \in stopping ~> ~Up(w)

\* repositories.py 272-273: "the index is committed, so a late cancel request
\* must not report the job as cancelled".
CommittedIndexNotCancelled ==
    \A j \in Jobs : row[j].status = "cancelled" => applied[j] = {}
=============================================================================
