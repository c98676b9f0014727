# RepoMind in TLA+

RepoMind answers questions about a source repository and edits it with a
language model.  Its backend (`src/src/repomind`) accepts jobs over HTTP, keeps
them in PostgreSQL, executes them in worker processes, and keeps a vector index
of each registered repository.  This directory holds TLA+ models of the parts
whose correctness depends on order, failure and concurrency, the TLC runs that
check them, and proofs that TLAPS checks.

Paths below are relative to `src/src/repomind/` unless they begin with `src/`.

    tlc -workers 2 -config JobStore.cfg MCJobStore      # model-check one run
    tlapm Jobs_proofs.tla                               # check the proofs

`PROJECT.json` lists components, runs, the lines each definition models
("map"), hazards, findings, theorems, and for every property a mutant: a
plausible bug in a mapped definition that TLC then catches with that property.

## 1. Inventory

| Component | Code | State | Operations |
|---|---|---|---|
| Durable job store | `jobs/store.py` | rows of `jobs`: status, attempts, lease owner and expiry, cancel flag, side-effect flag, trace link, outcome | create, claim, renew, link trace, request cancel, mark side effect, mark cancelled/succeeded/failed, recover expired |
| Worker process | `worker.py`, `jobs/worker.py` | loop position, claimed job, heartbeat thread, stop event | poll, claim, run one job, heartbeat, report, SIGTERM, crash |
| Cooperative cancellation | `jobs/control.py` | none of its own, reads and writes the job row | checkpoint, side effect started |
| Repository execution lock | `jobs/locks.py` | a PostgreSQL advisory lock held by a session | try lock, unlock, loss of the session |
| Execution services | `api/services/` | none | index, rag, agent, coding: checkpoint, lock, operate, project the response |
| Repository service and index | `api/services/repositories.py`, `indexing.py`, `db/repositories.py` | files, chunks, vectors, the index fingerprint | ingest, plan, embed, validate, apply in one transaction |
| Registry and workspace policy | `api/store.py`, `api/services/repositories.py` | workspace bindings, the active directories of each process | register, locate, enter and leave a directory |
| Coding workflow | `coding/` | plan, mutated paths, workspace revision, evidence, reviews, attempts | preflight, plan, decide, act, verify, capture Git evidence, gate, review |
| Agent loop and tools | `agent/`, `tools/` | iteration and mutation counts, observations | decide, execute a tool, record an observation |
| Job API and event stream | `api/services/jobs.py` | the generator of one response | enqueue, cancel, get, follow a job by SSE |
| Wakeup and progress broker | `jobs/broker.py` | Redis subscriptions, coalesced wakeups | notify, wait for work, publish, subscribe, next |
| Direct streaming | `api/services/streaming.py` | a bounded channel, a producer thread | receive, complete, fail, drain, send the terminal frame |
| Browser client | `src/frontend/lib/jobs.ts`, `sse.ts` | reconnect budget, result seen so far | open, read frames, ask for the row, back off, abort |
| Indexed agent | `agent/indexed.py`, `agent/evidence.py` | pending hints, observations | decide, call a tool, observe, accept or refuse the answer, extract evidence |
| Subprocess tools | `tools/verification.py`, `tools/git.py` | child, spool or pipe, timer thread | start, poll, read, kill the group, reap |
| Trace recorder | `observability/` | timeline of a run, stored trace | start, emit, nest, finish, persist |
| Ingestion and chunking | `ingestion/` | stack of directories, files, skips | list, check, resolve, read; split into chunks |
| Retrieval and RAG | `retrieval/`, `rag/`, `db/hybrid.py` | none | search, fuse, rerank, expand, pack, generate, cite |
| Provider clients | `llm/client.py`, `retrieval/embeddings.py` | batches, attempts | request, validate, retry, sleep |

How they interact:

- The API inserts a `queued` row and publishes a wakeup.  Workers poll the
  table; wakeups only shorten the wait and may be lost.
- A worker claims a row (`FOR UPDATE SKIP LOCKED`), links the trace of its
  attempt, starts a heartbeat thread that renews the lease, and calls an
  execution service with a cancellation token that reads the same row.
- Index and coding operations run inside a PostgreSQL advisory lock that is
  keyed by the repository.  It is never waited for: a taken lock is the error
  `repository_busy`.  Synchronous API requests take the same lock.
- The operation's outcome goes back to the row under an ownership check.  A
  worker that lost its lease is refused.  Whoever polls next recovers rows whose
  lease ran out: coding jobs fail, others are requeued, cancelled, or failed when
  their attempts are used up.
- A coding job that stopped at one of its own limits (`VERIFICATION_FAILED`,
  `AGENT_LIMIT_REACHED`) is a job that *succeeded* with that result; only an
  exception makes the job fail.

What is hard here, and what correctness means:

- **Job store.** Claims, cancel requests, outcomes and recovery race for a row.
  An outcome must be final, attempts bounded, a coding job must never be
  replayed, and "cancelled" must never be said of a job whose edits are recorded.
- **Worker.** A process may be slow, lose its lease and go on, die, be stopped, or
  not know whether a call committed.  A job must still be executed at most once
  per claim, conclude in the end, and an edit must not be hidden by a
  cancellation that falls between the edit and its record.
- **Lock.** It belongs to a session, not to a process, so it can vanish under a
  running operation.
- **Index.** The plan is made long before the transaction that applies it, at
  READ COMMITTED.  An incremental index must equal a rebuilt one, and the
  fingerprint, which authorises the reuse of vectors, must be true of every row.
- **Registry.** Locks are keyed by repository while calls work in directories, so
  everything rests on bindings that never overlap and never change, although the
  check and the insertion are separate statements.
- **Coding workflow.** Tests, lint, Git evidence and review are collected at
  different times.  "Completed" must rest on evidence of the files as they are;
  the loop of model, verifiers, gates and reviewer must end.
- **Streams, broker, browser.** Best-effort delivery must never cost the final
  event, nor let it overtake what came before; the browser must not take an
  answer for the outcome that the row does not have; an idle worker must not
  sleep through a notification it was subscribed for.
- **Indexed agent.** The index may be older than the files.  An answer must rest on
  something that was read, and the evidence on what the files showed.
- **Programs run by tools.** The child, its own children, a timer thread and the
  reader move independently; what the tool reports must be what happened.
- **Provider calls.** Vectors come back unordered and in batches that are retried;
  each must end up at its text.
- **Traces.** Wrappers nest and each of them finishes the run; the stored trace must be
  the run, except for what telemetry itself lost.
- **From file to citation.** The tree changes while it is walked, the index while
  it is searched, sources are cut to a budget: chunks must cover the file, and a
  citation must name lines that the model was shown.

## 2. Modules

    JobLifecycle        what a client is promised
        ^ refines
    JobStore            the jobs table and its transactions   \
        ^ extends                                              > Jobs_proofs
    JobWorker           processes, heartbeats, locks, services /

    RepositoryIndex     incremental indexing, statement by statement
                                                      -- RepositoryIndex_proofs
    RepositoryRegistry  bindings, active directories, locks
                                                      -- RepositoryRegistry_proofs
    CodingWorkflow      one coding task with its tools and gates
                                                      -- CodingWorkflow_proofs

    JobStream           event stream, broker, browser of one job \
    WorkerWakeup        notifications to idle workers             > Streaming_proofs
    ProgressChannel     direct streaming                         /

    IndexedAgent        loop, grounding, evidence   \
      extends WorkspaceTools  what tools return       \
    SubprocessTools     verifiers and Git              > Agents_proofs
    ProviderCalls       completions and embeddings    /
    TraceRun            the trace of one run         /
    SequenceFolds       FoldLeft and induction in proofs, extended by Agents_proofs
                        and Retrieval_proofs

    SourceIngestion     the walk over the working tree     -- Retrieval_proofs
    Chunking            a file becomes chunks
    RepositoryQuestion  one question against the index     -- Retrieval_proofs
      extends RankFusion      searches, fusion, reranking

Each of the first group has an `MC` module with its small sets and one or more
`.cfg` files.  The modules of the other groups share no state with each other, so
`MCStreaming`, `MCAgents` and `MCRetrieval` check each group in one run: a variable
`part` chooses in the initial state which module moves, and the others keep one
initial value.

### JobLifecycle and JobStore

`JobLifecycle` is the abstract specification: every job has a status, a number of
attempts, a cancel flag and a "touched" flag, and a step moves any set of jobs by
one legal move each (one transaction of the store may recover several).

`JobStore` has one variable, `row`, with the columns that decide anything, and
one action per operation of `PostgresJobStore`.  Each operation reads its rows
`FOR UPDATE` in one transaction and is therefore one step.  Callers are not
constrained at all: any worker may call anything at any time.  A lease is the
number of ticks left; since the code computes the expiry before the transaction
begins and on the caller's host, a written lease may be any shorter one.
`SKIP LOCKED` appears as the freedom to claim any queued row and to recover any
subset of the expired ones, because any other row may be locked at that instant.

### JobWorker

`pc[w]` is the position of a process's main thread, and each step up to the next
access to shared state is an action: `Poll` and `Claim` and `Link`
(`worker.run`, `JobWorker.run_once`), `Start` (`_execute` up to the lock), `Lock`,
`Build`/`Apply` (indexing before and at its commit), `Query` (rag and agent),
`Code`/`Edit`/`Mark` (a coding run: checkpoint, edit a file, record the side
effect), `Release`, `Report` (`_finish` and the end of the heartbeat).
`Heartbeat` is the second thread; `LateRenewal` is the renewal that is still in
flight when `heartbeat.join(timeout=1)` gives up.  `Call` models a store call that
returns, or raises before or after its transaction committed.  The environment
crashes processes, sends SIGTERM, drops lock sessions, runs API requests that hold
the lock, enqueues and cancels jobs, and lets time pass.  The module extends
`JobStore` and changes `row` only by its actions; what the processes do with them is
the question, for instance whether a lease whose holder is gone is ever renewed
(`AbandonedLeaseLapses`).

Ghost variables: `runs`, `edits`, `lateEdits`, `applied` record what was done to
the world, which the rows only report.

### RepositoryIndex

A call of `RepositoryService.index` takes the lock, reads a snapshot of the
working tree, reads the manifest (two statements), plans, embeds, and then opens
a transaction whose statements are steps of their own: load the repository row,
validate the plan against the manifest, load the file rows, write and commit.  A
file row stands for the file, its chunks and vectors; `config` is the
configuration that the vectors were computed with, `by` the identity of the row.
Digests stand for themselves (SHA-256 is taken to be free of collisions), and a
file's chunks are a function of its content.  Any step may fail.  The ORM matters
in two places that the model keeps: the repository row is read once into the
identity map, so the fingerprint is only written if it differs from the one that
was loaded, and rows are deleted by identity, so a row that another run has
replaced is not matched and the insert then violates the unique constraint.
`ReplaceLegacy` is the pair of legacy helpers that benchmarks call.

### RepositoryRegistry

Three mechanisms decide who may work in which directory, and the module has all of
them: `PostgresRepositoryStore.register` statement by statement (`LockRegistration`,
`ReadName`, `ReadPaths`, `Insert`) at READ COMMITTED, `WorkspacePolicy.operation`
(`Enter` and `Leave`, one `active` set per process), and the execution lock (`Hold`).
Index and coding calls are of kind "mutate", rag and agent calls of kind "read" and
take no execution lock.  A directory is a sequence of components, the workspace root
is the empty one, and `Overlap` and `Relative` are the two comparisons of the code.
A call that ended becomes idle and may be used again, so the model needs no bound.
All processes see the same workspace under their root.  `PersistUnbound` is
`persist_repository_snapshot`, which creates a repository without a binding.

### CodingWorkflow

`run_coding_task` around the agent loop, one action per stretch between two
checkpoints.  The tree is abstracted to the set of paths that differ from `HEAD`;
`Written` lets a write restore a tracked file to its old content.  `Shown` is what
Git lists: ignored paths are invisible; of what it lists, the diffs may render nothing.
Evidence carries the logical revision the
code stamps on it; whether it has really seen the present files is the ghost
variable `saw`, which is what `CompletedIsVerified` compares with.  `HalfCreate` is
the creation that publishes its file and then fails: the tool reports an error and
the revision does not change, but the tree has, so `saw` is emptied.

### JobStream

One durable job, the attempts that execute it, the stream and the browser.  The row
is reduced to status, attempt and result (`Attempt`, `Outcome`, `Recover`,
`CancelQueued`; an attempt that lost its lease may go on publishing and is refused
by `Outcome`).  `Publish` puts an event on its way if Redis answers and somebody is
subscribed, `Arrive` takes it to the subscription.  The client of the broker repeats a command
whose reply does not come: `Publish` then leaves two copies of the event in `late`, and
`Land` lets Redis execute each of them at any time or never, so that such an event arrives
not at all, once or twice, in its turn or behind later ones; it carries
`again`.  `JobService.stream` is a
generator, and each stretch between two awaits is an action: `Subscribe`,
`CheckDisconnected`, `ReadRow`, `AwaitProgress`, `Drain` (one message at a time, up to
the limit), `SendTerminal`, `CloseStream`, and `CancelStream` for the cancellation that
the server delivers at an await.  `followJob` is `OpenStream`, `ReceiveFrame`, `StreamEnded`,
`Ask` (the row has the last word), `Backoff` and `Aborted`.  Redis goes away and comes
back, the row cannot be read, a fetch is refused, a connection is cut with whatever was
not read, the user leaves.  Keep-alive comments are left out.

### WorkerWakeup

`JobService.enqueue` commits a row (`Create`) and publishes afterwards (`Notify`).  An idle
worker claims, finds nothing, waits (`EnterWait`, which subscribes if it has to), is
woken (`Wake`), throws the wakeups that are already there away (`Coalesce`, at most
`MaxCoalesced` at a time), or polls (`PollDue`).  `NotifyAgain` is the retry of a
publication whose reply was lost; the job may be claimed by then.  `covered` is a ghost: the worker
was subscribed when it last found the table empty, and has been ever since.

### ProgressChannel

The operation's thread records events (`Trace`, which drops what finds no room) and ends
(`Produce`); the generator takes an event, hands it to the transport, and only tests
`done` after it found the channel empty (`NextEvent`, `Written`, `TestDone`,
`Terminal`).  The client may stop reading for ever, which is why `Written` is fair to
nobody, or leave.

### WorkspaceTools and IndexedAgent

`WorkspaceTools` says what `read_file`, `search_code`, `find_symbol` and
`indexed_code_search` return for a tree; a line is the set of words a search finds in
it.  `IndexedAgent` is `_run_agent` with the grounding policy: `CallTool` and `RunTool`
are separate since the tree may change in between, a third identical call is
answered with a failure, and `FinalAnswer` is refused while hints are pending.
`Evidence` is `extract_observed_source_evidence`, a fold over the observations.

### SubprocessTools

Both ways a tool runs a program.  Verifiers wait in slices (`WaitBounded`, `PollSpool`),
then kill the process group (`TerminateTree`, which the system may refuse) and
collect bounded output; a process that the test has put into a group of its own survives.  Git's pipe is read by `ReadPipe` under a timer whose thread first
sets its flag and then kills (`Expire`, `ExpireKill`), and `Reap` decides.  The child
writes, forks, exits or hangs at any moment.

### ProviderCalls

`Batches` splits the texts by count and characters; `Transient`, `Fatal` and `Sleep` are the
retry loop; `AnswerEmbedding` accepts any list of indexed vectors, valid or
not, and validates it as the code does; `AnswerCompletion` does so for plain and
structured completions.  Synchronous and asynchronous variants take the same steps.

### TraceRun

A run is a stack of frames (`tracing`, `run`, `tool`, `verification`, `model`), each of
which emits its own end when it is left, normally or by an exception.  `ReportStatus` is
the service that finishes the run with its domain status, `LeaveTracing` the wrapper
that finishes it in any case; the first of them counts.  The clock, the recorder, a
listener or the sink may fail at any emit.

### SourceIngestion and Chunking

The walk lists a directory at a time and looks at each file four times
(`CheckFile`, `CheckLinks`, `ResolveFile`, `ReadSource`), and `TreeChanges` may happen in
between.  A directory may refuse to be listed, which `os.walk` passes over in silence
(`ListingFails`), and a file to be looked at, which passes for a link (`LookFails`).
`ResolveFile` follows what has become a link after `CheckLinks`; a record therefore keeps both the
path that was walked and the one it is recorded under.  The ghosts `moved`, `unlisted` and
`refused` say what was touched and what failed, so that the property can say what is owed to
every other path.
`Chunking` computes line windows with overlap, structural units of Python definitions,
parts of oversized units and pieces of oversized lines.  A text is the sequence of
its characters' positions, so that a chunk says which characters of the file it
holds.  The syntax tree is an input: any definitions that `ast.parse` might find.
The loop over windows is split into what it does at one start (`Window`), where it goes next
(`NextStart`) and where it has been (`Starts`, the least set that contains the first line and
what comes next after its members); the chunks are those of the starts, in their order.
`ChunkingAssumption` says that a line has a character, at least its end, and that the
overlap is smaller than the window, which `ChunkingConfig` validates.

### RankFusion and RepositoryQuestion

`RankFusion` has the searches as functions of a corpus: exact cosine order, BM25 order,
symbol tiers, reciprocal rank fusion with its tie-breaks, and the reranker's input limits.
How near a text is to the query is a number the chunk carries.  Every ranking sorts by a
tuple, in the code and in the model: `Arranged` takes what has a key and lists it so that
each member stands where the number of smaller keys says.  `CodeChunks` is the type of
a row, and `QuestionAssumption` says what the unique constraint of `code_chunks` says: a
place in a file belongs to one chunk of an index.
`RepositoryQuestion` is one request: embedding, each statement of the search at READ
COMMITTED, fusion, reranking, expansion by neighbours in another session, packing
into the budget with truncation, generation and the mapping of citations.
`IndexCommits` may replace the index between any two of them.

## 3. Runs

| Run | Configuration | Shows | Distinct states |
|---|---|---|---|
| `job_store` | 1 coding + 1 other job, 2 workers, 2 attempts, lease of 2 ticks | a coding job runs once, cancellation is honest, no start after cancellation, refinement of `JobLifecycle` | 25 k |
| `job_worker_mixed` | a coding job and a query in one repository, 1 attempt, 2 processes, 2 edits, 2 faults, 1 crash or stop | executions are paid by claims, cancellation is honest about edits, one late edit at most | 1.2 M |
| `job_worker_live` | 1 index job, 2 attempts, 2 processes, fair, 2 faults, 1 down | the job concludes, success means applied, exclusive repository, SIGTERM ends the process, an abandoned lease lapses | 219 k |
| `job_worker_late_cancel` | 1 index job, 2 attempts, 1 fault | **violated**, finding 1 | |
| `repository_index` | 3 calls, 2 paths, 2 contents, 2 configurations, chunk limit 3, 1 lost lock session | while every lock lives: incremental equals rebuild, true fingerprint, kept rows; and when runs overlap they do not overwrite each other blindly | 1.6 M |
| `repository_index_lost_lock` | as `repository_index` | **violated**, finding 3 | |
| `repository_registry` | 3 calls in 2 processes, nested and separate directories, fair | disjoint bindings, mutations apart, a process keeps its calls apart, a waiting registration is answered | 292 k |
| `coding_workflow` | 3 paths (tracked, new, ignored), 5 iterations, 2 attempts, 2 edits, clean start, fair | completion and review rest on current evidence, honest cancellation, the task ends | 499 k |
| `coding_blind_review` | as `coding_workflow` | **violated**, finding 2 | |
| `streaming` | a job with 2 attempts, 2 events, drain limit 1, 1 reconnect, 2 outages; 2 workers, 3 tasks, 2 outages; a channel of 2 for up to 5 events; fair | the answer is the outcome, frames in order and complete (retried ones apart), no notification slept through, the result overtakes nothing, every stream ends | 826 k |
| `agents` | 3 paths in 3 trees, 3 queries, 4 iterations, 1 change; spool of 2, pipe of 1, 3 writes; 6 lists of texts, 1 retry; 3 traced operations, 1 telemetry fault; fair | grounded answers, evidence that was observed, honest results of programs, vectors at their texts, the stored trace is the run, no program hangs a tool | 930 k |
| `retrieval` | trees of 3 entries, 2 changes, listings and looks that fail; all files of up to 4 lines and Python files with up to 3 definitions; 5 indexes, 2 commits during a question of each strategy | faithful snapshot, chunks that cover the file, one sound ranking, citations of shown lines | 875 k |

A property is stated once: what `ImplementsLifecycle` or a theorem already
says is not checked again by an invariant of its own.  The type invariants and
`StoreInv` are conjuncts of the inductive invariants that section 5 proves.

Bounds, and why they are enough:

- *Jobs and processes.* The rows of the store do not interact except through one
  recovery transaction, so two jobs of different kind meet every case; two workers
  are a holder and a stale one, or a holder and a competitor for the lock.
  Processes do not come back in the model: a restarted process has a new
  uuid and would be a third worker.  The safety theorems of section 5 need none of
  these bounds.
- *Lease.* One tick suffices for "valid" and "expired"; two let a renewal be short.
- *MaxFaults, MaxDown* bound failing calls and lost sessions, and dead or stopped
  processes.  With two processes only one may go down, so that the other can do
  the recovery that liveness needs.  Two faults let a report fail after a session
  was lost.  A coding job is never attempted twice, so the mixed run has one attempt;
  the live run has two.
- *Three index calls* are: build an index, change it, and a later one that finds what
  the second left, with `ReplaceLegacy` in between.  Two paths with two contents of
  one and two chunks reach every class of the plan at once, and the limit of three
  chunks is hit by a sum of reused and new ones.  While the lock lives and legacy
  replacements wait for the runs to end, nothing changes between a plan and its
  commit; a plan that is old when it is applied needs a lock session that died
  (`MaxLost` = 1).  One lost session lets two of the three runs overlap at any of their statements.
- *Registry.* Three calls put two of them in one process and one in another: a
  registration that races another one in either, while a third call works.  The
  directories are one, one inside it and one beside it, which are the three ways in
  which two can lie.
- *Coding.* Five iterations hold edit, verify, edit again, and two completion
  requests, so feedback after a blocked attempt and a stale verification both
  happen.  Three paths are one of each kind that Git treats differently.  Git hides
  a temporary file beside the first two, so a half creation is given away by the file
  itself there, and by its temporary name at the ignored path.

- *Streaming.* Two attempts are an old process that lost its lease and the one that
  records the outcome.  With one event more than the drain limit the limit is reached; two
  outages (of which a lost reply of Redis is one) let a stream be cut and the row, or Redis, fail
  afterwards, or both events be published twice; one reconnect is used up and missed.  Two workers compete for a notified task while a third
  task is on its way.  Five events in a channel of two are dropped, delivered and
  dropped again.
- *Agents.* Three trees differ in which hinted files exist, are empty or unreadable;
  four iterations hold a search, a failed read, another read and an answer.  A pipe
  of one character is exceeded by the second, a spool of two by the third.  The
  lists of texts fill a batch, overflow it by count and by characters, hold a text that
  is too long alone and one that is empty.  A traced run of three operations nests a
  verification in a run and has a model call outside of it.
- *Retrieval.* Three entries are a file, a directory and a file in it.  Two changes make a file
  a link and back, or change both ends of a link, between any two looks.  Lines of 1, 2, 3 and 7
  characters with limits of 3 and 5 are blank, short, exact and oversized.  The
  indexes differ by an edit, by the model, by the vector size, or are empty; two commits fall
  between any two pairs of statements.

`CHECK_DEADLOCK FALSE` only stands where a run ends for good (the coding
workflow, a stream, an agent, a question end, and do nothing more); elsewhere time or new
calls are always possible.

## 4. Fairness

`FairWorkerSpec`:

- WF of `Time`: the clock runs.
- WF of `MainThread(w)`: a process that is up keeps executing.  Its loop sleeps for
  a bounded time, catches exceptions and retries; tools, model calls and
  statements have timeouts.  Nothing is assumed of the heartbeat thread, nor of
  wakeups, which are left out: polling alone makes jobs conclude.
- SF of `FullRecovery`: some poll eventually recovers every row that is expired.
  Recovery skips rows that are locked, but each transaction of the store holds its
  lock for one short statement pair and no lock is held across polls, so a row is
  not found locked for ever.

`FairSpec` of the registry: WF of `Proceed(c)`, as for `MainThread`, and SF of
`LockRegistration(c)`, because PostgreSQL queues those who wait for an advisory lock
and grants it in turn.  Calls of the users, failures and crashes are not assumed.

`FairSpec` of the coding workflow is WF of its single thread: model calls, tools
and Git commands return or time out.  Termination then comes from the budgets
alone.

`MCSpec` of the streams: WF of the steps of the server, of the browser, of the attempt
that the workers make and of the outcome of the attempt that holds the lease (which
`job_worker_live` justifies), and of the producer and the generator of a
direct stream.  Nothing is assumed of Redis, the network, the user, or a client that
must read: `DirectStreamEnds` says that the *operation* ends even if no frame is ever
taken, and that the response ends unless one is stuck for ever.

`MCSpec` of the agents: WF of the tool's thread and of its timer and clock, nothing of
the program, which may hang for ever; the tool ends all the same.

## 5. Proofs

All theorems hold for any jobs, workers, repositories, paths and bounds that
satisfy the named assumptions of the modules.

**Jobs_proofs**, first of the store. `StoreInv` (types, lease while running, attempts, coding runs
once, cancellation, outcome) is inductive as a whole though its parts are not:
that a coding job waits only before its first attempt is what makes recovery keep
"runs once", and it needs that a waiting row is not flagged for cancellation.
Rows are independent, so the proof works on one row: `RowInv` is the invariant of a
row, `RowStep` lists what may happen to it, `RowInvStep` shows the one preserves
the other, and `NextByRow` reduces `Next` to it.  `StoreImplementsLifecycle` maps
each `RowStep` to a move of the abstract job or a stutter; `StoreOutcomeFinal` and
`StoreNoStartAfterCancel` are action properties from the same invariant.

Then of the workers: by the lemma `WorkersUseStore` every step of the processes
is a step of the store or leaves it alone, so the theorems of the store
hold of the workers.  `WorkersLetLeasesLapse` rests on `BeatInv`: a heartbeat, or a renewal
that outlived it, belongs to a process that is up and was given the job; so a lease grows
only for a process that still works on its job or has just stopped.  `WorkersConsistent` adds that a process has a claimed job
exactly between claim and report.  `WorkersExclusive` rests on `LockInv`: a process in a
critical step holds its repository's lock or has lost its session.
`WorkersCancelHonestly` rests on `CodingInv`: a coding job with an edit is either
recorded as touched in its row, or concluded, or some process stands between the edit
and its record (`Unrecorded`) and nobody else can be executing the job, because
the row has been claimed once.  Three more invariants speak of the ghosts.  `WorkersRunOncePerClaim`
rests on `ClaimInv`: claims that have not led to an execution yet are distinct attempts, and
with the executions they never outnumber the attempts of the row, which only grow.
`WorkersEditLateOnce` rests on `LateInv`: whoever still has a job that was edited late
stands between that edit and its report, without the lease, and nobody else is ever given a
coding job that was claimed once; it also needs that a coding job runs coding steps only
(`StepFitsType`).  `WorkersSuccessWasApplied` rests on `ApplyInv`: while a process holds the
lease the linked trace is that of its own attempt, and a success it has to report is an index update
it has committed.
`WorkersImplementLifecycle` is the refinement taken to its end: every step of the processes is, through the
store, a legal move of each job a client sees, or a stutter.

**RepositoryIndex_proofs.** A lock session may die at any time, and `lost` counts that; what is
proved holds until the first one has (`IndexInvUnderLock`, by `LostForGood`: the count never falls).
Until then `IndexInv` says that the run in flight holds the lock and that what it has read is
still what the tables contain (`Current`); from this the validated plan turns the
tables into the rebuilt ones (`CommitLeaves`), which gives
`IndexCommitEqualsRebuild`, `IndexTrustworthy` and `IndexUnchangedRowsKept`.

**RepositoryRegistry_proofs.** `RegistryInv` consists of the types, `Registering` (whoever
is between the lock and the commit holds the lock, and before the insertion its
directory overlaps no binding), `Mutating` (a mutating call works where its repository
is bound, and holds that repository's lock or has lost it) and `BindingsDisjoint`.
`BindingsDisjoint` alone is not inductive: it needs that nobody inserts between the
check and the insertion of another.  `RegistryMutationsDisjoint` follows: two calls in
overlapping directories would have two repositories with overlapping bindings, or one
lock with two holders.  `RegistryProcessExclusive` goes through `Apart`, which says call
by call what `ProcessExclusive` says of sets, and needs that the code's two
comparisons are the same relation (`OverlapIsRelative`) and symmetric (`OverlapSymmetric`).

**CodingWorkflow_proofs** assumes for completion `Accountable`: at each path Git lists something of
what a half creation leaves there, the temporary file, or the file itself after a clean
start.  Where both are hidden the claim is false (section 6);
what does not need the assumption is proved without.  The idea of
`Sees` is that passing evidence of the current revision has seen the present tree
*unless* a tool changed it without counting, and then Git shows a path that neither
the run nor the baseline accounts for (`Suspect`).  `Captured` says that the gates
judge Git evidence of the present tree, so the last gate excludes suspects, and
`TaskCompletedIsVerified` follows.  `TaskCancelledBeforeEdits` and `TaskReviewIsCurrent` rest on
`BookInv`, which needs neither assumption: an edit and its record in the job row are never
separated by a checkpoint (`Recorded`), and whatever bumps the revision also drops the Git
evidence and the review of the one before (`TaskBooks`).

**Streaming_proofs.** Four theorems for any numbers of attempts, workers, events, outages and
any capacities.  `WakeupNotLost` rests on `WakeupInv`: a covered worker that has not
looked at the table since a task was announced has a message unread.
`ChannelNothingOvertaken` rests on `ChannelInv`: the events sent, queued and dropped are a
partition of those recorded, the client's before the channel's.
`StreamAnswerIsOutcome` rests on `StreamInv`: the row, the copy the stream took of it, the
frames on the wire and what the browser remembers agree about the outcome, because
the stream copies the row only once it has ended and an ended row never changes.
`StreamIsFaithful` adds the order: by `OrderInv` the frames that are written and unread, the messages
that have arrived and those that fly are one queue, which steps append to, shift or
cut but never reorder, and all of it that was published once is newer than what stands
before it and than what the browser shows (a retried event is never newer than what its attempt has
emitted, `LateInv`, so it disturbs nobody else); by `DebtInv` what had
arrived when the ended row was read is partly written and partly still at the head of the
inbox, and the limit that is left counts how much of it is written.

**Agents_proofs.** `AgentGroundedAnswer` holds for any index, trees and budgets.  The answer is
accepted when nothing is pending, so `Accounted` says for every search with hints what
became of it: a later one replaced it, one of its paths was read, or each path is still
pending or was found missing.  That alone is not inductive, since a read settles *all*
pending paths; `LatestOnly` adds that what is pending belongs to the latest search.
`SubprocessIsHonest` rests on `SubprocessInv`, which ties an exit code to a child
that ended by itself, a timer that fired to the flag that the reaper looks at, and each place of
the tool to what is settled there.  `TraceIsTheRun` rests on `TraceInv`: while telemetry has lost nothing,
the starts that are open in the timeline are the frames of the stack, so every end
closes the latest open start, and each counter is the number of its events.
`ProviderAligns` rests on `ProviderInv`: the batches that are answered and the ones that are still to be
sent cover the texts without gap or overlap, and the vectors so far belong to the answered ones.
That the batches do so is a fact about the loop of `_batches`, a fold over the texts
(`BatchesCover`).  `AgentEvidenceIsObserved` is about a fold, too: after each location of
the trail the evidence holds the distinct ones in ascending order of their first appearance,
what it lacks comes later, and it lacks something only if it is full and says so (`Collected`); an
ascending list ranks its elements by their places (`AscendingRanks`).  The invariant of the run
is only that the observations are lists (`LocationsInv`), which needs a type for what
the searches fold over.

**SequenceFolds** is what makes such a fold provable.  The library's induction theorems take a
predicate, which the installed provers cannot instantiate; `NumbersAllIn` says
the same of a *set* of numbers.  From it, `FoldExists` and `FoldReached` show that the recursive function
behind `FoldLeft` exists and is, position by position, the run of an accumulator
(`FoldRun`), which is then reasoned about like the run of a state machine.

**Retrieval_proofs.** `SnapshotIsFaithful` holds for any tree, any size limit and any number of
changes, refused listings and refused looks while the tree is walked.  It promises nothing of what
is below a directory that could not be listed, and of a path that was touched only that it has
one record at most.  It assumes that a directory comes before what it
holds in the order of the paths, which is so because its path is how theirs begin.  `WalkInv`
has four ideas.  `StillTreeHolds`: what is below a changed directory counts as changed, so
above a path that nobody touched every directory stands.  `Frontier`: of the directories on
the stack none is below another or above one that could not be listed, the way to each is open,
and whatever waits or is recorded is below none of them; therefore nothing is met twice.
`Ledger`: an untouched path that the snapshot owes something has its true record, or waits in the
list, or is below a directory on the stack; and while it is looked at, it stays a file that is
resolved to itself.  `OneRecord`: what is walked has at most one, under its own path unless it
was touched.  The step that lists a directory needs
the lemmas on `Under`, which is stated as a least closed set, not as a recursion: two
entries of a directory are apart (`Siblings`), and what is below a directory but not in it is
below another one in it (`UnderThrough`).  The sorted lists are shown to hold each
path once (`SortedLists`, by counting).

`CitationsAreShown` and `SearchesAreSound` hold for any indexes, any request, any answers of the
model and any number of commits of other processes during the question.  They assume of an index
what the unique constraint guarantees, and that lines and budgets are not empty.

- *Sorting.* Keys of one length are totally ordered (`BeforeTotal`, `BeforeTrans`), so the
  number of smaller keys is a different one for every member of a finite set, and `Arranged` lists
  each member once (`ArrangedLists`).  Every ranking, the fusion and the neighbours come from
  this one lemma (`RankedFacts`, `FuseFacts`, `NeighboursListed`).
- *Budgets.* Both loops that fill the prompt are folds, and what they have collected after each
  chunk is an invariant of the accumulator (`BuildRun`, `PackRun`): within the limit, or the one
  source that was cut.  `CutFacts` is about the cut: it keeps whole lines, or a part of the
  first one, and it ends up within the room, or at the one character that is always kept.  The
  second loop works on what the first has left; what it cuts never grows, so the
  token budget survives the character budget (`AssembleFits`).
- *Citations.* `QuestionInv` says that whatever is searched, ranked, shown or cited was
  committed at some moment of the question (`seen`), which only grows.  What is shown of a
  chunk is the chunk or its beginning (`Shows`), and a cut moves the last line with it.
- *Search.* `SearchInv` says that as long as no commit has fallen between two statements, one
  index explains all that they returned (`OfIndex`).  It is this witness, and not the committed
  index, that has to be carried, since the index may change after the last statement without harm.
  One index has one chunk at a place, its searches list no chunk twice
  (`SearchesOnce`), and the votes of its symbols go to different chunks because the symbols are
  different (`VotesOnce`); so there is nothing to conflict over (`OneIndexAgrees`) and
  a conflict proves that the search was torn.  That a chunk which every source prefers comes first
  (`Dominance`) is arithmetic: no vote is smaller (`VoteFacts`), hence no score, and the best
  rank, which breaks the tie, is really better, since two chunks never share a rank of one source.
  A validated answer of the reranker names as many candidates as there are and is therefore a
  permutation of them (`OrdersOnce`).

`LineWindowsCover` is `ChunksCover` for every file that is cut into windows of lines: all
that is no Python, Python that does not parse, and everything when the configuration says so.

- *Progress.* `WindowsAdvance` is the claim of the comment at `chunker.py:107-110`: since the
  overlap is smaller than the window, and is cut until the first new line fits, the next
  window begins later, leaves no line out, and goes further than this one.  A window may still be
  one line that is too long, which is then the first of the next.
- *Starts.* `Starts` is a least closed set, so a set that contains the first line and what
  comes next after its members contains it; with it, starts follow each other
  (`StartsFollow`), a later window always goes further (`StartsGoFurther`), and every
  line is within a window (`LinesReached`), all without recursion.
- *Pieces.* A line that is too long is cut by division with remainder; `PieceNumbers` shows
  that the pieces end one behind the other and exactly with the line, none beyond the limit.
- *Places.* `FlattenPlaces` says where an element of a list stands in the joined lists, from
  running sums of their lengths.  So the text of a file has every character once, at a known
  place (`WholeFacts`), the text of some lines is a part of it (`TextIsPart`), and the chunk with a given
  number is a given piece of a given window.  `Tiling` collects what this gives: each chunk is a
  part of the file, each ends behind those before it, and together they leave nothing out.
  `TilingCovers` draws the conclusions.

Only model-checked: `ChunksCover` for Python files that are chunked by their structure, since their
units and parts are recursive functions over nested definitions, and the claim is what they
compute for every syntax tree, an induction over data; `UnseenRowsSurvive`, when a lock session is
lost; and all liveness properties (fairness and `ENABLED` are beyond the prover).

## 6. What was learnt

1. *A late cancel request can win over a committed index* (`job_worker_late_cancel`).
   `api/services/repositories.py:272-273` says that after the commit a late request
   must not report the job as cancelled.  No checkpoint follows the commit, but if the
   process dies, loses its lease or fails to record the outcome, the row is still
   running, and a request that arrives first makes recovery, or the request itself on
   a requeued row, or the next attempt, conclude it as cancelled.
2. *An ignored file reaches review as an empty diff* (`coding_blind_review`).
   `coding/completion.py:72-73` says a change the diff cannot show must never reach
   review.  The gate asks Git which of the run's files changed; a file that
   `.gitignore` hides is in neither list.
3. *A dead lock session mixes two configurations* (`repository_index_lost_lock`).
   `db/repositories.py:275-276` says that provenance can never disagree with stored
   content.  When PostgreSQL ends the session that holds the lock, a second run
   under another configuration validates and loads the same rows; after both commits the
   rows of one are stored under the fingerprint of the other.  What remains true is
   that nothing is overwritten unseen (`UnseenRowsSurvive`).
4. *What was no link may be one when it is resolved*.
   `ingestion/repository.py:79` says that a path is resolved without following links.
   The question is asked at line 102 and the path resolved at 107, which follows a link
   made in between: the other file is read and recorded under its own path.  If that path has a
   record, too, the snapshot holds it twice; an index run that has to chunk it then fails on
   the second chunk of one identity (`db/repositories.py:154`) and leaves the index as it was.
   What remains true is `SnapshotFaithful`: this happens only to a path that was touched.
   The model has the step, but no run states the docstring's claim.
5. *A process may outlive the kill of its verifier*.
   `tools/verification.py:126` promises to kill every process left in the session; `killpg`
   reaches the process group, and a process may have a group of its own in the same session.
6. *A directory that cannot be listed is empty.*  `os.walk` is called without `onerror`
   (`ingestion/repository.py:180`), so an error of `scandir` leaves out all that is below, with no
   skipped file to show for it, and an index run then deletes those rows as if the files were
   gone.  A file that cannot be read, in contrast, is always reported.
7. A plan that forgets a deleted file is caught by `validate_index_update`, so
   such a bug costs a failed run and never a wrong index: `CommitEqualsRebuild`
   survives that mutation of the plan and falls only to mutations of the write.
8. *A creation that fails half way can leave stale evidence current.*  `_atomic_create` may
   publish its file and then fail to remove the temporary name (`tools/editing.py:102`);
   the tool reports an error, so nothing is counted.  Mostly Git gives it away: the
   temporary file or the new file is an unexpected change, which blocks completion.  In
   an ignored directory both are hidden, and from a dirty start a creation in place of a file
   that the user deleted, with `*.tmp` ignored, looks like what was there before.  Then
   tests and lint of the tree before still count and the task completes.
   `CompletedIsVerified` does not hold there; `Accountable` names what it needs.
9. The row has the last word in `followJob`, which is why a lost terminal frame, a
   stream of an API process that died and a late attempt cost nothing: only the
   order of `ReadRow` and `Drain` decides what *progress* is seen.
10. The drain after the terminal row is bounded by a count and not by time, so events that
   arrived before the row was read can still be lost beyond the limit;
   `DrainedBeforeTerminal` says exactly which.  Nor is progress shown exactly once: an event
   whose publication was retried can be shown twice, or behind later ones, because neither
   the stream nor the browser (`lib/api.ts:128`, `components/workspace.tsx:148`) compares it
   with what was shown before.  Progress is advisory, and no document promises more.
11. A question takes no lock.  A search whose statements meet two indexes is
   answered from both if they agree on the configuration.  What remains true is
   `SearchSound` (one ranking over what the statements returned, and a failure over a
   conflict only if an index run really committed between them) and `CitationsWereShown`.

## 7. Not modelled

- Text: prompts, plans, reviews, feedback, answers, log lines, the payload of trace
  events and its sanitization.
- Real numbers: scores and embeddings are ranks or small numbers that a chunk carries;
  tokenization and the extraction of identifiers from a query are part of those
  numbers.  SHA-256 is injective.
- In the walk, what a directory becomes is only gone, the root stays, and a link
  leads to one of the modelled entries, out of the repository or nowhere.
- The approximate (HNSW) search mode, which no service asks for.
- Verifiers are taken not to write the tree, and no person edits it during a
  coding run (the lock cannot see an editor).
- Path policies of the tools (`WorkspacePolicy.resolve`, the confinement of a path) and the
  parsing of Git's output.
- Callers that switch the coding requirements off; the API never does.
- `InMemoryJobStore` and the null lock of offline tests (`LockNothing` is a mutant).
- The pool of database connections: a run keeps one for its lock and needs others;
  its size is a default of the library, and the repository says nothing of how many runs
  may be in flight (listed under "hazards").
- HTTP parsing and error mapping, the browser's rendering, schema migrations,
  evaluation and benchmarks: no state of their own that anything else depends on, or
  offline measurement.
- Read-only listings and pass-through queries.

## 8. What could follow

1. `CodingWorkflow` as a refinement of `Code`/`Edit`/`Mark` of `JobWorker`.
2. The stored trace and the trace link of the row in one model: the trace is finished before the
   outcome is recorded, and a refused outcome leaves the two in disagreement.
3. Proofs about the structural half of `Chunking`: the units of a module partition its lines, and
   the parts of a unit tile it as the windows tile a file.
