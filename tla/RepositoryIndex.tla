-------------------------- MODULE RepositoryIndex --------------------------
(***************************************************************************)
(* Incremental indexing of one repository: RepositoryService.index,        *)
(* classify_files and validate_index_update (indexing.py), and             *)
(* apply_index_update (db/repositories.py).                                *)
(*                                                                         *)
(* The statements of a transaction are steps of their own: the database    *)
(* runs at READ COMMITTED, so each sees what others committed before it.   *)
(* The advisory lock serialises the runs until PostgreSQL drops the        *)
(* session that holds it.  The working tree is not locked against editors, *)
(* so a snapshot may hold anything.                                        *)
(***************************************************************************)
EXTENDS Integers, Functions

CONSTANTS Runs,          \* calls of RepositoryService.index
          NoRun,         \* nobody: a free lock, a row that predates the runs
          Paths,         \* repository-relative paths
          Contents,      \* file contents, standing for their SHA-256 digests
          Missing,       \* the path has no file
          Configs,       \* the digests index_fingerprint returns
          NoFingerprint, \* repositories.index_fingerprint IS NULL
          ChunksIn,      \* ChunksIn[c]: the chunks of a file with content c
          MaxChunks,     \* RepositoryService.MAX_CHUNKS
          MaxLost        \* bound: sessions that die while they hold the lock

ASSUME IndexAssumption ==
    /\ NoRun \notin Runs
    /\ Missing \notin Contents
    /\ NoFingerprint \notin Configs
    /\ ChunksIn \in [Contents \cup {Missing} -> Nat] /\ ChunksIn[Missing] = 0
    /\ MaxChunks \in Nat /\ MaxLost \in Nat

VARIABLES fingerprint,   \* repositories.index_fingerprint
          rows,          \* rows[p]: the file row of p, with its chunks and vectors
          run,           \* run[r]: the local state of the call r
          holder,        \* the run whose session holds the advisory lock
          lost

vars == <<fingerprint, rows, run, holder, lost>>

Trees == [Paths -> Contents \cup {Missing}]

\* A file row: its digest, the configuration of its vectors, and its identity.
Row(c, config, r) == [hash |-> c, config |-> config, by |-> r]
NoRow == Row(Missing, NoFingerprint, NoRun)

Hashes(rs)  == [p \in Paths |-> rs[p].hash]
Files(tree) == {p \in Paths : tree[p] # Missing}
ChunkCount(tree, S) == SumFunctionOnSet([p \in Paths |-> ChunksIn[tree[p]]], S)

NoPlan == [rebuild |-> FALSE, upserted |-> {}, deleted |-> {}, unchanged |-> {}]
\* The local state of a call that has not begun or has ended.
Local(at) == [at |-> at, config |-> NoFingerprint, snapshot |-> [p \in Paths |-> Missing],
              plan |-> NoPlan, read |-> NoFingerprint, loaded |-> [p \in Paths |-> NoRow]]
-----------------------------------------------------------------------------
(* indexing.py *)

\* Mutant: an index without a fingerprint is assumed to be reusable.
CompatibleOrNone(stored, config) == stored \in {NoFingerprint, config}
\* IndexManifest.is_compatible_with.
Compatible(stored, config) == stored # NoFingerprint /\ stored = config

\* Mutant: nothing is ever reused.
PlanRebuild(tree, stored, compatible) ==
    [NoPlan EXCEPT !.rebuild = TRUE, !.upserted = Files(tree)]
\* classify_files: upserted is changed and added.
Plan(tree, stored, compatible) ==
    LET same == {p \in Files(tree) : stored[p] = tree[p]} IN
    IF compatible
      THEN [rebuild |-> FALSE, upserted |-> Files(tree) \ same, unchanged |-> same,
            deleted |-> Files(stored) \ Files(tree)]
      ELSE [rebuild |-> TRUE, upserted |-> Files(tree), unchanged |-> {}, deleted |-> {}]

\* reused_chunks + len(chunks) <= MAX_CHUNKS.
Fits(tree, plan) ==
    ChunkCount(tree, plan.unchanged) + ChunkCount(tree, plan.upserted) <= MaxChunks

\* validate_index_update, against the manifest of the writing transaction.
Valid(tree, plan, config, stored, storedFingerprint) ==
    /\ plan.upserted \cap plan.deleted = {}
    /\ plan.upserted \subseteq Files(tree)
    /\ plan.rebuild => Files(tree) \subseteq plan.upserted
    /\ ~plan.rebuild =>
          /\ Compatible(storedFingerprint, config)
          /\ plan.deleted = Files(stored) \ Files(tree)
          /\ \A p \in Files(tree) \ plan.upserted : stored[p] = tree[p]
-----------------------------------------------------------------------------
(* One call of RepositoryService.index. *)

Init ==
    /\ fingerprint = NoFingerprint
    /\ rows = [p \in Paths |-> NoRow]
    /\ run = [r \in Runs |-> Local("idle")]
    /\ holder = NoRun
    /\ lost = 0

Ended(r) == run[r].at \in {"idle", "done", "failed"}

\* The call ends, and with it its transaction and its session.
End(r, at) == /\ run' = [run EXCEPT ![r] = Local(at)]
              /\ holder' = IF holder = r THEN NoRun ELSE holder

\* Take the lock, ingest the working tree, compute the fingerprint.
Begin(r, config, tree) ==
    /\ run[r].at = "idle"
    /\ holder = NoRun
    /\ holder' = r
    /\ run' = [run EXCEPT ![r] = [Local("reading") EXCEPT !.config = config,
                                                          !.snapshot = tree]]
    /\ UNCHANGED <<fingerprint, rows, lost>>

\* read_index_manifest, first statement: the repository row.
ReadFingerprint(r) ==
    /\ run[r].at = "reading"
    /\ run' = [run EXCEPT ![r].at = "planning", ![r].read = fingerprint]
    /\ UNCHANGED <<fingerprint, rows, holder, lost>>

\* Its second statement; then the plan, the chunk limit and the embeddings.
\* _verify_embedder_output lets only the requested vectors pass.
Classify(r) ==
    LET plan == Plan(run[r].snapshot, Hashes(rows), Compatible(run[r].read, run[r].config)) IN
    /\ run[r].at = "planning"
    /\ Fits(run[r].snapshot, plan)
    /\ run' = [run EXCEPT ![r].at = "opening", ![r].plan = plan]
    /\ UNCHANGED <<fingerprint, rows, holder, lost>>

\* The transaction loads the repository row once, into its identity map.
Open(r) ==
    /\ run[r].at = "opening"
    /\ run' = [run EXCEPT ![r].at = "validating", ![r].read = fingerprint]
    /\ UNCHANGED <<fingerprint, rows, holder, lost>>

Validate(r) ==
    LET l == run[r] IN
    /\ l.at = "validating"
    /\ Valid(l.snapshot, l.plan, l.config, Hashes(rows), l.read)
    /\ run' = [run EXCEPT ![r].at = "loading"]
    /\ UNCHANGED <<fingerprint, rows, holder, lost>>

\* repository.files: the rows it may delete, with their identities.
Load(r) ==
    /\ run[r].at = "loading"
    /\ run' = [run EXCEPT ![r].at = "writing", ![r].loaded = rows]
    /\ UNCHANGED <<fingerprint, rows, holder, lost>>

\* Mutant: only the rows that are rewritten are removed.
RemainingUndeleted(r) ==
    LET l == run[r]
        removed == IF l.plan.rebuild THEN Paths ELSE l.plan.upserted
    IN [p \in Paths |-> IF p \in removed /\ rows[p] = l.loaded[p] THEN NoRow ELSE rows[p]]
\* Mutant: the deletes match a path, not the identity of the row that was loaded.
RemainingByPath(r) ==
    LET l == run[r]
        removed == IF l.plan.rebuild THEN Paths ELSE l.plan.deleted \cup l.plan.upserted
    IN [p \in Paths |-> IF p \in removed THEN NoRow ELSE rows[p]]
\* The rows after the deletes: one that another run replaced is not matched.
Remaining(r) ==
    LET l == run[r]
        removed == IF l.plan.rebuild THEN Paths ELSE l.plan.deleted \cup l.plan.upserted
    IN [p \in Paths |-> IF p \in removed /\ rows[p] = l.loaded[p] THEN NoRow ELSE rows[p]]

\* Deletes, inserts, fingerprint and commit.  An inserted path that exists
\* violates uq_repository_files_repository_path; the fingerprint is only written
\* when it differs from the one that was loaded; a commit may fail in doubt.
Commit(r) ==
    LET l == run[r] IN
    /\ l.at = "writing"
    /\ \A p \in l.plan.upserted : Remaining(r)[p] = NoRow
    /\ rows' = [p \in Paths |-> IF p \in l.plan.upserted
                                THEN Row(l.snapshot[p], l.config, r) ELSE Remaining(r)[p]]
    /\ fingerprint' = IF l.read = l.config THEN fingerprint ELSE l.config
    /\ \E at \in {"done", "failed"} : End(r, at)
    /\ UNCHANGED lost

\* A limit, a checkpoint, an embedder, a validation, a constraint or a crash.
Abort(r) ==
    /\ ~Ended(r)
    /\ End(r, "failed")
    /\ UNCHANGED <<fingerprint, rows, lost>>

LoseSession ==
    /\ holder # NoRun /\ lost < MaxLost
    /\ holder' = NoRun /\ lost' = lost + 1
    /\ UNCHANGED <<fingerprint, rows, run>>

\* Mutant: the fingerprint survives a replacement of unknown provenance.
ReplaceLegacyStamped(tree) ==
    /\ \A r \in Runs : Ended(r)
    /\ rows' = [p \in Paths |-> IF tree[p] = Missing THEN NoRow
                                ELSE Row(tree[p], NoFingerprint, NoRun)]
    /\ UNCHANGED <<fingerprint, run, holder, lost>>
\* persist_repository_snapshot and persist_embedded_chunks, which only the
\* benchmarks call, on their own: vectors of an unknown configuration.
ReplaceLegacy(tree) ==
    /\ \A r \in Runs : Ended(r)
    /\ rows' = [p \in Paths |-> IF tree[p] = Missing THEN NoRow
                                ELSE Row(tree[p], NoFingerprint, NoRun)]
    /\ fingerprint' = NoFingerprint
    /\ UNCHANGED <<run, holder, lost>>

RunStep(r) ==
    \/ \E config \in Configs, tree \in Trees : Begin(r, config, tree)
    \/ ReadFingerprint(r) \/ Classify(r) \/ Open(r) \/ Validate(r) \/ Load(r)
    \/ Commit(r) \/ Abort(r)

Next ==
    \/ \E r \in Runs : RunStep(r)
    \/ \E tree \in Trees : ReplaceLegacy(tree)
    \/ LoseSession

Spec == Init /\ [][Next]_vars
-----------------------------------------------------------------------------
(* Properties. *)

LocalState == [at : {"idle", "reading", "planning", "opening", "validating", "loading",
                     "writing", "done", "failed"},
               config : Configs \cup {NoFingerprint}, snapshot : Trees,
               plan : [rebuild : BOOLEAN, upserted : SUBSET Paths, deleted : SUBSET Paths,
                       unchanged : SUBSET Paths],
               read : Configs \cup {NoFingerprint},
               loaded : [Paths -> [hash : Contents \cup {Missing},
                                   config : Configs \cup {NoFingerprint},
                                   by : Runs \cup {NoRun}]]]

IndexTypeOK ==
    /\ fingerprint \in Configs \cup {NoFingerprint}
    /\ rows \in [Paths -> [hash : Contents \cup {Missing},
                           config : Configs \cup {NoFingerprint}, by : Runs \cup {NoRun}]]
    /\ \A p \in Paths : rows[p].hash = Missing => rows[p] = NoRow
    /\ run \in [Runs -> LocalState]
    /\ holder \in Runs \cup {NoRun}
    /\ lost \in 0..MaxLost

\* A fingerprint authorises reuse, so it must be true of every stored row: no
\* row of another configuration survives under it, whatever failed before
\* (db/repositories.py 275-276: provenance can never disagree with content).
Trustworthy ==
    \A p \in Paths :
        fingerprint # NoFingerprint /\ rows[p] # NoRow => rows[p].config = fingerprint

\* So it is, that is, until the session of a lock dies and lets two runs overlap.
TrustworthyUnderLock == lost = 0 => Trustworthy

\* The index a full rebuild of a snapshot under a configuration would build.
FromScratch(tree, config) ==
    [p \in Paths |-> IF tree[p] = Missing THEN <<Missing, NoFingerprint>>
                     ELSE <<tree[p], config>>]

\* Whatever an incremental commit reused, the index it leaves is the one that
\* indexing its snapshot from nothing would leave, stamped with its fingerprint, as
\* long as no session of a lock has died.
CommitEqualsRebuild ==
    [][\A r \in Runs :
          lost = 0 /\ run[r].at = "writing" /\ run'[r].at = "done" =>
             /\ [p \in Paths |-> <<rows'[p].hash, rows'[p].config>>]
                  = FromScratch(run[r].snapshot, run[r].config)
             /\ fingerprint' = run[r].config]_vars

\* A file that did not change under an unchanged configuration keeps its row,
\* its chunks and its vectors, as long as no session of a lock has died:
\* db/repositories.py 272-274.
UnchangedRowsKept ==
    [][\A p \in Paths :
          /\ lost = 0
          /\ fingerprint # NoFingerprint /\ fingerprint' = fingerprint
          /\ rows[p] # NoRow /\ rows'[p].hash = rows[p].hash
          => rows'[p] = rows[p]]_vars

\* Two runs that overlap because a lock session died do not overwrite each other
\* blindly: a row disappears or is replaced only by a run that loaded that very
\* row; the one that finds another in its place fails at the unique constraint.
UnseenRowsSurvive ==
    [][\A p \in Paths :
          rows[p] # NoRow /\ rows'[p] # rows[p] =>
             \/ \E r \in Runs : /\ run[r].at = "writing" /\ run'[r].at # "writing"
                               /\ run[r].loaded[p] = rows[p]
             \/ UNCHANGED run]_vars   \* ReplaceLegacy
=============================================================================
