----------------------- MODULE RepositoryIndex_proofs -----------------------
(***************************************************************************)
(* Proofs about RepositoryIndex for every set of runs, paths, contents and *)
(* configurations, until the session of an advisory lock dies (lost = 0).  *)
(* Till then at most one run is in flight, so all it has read is still     *)
(* current when it commits: Current below, which is what Valid and the     *)
(* compatibility of the fingerprint rest on.                               *)
(***************************************************************************)
EXTENDS RepositoryIndex, TLAPS

RowType == [hash : Contents \cup {Missing}, config : Configs \cup {NoFingerprint},
            by : Runs \cup {NoRun}]

\* Only the holder of the lock is in flight.
Exclusive == \A r \in Runs : ~Ended(r) => holder = r

Planned(r) == run[r].at \in {"opening", "validating", "loading", "writing"}
Opened(r)  == run[r].at \in {"planning", "validating", "loading", "writing"}

\* What a run in flight has read and concluded is true of the tables.
Current ==
    \A r \in Runs :
        /\ ~Ended(r) => run[r].config \in Configs
        /\ Opened(r) => run[r].read = fingerprint
        /\ Planned(r) => run[r].plan = Plan(run[r].snapshot, Hashes(rows),
                                            Compatible(fingerprint, run[r].config))
        /\ run[r].at = "writing" => run[r].loaded = rows

IndexInv == /\ IndexTypeOK /\ lost = 0 /\ Exclusive /\ Current /\ Trustworthy
IndexInvUnderLock == lost \in Nat /\ (lost = 0 => IndexInv)
-----------------------------------------------------------------------------
LEMMA NoRowType == NoRow \in RowType
  BY DEF NoRow, Row, RowType

LEMMA LocalType ==
    ASSUME NEW at \in {"idle", "reading", "planning", "opening", "validating", "loading",
                       "writing", "done", "failed"}
    PROVE  Local(at) \in LocalState /\ Local(at).at = at
  BY NoRowType DEF Local, LocalState, NoPlan, Trees, RowType

LEMMA PlanType ==
    ASSUME NEW tree \in Trees, NEW stored \in Trees, NEW compatible \in BOOLEAN
    PROVE  Plan(tree, stored, compatible) \in
             [rebuild : BOOLEAN, upserted : SUBSET Paths, deleted : SUBSET Paths,
              unchanged : SUBSET Paths]
  BY DEF Plan, NoPlan, Files

LEMMA IndexInvInit == Init => IndexInv
  <1> SUFFICES ASSUME Init PROVE IndexInv
    OBVIOUS
  <1> USE IndexAssumption
  <1>1. \A r \in Runs : run[r] \in LocalState /\ run[r].at = "idle"
    BY LocalType DEF Init
  <1>2. IndexTypeOK
    BY <1>1, NoRowType DEF Init, IndexTypeOK, RowType, NoRow, Row
  <1>3. QED BY <1>1, <1>2 DEF Init, IndexInv, Exclusive, Ended, Current, Planned, Opened,
                              Trustworthy

\* A stored row set, seen as a tree of digests.
LEMMA HashesType == ASSUME NEW rs \in [Paths -> RowType] PROVE Hashes(rs) \in Trees
  BY DEF Hashes, Trees, RowType

\* A step of r that only moves its own local state keeps the invariant, if what
\* r has read and planned is true of the tables.
LEMMA LocalStep ==
    ASSUME IndexInv, NEW r \in Runs, NEW l \in LocalState,
           ~Ended(r), run' = [run EXCEPT ![r] = l],
           UNCHANGED <<fingerprint, rows, holder, lost>>,
           l.config = run[r].config, l.at \notin {"idle", "done", "failed"},
           l.at \in {"planning", "validating", "loading", "writing"} => l.read = fingerprint,
           l.at \in {"opening", "validating", "loading", "writing"} =>
              l.plan = Plan(l.snapshot, Hashes(rows), Compatible(fingerprint, l.config)),
           l.at = "writing" => l.loaded = rows
    PROVE  IndexInv'
  <1>1. IndexTypeOK'
    BY DEF IndexInv, IndexTypeOK
  <1>2. run'[r] = l /\ \A s \in Runs \ {r} : run'[s] = run[s]
    BY DEF IndexInv, IndexTypeOK
  <1>3. Exclusive'
    BY <1>2 DEF IndexInv, Exclusive, Ended
  <1>4. Current'
    BY <1>2 DEF IndexInv, Current, Ended, Planned, Opened
  <1>5. Trustworthy' /\ lost' = 0
    BY DEF IndexInv, Trustworthy
  <1>6. QED BY <1>1, <1>3, <1>4, <1>5 DEF IndexInv

\* A run that ends: what it leaves must be a typed and trustworthy index, and
\* no other run is in flight to have read anything else.
LEMMA EndStep ==
    ASSUME IndexInv, NEW r \in Runs, NEW at \in {"done", "failed"}, ~Ended(r), End(r, at),
           fingerprint' \in Configs \cup {NoFingerprint}, rows' \in [Paths -> RowType],
           \A p \in Paths : rows'[p].hash = Missing => rows'[p] = NoRow,
           Trustworthy', UNCHANGED lost
    PROVE  IndexInv'
  <1> USE IndexAssumption
  <1>1. Local(at) \in LocalState /\ Local(at).at = at
    BY LocalType
  <1>2. run'[r] = Local(at) /\ \A s \in Runs \ {r} : run'[s] = run[s]
    BY DEF IndexInv, IndexTypeOK, End
  <1>3. holder = r /\ holder' = NoRun
    BY DEF IndexInv, Exclusive, End
  <1>4. \A s \in Runs : Ended(s)'
    BY <1>1, <1>2, <1>3 DEF IndexInv, Exclusive, Ended
  <1>5. IndexTypeOK'
    BY <1>1, <1>3 DEF IndexInv, IndexTypeOK, RowType, End
  <1>6. Exclusive' /\ Current'
    BY <1>4 DEF Exclusive, Current, Ended, Planned, Opened
  <1>7. QED BY <1>5, <1>6 DEF IndexInv

\* The steps of a run before its transaction writes.
LEMMA ReadingSteps ==
    ASSUME IndexInv, NEW r \in Runs,
           \/ \E config \in Configs, tree \in Trees : Begin(r, config, tree)
           \/ ReadFingerprint(r) \/ Classify(r) \/ Open(r) \/ Validate(r) \/ Load(r)
    PROVE  IndexInv'
  <1> USE IndexAssumption
  <1>0. /\ run \in [Runs -> LocalState] /\ run[r] \in LocalState
        /\ fingerprint \in Configs \cup {NoFingerprint} /\ rows \in [Paths -> RowType]
    BY DEF IndexInv, IndexTypeOK, RowType
  <1>1. CASE \E config \in Configs, tree \in Trees : Begin(r, config, tree)
    <2>1. PICK config \in Configs, tree \in Trees : Begin(r, config, tree)
      BY <1>1
    <2> DEFINE l == [Local("reading") EXCEPT !.config = config, !.snapshot = tree]
    <2>2. l \in LocalState /\ l.at = "reading" /\ l.config = config
      BY LocalType DEF LocalState
    <2>3. run'[r] = l /\ \A s \in Runs \ {r} : run'[s] = run[s]
      BY <1>0, <2>1 DEF Begin
    <2>4. \A s \in Runs : Ended(s)
      BY <2>1 DEF IndexInv, Exclusive, Begin
    <2>5. IndexTypeOK'
      BY <2>1, <2>2 DEF IndexInv, IndexTypeOK, Begin
    <2>6. Exclusive' /\ Current'
      BY <2>1, <2>2, <2>3, <2>4 DEF Exclusive, Current, Ended, Planned, Opened, Begin
    <2>7. Trustworthy' /\ lost' = 0
      BY <2>1 DEF IndexInv, Trustworthy, Begin
    <2>8. QED BY <2>5, <2>6, <2>7 DEF IndexInv
  <1>2. CASE ReadFingerprint(r)
    <2> DEFINE l == [run[r] EXCEPT !.at = "planning", !.read = fingerprint]
    <2>1. l \in LocalState /\ l.at = "planning" /\ l.config = run[r].config
          /\ l.read = fingerprint
      BY <1>0 DEF LocalState
    <2>2. run' = [run EXCEPT ![r] = l] /\ ~Ended(r)
      BY <1>0, <1>2 DEF ReadFingerprint, Ended
    <2>3. QED BY <1>2, <2>1, <2>2, LocalStep DEF ReadFingerprint
  <1>3. CASE Classify(r)
    <2> DEFINE plan == Plan(run[r].snapshot, Hashes(rows), Compatible(run[r].read, run[r].config))
               l    == [run[r] EXCEPT !.at = "opening", !.plan = plan]
    <2>1. run[r].at = "planning" /\ run[r].read = fingerprint
      BY <1>3 DEF Classify, IndexInv, Current, Opened
    <2>2. plan \in [rebuild : BOOLEAN, upserted : SUBSET Paths, deleted : SUBSET Paths,
                    unchanged : SUBSET Paths]
      <3>1. run[r].snapshot \in Trees /\ Hashes(rows) \in Trees
        BY <1>0, HashesType DEF LocalState
      <3>2. QED BY <3>1, PlanType DEF Compatible
    <2> HIDE DEF plan
    <2>3. l \in LocalState /\ l.at = "opening" /\ l.config = run[r].config
          /\ l.plan = plan /\ l.snapshot = run[r].snapshot
      BY <1>0, <2>2 DEF LocalState
    <2>4. run' = [run EXCEPT ![r] = l] /\ ~Ended(r)
      BY <1>0, <1>3 DEF Classify, Ended, plan
    <2>5. l.plan = Plan(l.snapshot, Hashes(rows), Compatible(fingerprint, l.config))
      BY <2>1, <2>3 DEF plan
    <2> HIDE DEF l
    <2>6. UNCHANGED <<fingerprint, rows, holder, lost>>
      BY <1>3 DEF Classify
    <2>7. QED BY <2>3, <2>4, <2>5, <2>6, LocalStep
  <1>4. CASE Open(r)
    <2> DEFINE l == [run[r] EXCEPT !.at = "validating", !.read = fingerprint]
    <2>1. l \in LocalState /\ l.at = "validating" /\ l.config = run[r].config
          /\ l.read = fingerprint /\ l.plan = run[r].plan /\ l.snapshot = run[r].snapshot
      BY <1>0 DEF LocalState
    <2>2. run' = [run EXCEPT ![r] = l] /\ ~Ended(r)
      BY <1>0, <1>4 DEF Open, Ended
    <2>3. l.plan = Plan(l.snapshot, Hashes(rows), Compatible(fingerprint, l.config))
      BY <1>4, <2>1 DEF Open, IndexInv, Current, Planned
    <2> HIDE DEF l
    <2>4. UNCHANGED <<fingerprint, rows, holder, lost>>
      BY <1>4 DEF Open
    <2>5. QED BY <2>1, <2>2, <2>3, <2>4, LocalStep
  <1>5. CASE Validate(r)
    <2> DEFINE l == [run[r] EXCEPT !.at = "loading"]
    <2>1. l \in LocalState /\ l.at = "loading" /\ l.config = run[r].config
          /\ l.read = run[r].read /\ l.plan = run[r].plan /\ l.snapshot = run[r].snapshot
      BY <1>0 DEF LocalState
    <2>2. run' = [run EXCEPT ![r] = l] /\ ~Ended(r)
      BY <1>0, <1>5 DEF Validate, Ended
    <2>3. /\ l.plan = Plan(l.snapshot, Hashes(rows), Compatible(fingerprint, l.config))
          /\ l.read = fingerprint
      BY <1>5, <2>1 DEF Validate, IndexInv, Current, Planned, Opened
    <2> HIDE DEF l
    <2>4. UNCHANGED <<fingerprint, rows, holder, lost>>
      BY <1>5 DEF Validate
    <2>5. QED BY <2>1, <2>2, <2>3, <2>4, LocalStep
  <1>6. CASE Load(r)
    <2> DEFINE l == [run[r] EXCEPT !.at = "writing", !.loaded = rows]
    <2>1. l \in LocalState /\ l.at = "writing" /\ l.config = run[r].config /\ l.loaded = rows
          /\ l.read = run[r].read /\ l.plan = run[r].plan /\ l.snapshot = run[r].snapshot
      BY <1>0 DEF LocalState, RowType
    <2>2. run' = [run EXCEPT ![r] = l] /\ ~Ended(r)
      BY <1>0, <1>6 DEF Load, Ended
    <2>3. /\ l.plan = Plan(l.snapshot, Hashes(rows), Compatible(fingerprint, l.config))
          /\ l.read = fingerprint
      BY <1>6, <2>1 DEF Load, IndexInv, Current, Planned, Opened
    <2> HIDE DEF l
    <2>4. UNCHANGED <<fingerprint, rows, holder, lost>>
      BY <1>6 DEF Load
    <2>5. QED BY <2>1, <2>2, <2>3, <2>4, LocalStep
  <1>7. QED BY <1>1, <1>2, <1>3, <1>4, <1>5, <1>6

\* What a commit leaves: the rows of the snapshot, all of the configuration of
\* the run, and its fingerprint.
LEMMA CommitLeaves ==
    ASSUME IndexInv, NEW r \in Runs, Commit(r)
    PROVE  /\ fingerprint' = run[r].config /\ run[r].config \in Configs
           /\ rows' \in [Paths -> RowType]
           /\ \A p \in Paths :
                 IF run[r].snapshot[p] = Missing
                   THEN rows'[p] = NoRow
                   ELSE rows'[p].hash = run[r].snapshot[p] /\ rows'[p].config = run[r].config
  <1> USE IndexAssumption
  <1> DEFINE l == run[r]
             tree == l.snapshot
             same == {p \in Files(tree) : Hashes(rows)[p] = tree[p]}
  <1>1. /\ l \in LocalState /\ l.at = "writing" /\ l.config \in Configs
        /\ l.read = fingerprint /\ l.loaded = rows
        /\ l.plan = Plan(tree, Hashes(rows), Compatible(fingerprint, l.config))
    BY DEF IndexInv, IndexTypeOK, Current, Ended, Opened, Planned, Commit
  <1>2. tree \in Trees /\ rows \in [Paths -> RowType]
        /\ \A p \in Paths : rows[p].hash = Missing => rows[p] = NoRow
    BY <1>1 DEF LocalState, IndexInv, IndexTypeOK, RowType
  <1>3. fingerprint' = l.config
    BY <1>1 DEF Commit
  <1>4. \A p \in Paths : rows'[p] = IF p \in l.plan.upserted THEN Row(tree[p], l.config, r)
                                    ELSE Remaining(r)[p]
    BY DEF Commit
  <1>5. \A p \in Paths : Remaining(r)[p] =
           IF l.plan.rebuild \/ p \in l.plan.deleted \cup l.plan.upserted THEN NoRow ELSE rows[p]
    BY <1>1 DEF Remaining
  <1>6. \A p \in l.plan.upserted : Row(tree[p], l.config, r) \in RowType
        /\ Row(tree[p], l.config, r).hash = tree[p]
        /\ Row(tree[p], l.config, r).config = l.config
    BY <1>1, <1>2 DEF Row, RowType, Trees, LocalState
  <1>7. rows' \in [Paths -> RowType]
    <2>1. \A p \in Paths : rows'[p] \in RowType
      BY <1>2, <1>4, <1>5, <1>6, NoRowType
    <2>2. rows' = [p \in Paths |-> rows'[p]]
      BY DEF Commit
    <2>3. QED BY <2>1, <2>2
  <1>8. ASSUME NEW p \in Paths
        PROVE IF tree[p] = Missing THEN rows'[p] = NoRow
              ELSE rows'[p].hash = tree[p] /\ rows'[p].config = l.config
    <2>1. CASE Compatible(fingerprint, l.config)
      <3>1. /\ ~l.plan.rebuild /\ l.plan.upserted = Files(tree) \ same
            /\ l.plan.deleted = Files(Hashes(rows)) \ Files(tree)
        BY <1>1, <2>1 DEF Plan
      <3>2. fingerprint = l.config /\ fingerprint # NoFingerprint
        BY <2>1 DEF Compatible
      <3>3. CASE tree[p] = Missing
        BY <1>2, <1>4, <1>5, <3>1, <3>3 DEF Files, Hashes
      <3>4. CASE tree[p] # Missing /\ p \in same
        <4>1. rows'[p] = rows[p] /\ rows[p].hash = tree[p]
          BY <1>4, <1>5, <3>1, <3>4 DEF Files, Hashes
        <4>2. rows[p] # NoRow
          BY <3>4, <4>1 DEF NoRow, Row
        <4>3. rows[p].config = fingerprint
          BY <3>2, <4>2 DEF IndexInv, Trustworthy
        <4>4. QED BY <3>2, <3>4, <4>1, <4>3
      <3>5. CASE tree[p] # Missing /\ p \notin same
        BY <1>4, <1>6, <3>1, <3>5 DEF Files
      <3>6. QED BY <3>3, <3>4, <3>5
    <2>2. CASE ~Compatible(fingerprint, l.config)
      <3>1. l.plan.rebuild /\ l.plan.upserted = Files(tree)
        BY <1>1, <2>2 DEF Plan
      <3>2. QED BY <1>4, <1>5, <1>6, <3>1 DEF Files
    <2>3. QED BY <2>1, <2>2
  <1>9. QED BY <1>1, <1>3, <1>7, <1>8

LEMMA IndexInvStep ==
    ASSUME IndexInv, [Next]_vars, lost' = 0 PROVE IndexInv'
  <1> USE IndexAssumption
  <1>1. CASE \E r \in Runs : RunStep(r)
    <2>1. PICK r \in Runs : RunStep(r)
      BY <1>1
    <2>2. CASE Commit(r)
      <3>1. /\ fingerprint' \in Configs
            /\ \A p \in Paths : rows'[p].hash = Missing => rows'[p] = NoRow
            /\ \A p \in Paths : rows'[p] # NoRow => rows'[p].config = fingerprint'
        <4>1. run[r].snapshot \in Trees
          BY DEF IndexInv, IndexTypeOK, LocalState
        <4>2. QED BY <2>2, <4>1, CommitLeaves DEF Trees
      <3>2. PICK at \in {"done", "failed"} : End(r, at)
        BY <2>2 DEF Commit
      <3>3. ~Ended(r) /\ UNCHANGED lost
        BY <2>2 DEF Commit, Ended
      <3>4. Trustworthy'
        BY <3>1 DEF Trustworthy
      <3>5. rows' \in [Paths -> RowType]
        BY <2>2, CommitLeaves
      <3>6. QED BY <3>1, <3>2, <3>3, <3>4, <3>5, EndStep
    <2>3. CASE Abort(r)
      <3>1. /\ fingerprint' \in Configs \cup {NoFingerprint} /\ rows' \in [Paths -> RowType]
            /\ \A p \in Paths : rows'[p].hash = Missing => rows'[p] = NoRow
            /\ Trustworthy' /\ UNCHANGED lost
        BY <2>3 DEF Abort, IndexInv, IndexTypeOK, Trustworthy, RowType
      <3>2. QED BY <2>3, <3>1, EndStep DEF Abort
    <2>4. QED BY <2>1, <2>2, <2>3, ReadingSteps DEF RunStep
  <1>2. CASE \E tree \in Trees : ReplaceLegacy(tree)
    <2>1. PICK tree \in Trees : ReplaceLegacy(tree)
      BY <1>2
    <2>2. \A p \in Paths : rows'[p] \in RowType /\ (rows'[p].hash = Missing => rows'[p] = NoRow)
      BY <2>1, NoRowType DEF ReplaceLegacy, Trees, Row, RowType, NoRow
    <2>3. rows' \in [Paths -> RowType]
      BY <2>1, <2>2 DEF ReplaceLegacy
    <2>4. IndexTypeOK'
      BY <2>1, <2>2, <2>3 DEF ReplaceLegacy, IndexInv, IndexTypeOK, RowType
    <2>5. \A r \in Runs : Ended(r)'
      BY <2>1 DEF ReplaceLegacy, Ended
    <2>6. QED BY <2>1, <2>4, <2>5 DEF ReplaceLegacy, IndexInv, Exclusive, Current, Ended,
                                      Planned, Opened, Trustworthy
  <1>3. CASE LoseSession
    BY <1>3 DEF LoseSession, IndexInv
  <1>4. CASE UNCHANGED vars
    BY <1>4 DEF vars, IndexInv, IndexTypeOK, Exclusive, Current, Ended, Planned, Opened,
                Trustworthy, LocalState
  <1>5. QED BY <1>1, <1>2, <1>3, <1>4 DEF Next

\* A session that died does not come back.
LEMMA LostForGood ==
    ASSUME lost \in Nat, [Next]_vars PROVE lost' \in Nat /\ (lost' = 0 => lost = 0)
  <1>1. CASE \E r \in Runs : RunStep(r)
    <2>1. UNCHANGED lost
      BY <1>1 DEF RunStep, Begin, ReadFingerprint, Classify, Open, Validate, Load, Commit, Abort
    <2>2. QED BY <2>1
  <1>2. CASE \E tree \in Trees : ReplaceLegacy(tree)
    BY <1>2 DEF ReplaceLegacy
  <1>3. CASE LoseSession
    BY <1>3 DEF LoseSession
  <1>4. CASE UNCHANGED vars
    BY <1>4 DEF vars
  <1>5. QED BY <1>1, <1>2, <1>3, <1>4 DEF Next

\* While the lock sessions live, every reachable index is consistent with all
\* that the run in flight has read of it.
THEOREM IndexConsistent == Spec => []IndexInvUnderLock
  <1>1. Init => IndexInvUnderLock
    BY IndexInvInit DEF Init, IndexInvUnderLock
  <1>2. IndexInvUnderLock /\ [Next]_vars => IndexInvUnderLock'
    BY IndexInvStep, LostForGood DEF IndexInvUnderLock
  <1>3. QED BY <1>1, <1>2, PTL DEF Spec

\* The stored fingerprint is true of every stored row (RepositoryService.index
\* under execution_lock.hold, apply_index_update, _invalidate_index_fingerprint).
THEOREM IndexTrustworthy == Spec => []TrustworthyUnderLock
  <1>1. IndexInvUnderLock => TrustworthyUnderLock
    BY DEF IndexInvUnderLock, IndexInv, TrustworthyUnderLock
  <1>2. QED BY <1>1, IndexConsistent, PTL

\* A run succeeds by committing, and in no other way.
LEMMA DoneByCommit ==
    ASSUME IndexTypeOK, [Next]_vars, NEW r \in Runs,
           run[r].at # "done", run'[r].at = "done"
    PROVE  Commit(r)
  <1> USE IndexAssumption
  <1>0. run \in [Runs -> LocalState]
    BY DEF IndexTypeOK
  <1>1. CASE \E s \in Runs : RunStep(s)
    <2>1. PICK s \in Runs : RunStep(s)
      BY <1>1
    <2>2. /\ Local("reading").at = "reading" /\ Local("reading") \in LocalState
          /\ Local("failed").at = "failed"
      BY LocalType
    <2>3. CASE \E config \in Configs, tree \in Trees : Begin(s, config, tree)
      BY <1>0, <2>2, <2>3 DEF Begin, LocalState
    <2>4. CASE ReadFingerprint(s) \/ Classify(s) \/ Open(s) \/ Validate(s) \/ Load(s)
      <3>1. \A q \in Runs \ {s} : run'[q] = run[q]
        BY <1>0, <2>4 DEF ReadFingerprint, Classify, Open, Validate, Load
      <3>2. run[s] \in LocalState
        BY <1>0
      <3>3. run'[s].at # "done"
        <4>1. CASE ReadFingerprint(s)
          BY <1>0, <3>2, <4>1 DEF ReadFingerprint, LocalState
        <4>2. CASE Classify(s)
          BY <1>0, <3>2, <4>2 DEF Classify, LocalState
        <4>3. CASE Open(s)
          BY <1>0, <3>2, <4>3 DEF Open, LocalState
        <4>4. CASE Validate(s)
          BY <1>0, <3>2, <4>4 DEF Validate, LocalState
        <4>5. CASE Load(s)
          BY <1>0, <3>2, <4>5 DEF Load, LocalState
        <4>6. QED BY <2>4, <4>1, <4>2, <4>3, <4>4, <4>5
      <3>4. QED BY <3>1, <3>3
    <2>5. CASE Abort(s)
      BY <1>0, <2>2, <2>5 DEF Abort, End
    <2>6. CASE Commit(s)
      <3>1. \A q \in Runs \ {s} : run'[q] = run[q]
        BY <1>0, <2>6 DEF Commit, End
      <3>2. QED BY <2>6, <3>1
    <2>7. QED BY <2>1, <2>3, <2>4, <2>5, <2>6 DEF RunStep
  <1>2. CASE (\E tree \in Trees : ReplaceLegacy(tree)) \/ LoseSession \/ UNCHANGED vars
    BY <1>2 DEF ReplaceLegacy, LoseSession, vars
  <1>3. QED BY <1>1, <1>2 DEF Next

\* An incremental commit leaves exactly what a rebuild from nothing would leave:
\* classify_files reuses nothing that a rebuild would write differently.
THEOREM IndexCommitEqualsRebuild == Spec => CommitEqualsRebuild
  <1> DEFINE Succeeds(r) == lost = 0 /\ run[r].at = "writing" /\ run'[r].at = "done"
             Equal(r) ==
        /\ [p \in Paths |-> <<rows'[p].hash, rows'[p].config>>]
             = FromScratch(run[r].snapshot, run[r].config)
        /\ fingerprint' = run[r].config
  <1>1. ASSUME IndexInv, [Next]_vars, NEW r \in Runs, Succeeds(r)
        PROVE  Equal(r)
    <2>1. Commit(r)
      BY <1>1, DoneByCommit DEF IndexInv
    <2>2. \A p \in Paths : <<rows'[p].hash, rows'[p].config>> =
             IF run[r].snapshot[p] = Missing THEN <<Missing, NoFingerprint>>
             ELSE <<run[r].snapshot[p], run[r].config>>
      BY <1>1, <2>1, CommitLeaves DEF NoRow, Row
    <2>3. fingerprint' = run[r].config
      BY <1>1, <2>1, CommitLeaves
    <2>4. QED BY <2>2, <2>3 DEF FromScratch
  <1>2. IndexInvUnderLock /\ [Next]_vars => [\A r \in Runs : Succeeds(r) => Equal(r)]_vars
    BY <1>1 DEF IndexInvUnderLock
  <1>3. QED BY <1>2, IndexConsistent, PTL DEF Spec, CommitEqualsRebuild

\* A row is rewritten only when its content or the configuration changed, so the
\* chunks and vectors of an unchanged file keep their identity.
THEOREM IndexUnchangedRowsKept == Spec => UnchangedRowsKept
  <1> DEFINE Kept(p) ==
        /\ lost = 0
        /\ fingerprint # NoFingerprint /\ fingerprint' = fingerprint
        /\ rows[p] # NoRow /\ rows'[p].hash = rows[p].hash
        => rows'[p] = rows[p]
  <1>1. ASSUME IndexInv, [Next]_vars, NEW p \in Paths PROVE Kept(p)
    <2>1. CASE \E r \in Runs : Commit(r)
      <3>1. PICK r \in Runs : Commit(r)
        BY <2>1
      <3>2. /\ run[r].at = "writing" /\ run[r].read = fingerprint /\ run[r].loaded = rows
            /\ run[r].plan = Plan(run[r].snapshot, Hashes(rows),
                                  Compatible(fingerprint, run[r].config))
        BY <1>1, <3>1 DEF Commit, IndexInv, Current, Opened, Planned
      <3>3. fingerprint' = run[r].config
        BY <1>1, <3>1, CommitLeaves
      <3>4. CASE fingerprint # NoFingerprint /\ fingerprint' = fingerprint
        <4>1. run[r].plan.upserted =
                Files(run[r].snapshot)
                  \ {q \in Files(run[r].snapshot) : Hashes(rows)[q] = run[r].snapshot[q]}
              /\ run[r].plan.deleted = Files(Hashes(rows)) \ Files(run[r].snapshot)
              /\ ~run[r].plan.rebuild
          BY <3>2, <3>3, <3>4 DEF Plan, Compatible
        <4>2. rows'[p] = IF p \in run[r].plan.upserted
                         THEN Row(run[r].snapshot[p], run[r].config, r) ELSE Remaining(r)[p]
          BY <3>1 DEF Commit
        <4>3. CASE p \in run[r].plan.upserted
          BY <4>1, <4>2, <4>3 DEF Row, Hashes
        <4>4. CASE p \in run[r].plan.deleted
          <5>1. rows'[p] = NoRow
            BY <3>2, <4>1, <4>2, <4>4 DEF Remaining
          <5>2. rows[p].hash # Missing
            BY <4>1, <4>4 DEF Files, Hashes
          <5>3. QED BY <5>1, <5>2 DEF NoRow, Row
        <4>5. CASE p \notin run[r].plan.deleted \cup run[r].plan.upserted
          BY <3>2, <4>1, <4>2, <4>5 DEF Remaining
        <4>6. QED BY <4>3, <4>4, <4>5
      <3>5. QED BY <3>4
    <2>2. CASE ~\E r \in Runs : Commit(r)
      <3>1. UNCHANGED rows \/ fingerprint' = NoFingerprint
        BY <1>1, <2>2 DEF Next, RunStep, Begin, ReadFingerprint, Classify, Open, Validate,
                          Load, Abort, ReplaceLegacy, LoseSession, vars
      <3>2. QED BY <3>1
    <2>3. QED BY <2>1, <2>2
  <1>2. IndexInvUnderLock /\ [Next]_vars => [\A p \in Paths : Kept(p)]_vars
    BY <1>1 DEF IndexInvUnderLock
  <1>3. QED BY <1>2, IndexConsistent, PTL DEF Spec, UnchangedRowsKept
=============================================================================
