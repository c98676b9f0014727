----------------------------- MODULE Jobs_proofs -----------------------------
(***************************************************************************)
(* Proofs about JobStore for every set of jobs and workers, every attempt  *)
(* limit and every lease, and about JobWorker for any number of processes, *)
(* jobs, repositories, failing calls and crashes.                          *)
(*                                                                         *)
(* The operations of the store act on rows independently, so its argument  *)
(* is about one row: RowStep lists what may happen to it, and RowInv, the  *)
(* part of StoreInv that speaks of it, survives each of them.              *)
(***************************************************************************)
EXTENDS JobWorker, FiniteSetTheorems, TLAPS

-----------------------------------------------------------------------------
(* JobStore. *)

\* StoreInv, said of the single row r of job j.
RowInv(j, r) ==
    /\ r \in Row
    /\ r.status = "running" <=> r.owner # NoWorker
    /\ r.status = "running" <=> r.lease # NoLease
    /\ r.attempts <= MaxAttempts
    /\ r.status = "queued" => r.attempts < MaxAttempts
    /\ j \in CodingJobs => /\ r.attempts <= 1
                           /\ r.status \in {"absent", "queued"} => r.attempts = 0
    /\ r.status = "cancelled" => r.cancel /\ ~Unsafe(j, r)
    /\ r.status \in {"absent", "queued"} => ~r.cancel /\ ~Unsafe(j, r)
    /\ r.error # "none" <=> r.status = "failed"
    /\ r.result <=> r.status = "succeeded"

\* What a worker that holds r may write.
HolderStep(j, r, n) ==
    /\ r.status = "running"
    /\ \/ \E d \in 0..Lease : n = [r EXCEPT !.lease = d]
       \/ \E nth \in 1..MaxAttempts : n = [r EXCEPT !.trace = nth]
       \/ n = [r EXCEPT !.sideEffect = TRUE]
       \/ /\ r.cancel /\ ~Unsafe(j, r)
          /\ n = Concluded(r, "cancelled", "none", FALSE)
       \/ n = Concluded(r, "succeeded", "none", TRUE)
       \/ n = Concluded(r, "failed", "reported", FALSE)

\* Everything that can happen to the row r of job j in one transaction.
RowStep(j, r, n) ==
    \/ r.status = "absent" /\ n = [Absent EXCEPT !.status = "queued"]
    \/ r.status = "queued" /\ \E w \in Workers, d \in 0..Lease : n = Claimed(w, r, d)
    \/ r.status # "absent" /\ n = CancelRequested(r)
    \/ HolderStep(j, r, n)
    \/ Expired(r) /\ n = Recovered(j, r)
    \/ n = [r EXCEPT !.lease = IF r.lease > 0 THEN r.lease - 1 ELSE r.lease]

\* StoreInv is RowInv of every row.
LEMMA InvByRow == StoreInv <=> /\ row = [j \in Jobs |-> row[j]]
                               /\ \A j \in Jobs : RowInv(j, row[j])
  <1>1. ASSUME StoreInv
        PROVE  row = [j \in Jobs |-> row[j]] /\ \A j \in Jobs : RowInv(j, row[j])
    BY <1>1, StoreAssumption
    DEF StoreInv, TypeOK, LeaseWhileRunning, AttemptsBounded, CodingRunsOnce,
        CancellationHonest, OutcomeRecorded, RowInv
  <1>2. ASSUME row = [j \in Jobs |-> row[j]], \A j \in Jobs : RowInv(j, row[j])
        PROVE  StoreInv
    BY <1>2, StoreAssumption
    DEF StoreInv, TypeOK, LeaseWhileRunning, AttemptsBounded, CodingRunsOnce,
        CancellationHonest, OutcomeRecorded, RowInv
  <1>3. QED BY <1>1, <1>2

\* A row without a job satisfies RowInv.
LEMMA AbsentRow == \A j \in Jobs : RowInv(j, Absent)
  BY StoreAssumption DEF RowInv, Absent, Row, Unsafe, NoLease, Statuses, Errors, Terminals

\* RowInv survives whatever happens to the row.
LEMMA RowInvStep ==
    ASSUME NEW j \in Jobs, NEW r, NEW n, RowInv(j, r), RowStep(j, r, n)
    PROVE  RowInv(j, n)
  <1> USE StoreAssumption
  <1>1. CASE r.status = "absent" /\ n = [Absent EXCEPT !.status = "queued"]
    <2>1. n \in Row
      BY <1>1 DEF Absent, Row, NoLease, Statuses, Errors, Terminals
    <2>2. /\ n.status = "queued" /\ n.owner = NoWorker /\ n.lease = NoLease
          /\ n.attempts = 0 /\ n.cancel = FALSE /\ n.sideEffect = FALSE
          /\ n.error = "none" /\ n.result = FALSE
      BY <1>1 DEF Absent
    <2>3. QED BY <2>1, <2>2 DEF RowInv, Unsafe
  <1>2. CASE r.status = "queued" /\ \E w \in Workers, d \in 0..Lease : n = Claimed(w, r, d)
    <2>1. PICK w \in Workers, d \in 0..Lease : n = Claimed(w, r, d)
      BY <1>2
    <2>2. n \in Row
      <3>1. r \in Row /\ r.attempts + 1 \in Nat /\ d \in {NoLease} \cup 0..Lease
        BY DEF RowInv, Row
      <3>2. "running" \in Statuses /\ w \in Workers \cup {NoWorker}
        BY DEF Statuses
      <3>3. QED BY <2>1, <3>1, <3>2 DEF Claimed, Row
    <2>3. /\ n.status = "running" /\ n.owner = w /\ n.lease = d
          /\ n.attempts = r.attempts + 1 /\ n.cancel = r.cancel
          /\ n.sideEffect = r.sideEffect /\ n.error = r.error /\ n.result = r.result
      BY <2>1 DEF RowInv, Claimed, Row
    <2>4. r \in Row /\ r.attempts \in Nat /\ d # NoLease
      BY DEF RowInv, Row, NoLease
    <2>5. QED BY <1>2, <2>2, <2>3, <2>4 DEF RowInv, Unsafe
  <1>3. CASE r.status # "absent" /\ n = CancelRequested(r)
    <2>1. n \in Row
      BY <1>3 DEF RowInv, CancelRequested, Row, Statuses, Terminals
    <2>2. /\ n.status = IF r.status = "queued" THEN "cancelled" ELSE r.status
          /\ ~Terminal(r) => n.cancel = TRUE
          /\ Terminal(r) => n = r
          /\ n.owner = r.owner /\ n.lease = r.lease /\ n.attempts = r.attempts
          /\ n.sideEffect = r.sideEffect /\ n.error = r.error /\ n.result = r.result
      BY <1>3 DEF RowInv, CancelRequested, Row, Terminal, Terminals
    <2>3. r.cancel \in BOOLEAN /\ r.status \in Statuses
      BY DEF RowInv, Row
    <2>4. CASE r.status = "queued"
      BY <2>1, <2>2, <2>4 DEF RowInv, Unsafe, Terminal, Terminals
    <2>5. CASE r.status = "running"
      BY <2>1, <2>2, <2>5 DEF RowInv, Unsafe, Terminal, Terminals
    <2>6. CASE Terminal(r)
      BY <2>2, <2>6
    <2>7. QED BY <1>3, <2>3, <2>4, <2>5, <2>6 DEF Statuses, Terminal
  <1>4. CASE HolderStep(j, r, n)
    <2>1. CASE \E d \in 0..Lease : n = [r EXCEPT !.lease = d]
      <3>1. PICK d \in 0..Lease : n = [r EXCEPT !.lease = d]
        BY <2>1
      <3>2. n \in Row /\ d # NoLease
        BY <3>1 DEF RowInv, Row, NoLease
      <3>3. /\ n.status = r.status /\ n.owner = r.owner /\ n.lease = d
            /\ n.attempts = r.attempts /\ n.cancel = r.cancel
            /\ n.sideEffect = r.sideEffect /\ n.error = r.error /\ n.result = r.result
        BY <3>1 DEF RowInv, Row
      <3>4. QED BY <1>4, <3>2, <3>3 DEF RowInv, HolderStep, Unsafe
    <2>2. CASE \E nth \in 1..MaxAttempts : n = [r EXCEPT !.trace = nth]
      <3>1. PICK nth \in 1..MaxAttempts : n = [r EXCEPT !.trace = nth]
        BY <2>2
      <3>2. n \in Row
        BY <3>1 DEF RowInv, Row
      <3>3. /\ n.status = r.status /\ n.owner = r.owner /\ n.lease = r.lease
            /\ n.attempts = r.attempts /\ n.cancel = r.cancel
            /\ n.sideEffect = r.sideEffect /\ n.error = r.error /\ n.result = r.result
        BY <3>1 DEF RowInv, Row
      <3>4. QED BY <3>2, <3>3 DEF RowInv, Unsafe
    <2>3. CASE n = [r EXCEPT !.sideEffect = TRUE]
      <3>1. n \in Row
        BY <2>3 DEF RowInv, Row
      <3>2. /\ n.status = r.status /\ n.owner = r.owner /\ n.lease = r.lease
            /\ n.attempts = r.attempts /\ n.cancel = r.cancel
            /\ n.error = r.error /\ n.result = r.result
        BY <2>3 DEF RowInv, Row
      <3>3. QED BY <1>4, <3>1, <3>2 DEF RowInv, HolderStep, Unsafe
    <2>4. ASSUME NEW status \in {"cancelled", "succeeded", "failed"},
                 NEW error \in Errors, NEW result \in BOOLEAN,
                 n = Concluded(r, status, error, result),
                 status = "cancelled" => r.cancel /\ ~Unsafe(j, r),
                 error # "none" <=> status = "failed",
                 result <=> status = "succeeded"
          PROVE  RowInv(j, n)
      <3>1. n \in Row
        BY <2>4 DEF RowInv, Concluded, Unleased, Row, Statuses, Terminals
      <3>2. /\ n.status = status /\ n.owner = NoWorker /\ n.lease = NoLease
            /\ n.attempts = r.attempts /\ n.cancel = r.cancel
            /\ n.sideEffect = r.sideEffect /\ n.error = error /\ n.result = result
        BY <2>4 DEF RowInv, Concluded, Unleased, Row
      <3>3. QED BY <2>4, <3>1, <3>2 DEF RowInv, Unsafe
    <2>5. QED BY <1>4, <2>1, <2>2, <2>3, <2>4 DEF HolderStep, Errors
  <1>5. CASE Expired(r) /\ n = Recovered(j, r)
    <2>1. /\ r \in Row /\ r.status = "running" /\ r.error = "none" /\ r.result = FALSE
          /\ r.cancel \in BOOLEAN /\ r.attempts \in Nat
      BY <1>5 DEF Expired, RowInv, Row
    <2>2. /\ n.owner = NoWorker /\ n.lease = NoLease
          /\ n.attempts = r.attempts /\ n.cancel = r.cancel
          /\ n.sideEffect = r.sideEffect /\ n.result = r.result
      BY <1>5, <2>1 DEF Recovered, Unleased, Row
    <2>3. \/ n.status = "failed" /\ n.error # "none"
          \/ n.status = "cancelled" /\ n.error = "none" /\ r.cancel /\ j \notin CodingJobs
          \/ /\ n.status = "queued" /\ n.error = "none" /\ ~r.cancel
             /\ r.attempts < MaxAttempts /\ j \notin CodingJobs
      BY <1>5, <2>1 DEF Recovered, Unleased, Row
    <2>4. n \in Row
      BY <1>5, <2>1 DEF Recovered, Unleased, Row, Statuses, Errors, Terminals
    <2>5. QED BY <2>1, <2>2, <2>3, <2>4 DEF RowInv, Unsafe
  <1>6. CASE n = [r EXCEPT !.lease = IF r.lease > 0 THEN r.lease - 1 ELSE r.lease]
    <2>1. r \in Row /\ r.lease \in {NoLease} \cup 0..Lease
      BY DEF RowInv, Row
    <2>2. n \in Row
      BY <1>6, <2>1 DEF Row, NoLease
    <2>3. /\ n.status = r.status /\ n.owner = r.owner
          /\ n.attempts = r.attempts /\ n.cancel = r.cancel
          /\ n.sideEffect = r.sideEffect /\ n.error = r.error /\ n.result = r.result
          /\ n.lease # NoLease <=> r.lease # NoLease
      BY <1>6, <2>1 DEF Row, NoLease
    <2>4. QED BY <2>2, <2>3 DEF RowInv, Unsafe
  <1>7. QED BY <1>1, <1>2, <1>3, <1>4, <1>5, <1>6, RowStep(j, r, n) DEF RowStep

\* A step that writes one row treats each row by itself.
LEMMA OneRow ==
    ASSUME row \in [Jobs -> Row], NEW j \in Jobs, NEW n,
           row' = [row EXCEPT ![j] = n], RowStep(j, row[j], n)
    PROVE  /\ row' = [k \in Jobs |-> row'[k]]
           /\ \A k \in Jobs : row'[k] = row[k] \/ RowStep(k, row[k], row'[k])
  <1>1. row'[j] = n /\ \A k \in Jobs \ {j} : row'[k] = row[k]
    OBVIOUS
  <1>2. row' = [k \in Jobs |-> row'[k]]
    OBVIOUS
  <1>3. RowStep(j, row[j], row'[j])
    BY <1>1
  <1>4. QED BY <1>1, <1>2, <1>3

\* Every step of the store treats each row by itself.
LEMMA NextByRow ==
    ASSUME StoreInv, [Next]_row
    PROVE  /\ row' = [j \in Jobs |-> row'[j]]
           /\ \A j \in Jobs : row'[j] = row[j] \/ RowStep(j, row[j], row'[j])
  <1>1. row \in [Jobs -> Row]
    BY InvByRow DEF StoreInv, TypeOK
  <1>2. ASSUME NEW j \in Jobs, Create(j) \/ RequestCancel(j)
        PROVE  /\ row' = [k \in Jobs |-> row'[k]]
               /\ \A k \in Jobs : row'[k] = row[k] \/ RowStep(k, row[k], row'[k])
    <2>1. CASE Create(j)
      <3>1. RowStep(j, row[j], [Absent EXCEPT !.status = "queued"])
        BY <2>1 DEF Create, RowStep
      <3>2. QED BY <1>1, <2>1, <3>1, OneRow DEF Create
    <2>2. CASE RequestCancel(j)
      <3>1. RowStep(j, row[j], CancelRequested(row[j]))
        BY <2>2 DEF RequestCancel, RowStep
      <3>2. QED BY <1>1, <2>2, <3>1, OneRow DEF RequestCancel
    <2>3. QED BY <1>2, <2>1, <2>2
  <1>3. ASSUME NEW w \in Workers, NEW j \in Jobs, WorkerCall(w, j)
        PROVE  /\ row' = [k \in Jobs |-> row'[k]]
               /\ \A k \in Jobs : row'[k] = row[k] \/ RowStep(k, row[k], row'[k])
    <2>1. CASE ClaimNext(w, j)
      <3>1. PICK d \in 0..Lease : row' = [row EXCEPT ![j] = Claimed(w, row[j], d)]
        BY <2>1 DEF ClaimNext
      <3>2. RowStep(j, row[j], Claimed(w, row[j], d))
        BY <2>1 DEF ClaimNext, RowStep
      <3>3. QED BY <1>1, <3>1, <3>2, OneRow
    <2>2. CASE ~ClaimNext(w, j)
      <3>1. PICK n : HolderStep(j, row[j], n) /\ row' = [row EXCEPT ![j] = n]
        <4>1. CASE RenewLease(w, j)
          <5>1. PICK d \in 0..Lease : row' = [row EXCEPT ![j].lease = d]
            BY <4>1 DEF RenewLease
          <5>2. HolderStep(j, row[j], [row[j] EXCEPT !.lease = d])
            BY <4>1 DEF RenewLease, HolderStep, Holds
          <5>3. QED BY <5>1, <5>2
        <4>2. CASE \E nth \in 1..MaxAttempts : LinkTrace(w, j, nth)
          <5>1. PICK nth \in 1..MaxAttempts : LinkTrace(w, j, nth)
            BY <4>2
          <5>2. HolderStep(j, row[j], [row[j] EXCEPT !.trace = nth])
            BY <5>1 DEF LinkTrace, HolderStep, Holds
          <5>3. QED BY <5>1, <5>2 DEF LinkTrace
        <4>3. CASE MarkSideEffectStarted(w, j)
          <5>1. HolderStep(j, row[j], [row[j] EXCEPT !.sideEffect = TRUE])
            BY <4>3 DEF MarkSideEffectStarted, HolderStep, Holds
          <5>2. QED BY <4>3, <5>1 DEF MarkSideEffectStarted
        <4>4. CASE MarkCancelled(w, j)
          <5>1. HolderStep(j, row[j], Concluded(row[j], "cancelled", "none", FALSE))
            BY <4>4 DEF MarkCancelled, HolderStep, Holds
          <5>2. QED BY <4>4, <5>1 DEF MarkCancelled
        <4>5. CASE MarkSucceeded(w, j)
          <5>1. HolderStep(j, row[j], Concluded(row[j], "succeeded", "none", TRUE))
            BY <4>5 DEF MarkSucceeded, HolderStep, Holds
          <5>2. QED BY <4>5, <5>1 DEF MarkSucceeded
        <4>6. CASE MarkFailed(w, j)
          <5>1. HolderStep(j, row[j], Concluded(row[j], "failed", "reported", FALSE))
            BY <4>6 DEF MarkFailed, HolderStep, Holds
          <5>2. QED BY <4>6, <5>1 DEF MarkFailed
        <4>7. QED BY <1>3, <2>2, <4>1, <4>2, <4>3, <4>4, <4>5, <4>6 DEF WorkerCall
      <3>2. RowStep(j, row[j], n)
        BY <3>1 DEF RowStep
      <3>3. QED BY <1>1, <3>1, <3>2, OneRow
    <2>3. QED BY <2>1, <2>2
  <1>4. CASE RecoverExpired
    BY <1>1, <1>4 DEF RecoverExpired, RowStep
  <1>5. CASE Tick
    BY <1>1, <1>5 DEF Tick, RowStep
  <1>6. CASE UNCHANGED row
    BY <1>1, <1>6
  <1>7. QED BY <1>2, <1>3, <1>4, <1>5, <1>6 DEF Next

\* The row invariant is inductive.
LEMMA StoreInvInit == Init => StoreInv
  BY AbsentRow, InvByRow DEF Init

LEMMA StoreInvStep == StoreInv /\ [Next]_row => StoreInv'
  <1> SUFFICES ASSUME StoreInv, [Next]_row PROVE StoreInv'
    OBVIOUS
  <1>1. \A j \in Jobs : RowInv(j, row[j])
    BY InvByRow
  <1>2. /\ row' = [j \in Jobs |-> row'[j]]
        /\ \A j \in Jobs : row'[j] = row[j] \/ RowStep(j, row[j], row'[j])
    BY NextByRow
  <1>3. \A j \in Jobs : RowInv(j, row'[j])
    BY <1>1, <1>2, RowInvStep
  <1>4. (row = [j \in Jobs |-> row[j]] /\ \A j \in Jobs : RowInv(j, row[j]))'
    BY <1>2, <1>3
  <1>5. (StoreInv <=> /\ row = [j \in Jobs |-> row[j]]
                      /\ \A j \in Jobs : RowInv(j, row[j]))'
    BY InvByRow, PTL
  <1>6. QED BY <1>4, <1>5

\* Every reachable jobs table is consistent: typed rows, leases that exist
\* exactly while a job runs, bounded attempts, coding jobs that are never
\* replayed, honest cancellations and outcomes that match the status.
THEOREM StoreConsistent == Spec => []StoreInv
  BY StoreInvInit, StoreInvStep, PTL DEF Spec

\* No job is attempted more than max_attempts times, and a job waits only while
\* an attempt is left: recover_expired requeues below the limit and nowhere else.
THEOREM StoreAttemptsBounded == Spec => []AttemptsBounded
  <1>1. StoreInv => AttemptsBounded
    BY DEF StoreInv
  <1>2. QED BY <1>1, StoreConsistent, PTL

\* A coding job starts at most once and never returns to the queue.
THEOREM StoreCodingRunsOnce == Spec => []CodingRunsOnce
  <1>1. StoreInv => CodingRunsOnce
    BY DEF StoreInv
  <1>2. QED BY <1>1, StoreConsistent, PTL

\* A job is cancelled only on request, and a coding job only before its side
\* effects were recorded.
THEOREM StoreCancellationHonest == Spec => []CancellationHonest
  <1>1. StoreInv => CancellationHonest
    BY DEF StoreInv
  <1>2. QED BY <1>1, StoreConsistent, PTL

\* What the client of JobLifecycle sees of a row.
View(r) == [status |-> r.status, attempts |-> r.attempts,
            cancel |-> r.cancel, touched |-> r.sideEffect]

\* The client's view of a row whose visible columns are known.
LEMMA ViewOf ==
    ASSUME NEW r, NEW s, NEW a, NEW c, NEW t,
           r.status = s, r.attempts = a, r.cancel = c, r.sideEffect = t
    PROVE  View(r) = Lifecycle!View(s, a, c, t)
  BY DEF View, Lifecycle!View

\* Whatever happens to a row is one move of the abstract job, or none.
LEMMA RowStepMoves ==
    ASSUME NEW j \in Jobs, NEW r, NEW n, RowInv(j, r), RowStep(j, r, n)
    PROVE  View(n) = View(r) \/ Lifecycle!Move(j, View(r), View(n))
  <1> USE StoreAssumption
  <1>0. r \in Row
    BY DEF RowInv
  <1>1. CASE r.status = "absent" /\ n = [Absent EXCEPT !.status = "queued"]
    <2>1. View(n) = Lifecycle!View("queued", 0, FALSE, FALSE)
      BY <1>1 DEF View, Lifecycle!View, Absent
    <2>2. QED BY <1>1, <2>1 DEF View, Lifecycle!Move, Lifecycle!Submit
  <1>2. CASE r.status = "queued" /\ \E w \in Workers, d \in 0..Lease : n = Claimed(w, r, d)
    <2>1. View(n) = Lifecycle!View("running", r.attempts + 1, r.cancel, r.sideEffect)
      BY <1>0, <1>2 DEF View, Lifecycle!View, Claimed, Row
    <2>2. QED BY <1>0, <1>2, <2>1 DEF RowInv, View, Lifecycle!Move, Lifecycle!Attempt
  <1>3. CASE r.status # "absent" /\ n = CancelRequested(r)
    <2>1. CASE Terminal(r)
      <3>1. n = r
        BY <1>3, <2>1 DEF CancelRequested, Terminal, Terminals
      <3>2. QED BY <3>1
    <2>2. CASE r.status = "queued"
      <3>1. View(n) = Lifecycle!View("cancelled", r.attempts, TRUE, r.sideEffect)
        BY <1>0, <1>3, <2>2 DEF View, Lifecycle!View, CancelRequested, Row, Terminal, Terminals
      <3>2. QED BY <2>2, <3>1 DEF View, Lifecycle!Move, Lifecycle!AskCancel
    <2>3. CASE r.status = "running"
      <3>1. View(n) = Lifecycle!View("running", r.attempts, TRUE, r.sideEffect)
        BY <1>0, <1>3, <2>3 DEF View, Lifecycle!View, CancelRequested, Row, Terminal, Terminals
      <3>2. QED BY <2>3, <3>1 DEF View, Lifecycle!Move, Lifecycle!AskCancel
    <2>4. QED BY <1>0, <1>3, <2>1, <2>2, <2>3 DEF Row, Statuses, Terminal
  <1>4. ASSUME NEW ending \in {"succeeded", "failed", "cancelled"},
               r.status = "running", n.status = ending,
               n.attempts = r.attempts, n.cancel = r.cancel, n.sideEffect = r.sideEffect,
               ending = "cancelled" => r.cancel /\ ~Unsafe(j, r)
        PROVE  Lifecycle!Move(j, View(r), View(n))
    <2>1. View(n) = Lifecycle!View(ending, r.attempts, r.cancel, r.sideEffect)
      BY <1>4, ViewOf
    <2>2. Lifecycle!Conclude(j, View(r), View(n))
      BY <1>4, <2>1 DEF View, Unsafe, Lifecycle!Conclude
    <2>3. QED BY <2>2 DEF Lifecycle!Move
  <1>5. CASE HolderStep(j, r, n)
    <2>1. CASE \E d \in 0..Lease : n = [r EXCEPT !.lease = d]
      BY <1>0, <2>1 DEF View, Row
    <2>2. CASE \E nth \in 1..MaxAttempts : n = [r EXCEPT !.trace = nth]
      BY <1>0, <2>2 DEF View, Row
    <2>3. CASE n = [r EXCEPT !.sideEffect = TRUE]
      <3>1. View(n) = Lifecycle!View(r.status, r.attempts, r.cancel, TRUE)
        BY <1>0, <2>3 DEF View, Lifecycle!View, Row
      <3>2. QED BY <1>5, <3>1 DEF HolderStep, View, Lifecycle!Move, Lifecycle!Touch
    <2>4. ASSUME NEW status \in {"succeeded", "failed", "cancelled"}, NEW error, NEW result,
                 n = Concluded(r, status, error, result),
                 status = "cancelled" => r.cancel /\ ~Unsafe(j, r)
          PROVE  Lifecycle!Move(j, View(r), View(n))
      <3>1. /\ n.status = status /\ n.attempts = r.attempts
            /\ n.cancel = r.cancel /\ n.sideEffect = r.sideEffect
        BY <1>0, <2>4 DEF Concluded, Unleased, Row
      <3>2. QED BY <1>4, <1>5, <2>4, <3>1 DEF HolderStep
    <2>5. QED BY <1>5, <2>1, <2>2, <2>3, <2>4 DEF HolderStep
  <1>6. CASE Expired(r) /\ n = Recovered(j, r)
    <2>1. r.status = "running" /\ r.cancel \in BOOLEAN /\ r.attempts \in Nat
      BY <1>0, <1>6 DEF Expired, Row
    <2>2. n.attempts = r.attempts /\ n.cancel = r.cancel /\ n.sideEffect = r.sideEffect
      BY <1>0, <1>6, <2>1 DEF Recovered, Unleased, Row
    <2>3. CASE n.status = "queued"
      <3>1. j \notin CodingJobs /\ ~r.cancel /\ r.attempts < MaxAttempts
        BY <1>0, <1>6, <2>1, <2>3 DEF Recovered, Unleased, Row
      <3>2. View(n) = Lifecycle!View("queued", r.attempts, r.cancel, r.sideEffect)
        BY <2>2, <2>3, ViewOf
      <3>3. QED BY <2>1, <3>1, <3>2 DEF View, Lifecycle!Move, Lifecycle!Retry
    <2>4. CASE n.status # "queued"
      <3>1. \/ n.status = "failed"
            \/ n.status = "cancelled" /\ r.cancel /\ j \notin CodingJobs
        BY <1>0, <1>6, <2>1, <2>4 DEF Recovered, Unleased, Row
      <3>2. QED BY <1>4, <2>1, <2>2, <3>1 DEF Unsafe
    <2>5. QED BY <2>3, <2>4
  <1>7. CASE n = [r EXCEPT !.lease = IF r.lease > 0 THEN r.lease - 1 ELSE r.lease]
    BY <1>0, <1>7 DEF View, Row
  <1>8. QED BY <1>1, <1>2, <1>3, <1>5, <1>6, <1>7, RowStep(j, r, n) DEF RowStep

\* No attempt of a job begins after its cancellation was requested.
THEOREM StoreNoStartAfterCancel == Spec => NoStartAfterCancel
  <1>1. ASSUME StoreInv, [Next]_row
        PROVE  [\A j \in Jobs : row[j].cancel /\ row[j].status # "running"
                                  => row'[j].status # "running"]_row
    <2>1. ASSUME NEW j \in Jobs, row[j].cancel, row[j].status # "running",
                 row'[j].status = "running"
          PROVE  FALSE
      <3>1. RowInv(j, row[j]) /\ RowStep(j, row[j], row'[j])
        BY <1>1, <2>1, InvByRow, NextByRow
      <3>2. row[j] \in Row /\ row[j].status \in Terminals
        BY <2>1, <3>1 DEF RowInv, Row, Statuses
      <3>3. row'[j].status = row[j].status
        BY <2>1, <3>1, <3>2
           DEF RowStep, HolderStep, Expired, CancelRequested, Row, Terminals
      <3>4. QED BY <2>1, <3>3
    <2>2. QED BY <2>1
  <1>2. QED BY <1>1, StoreConsistent, PTL DEF Spec, NoStartAfterCancel

\* A recorded outcome is never rewritten.
THEOREM StoreOutcomeFinal == Spec => OutcomeFinal
  <1>1. ASSUME StoreInv, [Next]_row
        PROVE  [\A j \in Jobs : Terminal(row[j]) => row'[j] = row[j]]_row
    <2>1. ASSUME NEW j \in Jobs, Terminal(row[j])
          PROVE  row'[j] = row[j]
      <3>1. RowInv(j, row[j]) /\ (row'[j] = row[j] \/ RowStep(j, row[j], row'[j]))
        BY <1>1, InvByRow, NextByRow
      <3>2. row[j] \in Row /\ row[j].lease = NoLease /\ row[j].cancel \in BOOLEAN
            /\ row[j].status \in Terminals
        BY <2>1, <3>1 DEF RowInv, Row, Terminal, Terminals
      <3>a. /\ row[j].status \notin {"absent", "queued", "running"}
            /\ (IF row[j].lease > 0 THEN row[j].lease - 1 ELSE row[j].lease) = row[j].lease
        BY <3>2 DEF Terminals, NoLease
      <3>3. \/ row'[j] = row[j]
            \/ row'[j] = CancelRequested(row[j])
            \/ row'[j] = [row[j] EXCEPT !.lease = row[j].lease]
        BY <3>1, <3>a DEF RowStep, HolderStep, Expired
      <3>4. CancelRequested(row[j]) = row[j]
        BY <2>1 DEF CancelRequested, Terminal, Terminals
      <3>5. [row[j] EXCEPT !.lease = row[j].lease] = row[j]
        BY <3>2 DEF Row
      <3>6. QED BY <3>3, <3>4, <3>5
    <2>2. QED BY <2>1
  <1>2. QED BY <1>1, StoreConsistent, PTL DEF Spec, OutcomeFinal

\* Every behaviour of the store is one of the abstract job lifecycle.
THEOREM StoreImplementsLifecycle == Spec => ImplementsLifecycle
  <1>1. Init => Lifecycle!Init
    <2>1. ASSUME NEW j \in Jobs, Init
          PROVE  [status |-> row[j].status, attempts |-> row[j].attempts,
                  cancel |-> row[j].cancel, touched |-> row[j].sideEffect] = Lifecycle!Fresh
      <3>1. row[j] = Absent
        BY <2>1 DEF Init
      <3>2. QED BY <3>1 DEF Absent, Lifecycle!Fresh, Lifecycle!View
    <2>2. QED BY <2>1 DEF Lifecycle!Init
  <1>2. StoreInv /\ [Next]_row =>
            [Lifecycle!Next]_([j \in Jobs |-> [status |-> row[j].status,
                attempts |-> row[j].attempts, cancel |-> row[j].cancel,
                touched |-> row[j].sideEffect]])
    <2> SUFFICES ASSUME StoreInv, [Next]_row PROVE Lifecycle!Next
      OBVIOUS
    <2>1. \A j \in Jobs : RowInv(j, row[j])
      BY InvByRow
    <2>2. \A j \in Jobs : row'[j] = row[j] \/ RowStep(j, row[j], row'[j])
      BY NextByRow
    <2>3. \A j \in Jobs : View(row'[j]) = View(row[j])
                          \/ Lifecycle!Move(j, View(row[j]), View(row'[j]))
      BY <2>1, <2>2, RowStepMoves
    <2>4. QED BY <2>3 DEF View, Lifecycle!Next
  <1>3. QED BY <1>1, <1>2, StoreConsistent, PTL DEF Spec, ImplementsLifecycle, Lifecycle!Spec

-----------------------------------------------------------------------------
(* JobWorker. *)

WorkerInv == WorkerTypeOK /\ StoreInv /\ JobAtHand

\* Whatever a process or its environment does, the table sees an operation of
\* JobStore or nothing.
LEMMA StepOfStore ==
    ASSUME WorkerInv, [WorkerNext]_workerVars
    PROVE  [Next]_row
  <1> USE DEF WorkerInv, WorkerTypeOK, JobAtHand, Busy, Call, workerVars
  <1>1. ASSUME NEW w \in Workers, Poll(w) PROVE [Next]_row
    BY <1>1 DEF Poll, Next
  <1>2. ASSUME NEW w \in Workers, Claim(w) PROVE [Next]_row
    BY <1>2 DEF Claim, Next, WorkerCall
  <1>3. ASSUME NEW w \in Workers, Link(w) PROVE [Next]_row
    <2>1. job[w] \in Jobs /\ attempt[w] \in 1..MaxAttempts
      BY <1>3 DEF Link
    <2>2. LinkTrace(w, job[w], attempt[w]) => Next
      BY <2>1 DEF Next, WorkerCall
    <2>3. QED BY <1>3, <2>2 DEF Link
  <1>4. ASSUME NEW w \in Workers, Heartbeat(w) \/ LateRenewal(w) PROVE [Next]_row
    <2>1. beat[w] \in Jobs \/ beat[w] = NoJob
      OBVIOUS
    <2>2. late[w] \in Jobs \/ late[w] = NoJob
      OBVIOUS
    <2>3. QED BY <1>4, <2>1, <2>2 DEF Heartbeat, LateRenewal, Next, WorkerCall
  <1>5. ASSUME NEW w \in Workers,
               Start(w) \/ Lock(w) \/ Build(w) \/ Apply(w) \/ Query(w) \/ Code(w)
               \/ Edit(w) \/ Release(w)
        PROVE  UNCHANGED row
    BY <1>5 DEF Start, Lock, Build, Apply, Query, Code, Edit, Release, Checkpoint
  <1>6. ASSUME NEW w \in Workers, Mark(w) PROVE [Next]_row
    <2>1. job[w] \in Jobs
      BY <1>6 DEF Mark
    <2>2. QED BY <1>6, <2>1 DEF Mark, Next, WorkerCall
  <1>7. ASSUME NEW w \in Workers, Report(w) PROVE [Next]_row
    <2>1. job[w] \in Jobs
      BY <1>7 DEF Report
    <2>2. MarkCancelled(w, job[w]) \/ MarkSucceeded(w, job[w]) \/ MarkFailed(w, job[w]) => Next
      BY <2>1 DEF Next, WorkerCall
    <2>3. QED BY <1>7, <2>2 DEF Report
  <1>8. ASSUME NEW w \in Workers, Sigterm(w) \/ Crash(w) \/ LoseSession(w)
        PROVE  UNCHANGED row
    BY <1>8 DEF Sigterm, Crash, LoseSession
  <1>9. ASSUME NEW r \in Repos, HttpLock(r) PROVE UNCHANGED row
    BY <1>9 DEF HttpLock
  <1>10. CASE Client
    BY <1>10 DEF Client, Next
  <1>11. CASE Time
    BY <1>11 DEF Time, Next
  <1>12. CASE UNCHANGED workerVars
    BY <1>12
  <1>13. QED BY <1>1, <1>2, <1>3, <1>4, <1>5, <1>6, <1>7, <1>8, <1>9, <1>10, <1>11, <1>12
             DEF WorkerNext, MainThread

\* The registers of the main thread are typed and hold a job exactly when busy.
LocalOK ==
    /\ pc \in [Workers -> Steps]
    /\ job \in [Workers -> Jobs \cup {NoJob}]
    /\ attempt \in [Workers -> 0..MaxAttempts]
    /\ outcome \in [Workers -> {"none", "succeeded", "failed", "cancelled"}]
    /\ JobAtHand

\* The ways in which a busy process moves on.
LEMMA ConcludeLocal ==
    ASSUME LocalOK, NEW w \in Workers, Busy(w), Conclude(w, "succeeded")
           \/ Conclude(w, "failed") \/ Conclude(w, "cancelled")
    PROVE  LocalOK'
  BY DEF LocalOK, Conclude, Critical, Goto, JobAtHand, Busy, Steps

LEMMA GotoLocal ==
    ASSUME LocalOK, NEW w \in Workers, Busy(w),
           NEW step \in Steps \ {"idle", "claiming", "exited", "dead"},
           Goto(w, step), UNCHANGED <<job, attempt, outcome>>
    PROVE  LocalOK'
  BY DEF LocalOK, Goto, JobAtHand, Busy

LEMMA AbandonLocal ==
    ASSUME LocalOK, NEW w \in Workers, Abandon(w),
           outcome' = outcome \/ outcome' = [outcome EXCEPT ![w] = "none"]
    PROVE  LocalOK'
  <1>1. pc' = [pc EXCEPT ![w] = "idle"] /\ job' = [job EXCEPT ![w] = NoJob]
        /\ attempt' = [attempt EXCEPT ![w] = 0]
    BY DEF Abandon, Goto
  <1>2. /\ pc' \in [Workers -> Steps] /\ job' \in [Workers -> Jobs \cup {NoJob}]
        /\ attempt' \in [Workers -> 0..MaxAttempts]
        /\ outcome' \in [Workers -> {"none", "succeeded", "failed", "cancelled"}]
    BY <1>1, StoreAssumption DEF LocalOK, Steps
  <1>3. JobAtHand'
    BY <1>1 DEF LocalOK, JobAtHand, Busy
  <1>4. QED BY <1>2, <1>3 DEF LocalOK

LEMMA CheckpointLocal ==
    ASSUME LocalOK, NEW w \in Workers, Busy(w),
           NEW step \in Steps \ {"idle", "claiming", "exited", "dead"},
           Checkpoint(w, step), faults \in Nat
    PROVE  LocalOK' /\ faults' \in Nat
  <1>1. CASE Goto(w, step) /\ UNCHANGED <<job, attempt, outcome>>
    BY <1>1, GotoLocal DEF Checkpoint
  <1>2. CASE Conclude(w, "cancelled") \/ Conclude(w, "failed")
    BY <1>2, ConcludeLocal DEF Checkpoint
  <1>3. QED BY <1>1, <1>2 DEF Checkpoint

\* The registers stay in order.
LEMMA LocalStep ==
    ASSUME WorkerInv, [WorkerNext]_workerVars
    PROVE  LocalOK' /\ faults' \in Nat
  <1>0. LocalOK /\ faults \in Nat
    BY DEF WorkerInv, WorkerTypeOK, LocalOK
  <1> USE DEF Call
  <1>1. ASSUME NEW w \in Workers, Poll(w) PROVE LocalOK' /\ faults' \in Nat
    BY <1>0, <1>1 DEF Poll, Goto, LocalOK, JobAtHand, Busy, Steps
  <1>2. ASSUME NEW w \in Workers, Claim(w) PROVE LocalOK' /\ faults' \in Nat
    <2>1. \A j \in Jobs : ClaimNext(w, j) => row[j].attempts + 1 \in 1..MaxAttempts
      BY StoreAssumption
         DEF ClaimNext, WorkerInv, StoreInv, AttemptsBounded, TypeOK, Row
    <2>2. QED BY <1>0, <1>2, <2>1 DEF Claim, Goto, LocalOK, JobAtHand, Busy, Steps
  <1>3. ASSUME NEW w \in Workers, Link(w) PROVE LocalOK' /\ faults' \in Nat
    <2>1. Busy(w) /\ outcome' = outcome /\ faults' \in Nat
      BY <1>0, <1>3 DEF Link, Busy
    <2>2. Abandon(w) \/ (Goto(w, "starting") /\ UNCHANGED <<job, attempt>>)
      <3>1. CASE Holds(w, row[job[w]])
        BY <1>3, <3>1 DEF Link
      <3>2. CASE ~Holds(w, row[job[w]])
        BY <1>3, <3>2 DEF Link
      <3>3. QED BY <3>1, <3>2
    <2>3. QED BY <1>0, <2>1, <2>2, AbandonLocal, GotoLocal DEF Steps
  <1>4. ASSUME NEW w \in Workers, Start(w) PROVE LocalOK' /\ faults' \in Nat
    <2>1. Busy(w) /\ \E step \in {"querying", "locking"} : Checkpoint(w, step)
      BY <1>4 DEF Start, Busy
    <2>2. QED BY <1>0, <2>1, CheckpointLocal DEF Steps
  <1>5. ASSUME NEW w \in Workers, Lock(w) PROVE LocalOK' /\ faults' \in Nat
    <2>1. Busy(w) /\ faults' = faults
      BY <1>5 DEF Lock, Busy
    <2>2. \/ Conclude(w, "failed")
          \/ /\ \E step \in {"coding", "building"} : Goto(w, step)
             /\ UNCHANGED <<job, attempt, outcome>>
      BY <1>5 DEF Lock
    <2>3. QED BY <1>0, <2>1, <2>2, ConcludeLocal, GotoLocal DEF Steps
  <1>6. ASSUME NEW w \in Workers, Build(w) \/ Code(w) PROVE LocalOK' /\ faults' \in Nat
    <2>1. Busy(w)
      BY <1>6 DEF Build, Code, Busy
    <2>2. \/ \E step \in {"applying", "editing"} : Checkpoint(w, step)
          \/ faults' = faults /\ (Conclude(w, "succeeded") \/ Conclude(w, "failed"))
      BY <1>6 DEF Build, Code
    <2>3. QED BY <1>0, <2>1, <2>2, CheckpointLocal, ConcludeLocal DEF Steps
  <1>7. ASSUME NEW w \in Workers, Apply(w) \/ Query(w) PROVE LocalOK' /\ faults' \in Nat
    <2>1. Busy(w) /\ faults' \in Nat
      BY <1>0, <1>7 DEF Apply, Query, Busy
    <2>2. Conclude(w, "succeeded") \/ Conclude(w, "failed") \/ Conclude(w, "cancelled")
      BY <1>7 DEF Apply, Query
    <2>3. QED BY <1>0, <2>1, <2>2, ConcludeLocal
  <1>8. ASSUME NEW w \in Workers, Edit(w) \/ Mark(w) PROVE LocalOK' /\ faults' \in Nat
    <2>1. Busy(w) /\ faults' \in Nat
      BY <1>0, <1>8 DEF Edit, Mark, Busy
    <2>2. \/ Conclude(w, "failed")
          \/ /\ \E step \in {"coding", "marking"} : Goto(w, step)
             /\ UNCHANGED <<job, attempt, outcome>>
      BY <1>8 DEF Edit, Mark
    <2>3. QED BY <1>0, <2>1, <2>2, ConcludeLocal, GotoLocal DEF Steps
  <1>9. ASSUME NEW w \in Workers, Release(w) PROVE LocalOK' /\ faults' \in Nat
    BY <1>0, <1>9 DEF Release, Goto, LocalOK, JobAtHand, Busy, Steps
  <1>10. ASSUME NEW w \in Workers, Report(w) PROVE LocalOK' /\ faults' \in Nat
    <2>1. faults' \in Nat
      BY <1>0, <1>10 DEF Report
    <2>2. Abandon(w) /\ outcome' = [outcome EXCEPT ![w] = "none"]
      BY <1>10 DEF Report
    <2>3. QED BY <1>0, <2>1, <2>2, AbandonLocal
  <1>11. ASSUME NEW w \in Workers, Crash(w) PROVE LocalOK' /\ faults' \in Nat
    <2>1. /\ pc' = [pc EXCEPT ![w] = "dead"] /\ job' = [job EXCEPT ![w] = NoJob]
          /\ attempt' = [attempt EXCEPT ![w] = 0]
          /\ outcome' = [outcome EXCEPT ![w] = "none"] /\ faults' = faults
      BY <1>11 DEF Crash, Goto
    <2>2. /\ pc' \in [Workers -> Steps] /\ job' \in [Workers -> Jobs \cup {NoJob}]
          /\ attempt' \in [Workers -> 0..MaxAttempts]
          /\ outcome' \in [Workers -> {"none", "succeeded", "failed", "cancelled"}]
      BY <1>0, <2>1, StoreAssumption DEF LocalOK, Steps
    <2>3. JobAtHand'
      BY <1>0, <2>1 DEF LocalOK, JobAtHand, Busy
    <2>4. QED BY <1>0, <2>1, <2>2, <2>3 DEF LocalOK
  <1>12. ASSUME NEW w \in Workers,
                Heartbeat(w) \/ LateRenewal(w) \/ Sigterm(w) \/ LoseSession(w)
         PROVE  LocalOK' /\ faults' \in Nat
    <2>1. UNCHANGED local /\ faults' \in Nat
      BY <1>0, <1>12 DEF Heartbeat, LateRenewal, Sigterm, LoseSession
    <2>2. QED BY <1>0, <2>1 DEF local, LocalOK, JobAtHand, Busy
  <1>13. ASSUME (\E r \in Repos : HttpLock(r)) \/ Client \/ Time \/ UNCHANGED workerVars
         PROVE  LocalOK' /\ faults' \in Nat
    <2>1. UNCHANGED <<local, faults>>
      BY <1>13 DEF HttpLock, Client, Time, workerVars
    <2>2. QED BY <1>0, <2>1 DEF local, LocalOK, JobAtHand, Busy
  <1>14. QED BY <1>1, <1>2, <1>3, <1>4, <1>5, <1>6, <1>7, <1>8, <1>9, <1>10, <1>11,
                <1>12, <1>13 DEF WorkerNext, MainThread

\* Everything else that WorkerTypeOK types.
RestOK ==
    /\ beat \in [Workers -> Jobs \cup {NoJob}] /\ late \in [Workers -> Jobs \cup {NoJob}]
    /\ stopping \subseteq Workers /\ lost \subseteq Workers
    /\ lock \in [Repos -> Workers \cup {NoWorker, Http}]
    /\ runs \in [Jobs -> Nat] /\ edits \in [Jobs -> Nat] /\ lateEdits \in [Jobs -> Nat]
    /\ applied \in [Jobs -> SUBSET (1..MaxAttempts)]
    /\ down \in Nat

LEMMA RestStep ==
    ASSUME WorkerInv, [WorkerNext]_workerVars
    PROVE  RestOK'
  <1>0. RestOK
    BY DEF WorkerInv, WorkerTypeOK, RestOK
  <1> USE DEF Call, beats, locks, effects, env
  <1>1. ASSUME NEW w \in Workers, Poll(w) \/ Claim(w) \/ Build(w) \/ Query(w) \/ Code(w) \/ Mark(w)
        PROVE  RestOK'
    <2>1. UNCHANGED <<beats, locks, effects, env>>
      BY <1>1 DEF Poll, Claim, Build, Query, Code, Mark
    <2>2. QED BY <1>0, <2>1 DEF RestOK
  <1>2. ASSUME NEW w \in Workers, Link(w) PROVE RestOK'
    <2>1. job[w] \in Jobs
      BY <1>2 DEF Link, WorkerInv, JobAtHand, Busy
    <2>2. /\ beat' = beat \/ beat' = [beat EXCEPT ![w] = job[w]]
          /\ UNCHANGED <<late, locks, effects, env>>
      BY <1>2 DEF Link
    <2>3. QED BY <1>0, <2>1, <2>2 DEF RestOK
  <1>3. ASSUME NEW w \in Workers, Heartbeat(w) \/ LateRenewal(w) PROVE RestOK'
    <2>1. /\ beat' = beat \/ beat' = [beat EXCEPT ![w] = NoJob]
          /\ late' = late \/ late' = [late EXCEPT ![w] = NoJob]
          /\ UNCHANGED <<locks, effects, env>>
      BY <1>3 DEF Heartbeat, LateRenewal
    <2>2. QED BY <1>0, <2>1 DEF RestOK
  <1>4. ASSUME NEW w \in Workers, Start(w) \/ Apply(w) \/ Edit(w) PROVE RestOK'
    <2>1. job[w] \in Jobs /\ attempt[w] \in 1..MaxAttempts
      BY <1>4 DEF Start, Apply, Edit, WorkerInv, JobAtHand, Busy
    <2>2. CASE Start(w)
      BY <1>0, <2>1, <2>2 DEF Start, RestOK
    <2>3. CASE Apply(w)
      <3>1. /\ \/ applied' = applied
               \/ applied' = [applied EXCEPT ![job[w]] = @ \cup {attempt[w]}]
            /\ UNCHANGED <<beats, locks, runs, edits, lateEdits, env>>
        BY <2>3 DEF Apply
      <3>2. applied' \in [Jobs -> SUBSET (1..MaxAttempts)]
        BY <1>0, <2>1, <3>1 DEF RestOK
      <3>3. QED BY <1>0, <3>1, <3>2 DEF RestOK
    <2>4. CASE Edit(w)
      BY <1>0, <2>1, <2>4 DEF Edit, RestOK
    <2>5. QED BY <1>4, <2>2, <2>3, <2>4
  <1>5. ASSUME NEW w \in Workers, Lock(w) \/ Release(w) \/ LoseSession(w) PROVE RestOK'
    <2>1. /\ lock' \in [Repos -> Workers \cup {NoWorker, Http}]
          /\ lost' \subseteq Workers
          /\ UNCHANGED <<beats, effects, env>>
      BY <1>0, <1>5 DEF Lock, Release, LoseSession, RestOK
    <2>2. QED BY <1>0, <2>1 DEF RestOK
  <1>6. ASSUME NEW w \in Workers, Report(w) PROVE RestOK'
    <2>1. /\ beat' = [beat EXCEPT ![w] = NoJob]
          /\ late' = late \/ late' = [late EXCEPT ![w] = beat[w]]
          /\ UNCHANGED <<locks, effects, env>>
      BY <1>6 DEF Report, StopHeartbeat
    <2>2. QED BY <1>0, <2>1 DEF RestOK
  <1>7. ASSUME NEW w \in Workers, Sigterm(w) \/ Crash(w) PROVE RestOK'
    BY <1>0, <1>7 DEF Sigterm, Crash, RestOK
  <1>8. ASSUME NEW r \in Repos, HttpLock(r) PROVE RestOK'
    BY <1>0, <1>8 DEF HttpLock, RestOK
  <1>9. CASE Client \/ Time \/ UNCHANGED workerVars
    <2>1. UNCHANGED <<beats, locks, effects, env>>
      BY <1>9 DEF Client, Time, workerVars
    <2>2. QED BY <1>0, <2>1 DEF RestOK
  <1>10. QED BY <1>1, <1>2, <1>3, <1>4, <1>5, <1>6, <1>7, <1>8, <1>9
             DEF WorkerNext, MainThread

LEMMA WorkerInvStep == WorkerInv /\ [WorkerNext]_workerVars => WorkerInv'
  <1> SUFFICES ASSUME WorkerInv, [WorkerNext]_workerVars PROVE WorkerInv'
    OBVIOUS
  <1>1. StoreInv'
    BY StepOfStore, StoreInvStep DEF WorkerInv
  <1>2. LocalOK' /\ faults' \in Nat /\ RestOK'
    BY LocalStep, RestStep
  <1>3. QED BY <1>1, <1>2
            DEF WorkerInv, WorkerTypeOK, LocalOK, RestOK, StoreInv

LEMMA WorkerInvInit == WorkerInit => WorkerInv
  <1> SUFFICES ASSUME WorkerInit PROVE WorkerInv
    OBVIOUS
  <1>1. StoreInv
    BY StoreInvInit DEF WorkerInit
  <1>2. JobAtHand
    BY DEF WorkerInit, JobAtHand, Busy
  <1>3. LocalOK /\ RestOK /\ faults \in Nat
    BY <1>2, StoreAssumption DEF WorkerInit, LocalOK, RestOK, Steps
  <1>4. QED BY <1>1, <1>2, <1>3 DEF WorkerInv, WorkerTypeOK, LocalOK, RestOK, StoreInv

\* The state of the processes is well-formed and the jobs table consistent,
\* whatever fails.
THEOREM WorkersConsistent == WorkerSpec => []WorkerInv
  BY WorkerInvInit, WorkerInvStep, PTL DEF WorkerSpec

\* The processes change the table by operations of the store only, so what is proved of
\* every behaviour of the store holds of theirs.
LEMMA WorkersUseStore == WorkerSpec => Spec
  <1>1. WorkerInit => Init
    BY DEF WorkerInit
  <1>2. WorkerInv /\ [WorkerNext]_workerVars => [Next]_row
    BY StepOfStore
  <1>3. QED BY <1>1, <1>2, WorkersConsistent, PTL DEF WorkerSpec, Spec

(***************************************************************************)
(* Leases.  A heartbeat thread renews the job that its process has at      *)
(* hand, and is not started before the trace is linked.                    *)
(***************************************************************************)
BeatInv == \A w \in Workers : beat[w] # NoJob => job[w] = beat[w] /\ pc[w] # "linking"

LEMMA BeatInvStep == WorkerInv /\ BeatInv /\ [WorkerNext]_workerVars => BeatInv'
  <1> SUFFICES ASSUME WorkerInv, BeatInv, [WorkerNext]_workerVars PROVE BeatInv'
    OBVIOUS
  <1>0. /\ pc \in [Workers -> Steps] /\ job \in [Workers -> Jobs \cup {NoJob}]
        /\ beat \in [Workers -> Jobs \cup {NoJob}]
        /\ \A w \in Workers : ~Busy(w) => job[w] = NoJob
    BY DEF WorkerInv, WorkerTypeOK, JobAtHand
  <1> USE DEF BeatInv, Call, beats, local
  <1>1. ASSUME NEW w \in Workers, Poll(w) PROVE BeatInv'
    BY <1>0, <1>1 DEF Poll, Goto
  <1>2. ASSUME NEW w \in Workers, Claim(w) PROVE BeatInv'
    <2>1. beat[w] = NoJob
      BY <1>0, <1>2 DEF Claim, Busy
    <2>2. QED BY <1>0, <1>2, <2>1 DEF Claim, Goto
  <1>3. ASSUME NEW w \in Workers, Link(w) PROVE BeatInv'
    <2>1. beat[w] = NoJob
      BY <1>3 DEF Link
    <2>2. \/ Abandon(w) /\ UNCHANGED beat
          \/ Goto(w, "starting") /\ beat' = [beat EXCEPT ![w] = job[w]] /\ UNCHANGED job
      BY <1>3 DEF Link
    <2>3. QED BY <1>0, <2>1, <2>2 DEF Abandon, Goto
  <1>4. ASSUME NEW w \in Workers, Heartbeat(w) \/ LateRenewal(w) PROVE BeatInv'
    BY <1>0, <1>4 DEF Heartbeat, LateRenewal
  <1>5. ASSUME NEW w \in Workers,
               Start(w) \/ Lock(w) \/ Build(w) \/ Apply(w) \/ Query(w) \/ Code(w)
               \/ Edit(w) \/ Mark(w) \/ Release(w)
        PROVE  BeatInv'
    <2>1. UNCHANGED <<job, beat>>
      BY <1>5 DEF Start, Lock, Build, Apply, Query, Code, Edit, Mark, Release, Checkpoint, Conclude
    <2>2. \E step \in Steps \ {"linking"} : Goto(w, step)
      BY <1>5 DEF Start, Lock, Build, Apply, Query, Code, Edit, Mark, Release, Checkpoint,
                  Conclude, Steps
    <2>3. QED BY <1>0, <2>1, <2>2 DEF Goto
  <1>6. ASSUME NEW w \in Workers, Report(w) PROVE BeatInv'
    BY <1>0, <1>6 DEF Report, Abandon, StopHeartbeat, Goto
  <1>7. ASSUME NEW w \in Workers, Crash(w) PROVE BeatInv'
    BY <1>0, <1>7 DEF Crash, Goto
  <1>8. ASSUME \/ \E w \in Workers : Sigterm(w) \/ LoseSession(w)
               \/ \E r \in Repos : HttpLock(r)
               \/ Client \/ Time \/ UNCHANGED workerVars
        PROVE  BeatInv'
    BY <1>8 DEF Sigterm, LoseSession, HttpLock, Client, Time, workerVars
  <1>9. QED BY <1>1, <1>2, <1>3, <1>4, <1>5, <1>6, <1>7, <1>8 DEF WorkerNext, MainThread

\* What gives a row more time: a claim, or a renewal of the process that holds it.
LEMMA LeaseStep ==
    ASSUME WorkerInv, BeatInv, [WorkerNext]_workerVars, NEW j \in Jobs
    PROVE  row'[j].lease > row[j].lease =>
             \/ row[j].status = "queued"
             \/ \E w \in Workers : row[j].owner = w /\ j \in {job[w], late[w]}
  <1> SUFFICES ASSUME row'[j].lease > row[j].lease,
                      row[j].status # "queued",
                      \A w \in Workers : row[j].owner = w => j \notin {job[w], late[w]}
               PROVE  FALSE
    OBVIOUS
  <1>1. /\ row \in [Jobs -> Row] /\ row[j].lease \in Int /\ row[j].lease >= NoLease
        /\ row[j] \in Row
    BY StoreAssumption DEF WorkerInv, StoreInv, TypeOK, Row, NoLease
  <1> USE DEF Call
  <1>2. \A r \in Row : Unleased(r).lease = NoLease
    BY DEF Unleased, Row
  <1>3. ASSUME RecoverExpired PROVE FALSE
    <2>1. row'[j] = row[j] \/ row'[j] = Recovered(j, row[j])
      BY <1>3 DEF RecoverExpired
    <2>2. Recovered(j, row[j]).lease = NoLease
      BY <1>1 DEF Recovered, Unleased, Row
    <2>3. QED BY <1>1, <2>1, <2>2 DEF NoLease
  <1>4. ASSUME NEW w \in Workers, Poll(w) PROVE FALSE
    BY <1>1, <1>3, <1>4 DEF Poll
  <1>5. ASSUME NEW w \in Workers, Claim(w) PROVE FALSE
    BY <1>1, <1>5 DEF Claim, ClaimNext
  <1>6. ASSUME NEW w \in Workers, NEW k \in Jobs, NEW d,
               row' = [row EXCEPT ![k].trace = d] \/ row' = [row EXCEPT ![k].sideEffect = d]
        PROVE  FALSE
    BY <1>1, <1>6 DEF Row
  <1>7. ASSUME NEW w \in Workers, Link(w) \/ Mark(w) PROVE FALSE
    <2>1. job[w] \in Jobs
      BY <1>7 DEF Link, Mark, WorkerInv, JobAtHand, Busy
    <2>2. \/ row' = row \/ row' = [row EXCEPT ![job[w]].trace = attempt[w]]
          \/ row' = [row EXCEPT ![job[w]].sideEffect = TRUE]
      BY <1>7 DEF Link, Mark, LinkTrace, MarkSideEffectStarted
    <2>3. QED BY <1>1, <1>6, <2>1, <2>2
  <1>8. ASSUME NEW w \in Workers, Heartbeat(w) \/ LateRenewal(w) PROVE FALSE
    <2>1. \/ row' = row
          \/ \E k \in {job[w], late[w]} :
                Holds(w, row[k]) /\ \E d \in 0..Lease : row' = [row EXCEPT ![k].lease = d]
      BY <1>8 DEF Heartbeat, LateRenewal, RenewLease, BeatInv
    <2>2. row'[j] = row[j]
      BY <1>1, <2>1 DEF Holds
    <2>3. QED BY <1>1, <2>2
  <1>9. ASSUME NEW w \in Workers, Report(w) PROVE FALSE
    <2>1. job[w] \in Jobs
      BY <1>9 DEF Report, WorkerInv, JobAtHand, Busy
    <2> DEFINE Ends == \E s, e, x : row' = [row EXCEPT ![job[w]] = Concluded(row[job[w]], s, e, x)]
    <2>a. MarkCancelled(w, job[w]) \/ MarkSucceeded(w, job[w]) \/ MarkFailed(w, job[w]) => Ends
      BY DEF MarkCancelled, MarkSucceeded, MarkFailed
    <2>b. \/ row' = row
          \/ MarkCancelled(w, job[w]) \/ MarkSucceeded(w, job[w]) \/ MarkFailed(w, job[w])
      BY <1>9 DEF Report
    <2>2. row' = row \/ Ends
      BY <2>a, <2>b
    <2>3. \A s, e, x : Concluded(row[j], s, e, x).lease = NoLease
      BY <1>1 DEF Concluded, Unleased, Row
    <2>4. QED BY <1>1, <2>1, <2>2, <2>3 DEF NoLease
  <1>10. ASSUME NEW w \in Workers,
                Start(w) \/ Lock(w) \/ Build(w) \/ Apply(w) \/ Query(w) \/ Code(w)
                \/ Edit(w) \/ Release(w) \/ Sigterm(w) \/ Crash(w) \/ LoseSession(w)
         PROVE  FALSE
    <2>1. row' = row
      BY <1>10 DEF Start, Lock, Build, Apply, Query, Code, Edit, Release, Checkpoint,
                   Sigterm, Crash, LoseSession
    <2>2. QED BY <1>1, <2>1
  <1>11. CASE Client
    <2>1. PICK k \in Jobs : Create(k) \/ RequestCancel(k)
      BY <1>11 DEF Client
    <2>2. \/ row[k].status = "absent" /\ row' = [row EXCEPT ![k] = [Absent EXCEPT !.status = "queued"]]
          \/ row' = [row EXCEPT ![k] = CancelRequested(row[k])]
      BY <2>1 DEF Create, RequestCancel
    <2>3. CancelRequested(row[j]).lease = row[j].lease
      BY <1>1 DEF CancelRequested, Row
    <2>4. [Absent EXCEPT !.status = "queued"].lease = NoLease
      BY DEF Absent
    <2>5. \/ row'[j] = row[j] \/ row'[j] = CancelRequested(row[j])
          \/ row'[j] = [Absent EXCEPT !.status = "queued"]
      BY <1>1, <2>2
    <2>6. row'[j].lease = row[j].lease \/ row'[j].lease = NoLease
      BY <2>3, <2>4, <2>5
    <2>7. QED BY <1>1, <2>6 DEF NoLease
  <1>12. CASE Time
    <2>1. row'[j] = [row[j] EXCEPT !.lease = IF row[j].lease > 0 THEN row[j].lease - 1 ELSE row[j].lease]
      BY <1>12 DEF Time, Tick
    <2>2. row'[j].lease <= row[j].lease
      BY <1>1, <2>1 DEF Row
    <2>3. row'[j].lease \in Int
      BY <1>1, <2>1 DEF Row
    <2>4. QED BY <1>1, <2>2, <2>3
  <1>13. CASE (\E r \in Repos : HttpLock(r)) \/ UNCHANGED workerVars
    BY <1>1, <1>13 DEF HttpLock, workerVars
  <1>14. QED BY <1>4, <1>5, <1>7, <1>8, <1>9, <1>10, <1>11, <1>12, <1>13
            DEF WorkerNext, MainThread

\* A lease that nobody attends to any more is prolonged by nobody, so that recovery comes:
\* after the last renewal of a process that crashed, or moved on, only time passes for it.
THEOREM WorkersLetLeasesLapse == WorkerSpec => AbandonedLeaseLapses
  <1>1. WorkerInit => BeatInv
    BY DEF WorkerInit, BeatInv
  <1>2. WorkerInv /\ BeatInv /\ [WorkerNext]_workerVars =>
          [\A j \in Jobs : row'[j].lease > row[j].lease =>
             \/ row[j].status = "queued"
             \/ \E w \in Workers : row[j].owner = w /\ j \in {job[w], late[w]}]_workerVars
    BY LeaseStep
  <1>3. QED BY <1>1, <1>2, BeatInvStep, WorkersConsistent, PTL DEF WorkerSpec, AbandonedLeaseLapses

(***************************************************************************)
(* Mutual exclusion.  A process inside execution_lock.hold() is the holder *)
(* on record unless PostgreSQL dropped its session.                        *)
(***************************************************************************)
LockInv ==
    \A w \in Workers : Critical(w) => w \in lost \/ lock[RepoOf[job[w]]] = w

\* Steps that leave the locks alone never enter the critical section.
LEMMA LockQuiet ==
    ASSUME WorkerInv, LockInv, UNCHANGED locks,
           \A v \in Workers : Critical(v)' => Critical(v) /\ job'[v] = job[v]
    PROVE  LockInv'
  BY DEF LockInv, locks

LEMMA LockInvStep == WorkerInv /\ LockInv /\ [WorkerNext]_workerVars => LockInv'
  <1> SUFFICES ASSUME WorkerInv, LockInv, [WorkerNext]_workerVars PROVE LockInv'
    OBVIOUS
  <1>0. /\ pc \in [Workers -> Steps] /\ job \in [Workers -> Jobs \cup {NoJob}]
        /\ lock \in [Repos -> Workers \cup {NoWorker, Http}] /\ lost \subseteq Workers
    BY DEF WorkerInv, WorkerTypeOK
  <1>a. \A w \in Workers : Critical(w) => job[w] \in Jobs /\ RepoOf[job[w]] \in Repos
    BY WorkerAssumption DEF WorkerInv, JobAtHand, Busy, Critical
  <1> USE DEF Call
  <1>1. ASSUME NEW w \in Workers, Poll(w) \/ Claim(w) \/ Link(w) PROVE LockInv'
    <2>1. /\ UNCHANGED locks
          /\ \E step \in {"idle", "claiming", "linking", "starting", "exited"} :
                pc' = pc \/ pc' = [pc EXCEPT ![w] = step]
          /\ \A v \in Workers \ {w} : job'[v] = job[v]
          /\ pc[w] \in {"idle", "claiming", "linking"}
      <3>1. CASE Poll(w)
        BY <3>1 DEF Poll, Goto
      <3>2. CASE Claim(w)
        BY <1>0, <3>2 DEF Claim, Goto
      <3>3. CASE Link(w)
        BY <1>0, <3>3 DEF Link, Abandon, Goto
      <3>4. QED BY <1>1, <3>1, <3>2, <3>3
    <2>2. \A v \in Workers : Critical(v)' => Critical(v) /\ job'[v] = job[v]
      BY <1>0, <2>1 DEF Critical
    <2>3. QED BY <2>1, <2>2, LockQuiet
  <1>2. ASSUME NEW w \in Workers, Start(w) \/ Query(w) PROVE LockInv'
    <2>1. /\ UNCHANGED locks /\ UNCHANGED job
          /\ \E step \in {"querying", "locking", "reporting"} :
                pc' = [pc EXCEPT ![w] = step]
      BY <1>0, <1>2 DEF Start, Query, Checkpoint, Conclude, Critical, Goto
    <2>2. \A v \in Workers : Critical(v)' => Critical(v) /\ job'[v] = job[v]
      BY <1>0, <2>1 DEF Critical
    <2>3. QED BY <2>1, <2>2, LockQuiet
  <1>3. ASSUME NEW w \in Workers, Build(w) \/ Apply(w) \/ Code(w) \/ Edit(w) \/ Mark(w)
        PROVE  LockInv'
    <2>1. /\ UNCHANGED locks /\ UNCHANGED job /\ Critical(w)
          /\ \E step \in Steps : pc' = [pc EXCEPT ![w] = step]
      BY <1>3 DEF Build, Apply, Code, Edit, Mark, Checkpoint, Conclude, Critical, Goto, Steps
    <2>2. \A v \in Workers : Critical(v)' => Critical(v) /\ job'[v] = job[v]
      BY <1>0, <2>1 DEF Critical
    <2>3. QED BY <2>1, <2>2, LockQuiet
  <1>4. ASSUME NEW w \in Workers, Lock(w) PROVE LockInv'
    <2>1. CASE lock[RepoOf[job[w]]] # NoWorker
      <3>1. UNCHANGED <<locks, job>> /\ pc' = [pc EXCEPT ![w] = "reporting"]
        BY <1>4, <2>1 DEF Lock, Conclude, Critical, Goto, locks
      <3>2. \A v \in Workers : Critical(v)' => Critical(v) /\ job'[v] = job[v]
        BY <1>0, <3>1 DEF Critical
      <3>3. QED BY <3>1, <3>2, LockQuiet
    <2>2. CASE lock[RepoOf[job[w]]] = NoWorker
      <3>1. /\ lock' = [lock EXCEPT ![RepoOf[job[w]]] = w]
            /\ UNCHANGED <<job, lost>>
            /\ \E step \in Steps : pc' = [pc EXCEPT ![w] = step]
        BY <1>4, <2>2 DEF Lock, Goto, Steps
      <3>2. job[w] \in Jobs /\ RepoOf[job[w]] \in Repos
        BY <1>4, WorkerAssumption DEF Lock, WorkerInv, JobAtHand, Busy
      <3>3. ASSUME NEW v \in Workers, Critical(v)'
            PROVE  v \in lost' \/ lock'[RepoOf[job'[v]]] = v
        <4>1. CASE v = w
          BY <1>0, <3>1, <3>2, <4>1
        <4>2. CASE v # w
          <5>1. Critical(v)
            BY <1>0, <3>1, <3>3, <4>2 DEF Critical
          <5>2. v \in lost \/ (lock[RepoOf[job[v]]] = v /\ RepoOf[job[v]] # RepoOf[job[w]])
            BY <2>2, <5>1, StoreAssumption DEF LockInv
          <5>3. QED BY <1>0, <1>a, <3>1, <5>1, <5>2
        <4>3. QED BY <4>1, <4>2
      <3>4. QED BY <3>3 DEF LockInv
    <2>3. QED BY <2>1, <2>2
  <1>5. ASSUME NEW w \in Workers, Release(w) PROVE LockInv'
    <2>1. /\ lock' = [lock EXCEPT ![RepoOf[job[w]]] =
                        IF lock[RepoOf[job[w]]] = w THEN NoWorker ELSE lock[RepoOf[job[w]]]]
          /\ lost' = lost \ {w} /\ job' = job
          /\ pc' = [pc EXCEPT ![w] = "reporting"]
      BY <1>5 DEF Release, Goto
    <2>2. ASSUME NEW v \in Workers, Critical(v)'
          PROVE  v \in lost' \/ lock'[RepoOf[job'[v]]] = v
      <3>1. v # w /\ Critical(v)
        BY <1>0, <2>1, <2>2 DEF Critical
      <3>2. v \in lost \/ lock[RepoOf[job[v]]] = v
        BY <3>1 DEF LockInv
      <3>3. QED BY <1>0, <1>a, <2>1, <3>1, <3>2
    <2>3. QED BY <2>2 DEF LockInv
  <1>6. ASSUME NEW w \in Workers, Report(w) PROVE LockInv'
    <2>1. /\ UNCHANGED locks /\ job' = [job EXCEPT ![w] = NoJob]
          /\ pc' = [pc EXCEPT ![w] = "idle"]
      BY <1>6 DEF Report, Abandon, Goto
    <2>2. \A v \in Workers : Critical(v)' => Critical(v) /\ job'[v] = job[v]
      BY <1>0, <2>1 DEF Critical
    <2>3. QED BY <2>1, <2>2, LockQuiet
  <1>7. ASSUME NEW w \in Workers, Crash(w) PROVE LockInv'
    <2>1. /\ lock' = [r \in Repos |-> IF lock[r] = w THEN NoWorker ELSE lock[r]]
          /\ lost' = lost \ {w} /\ job' = [job EXCEPT ![w] = NoJob]
          /\ pc' = [pc EXCEPT ![w] = "dead"]
      BY <1>7 DEF Crash, Goto
    <2>2. ASSUME NEW v \in Workers, Critical(v)'
          PROVE  v \in lost' \/ lock'[RepoOf[job'[v]]] = v
      <3>1. v # w /\ Critical(v)
        BY <1>0, <2>1, <2>2 DEF Critical
      <3>2. v \in lost \/ lock[RepoOf[job[v]]] = v
        BY <3>1 DEF LockInv
      <3>3. QED BY <1>0, <1>a, <2>1, <3>1, <3>2
    <2>3. QED BY <2>2 DEF LockInv
  <1>8. ASSUME NEW w \in Workers, LoseSession(w) PROVE LockInv'
    <2>1. /\ \E r \in Repos : lock[r] = w /\ lock' = [lock EXCEPT ![r] = NoWorker]
          /\ lost' = lost \cup {w} /\ UNCHANGED <<pc, job>>
      BY <1>8 DEF LoseSession, local
    <2>2. QED BY <1>0, <1>a, <2>1 DEF LockInv, Critical
  <1>9. ASSUME NEW r \in Repos, HttpLock(r) PROVE LockInv'
    <2>1. /\ lock[r] = NoWorker \/ lock[r] = Http
          /\ lock' = [lock EXCEPT ![r] = Http] \/ lock' = [lock EXCEPT ![r] = NoWorker]
          /\ UNCHANGED <<pc, job, lost>>
      BY <1>9 DEF HttpLock, local
    <2>2. QED BY <1>0, <1>a, <2>1, StoreAssumption, WorkerAssumption DEF LockInv, Critical
  <1>10. ASSUME (\E w \in Workers : Heartbeat(w) \/ LateRenewal(w) \/ Sigterm(w))
                \/ Client \/ Time \/ UNCHANGED workerVars
         PROVE  LockInv'
    <2>1. UNCHANGED <<pc, job, lock, lost>>
      BY <1>10 DEF Heartbeat, LateRenewal, Sigterm, Client, Time, workerVars, local, locks
    <2>2. QED BY <2>1 DEF LockInv, Critical
  <1>11. QED BY <1>1, <1>2, <1>3, <1>4, <1>5, <1>6, <1>7, <1>8, <1>9, <1>10
             DEF WorkerNext, MainThread

\* Two processes index or edit one repository at once only if one of them has
\* lost its lock session.
THEOREM WorkersExclusive == WorkerSpec => []RepositoryExclusive
  <1>1. WorkerInit => LockInv
    BY DEF WorkerInit, LockInv, Critical
  <1>2. LockInv => RepositoryExclusive
    BY DEF LockInv, RepositoryExclusive
  <1>3. QED BY <1>1, <1>2, LockInvStep, WorkersConsistent, PTL DEF WorkerSpec

(***************************************************************************)
(* Cancelled coding jobs are untouched.  Between an edit and its record in *)
(* the row the job has edits that the store does not know of; whoever runs *)
(* it then is about to record them or has failed, and reports no           *)
(* cancellation.  A coding job has one attempt, hence one runner.          *)
(***************************************************************************)
Unrecorded(w) ==
    pc[w] = "marking" \/ (pc[w] \in {"releasing", "reporting"} /\ outcome[w] = "failed")

CodingInv ==
    \A j \in CodingJobs :
        /\ \A v, w \in Workers : job[v] = j /\ job[w] = j => v = w
        /\ \A w \in Workers : job[w] = j => row[j].attempts >= 1
        /\ edits[j] > 0 => row[j].attempts >= 1
        /\ row[j].status = "cancelled" => edits[j] = 0 /\ \A w \in Workers : job[w] # j
        /\ edits[j] > 0 /\ ~row[j].sideEffect /\ row[j].status = "running"
             => \A w \in Workers : job[w] = j => Unrecorded(w)

\* What every operation but MarkCancelled does to the row of a coding job.
QuietRow(j) ==
    /\ row'[j].attempts >= row[j].attempts
    /\ row[j].sideEffect => row'[j].sideEffect
    /\ row'[j].status \in {"cancelled", "running"}
         => row'[j].status = row[j].status \/ row[j].attempts = 0

\* The operations the processes and clients use between claim and report.
QuietOperation(w, j) ==
    \/ ClaimNext(w, j) \/ RenewLease(w, j)
    \/ (\E attempt_ \in 1..MaxAttempts : LinkTrace(w, j, attempt_))
    \/ MarkSideEffectStarted(w, j) \/ MarkSucceeded(w, j) \/ MarkFailed(w, j)
    \/ Create(j) \/ RequestCancel(j)

LEMMA QuietSteps ==
    ASSUME StoreInv,
           \/ \E w \in Workers \cup {NoWorker}, j \in Jobs : QuietOperation(w, j)
           \/ RecoverExpired \/ Tick \/ UNCHANGED row
    PROVE  \A j \in CodingJobs : QuietRow(j)
  <1>0. /\ row \in [Jobs -> Row] /\ CodingJobs \subseteq Jobs
        /\ \A j \in CodingJobs : row[j].status = "queued" => row[j].attempts = 0
    BY StoreAssumption DEF StoreInv, TypeOK, CodingRunsOnce
  <1>a. \A j \in Jobs : row[j] \in Row /\ row[j].attempts \in Nat
    BY <1>0 DEF Row
  <1>1. ASSUME NEW w \in Workers \cup {NoWorker}, NEW j \in Jobs, QuietOperation(w, j),
               NEW k \in CodingJobs
        PROVE  QuietRow(k)
    <2>1. CASE k # j
      <3>1. \E r : row' = [row EXCEPT ![j] = r]
        <4>1. CASE ClaimNext(w, j) BY <4>1 DEF ClaimNext
        <4>2. CASE RenewLease(w, j) BY <4>2 DEF RenewLease
        <4>3. CASE \E a \in 1..MaxAttempts : LinkTrace(w, j, a) BY <4>3 DEF LinkTrace
        <4>4. CASE MarkSideEffectStarted(w, j) BY <4>4 DEF MarkSideEffectStarted
        <4>5. CASE MarkSucceeded(w, j) \/ MarkFailed(w, j)
          BY <4>5 DEF MarkSucceeded, MarkFailed
        <4>6. CASE Create(j) \/ RequestCancel(j) BY <4>6 DEF Create, RequestCancel
        <4>7. QED BY <1>1, <4>1, <4>2, <4>3, <4>4, <4>5, <4>6 DEF QuietOperation
      <3>2. row'[k] = row[k]
        BY <1>0, <2>1, <3>1
      <3>3. QED BY <1>0, <1>a, <3>2 DEF QuietRow
    <2>2. CASE k = j
      <3>1. CASE ClaimNext(w, j)
        BY <1>0, <1>a, <2>2, <3>1 DEF ClaimNext, Claimed, QuietRow, Row
      <3>2. CASE RenewLease(w, j)
        BY <1>0, <1>a, <2>2, <3>2 DEF RenewLease, QuietRow, Row
      <3>3. CASE \E attempt_ \in 1..MaxAttempts : LinkTrace(w, j, attempt_)
        BY <1>0, <1>a, <2>2, <3>3 DEF LinkTrace, QuietRow, Row
      <3>4. CASE MarkSideEffectStarted(w, j)
        BY <1>0, <1>a, <2>2, <3>4 DEF MarkSideEffectStarted, QuietRow, Row
      <3>5. CASE MarkSucceeded(w, j)
        BY <1>0, <1>a, <2>2, <3>5 DEF MarkSucceeded, Concluded, Unleased, QuietRow, Row
      <3>6. CASE MarkFailed(w, j)
        BY <1>0, <1>a, <2>2, <3>6 DEF MarkFailed, Concluded, Unleased, QuietRow, Row
      <3>7. CASE Create(j)
        <4>1. row[j].attempts = 0 /\ ~Unsafe(j, row[j])
          BY <1>0, <2>2, <3>7
             DEF Create, StoreInv, CodingRunsOnce, CancellationHonest
        <4>2. row'[j] = [Absent EXCEPT !.status = "queued"]
          BY <1>0, <3>7 DEF Create
        <4>3. QED BY <2>2, <4>1, <4>2 DEF QuietRow, Absent, Unsafe
      <3>8. CASE RequestCancel(j)
        BY <1>0, <1>a, <2>2, <3>8 DEF RequestCancel, CancelRequested, QuietRow, Row
      <3>9. QED BY <1>1, <3>1, <3>2, <3>3, <3>4, <3>5, <3>6, <3>7, <3>8 DEF QuietOperation
    <2>3. QED BY <2>1, <2>2
  <1>2. ASSUME RecoverExpired, NEW k \in CodingJobs PROVE QuietRow(k)
    <2>1. row'[k] = row[k] \/ row'[k] = Recovered(k, row[k])
      BY <1>0, <1>2 DEF RecoverExpired
    <2>2. Recovered(k, row[k]) =
            [Unleased(row[k]) EXCEPT !.status = "failed", !.error = "job_interrupted"]
      BY DEF Recovered
    <2>3. row[k] \in Row
      BY <1>0
    <2>4. /\ Recovered(k, row[k]).status = "failed"
          /\ Recovered(k, row[k]).attempts = row[k].attempts
          /\ Recovered(k, row[k]).sideEffect = row[k].sideEffect
      BY <2>2, <2>3 DEF Unleased, Row
    <2>5. row[k].attempts \in Nat
      BY <1>0, <1>a
    <2>6. CASE row'[k] = row[k]
      BY <2>5, <2>6 DEF QuietRow
    <2>7. CASE row'[k] = Recovered(k, row[k])
      BY <2>4, <2>5, <2>7 DEF QuietRow
    <2>8. QED BY <2>1, <2>6, <2>7
  <1>3. ASSUME Tick, NEW k \in CodingJobs PROVE QuietRow(k)
    BY <1>0, <1>a, <1>3 DEF Tick, QuietRow, Row
  <1>4. ASSUME UNCHANGED row, NEW k \in CodingJobs PROVE QuietRow(k)
    BY <1>0, <1>a, <1>4 DEF QuietRow
  <1>5. QED BY <1>1, <1>2, <1>3, <1>4

\* Steps that take no coding job, edit nothing and keep a failure a failure.
LEMMA QuietProcesses ==
    ASSUME WorkerInv, WorkerInv', CodingInv,
           \A j \in CodingJobs : QuietRow(j) /\ edits'[j] = edits[j],
           \A v \in Workers : job'[v] \in CodingJobs =>
               /\ job'[v] = job[v]
               /\ Unrecorded(v) => Unrecorded(v)' \/ row'[job[v]].sideEffect
    PROVE  CodingInv'
  <1>0. \A j \in CodingJobs : /\ row[j].attempts \in Nat /\ row'[j].attempts \in Nat
                              /\ edits[j] \in Nat
    BY StoreAssumption DEF WorkerInv, WorkerTypeOK, TypeOK, Row
  <1> SUFFICES ASSUME NEW j \in CodingJobs
               PROVE  /\ \A v, w \in Workers : job'[v] = j /\ job'[w] = j => v = w
                      /\ \A w \in Workers : job'[w] = j => row'[j].attempts >= 1
                      /\ edits'[j] > 0 => row'[j].attempts >= 1
                      /\ row'[j].status = "cancelled"
                           => edits'[j] = 0 /\ \A w \in Workers : job'[w] # j
                      /\ edits'[j] > 0 /\ ~row'[j].sideEffect /\ row'[j].status = "running"
                           => \A w \in Workers : job'[w] = j => Unrecorded(w)'
    BY DEF CodingInv
  <1>1. \A v \in Workers : job'[v] = j => job[v] = j
    OBVIOUS
  <1>2. \A v, w \in Workers : job'[v] = j /\ job'[w] = j => v = w
    BY <1>1 DEF CodingInv
  <1>3. row[j].attempts >= 1 => row'[j].attempts >= 1
    BY <1>0 DEF QuietRow
  <1>4. /\ \A w \in Workers : job'[w] = j => row'[j].attempts >= 1
        /\ edits'[j] > 0 => row'[j].attempts >= 1
    BY <1>1, <1>3 DEF CodingInv
  <1>5. row[j].attempts = 0 => edits[j] = 0 /\ \A w \in Workers : job[w] # j
    BY <1>0 DEF CodingInv
  <1>6. ASSUME row'[j].status = "cancelled"
        PROVE  edits'[j] = 0 /\ \A w \in Workers : job'[w] # j
    <2>1. row[j].status = "cancelled" \/ row[j].attempts = 0
      BY <1>6 DEF QuietRow
    <2>2. QED BY <1>1, <1>5, <2>1 DEF CodingInv
  <1>7. ASSUME edits'[j] > 0, ~row'[j].sideEffect, row'[j].status = "running",
               NEW w \in Workers, job'[w] = j
        PROVE  Unrecorded(w)'
    <2>1. edits[j] > 0 /\ edits[j] # 0
      BY <1>0, <1>7
    <2>2. row[j].status = "running" /\ ~row[j].sideEffect
      BY <1>5, <1>7, <2>1 DEF QuietRow
    <2>3. job[w] = j /\ Unrecorded(w)
      BY <1>1, <1>7, <2>1, <2>2 DEF CodingInv
    <2>4. QED BY <1>7, <2>3
  <1>8. QED BY <1>2, <1>4, <1>6, <1>7

LEMMA CodingInvStep ==
    WorkerInv /\ WorkerInv' /\ CodingInv /\ [WorkerNext]_workerVars => CodingInv'
  <1> SUFFICES ASSUME WorkerInv, WorkerInv', CodingInv, [WorkerNext]_workerVars
               PROVE  CodingInv'
    OBVIOUS
  <1>0. /\ pc \in [Workers -> Steps] /\ job \in [Workers -> Jobs \cup {NoJob}]
        /\ outcome \in [Workers -> {"none", "succeeded", "failed", "cancelled"}]
        /\ edits \in [Jobs -> Nat] /\ row \in [Jobs -> Row]
        /\ CodingJobs \subseteq Jobs /\ NoJob \notin CodingJobs
        /\ StoreInv
    BY StoreAssumption, WorkerAssumption DEF WorkerInv, WorkerTypeOK, TypeOK
  <1>b. \A w \in Workers : Busy(w) => job[w] \in Jobs /\ attempt[w] \in 1..MaxAttempts
    BY DEF WorkerInv, JobAtHand
  <1> USE DEF Call
  <1>1. ASSUME NEW w \in Workers, Poll(w) \/ Heartbeat(w) \/ LateRenewal(w)
        PROVE  CodingInv'
    <2>1. /\ UNCHANGED <<job, outcome, edits>>
          /\ \E step \in {"exited", "claiming"} :
                pc' = pc \/ (pc[w] = "idle" /\ pc' = [pc EXCEPT ![w] = step])
      BY <1>1 DEF Poll, Heartbeat, LateRenewal, Goto, local, effects
    <2>2. \A j \in CodingJobs : QuietRow(j)
      <3>1. \/ RecoverExpired \/ UNCHANGED row
            \/ beat[w] \in Jobs /\ RenewLease(w, beat[w])
            \/ late[w] \in Jobs /\ RenewLease(w, late[w])
        BY <1>1 DEF Poll, Heartbeat, LateRenewal, WorkerInv, WorkerTypeOK
      <3>2. QED BY <1>0, <3>1, QuietSteps DEF QuietOperation
    <2>3. \A v \in Workers : Unrecorded(v) => Unrecorded(v)'
      BY <1>0, <2>1 DEF Unrecorded
    <2>4. QED BY <2>1, <2>2, <2>3, QuietProcesses
  <1>2. ASSUME NEW w \in Workers, Claim(w) PROVE CodingInv'
    <2>1. /\ pc[w] = "claiming" /\ UNCHANGED <<outcome, edits>>
          /\ \E step \in {"idle", "linking"} : pc' = [pc EXCEPT ![w] = step]
      BY <1>2 DEF Claim, Goto, effects
    <2>2. \A v \in Workers : Unrecorded(v) => Unrecorded(v)'
      BY <1>0, <2>1 DEF Unrecorded
    <2>3. \A j \in CodingJobs : QuietRow(j)
      <3>1. UNCHANGED row \/ \E j \in Jobs : ClaimNext(w, j)
        BY <1>2 DEF Claim
      <3>2. QED BY <1>0, <3>1, QuietSteps DEF QuietOperation
    <2>4. CASE UNCHANGED job
      BY <2>1, <2>2, <2>3, <2>4, QuietProcesses
    <2>5. ASSUME NEW j \in Jobs, ClaimNext(w, j), job' = [job EXCEPT ![w] = j]
          PROVE  CodingInv'
      <3>1. CASE j \notin CodingJobs
        BY <1>0, <2>1, <2>2, <2>3, <2>5, <3>1, QuietProcesses
      <3>2. CASE j \in CodingJobs
        <4>1. row[j].attempts = 0 /\ row[j].status = "queued"
          BY <1>0, <2>5, <3>2 DEF ClaimNext, StoreInv, CodingRunsOnce
        <4>2. edits[j] = 0 /\ \A v \in Workers : job[v] # j
          BY <1>0, <3>2, <4>1 DEF CodingInv
        <4>3. row'[j].attempts = 1 /\ row'[j].status = "running"
          BY <1>0, <2>5, <4>1 DEF ClaimNext, Claimed, Row
        <4>4. \A k \in CodingJobs \ {j} : row'[k] = row[k]
          BY <1>0, <2>5 DEF ClaimNext
        <4>5. \A k \in CodingJobs \ {j}, v \in Workers : job'[v] = k => job[v] = k
          BY <1>0, <2>5
        <4>6. \A v \in Workers : job'[v] = j => v = w
          BY <1>0, <2>5, <4>2
        <4>7. QED BY <2>1, <2>2, <4>2, <4>3, <4>4, <4>5, <4>6 DEF CodingInv
      <3>3. QED BY <3>1, <3>2
    <2>6. QED BY <1>2, <2>4, <2>5 DEF Claim
  <1>3. ASSUME NEW w \in Workers, Link(w) PROVE CodingInv'
    <2>1. /\ pc[w] = "linking" /\ job[w] \in Jobs /\ UNCHANGED <<outcome, edits>>
          /\ attempt[w] \in 1..MaxAttempts
          /\ job' = job \/ job' = [job EXCEPT ![w] = NoJob]
          /\ \E step \in {"idle", "starting"} : pc' = [pc EXCEPT ![w] = step]
      BY <1>3, <1>b DEF Link, Abandon, Goto, Busy, effects
    <2>2. \A v \in Workers : Unrecorded(v) => Unrecorded(v)'
      BY <1>0, <2>1 DEF Unrecorded
    <2>3. UNCHANGED row \/ LinkTrace(w, job[w], attempt[w])
      BY <1>3 DEF Link
    <2>4. \A j \in CodingJobs : QuietRow(j)
      BY <1>0, <2>1, <2>3, QuietSteps DEF QuietOperation
    <2>5. QED BY <1>0, <2>1, <2>2, <2>4, QuietProcesses
  <1>4. ASSUME NEW w \in Workers,
               Start(w) \/ Lock(w) \/ Build(w) \/ Apply(w) \/ Query(w) \/ Code(w)
        PROVE  CodingInv'
    <2>1. /\ UNCHANGED <<row, job, edits>>
          /\ pc[w] \in {"starting", "locking", "building", "applying", "querying", "coding"}
          /\ \A v \in Workers \ {w} : pc'[v] = pc[v] /\ outcome'[v] = outcome[v]
      BY <1>0, <1>4 DEF Start, Lock, Build, Apply, Query, Code, Checkpoint, Conclude, Goto, effects
    <2>2. \A v \in Workers : Unrecorded(v) => Unrecorded(v)'
      BY <2>1 DEF Unrecorded
    <2>3. \A j \in CodingJobs : QuietRow(j)
      BY <1>0, <2>1, QuietSteps
    <2>4. QED BY <2>1, <2>2, <2>3, QuietProcesses
  <1>5. ASSUME NEW w \in Workers, Edit(w) PROVE CodingInv'
    <2>1. /\ UNCHANGED <<row, job, outcome>> /\ pc[w] = "editing"
          /\ pc' = [pc EXCEPT ![w] = "marking"] /\ job[w] \in Jobs
          /\ edits' = [edits EXCEPT ![job[w]] = @ + 1]
      BY <1>5, <1>b DEF Edit, Goto, Busy
    <2>2. \A v \in Workers : Unrecorded(v) => Unrecorded(v)'
      BY <1>0, <2>1 DEF Unrecorded
    <2>3. Unrecorded(w)'
      BY <1>0, <2>1 DEF Unrecorded
    <2>4. \A k \in CodingJobs : k # job[w] => edits'[k] = edits[k]
      BY <1>0, <2>1
    <2>5. ASSUME job[w] \in CodingJobs
          PROVE  /\ row[job[w]].attempts >= 1 /\ row[job[w]].status # "cancelled"
                 /\ \A v \in Workers : job[v] = job[w] => v = w
      BY <2>5 DEF CodingInv
    <2>6. QED BY <2>1, <2>2, <2>3, <2>4, <2>5 DEF CodingInv
  <1>6. ASSUME NEW w \in Workers, Mark(w) PROVE CodingInv'
    <2>1. /\ UNCHANGED <<job, edits>> /\ pc[w] = "marking" /\ job[w] \in Jobs
          /\ \A v \in Workers \ {w} : pc'[v] = pc[v] /\ outcome'[v] = outcome[v]
          /\ UNCHANGED row \/ MarkSideEffectStarted(w, job[w])
      BY <1>0, <1>6, <1>b DEF Mark, Conclude, Goto, effects, Busy
    <2>2. \A j \in CodingJobs : QuietRow(j)
      BY <1>0, <2>1, QuietSteps DEF QuietOperation
    <2>3. Unrecorded(w)' \/ row'[job[w]].sideEffect
      <3>1. CASE Conclude(w, "failed")
        BY <1>0, <2>1, <3>1 DEF Conclude, Goto, Critical, Unrecorded
      <3>2. CASE MarkSideEffectStarted(w, job[w])
        BY <1>0, <2>1, <3>2 DEF MarkSideEffectStarted, Row
      <3>3. QED BY <1>6, <3>1, <3>2 DEF Mark
    <2>4. \A v \in Workers : v # w /\ Unrecorded(v) => Unrecorded(v)'
      BY <2>1 DEF Unrecorded
    <2>5. QED BY <2>1, <2>2, <2>3, <2>4, QuietProcesses
  <1>7. ASSUME NEW w \in Workers, Release(w) PROVE CodingInv'
    <2>1. /\ UNCHANGED <<row, job, edits>> /\ pc' = [pc EXCEPT ![w] = "reporting"]
          /\ \/ outcome' = outcome
             \/ outcome' = [outcome EXCEPT ![w] = "failed"]
          /\ pc[w] = "releasing"
      BY <1>0, <1>7 DEF Release, Goto, effects
    <2>2. \A v \in Workers : Unrecorded(v) => Unrecorded(v)'
      BY <1>0, <2>1 DEF Unrecorded
    <2>3. \A j \in CodingJobs : QuietRow(j)
      BY <1>0, <2>1, QuietSteps
    <2>4. QED BY <2>1, <2>2, <2>3, QuietProcesses
  <1>8. ASSUME NEW w \in Workers, Report(w) PROVE CodingInv'
    <2>1. /\ pc[w] = "reporting" /\ job[w] \in Jobs /\ UNCHANGED edits
          /\ job' = [job EXCEPT ![w] = NoJob]
          /\ \A v \in Workers \ {w} : pc'[v] = pc[v] /\ outcome'[v] = outcome[v]
      BY <1>0, <1>8, <1>b DEF Report, Abandon, Goto, effects, Busy
    <2>2. \A v \in Workers : v # w /\ Unrecorded(v) => Unrecorded(v)'
      BY <2>1 DEF Unrecorded
    <2>3. \A v \in Workers : job'[v] \in CodingJobs => v # w /\ job'[v] = job[v]
      BY <1>0, <2>1
    <2>4. CASE UNCHANGED row \/ MarkSucceeded(w, job[w]) \/ MarkFailed(w, job[w])
      <3>1. \A j \in CodingJobs : QuietRow(j)
        BY <1>0, <2>1, <2>4, QuietSteps DEF QuietOperation
      <3>2. QED BY <2>1, <2>2, <2>3, <3>1, QuietProcesses
    <2>5. CASE outcome[w] = "cancelled" /\ MarkCancelled(w, job[w])
      <3>1. \A k \in CodingJobs : k # job[w] => row'[k] = row[k]
        BY <1>0, <2>5 DEF MarkCancelled
      <3>2. ASSUME job[w] \in CodingJobs
            PROVE  /\ edits'[job[w]] = 0 /\ row'[job[w]].status = "cancelled"
                   /\ \A v \in Workers : job'[v] # job[w]
        <4>1. row[job[w]].status = "running" /\ ~row[job[w]].sideEffect
          BY <2>5, <3>2 DEF MarkCancelled, Holds, Unsafe
        <4>2. ~Unrecorded(w)
          BY <2>1, <2>5 DEF Unrecorded
        <4>3. ~(edits[job[w]] > 0)
          BY <3>2, <4>1, <4>2 DEF CodingInv
        <4>4. edits'[job[w]] = 0
          BY <1>0, <2>1, <4>3
        <4>5. row'[job[w]].status = "cancelled"
          BY <1>0, <2>1, <2>5 DEF MarkCancelled, Concluded, Unleased, Row
        <4>6. \A v \in Workers : job'[v] # job[w]
          BY <1>0, <2>3, <3>2 DEF CodingInv
        <4>7. QED BY <4>4, <4>5, <4>6
      <3>3. QED BY <2>1, <2>2, <2>3, <3>1, <3>2 DEF CodingInv
    <2>6. QED BY <1>8, <2>4, <2>5 DEF Report
  <1>9. ASSUME NEW w \in Workers, Crash(w) PROVE CodingInv'
    <2>1. /\ UNCHANGED <<row, edits>> /\ job' = [job EXCEPT ![w] = NoJob]
          /\ pc' = [pc EXCEPT ![w] = "dead"] /\ outcome' = [outcome EXCEPT ![w] = "none"]
      BY <1>9 DEF Crash, Goto, effects
    <2>2. \A v \in Workers : job'[v] \in CodingJobs => v # w /\ job'[v] = job[v]
      BY <1>0, <2>1
    <2>3. \A v \in Workers : v # w /\ Unrecorded(v) => Unrecorded(v)'
      BY <1>0, <2>1 DEF Unrecorded
    <2>4. \A j \in CodingJobs : QuietRow(j)
      BY <1>0, <2>1, QuietSteps
    <2>5. QED BY <2>1, <2>2, <2>3, <2>4, QuietProcesses
  <1>10. ASSUME \/ \E w \in Workers : Sigterm(w) \/ LoseSession(w)
                \/ \E r \in Repos : HttpLock(r)
                \/ Client \/ Time \/ UNCHANGED workerVars
         PROVE  CodingInv'
    <2>1. /\ UNCHANGED <<pc, job, outcome, edits>>
          /\ UNCHANGED row \/ Tick \/ \E j \in Jobs : Create(j) \/ RequestCancel(j)
      BY <1>10 DEF Sigterm, LoseSession, HttpLock, Client, Time, workerVars, local, effects
    <2>2. (\E j \in Jobs : Create(j) \/ RequestCancel(j))
             => \E j \in Jobs : QuietOperation(NoWorker, j)
      BY DEF QuietOperation
    <2>3. \A j \in CodingJobs : QuietRow(j)
      BY <1>0, <2>1, <2>2, QuietSteps
    <2>4. \A v \in Workers : Unrecorded(v) => Unrecorded(v)'
      BY <2>1 DEF Unrecorded
    <2>5. QED BY <2>1, <2>3, <2>4, QuietProcesses
  <1>11. QED BY <1>1, <1>2, <1>3, <1>4, <1>5, <1>6, <1>7, <1>8, <1>9, <1>10
             DEF WorkerNext, MainThread

\* A coding job is reported as cancelled only if it never edited a file.
THEOREM WorkersCancelHonestly == WorkerSpec => []CancelledMeansUntouched
  <1>1. ASSUME WorkerInit PROVE CodingInv
    <2>1. CodingJobs \subseteq Jobs /\ NoJob \notin Jobs
      BY StoreAssumption, WorkerAssumption
    <2>2. \A j \in CodingJobs : row[j].status = "absent" /\ edits[j] = 0
      BY <1>1, <2>1 DEF WorkerInit, Init, Absent
    <2>3. \A j \in CodingJobs, w \in Workers : job[w] # j
      BY <1>1, <2>1 DEF WorkerInit
    <2>4. QED BY <2>2, <2>3 DEF CodingInv
  <1>2. CodingInv => CancelledMeansUntouched
    BY DEF CodingInv, CancelledMeansUntouched
  <1>3. QED BY <1>1, <1>2, CodingInvStep, WorkersConsistent, PTL DEF WorkerSpec

(***************************************************************************)
(* One run per claim.  A claim is paid out when its process sets out to    *)
(* execute the job; until then it is pending, and the pending claims of a  *)
(* job are distinct attempts.  Executions and pending claims together      *)
(* never outnumber the attempts of the row, which only grow.               *)
(***************************************************************************)
Claiming(w) == pc[w] \in {"linking", "starting"}

Pending(j) == {attempt[w] : w \in {v \in Workers : job[v] = j /\ Claiming(v)}}

ClaimInv ==
    /\ \A j \in Jobs : row[j].status = "absent" => row[j].attempts = 0
    /\ \A w \in Workers : Busy(w) => attempt[w] <= row[job[w]].attempts
    /\ \A v, w \in Workers :
          Claiming(v) /\ Claiming(w) /\ job[v] = job[w] /\ attempt[v] = attempt[w] => v = w
    /\ \A j \in Jobs : runs[j] + Cardinality(Pending(j)) <= row[j].attempts

\* A row that exists stays, and its attempts are never taken back.
LEMMA AttemptsGrow ==
    ASSUME StoreInv, [Next]_row, NEW j \in Jobs,
           row[j].status = "absent" => row[j].attempts = 0
    PROVE  /\ row[j].attempts \in Nat /\ row'[j].attempts \in Nat
           /\ row'[j].attempts >= row[j].attempts
           /\ row'[j].status = "absent" => row'[j].attempts = 0
  <1>1. RowInv(j, row[j]) /\ row[j] \in Row
    BY InvByRow DEF RowInv
  <1>2. row'[j] = row[j] \/ RowStep(j, row[j], row'[j])
    BY NextByRow
  <1>3. row[j].attempts \in Nat
    BY <1>1 DEF Row
  <1>4. CASE row'[j] = row[j]
    BY <1>3, <1>4
  <1>5. CASE row[j].status = "absent" /\ row'[j] = [Absent EXCEPT !.status = "queued"]
    BY <1>3, <1>5 DEF Absent
  <1>6. CASE \E w \in Workers, d \in 0..Lease : row'[j] = Claimed(w, row[j], d)
    BY <1>1, <1>3, <1>6 DEF Claimed, Row
  <1>7. CASE row[j].status # "absent" /\ row'[j] = CancelRequested(row[j])
    BY <1>1, <1>3, <1>7 DEF CancelRequested, Row
  <1>8. CASE HolderStep(j, row[j], row'[j])
    <2>1. row'[j].attempts = row[j].attempts /\ row'[j].status # "absent"
      <3>1. CASE \E d \in 0..Lease : row'[j] = [row[j] EXCEPT !.lease = d]
        BY <1>1, <1>8, <3>1 DEF HolderStep, Row
      <3>2. CASE \E a \in 1..MaxAttempts : row'[j] = [row[j] EXCEPT !.trace = a]
        BY <1>1, <1>8, <3>2 DEF HolderStep, Row
      <3>3. CASE row'[j] = [row[j] EXCEPT !.sideEffect = TRUE]
        BY <1>1, <1>8, <3>3 DEF HolderStep, Row
      <3>4. CASE \E status \in Terminals, error \in Errors, result \in BOOLEAN :
                    row'[j] = Concluded(row[j], status, error, result)
        BY <1>1, <3>4 DEF Concluded, Unleased, Row, Terminals
      <3>5. QED BY <1>8, <3>1, <3>2, <3>3, <3>4 DEF HolderStep, Terminals, Errors
    <2>2. QED BY <1>3, <2>1
  <1>9. CASE row'[j] = Recovered(j, row[j])
    BY <1>1, <1>3, <1>9 DEF Recovered, Unleased, Row
  <1>10. CASE row'[j] = [row[j] EXCEPT !.lease = IF row[j].lease > 0 THEN row[j].lease - 1
                                                                  ELSE row[j].lease]
    <2>1. row'[j].attempts = row[j].attempts /\ row'[j].status = row[j].status
      BY <1>1, <1>10 DEF Row
    <2>2. QED BY <1>3, <2>1
  <1>11. QED BY <1>2, <1>4, <1>5, <1>6, <1>7, <1>8, <1>9, <1>10 DEF RowStep

\* The pending claims of a job are some of its attempts.
LEMMA PendingFinite ==
    ASSUME WorkerInv, ClaimInv, NEW j \in Jobs
    PROVE  /\ Pending(j) \subseteq 1..row[j].attempts
           /\ IsFiniteSet(Pending(j)) /\ Cardinality(Pending(j)) \in Nat
  <1>1. row[j].attempts \in Nat
    BY DEF WorkerInv, WorkerTypeOK, TypeOK, Row
  <1>2. Pending(j) \subseteq 1..row[j].attempts
    BY <1>1 DEF Pending, Claiming, ClaimInv, WorkerInv, JobAtHand, Busy
  <1>3. IsFiniteSet(1..row[j].attempts)
    BY <1>1, FS_Interval
  <1>4. QED BY <1>2, <1>3, FS_Subset, FS_CardinalityType

\* A step that executes nothing keeps ClaimInv if it claims nothing either.
LEMMA ClaimQuiet ==
    ASSUME WorkerInv, ClaimInv, [Next]_row, UNCHANGED runs,
           \A v \in Workers : Busy(v)' => Busy(v) /\ job'[v] = job[v] /\ attempt'[v] = attempt[v],
           \A v \in Workers : Claiming(v)' => Claiming(v)
    PROVE  ClaimInv'
  <1>1. \A j \in Jobs : /\ row[j].attempts \in Nat /\ row'[j].attempts \in Nat
                        /\ row'[j].attempts >= row[j].attempts
                        /\ row'[j].status = "absent" => row'[j].attempts = 0
    BY AttemptsGrow DEF WorkerInv, ClaimInv
  <1>2. \A v \in Workers : Claiming(v)' => /\ Busy(v)' /\ Claiming(v)
                                           /\ job'[v] = job[v] /\ attempt'[v] = attempt[v]
    BY DEF Claiming, Busy
  <1>3. \A w \in Workers : Busy(w)' => attempt'[w] <= row'[job'[w]].attempts
    <2>1. \A w \in Workers : Busy(w) => job[w] \in Jobs /\ attempt[w] \in 1..MaxAttempts
                                        /\ attempt[w] <= row[job[w]].attempts
      BY DEF WorkerInv, JobAtHand, ClaimInv
    <2>2. QED BY <1>1, <2>1, StoreAssumption
  <1>4. \A v, w \in Workers :
           Claiming(v)' /\ Claiming(w)' /\ job'[v] = job'[w] /\ attempt'[v] = attempt'[w]
             => v = w
    BY <1>2 DEF ClaimInv
  <1>5. ASSUME NEW j \in Jobs
        PROVE  runs'[j] + Cardinality(Pending(j)') <= row'[j].attempts
    <2>1. Pending(j)' \subseteq Pending(j)
      BY <1>2 DEF Pending
    <2>2. IsFiniteSet(Pending(j)) /\ Cardinality(Pending(j)) \in Nat
      BY PendingFinite
    <2>3. Cardinality(Pending(j)') \in Nat /\ Cardinality(Pending(j)') <= Cardinality(Pending(j))
      BY <2>1, <2>2, FS_Subset, FS_CardinalityType
    <2>4. runs[j] \in Nat /\ runs[j] + Cardinality(Pending(j)) <= row[j].attempts
      BY DEF WorkerInv, WorkerTypeOK, ClaimInv
    <2>5. QED BY <1>1, <2>2, <2>3, <2>4
  <1>6. QED BY <1>1, <1>3, <1>4, <1>5 DEF ClaimInv

LEMMA ClaimInvStep == WorkerInv /\ ClaimInv /\ [WorkerNext]_workerVars => ClaimInv'
  <1> SUFFICES ASSUME WorkerInv, ClaimInv, [WorkerNext]_workerVars PROVE ClaimInv'
    OBVIOUS
  <1>0. /\ pc \in [Workers -> Steps] /\ job \in [Workers -> Jobs \cup {NoJob}]
        /\ attempt \in [Workers -> 0..MaxAttempts] /\ runs \in [Jobs -> Nat]
        /\ row \in [Jobs -> Row] /\ StoreInv
    BY DEF WorkerInv, WorkerTypeOK, TypeOK
  <1>a. [Next]_row
    BY StepOfStore
  <1>b. \A w \in Workers : Busy(w) => /\ job[w] \in Jobs /\ attempt[w] \in 1..MaxAttempts
                                      /\ attempt[w] <= row[job[w]].attempts
    BY DEF WorkerInv, JobAtHand, ClaimInv
  <1>c. \A j \in Jobs : /\ row[j].attempts \in Nat /\ row'[j].attempts \in Nat
                        /\ row'[j].attempts >= row[j].attempts
                        /\ row'[j].status = "absent" => row'[j].attempts = 0
    BY <1>a, AttemptsGrow DEF WorkerInv, ClaimInv
  <1> USE DEF Call
  <1>1. ASSUME NEW w \in Workers, Poll(w) \/ Heartbeat(w) \/ LateRenewal(w) \/ Sigterm(w)
                                  \/ LoseSession(w)
        PROVE  ClaimInv'
    <2>1. /\ UNCHANGED <<job, attempt, runs>>
          /\ \/ pc' = pc
             \/ pc[w] = "idle" /\ \E step \in {"exited", "claiming"} :
                                     pc' = [pc EXCEPT ![w] = step]
      BY <1>1 DEF Poll, Heartbeat, LateRenewal, Sigterm, LoseSession, Goto, local, effects
    <2>2. \A v \in Workers : (Busy(v)' => Busy(v)) /\ (Claiming(v)' => Claiming(v))
      BY <1>0, <2>1 DEF Busy, Claiming
    <2>3. QED BY <1>a, <2>1, <2>2, ClaimQuiet
  <1>2. ASSUME NEW w \in Workers, Claim(w) PROVE ClaimInv'
    <2>1. pc[w] = "claiming" /\ ~Busy(w) /\ ~Claiming(w) /\ UNCHANGED runs
      BY <1>2 DEF Claim, Busy, Claiming, effects
    <2>2. CASE UNCHANGED <<job, attempt>> /\ pc' = [pc EXCEPT ![w] = "idle"]
      <3>1. \A v \in Workers : (Busy(v)' => Busy(v)) /\ (Claiming(v)' => Claiming(v))
        BY <1>0, <2>1, <2>2 DEF Busy, Claiming
      <3>2. QED BY <1>a, <2>1, <2>2, <3>1, ClaimQuiet
    <2>3. ASSUME NEW j \in Jobs, ClaimNext(w, j), pc' = [pc EXCEPT ![w] = "linking"],
                 job' = [job EXCEPT ![w] = j],
                 attempt' = [attempt EXCEPT ![w] = row[j].attempts + 1]
          PROVE  ClaimInv'
      <3>1. /\ row'[j].attempts = row[j].attempts + 1
            /\ \A k \in Jobs \ {j} : row'[k] = row[k]
        <4>1. PICK d \in 0..Lease : row' = [row EXCEPT ![j] = Claimed(w, row[j], d)]
          BY <2>3 DEF ClaimNext
        <4>2. row'[j] = Claimed(w, row[j], d) /\ \A k \in Jobs \ {j} : row'[k] = row[k]
          BY <1>0, <4>1
        <4>3. row[j] \in Row
          BY <1>0
        <4>4. QED BY <4>2, <4>3 DEF Claimed, Row
      <3>2. /\ job'[w] = j /\ attempt'[w] = row[j].attempts + 1
            /\ \A v \in Workers \ {w} : /\ job'[v] = job[v] /\ attempt'[v] = attempt[v]
                                        /\ pc'[v] = pc[v]
        BY <1>0, <2>3
      <3>3. \A v \in Workers \ {w} : /\ Busy(v)' <=> Busy(v)
                                     /\ Claiming(v)' <=> Claiming(v)
                                     /\ Claiming(v) => Busy(v)
        BY <3>2 DEF Busy, Claiming
      <3>4. \A v \in Workers : Busy(v)' => attempt'[v] <= row'[job'[v]].attempts
        <4>1. attempt'[w] <= row'[job'[w]].attempts
          BY <1>c, <3>1, <3>2
        <4>2. ASSUME NEW v \in Workers \ {w}, Busy(v)
              PROVE  attempt[v] <= row'[job[v]].attempts
          <5>1. /\ job[v] \in Jobs /\ attempt[v] \in Nat
                /\ attempt[v] <= row[job[v]].attempts
            BY <1>b, <4>2, StoreAssumption
          <5>2. QED BY <1>c, <5>1
        <4>3. QED BY <3>2, <3>3, <4>1, <4>2
      <3>5. \A v \in Workers \ {w} : Claiming(v) /\ job[v] = j => attempt[v] # attempt'[w]
        BY <1>b, <1>c, <3>2, <3>3, StoreAssumption
      <3>6. \A u, v \in Workers :
               Claiming(u)' /\ Claiming(v)' /\ job'[u] = job'[v] /\ attempt'[u] = attempt'[v]
                 => u = v
        BY <3>2, <3>3, <3>5 DEF ClaimInv
      <3>7. ASSUME NEW k \in Jobs
            PROVE  runs'[k] + Cardinality(Pending(k)') <= row'[k].attempts
        <4>1. IsFiniteSet(Pending(k)) /\ Cardinality(Pending(k)) \in Nat
          BY PendingFinite
        <4>2. runs[k] \in Nat /\ runs[k] + Cardinality(Pending(k)) <= row[k].attempts
          BY <1>0 DEF ClaimInv
        <4>3. CASE k = j
          <5>1. Pending(j)' \subseteq Pending(j) \cup {row[j].attempts + 1}
            BY <3>2, <3>3 DEF Pending
          <5>2. Cardinality(Pending(j)') <= Cardinality(Pending(j)) + 1
                /\ Cardinality(Pending(j)') \in Nat
            <6>1. /\ IsFiniteSet(Pending(j) \cup {row[j].attempts + 1})
                  /\ Cardinality(Pending(j) \cup {row[j].attempts + 1})
                       \in {Cardinality(Pending(j)), Cardinality(Pending(j)) + 1}
              BY <4>1, <4>3, FS_AddElement
            <6>2. /\ Cardinality(Pending(j)')
                       <= Cardinality(Pending(j) \cup {row[j].attempts + 1})
                  /\ Cardinality(Pending(j)') \in Nat
              BY <5>1, <6>1, FS_Subset, FS_CardinalityType
            <6>3. QED BY <4>1, <4>3, <6>1, <6>2
          <5>3. QED BY <1>c, <2>1, <3>1, <4>1, <4>2, <4>3, <5>2
        <4>4. CASE k # j
          <5>1. Pending(k)' \subseteq Pending(k)
            BY <3>2, <3>3, <4>4 DEF Pending
          <5>2. Cardinality(Pending(k)') \in Nat
                /\ Cardinality(Pending(k)') <= Cardinality(Pending(k))
            BY <4>1, <5>1, FS_Subset, FS_CardinalityType
          <5>3. QED BY <1>c, <2>1, <4>1, <4>2, <5>2
        <4>5. QED BY <4>3, <4>4
      <3>8. QED BY <1>c, <3>4, <3>6, <3>7 DEF ClaimInv
    <2>4. QED BY <1>2, <2>2, <2>3 DEF Claim, Goto
  <1>3. ASSUME NEW w \in Workers, Link(w) PROVE ClaimInv'
    <2>1. pc[w] = "linking" /\ UNCHANGED runs
      BY <1>3 DEF Link, effects
    <2>2. \/ pc' = [pc EXCEPT ![w] = "starting"] /\ UNCHANGED <<job, attempt>>
          \/ /\ pc' = [pc EXCEPT ![w] = "idle"] /\ job' = [job EXCEPT ![w] = NoJob]
             /\ attempt' = [attempt EXCEPT ![w] = 0]
      <3>1. CASE Holds(w, row[job[w]])
        BY <1>3, <3>1 DEF Link, Abandon, Goto
      <3>2. CASE ~Holds(w, row[job[w]])
        BY <1>3, <3>2 DEF Link, Abandon, Goto
      <3>3. QED BY <3>1, <3>2
    <2>3. \A v \in Workers : Busy(v)' => Busy(v) /\ job'[v] = job[v] /\ attempt'[v] = attempt[v]
      BY <1>0, <2>1, <2>2 DEF Busy
    <2>4. \A v \in Workers : Claiming(v)' => Claiming(v)
      BY <1>0, <2>1, <2>2 DEF Claiming
    <2>5. QED BY <1>a, <2>1, <2>3, <2>4, ClaimQuiet
  <1>4. ASSUME NEW w \in Workers, Start(w) PROVE ClaimInv'
    <2>1. /\ pc[w] = "starting" /\ Claiming(w) /\ Busy(w)
          /\ UNCHANGED <<row, job, attempt>>
          /\ runs' = [runs EXCEPT ![job[w]] = @ + 1]
          /\ \E step \in {"querying", "locking", "reporting"} : pc' = [pc EXCEPT ![w] = step]
      BY <1>4 DEF Start, Checkpoint, Conclude, Critical, Goto, Claiming, Busy
    <2>2. \A v \in Workers : /\ Busy(v)' => Busy(v)
                             /\ Claiming(v)' <=> Claiming(v) /\ v # w
      BY <1>0, <2>1 DEF Busy, Claiming
    <2>3. ASSUME NEW k \in Jobs
          PROVE  runs'[k] + Cardinality(Pending(k)') <= row'[k].attempts
      <3>1. IsFiniteSet(Pending(k)) /\ Cardinality(Pending(k)) \in Nat
        BY PendingFinite
      <3>2. runs[k] \in Nat /\ runs[k] + Cardinality(Pending(k)) <= row[k].attempts
        BY <1>0 DEF ClaimInv
      <3>3. CASE k = job[w]
        <4>1. attempt[w] \in Pending(k)
          BY <2>1, <3>3 DEF Pending
        <4>2. Pending(k)' \subseteq Pending(k) \ {attempt[w]}
          BY <2>1, <2>2, <3>3 DEF Pending, ClaimInv
        <4>3. /\ IsFiniteSet(Pending(k) \ {attempt[w]})
              /\ Cardinality(Pending(k) \ {attempt[w]}) = Cardinality(Pending(k)) - 1
          BY <3>1, <4>1, FS_RemoveElement
        <4>4. Cardinality(Pending(k)') \in Nat
              /\ Cardinality(Pending(k)') <= Cardinality(Pending(k)) - 1
          BY <4>2, <4>3, FS_Subset, FS_CardinalityType
        <4>5. runs'[k] = runs[k] + 1
          BY <1>0, <2>1, <3>3
        <4>6. QED BY <1>c, <2>1, <3>1, <3>2, <4>4, <4>5
      <3>4. CASE k # job[w]
        <4>1. Pending(k)' \subseteq Pending(k)
          BY <2>1, <2>2 DEF Pending
        <4>2. Cardinality(Pending(k)') \in Nat
              /\ Cardinality(Pending(k)') <= Cardinality(Pending(k))
          BY <3>1, <4>1, FS_Subset, FS_CardinalityType
        <4>3. runs'[k] = runs[k]
          BY <1>0, <2>1, <3>4
        <4>4. QED BY <1>c, <2>1, <3>1, <3>2, <4>2, <4>3
      <3>5. QED BY <3>3, <3>4
    <2>4. QED BY <1>c, <2>1, <2>2, <2>3 DEF ClaimInv
  <1>5. ASSUME NEW w \in Workers,
               Lock(w) \/ Build(w) \/ Apply(w) \/ Query(w) \/ Code(w) \/ Edit(w) \/ Mark(w)
               \/ Release(w)
        PROVE  ClaimInv'
    <2>1. /\ UNCHANGED <<job, attempt, runs>> /\ Busy(w)
          /\ \E step \in Steps \ {"linking", "starting"} : pc' = [pc EXCEPT ![w] = step]
      BY <1>5 DEF Lock, Build, Apply, Query, Code, Edit, Mark, Release, Checkpoint, Conclude,
                  Critical, Goto, Busy, Steps, effects
    <2>2. \A v \in Workers : (Busy(v)' => Busy(v)) /\ (Claiming(v)' => Claiming(v))
      BY <1>0, <2>1 DEF Busy, Claiming
    <2>3. QED BY <1>a, <2>1, <2>2, ClaimQuiet
  <1>6. ASSUME NEW w \in Workers, Report(w) \/ Crash(w) PROVE ClaimInv'
    <2>1. /\ UNCHANGED runs /\ \E step \in {"idle", "dead"} : pc' = [pc EXCEPT ![w] = step]
          /\ job' = [job EXCEPT ![w] = NoJob] /\ attempt' = [attempt EXCEPT ![w] = 0]
      BY <1>6 DEF Report, Crash, Abandon, Goto, effects
    <2>2. \A v \in Workers : Busy(v)' => Busy(v) /\ job'[v] = job[v] /\ attempt'[v] = attempt[v]
      BY <1>0, <2>1 DEF Busy
    <2>3. \A v \in Workers : Claiming(v)' => Claiming(v)
      BY <1>0, <2>1 DEF Claiming
    <2>4. QED BY <1>a, <2>1, <2>2, <2>3, ClaimQuiet
  <1>7. ASSUME (\E r \in Repos : HttpLock(r)) \/ Client \/ Time \/ UNCHANGED workerVars
        PROVE  ClaimInv'
    <2>1. UNCHANGED <<pc, job, attempt, runs>>
      BY <1>7 DEF HttpLock, Client, Time, workerVars, local, effects
    <2>2. QED BY <1>a, <2>1, ClaimQuiet DEF Busy, Claiming
  <1>8. QED BY <1>1, <1>2, <1>3, <1>4, <1>5, <1>6, <1>7 DEF WorkerNext, MainThread

\* No attempt is executed twice: however processes crash, calls fail and
\* leases lapse, a job is executed at most once for each time it was claimed.
THEOREM WorkersRunOncePerClaim == WorkerSpec => []OneRunPerClaim
  <1>1. ASSUME WorkerInit PROVE ClaimInv
    <2>1. \A j \in Jobs : row[j].attempts = 0 /\ runs[j] = 0
      BY <1>1 DEF WorkerInit, Init, Absent
    <2>2. \A w \in Workers : ~Busy(w) /\ ~Claiming(w)
      BY <1>1 DEF WorkerInit, Busy, Claiming
    <2>3. \A j \in Jobs : Cardinality(Pending(j)) = 0
      <3>1. \A j \in Jobs : Pending(j) = {}
        BY <2>2 DEF Pending
      <3>2. QED BY <3>1, FS_EmptySet
    <2>4. QED BY <2>1, <2>2, <2>3 DEF ClaimInv
  <1>2. ASSUME WorkerInv, ClaimInv PROVE OneRunPerClaim
    <2>1. ASSUME NEW j \in Jobs PROVE runs[j] <= row[j].attempts
      <3>1. /\ runs[j] \in Nat /\ row[j].attempts \in Nat
            /\ runs[j] + Cardinality(Pending(j)) <= row[j].attempts
        BY <1>2 DEF WorkerInv, WorkerTypeOK, TypeOK, Row, ClaimInv
      <3>2. Cardinality(Pending(j)) \in Nat
        BY <1>2, PendingFinite
      <3>3. QED BY <3>1, <3>2
    <2>2. QED BY <2>1 DEF OneRunPerClaim
  <1>3. QED BY <1>1, <1>2, ClaimInvStep, WorkersConsistent, PTL DEF WorkerSpec

(***************************************************************************)
(* One late edit.  A process whose lease lapsed may still edit a file, but *)
(* it is then about to record the edit in a row that is no longer its own, *)
(* and a coding job, which has a single attempt, gets no other process.    *)
(***************************************************************************)
StepFitsType ==
    \A w \in Workers :
        /\ pc[w] = "locking" => TypeOf[job[w]] # "query"
        /\ pc[w] = "querying" => TypeOf[job[w]] = "query"
        /\ pc[w] \in {"building", "applying"} => TypeOf[job[w]] = "index"
        /\ pc[w] \in {"coding", "editing", "marking"} => TypeOf[job[w]] = "coding"

\* Each step of a service belongs to the services of one job type.
LEMMA StepFitsTypeStep == WorkerInv /\ StepFitsType /\ [WorkerNext]_workerVars => StepFitsType'
  <1> SUFFICES ASSUME WorkerInv, StepFitsType, [WorkerNext]_workerVars PROVE StepFitsType'
    OBVIOUS
  <1>0. /\ pc \in [Workers -> Steps] /\ job \in [Workers -> Jobs \cup {NoJob}]
        /\ \A w \in Workers : Busy(w) => job[w] \in Jobs
        /\ \A j \in Jobs : TypeOf[j] \in {"index", "coding", "query"}
    BY WorkerAssumption DEF WorkerInv, WorkerTypeOK, JobAtHand
  <1> USE DEF Call
  <1>1. ASSUME NEW w \in Workers, Poll(w) \/ Claim(w) \/ Link(w) \/ Release(w) \/ Report(w)
                                  \/ Crash(w)
        PROVE  StepFitsType'
    <2>1. /\ \A v \in Workers \ {w} : pc'[v] = pc[v] /\ job'[v] = job[v]
          /\ pc'[w] \in {"idle", "claiming", "linking", "starting", "reporting", "exited", "dead"}
      <3>1. CASE Poll(w)
        BY <1>0, <3>1 DEF Poll, Goto
      <3>2. CASE Claim(w)
        BY <1>0, <3>2 DEF Claim, Goto
      <3>3. CASE Link(w)
        BY <1>0, <3>3 DEF Link, Abandon, Goto
      <3>4. CASE Release(w)
        BY <1>0, <3>4 DEF Release, Goto
      <3>5. CASE Report(w) \/ Crash(w)
        BY <1>0, <3>5 DEF Report, Crash, Abandon, Goto
      <3>6. QED BY <1>1, <3>1, <3>2, <3>3, <3>4, <3>5
    <2>2. QED BY <2>1 DEF StepFitsType
  <1>2. ASSUME NEW w \in Workers, Start(w) \/ Lock(w) PROVE StepFitsType'
    <2>1. /\ UNCHANGED job /\ job[w] \in Jobs
          /\ \/ pc' = [pc EXCEPT ![w] = "reporting"]
             \/ /\ Start(w)
                /\ pc' = [pc EXCEPT ![w] = IF TypeOf[job[w]] = "query" THEN "querying"
                                                                       ELSE "locking"]
             \/ /\ pc[w] = "locking"
                /\ pc' = [pc EXCEPT ![w] = IF TypeOf[job[w]] = "coding" THEN "coding"
                                                                        ELSE "building"]
      BY <1>0, <1>2 DEF Start, Lock, Checkpoint, Conclude, Critical, Goto, Busy
    <2>2. QED BY <1>0, <2>1 DEF StepFitsType
  <1>3. ASSUME NEW w \in Workers, Build(w) \/ Apply(w) \/ Query(w) \/ Code(w) \/ Edit(w) \/ Mark(w)
        PROVE  StepFitsType'
    <2>1. /\ UNCHANGED job
          /\ \/ \E step \in {"releasing", "reporting"} : pc' = [pc EXCEPT ![w] = step]
             \/ pc[w] = "building" /\ pc' = [pc EXCEPT ![w] = "applying"]
             \/ /\ pc[w] \in {"coding", "editing", "marking"}
                /\ \E step \in {"coding", "editing", "marking"} : pc' = [pc EXCEPT ![w] = step]
      BY <1>3 DEF Build, Apply, Query, Code, Edit, Mark, Checkpoint, Conclude, Critical, Goto
    <2>2. QED BY <1>0, <2>1 DEF StepFitsType
  <1>4. ASSUME \/ \E w \in Workers : \/ Heartbeat(w) \/ LateRenewal(w) \/ Sigterm(w)
                                     \/ LoseSession(w)
               \/ \E r \in Repos : HttpLock(r)
               \/ Client \/ Time \/ UNCHANGED workerVars
        PROVE  StepFitsType'
    <2>1. UNCHANGED <<pc, job>>
      BY <1>4 DEF Heartbeat, LateRenewal, Sigterm, LoseSession, HttpLock, Client, Time,
                  workerVars, local
    <2>2. QED BY <2>1 DEF StepFitsType
  <1>5. QED BY <1>1, <1>2, <1>3, <1>4 DEF WorkerNext, MainThread

LateInv ==
    \A j \in Jobs :
        /\ lateEdits[j] <= 1
        /\ lateEdits[j] > 0 =>
             /\ j \in CodingJobs /\ row[j].attempts >= 1
             /\ \A w \in Workers : job[w] = j =>
                   pc[w] \in {"marking", "releasing", "reporting"} /\ ~Holds(w, row[j])

\* Once attempted, a coding job is given to no other process.
LEMMA LostLeaseIsLost ==
    ASSUME StoreInv, [Next]_row, NEW j \in CodingJobs, row[j].attempts >= 1, NEW w \in Workers,
           ~Holds(w, row[j])
    PROVE  ~Holds(w, row'[j]) /\ row[j].status # "queued"
  <1>1. j \in Jobs /\ RowInv(j, row[j]) /\ row[j] \in Row
    BY InvByRow, StoreAssumption DEF RowInv
  <1>2. row'[j] = row[j] \/ RowStep(j, row[j], row'[j])
    BY <1>1, NextByRow
  <1>3. row[j].status \notin {"absent", "queued"}
    BY <1>1 DEF RowInv
  <1>4. CASE row'[j] = row[j]
    BY <1>3, <1>4
  <1>5. CASE row'[j] = CancelRequested(row[j])
    BY <1>1, <1>3, <1>5 DEF CancelRequested, Holds, Row
  <1>6. CASE HolderStep(j, row[j], row'[j])
    <2>1. \/ row'[j].status = row[j].status /\ row'[j].owner = row[j].owner
          \/ row'[j].status \in Terminals
      <3>1. CASE \E d \in 0..Lease : row'[j] = [row[j] EXCEPT !.lease = d]
        BY <1>1, <3>1 DEF Row
      <3>2. CASE \E a \in 1..MaxAttempts : row'[j] = [row[j] EXCEPT !.trace = a]
        BY <1>1, <3>2 DEF Row
      <3>3. CASE row'[j] = [row[j] EXCEPT !.sideEffect = TRUE]
        BY <1>1, <3>3 DEF Row
      <3>4. CASE \E status \in Terminals, error \in Errors, result \in BOOLEAN :
                    row'[j] = Concluded(row[j], status, error, result)
        BY <1>1, <3>4 DEF Concluded, Unleased, Row
      <3>5. QED BY <1>6, <3>1, <3>2, <3>3, <3>4 DEF HolderStep, Terminals, Errors
    <2>2. QED BY <1>3, <2>1 DEF Holds, Terminals
  <1>7. CASE row'[j] = Recovered(j, row[j])
    BY <1>1, <1>3, <1>7 DEF Recovered, Unleased, Holds, Row
  <1>8. CASE row'[j] = [row[j] EXCEPT !.lease = IF row[j].lease > 0 THEN row[j].lease - 1
                                                                 ELSE row[j].lease]
    BY <1>1, <1>3, <1>8 DEF Holds, Row
  <1>9. QED BY <1>2, <1>3, <1>4, <1>5, <1>6, <1>7, <1>8 DEF RowStep

\* A step that edits nothing keeps LateInv if it gives no process a job and
\* leads none from the record of an edit back to its work.
LEMMA LateQuiet ==
    ASSUME WorkerInv, LateInv, [Next]_row, UNCHANGED lateEdits,
           \A v \in Workers, j \in CodingJobs : job'[v] = j =>
               /\ job[v] = j \/ row[j].status = "queued"
               /\ pc[v] = "marking" /\ ~Holds(v, row[j]) => pc'[v] \in {"marking", "releasing"}
               /\ pc[v] = "releasing" => pc'[v] \in {"releasing", "reporting"}
               /\ pc[v] = "reporting" => pc'[v] = "reporting"
    PROVE  LateInv'
  <1>1. StoreInv /\ \A j \in Jobs : row[j].attempts \in Nat /\ row'[j].attempts \in Nat
    <2>1. StoreInv /\ StoreInv'
      BY StoreInvStep DEF WorkerInv
    <2>2. QED BY <2>1 DEF StoreInv, TypeOK, Row
  <1>2. ASSUME NEW j \in Jobs, lateEdits[j] > 0
        PROVE  /\ j \in CodingJobs /\ row'[j].attempts >= 1
               /\ \A w \in Workers : job'[w] = j =>
                     pc'[w] \in {"marking", "releasing", "reporting"} /\ ~Holds(w, row'[j])
    <2>1. j \in CodingJobs /\ row[j].attempts >= 1
      BY <1>2 DEF LateInv
    <2>2. row[j].status \notin {"absent", "queued"}
      BY <1>1, <2>1 DEF StoreInv, CodingRunsOnce
    <2>3. row'[j].attempts >= 1
      BY <1>1, <2>1, <2>2, AttemptsGrow
    <2>4. ASSUME NEW w \in Workers, job'[w] = j
          PROVE  pc'[w] \in {"marking", "releasing", "reporting"} /\ ~Holds(w, row'[j])
      <3>1. job[w] = j
        BY <2>1, <2>2, <2>4
      <3>2. pc[w] \in {"marking", "releasing", "reporting"} /\ ~Holds(w, row[j])
        BY <1>2, <3>1 DEF LateInv
      <3>3. ~Holds(w, row'[j])
        BY <1>1, <2>1, <3>2, LostLeaseIsLost
      <3>4. QED BY <2>1, <2>4, <3>2, <3>3
    <2>5. QED BY <2>1, <2>3, <2>4
  <1>3. QED BY <1>2 DEF LateInv

LEMMA LateInvStep ==
    WorkerInv /\ CodingInv /\ StepFitsType /\ LateInv /\ [WorkerNext]_workerVars => LateInv'
  <1> SUFFICES ASSUME WorkerInv, CodingInv, StepFitsType, LateInv, [WorkerNext]_workerVars
               PROVE  LateInv'
    OBVIOUS
  <1>0. /\ pc \in [Workers -> Steps] /\ job \in [Workers -> Jobs \cup {NoJob}]
        /\ lateEdits \in [Jobs -> Nat]
        /\ \A w \in Workers : Busy(w) => job[w] \in Jobs
        /\ CodingJobs \subseteq Jobs /\ NoJob \notin Jobs
    BY StoreAssumption, WorkerAssumption DEF WorkerInv, WorkerTypeOK, JobAtHand
  <1>a. [Next]_row
    BY StepOfStore
  <1> USE DEF Call
  <1>1. ASSUME NEW w \in Workers, Claim(w) PROVE LateInv'
    <2>1. /\ UNCHANGED lateEdits /\ pc[w] = "claiming"
          /\ \A v \in Workers \ {w} : pc'[v] = pc[v] /\ job'[v] = job[v]
          /\ \/ job' = job
             \/ \E j \in Jobs : row[j].status = "queued" /\ job' = [job EXCEPT ![w] = j]
      BY <1>0, <1>1 DEF Claim, ClaimNext, Goto, effects
    <2>2. \A j \in Jobs : job'[w] = j => job[w] = j \/ row[j].status = "queued"
      BY <1>0, <2>1
    <2>3. QED BY <1>0, <1>a, <2>1, <2>2, LateQuiet
  <1>2. ASSUME NEW w \in Workers, Edit(w) PROVE LateInv'
    <2>1. /\ pc[w] = "editing" /\ UNCHANGED <<row, job>> /\ job[w] \in Jobs
          /\ lateEdits' = [lateEdits EXCEPT
                             ![job[w]] = IF Holds(w, row[job[w]]) THEN @ ELSE @ + 1]
          /\ pc' = [pc EXCEPT ![w] = "marking"]
      BY <1>0, <1>2 DEF Edit, Goto, Busy
    <2>2. job[w] \in CodingJobs
      BY <2>1, WorkerAssumption DEF StepFitsType
    <2>3. row[job[w]].attempts >= 1 /\ \A v \in Workers : job[v] = job[w] => v = w
      BY <2>2 DEF CodingInv
    <2>4. lateEdits[job[w]] = 0
      BY <1>0, <2>1 DEF LateInv
    <2>5. ASSUME NEW j \in Jobs
          PROVE  /\ lateEdits'[j] <= 1
                 /\ lateEdits'[j] > 0 =>
                      /\ j \in CodingJobs /\ row'[j].attempts >= 1
                      /\ \A v \in Workers : job'[v] = j =>
                            pc'[v] \in {"marking", "releasing", "reporting"} /\ ~Holds(v, row'[j])
      <3>1. CASE j = job[w]
        <4>1. /\ lateEdits'[j] = IF Holds(w, row[j]) THEN 0 ELSE 1
              /\ pc'[w] = "marking"
          BY <1>0, <2>1, <2>4, <3>1
        <4>2. QED BY <2>1, <2>2, <2>3, <3>1, <4>1
      <3>2. CASE j # job[w]
        <4>1. lateEdits'[j] = lateEdits[j]
          BY <1>0, <2>1, <3>2
        <4>2. \A v \in Workers : job[v] = j => pc'[v] = pc[v]
          BY <1>0, <2>1, <3>2
        <4>3. QED BY <2>1, <4>1, <4>2 DEF LateInv
      <3>3. QED BY <3>1, <3>2
    <2>6. QED BY <2>5 DEF LateInv
  <1>3. ASSUME NEW w \in Workers,
               Poll(w) \/ Link(w) \/ Start(w) \/ Lock(w) \/ Build(w) \/ Apply(w) \/ Query(w)
               \/ Code(w)
        PROVE  LateInv'
    <2>1. /\ UNCHANGED lateEdits /\ pc[w] \notin {"marking", "releasing", "reporting"}
          /\ \A v \in Workers \ {w} : pc'[v] = pc[v] /\ job'[v] = job[v]
          /\ job'[w] \in {job[w], NoJob}
      <3>1. CASE Poll(w)
        BY <1>0, <3>1 DEF Poll, Goto, effects
      <3>2. CASE Link(w)
        BY <1>0, <3>2 DEF Link, Abandon, Goto, effects
      <3>3. CASE Start(w) \/ Lock(w) \/ Build(w) \/ Apply(w) \/ Query(w) \/ Code(w)
        BY <1>0, <3>3
           DEF Start, Lock, Build, Apply, Query, Code, Checkpoint, Conclude, Goto, effects
      <3>4. QED BY <1>3, <3>1, <3>2, <3>3
    <2>2. QED BY <1>0, <1>a, <2>1, LateQuiet
  <1>4. ASSUME NEW w \in Workers, Mark(w) PROVE LateInv'
    <2>1. /\ UNCHANGED <<lateEdits, job>> /\ pc[w] = "marking"
          /\ \A v \in Workers \ {w} : pc'[v] = pc[v]
          /\ ~Holds(w, row[job[w]]) => pc'[w] = "releasing"
      BY <1>0, <1>4 DEF Mark, Conclude, Critical, Goto, effects
    <2>2. QED BY <1>0, <1>a, <2>1, LateQuiet
  <1>5. ASSUME NEW w \in Workers, Release(w) \/ Report(w) \/ Crash(w) PROVE LateInv'
    <2>1. /\ UNCHANGED lateEdits
          /\ \A v \in Workers \ {w} : pc'[v] = pc[v] /\ job'[v] = job[v]
          /\ \/ job'[w] = NoJob
             \/ job'[w] = job[w] /\ pc[w] = "releasing" /\ pc'[w] = "reporting"
      BY <1>0, <1>5 DEF Release, Report, Crash, Abandon, Goto, effects
    <2>2. QED BY <1>0, <1>a, <2>1, LateQuiet
  <1>6. ASSUME \/ \E w \in Workers : \/ Heartbeat(w) \/ LateRenewal(w) \/ Sigterm(w)
                                     \/ LoseSession(w)
               \/ \E r \in Repos : HttpLock(r)
               \/ Client \/ Time \/ UNCHANGED workerVars
        PROVE  LateInv'
    <2>1. UNCHANGED <<pc, job, lateEdits>>
      BY <1>6 DEF Heartbeat, LateRenewal, Sigterm, LoseSession, HttpLock, Client, Time,
                  workerVars, local, effects
    <2>2. QED BY <1>a, <2>1, LateQuiet
  <1>7. QED BY <1>1, <1>2, <1>3, <1>4, <1>5, <1>6 DEF WorkerNext, MainThread

LEMMA CodingInvInit == WorkerInit => CodingInv /\ StepFitsType /\ LateInv
  <1> SUFFICES ASSUME WorkerInit PROVE CodingInv /\ StepFitsType /\ LateInv
    OBVIOUS
  <1>1. CodingJobs \subseteq Jobs /\ NoJob \notin Jobs
    BY StoreAssumption, WorkerAssumption
  <1>2. \A j \in CodingJobs : row[j].status = "absent" /\ edits[j] = 0
    BY <1>1 DEF WorkerInit, Init, Absent
  <1>3. \A j \in CodingJobs, w \in Workers : job[w] # j
    BY <1>1 DEF WorkerInit
  <1>4. CodingInv
    BY <1>2, <1>3 DEF CodingInv
  <1>5. StepFitsType /\ LateInv
    BY DEF WorkerInit, StepFitsType, LateInv
  <1>6. QED BY <1>4, <1>5

\* Of all processes that ever had a job, and however often leases lapse, at most
\* one edits a file for it without its lease, and only one file.
THEOREM WorkersEditLateOnce == WorkerSpec => []OneLateEdit
  <1>1. LateInv => OneLateEdit
    BY DEF LateInv, OneLateEdit
  <1>2. QED BY <1>1, CodingInvInit, CodingInvStep, StepFitsTypeStep, LateInvStep,
               WorkersConsistent, PTL DEF WorkerSpec

(***************************************************************************)
(* Successes are applied.  While a process holds the lease, the trace the  *)
(* row links is its own attempt; a success that it has to report is an     *)
(* index update it has committed.  So the row it writes is true.           *)
(***************************************************************************)
ApplyInv ==
    /\ \A w \in Workers : Busy(w) /\ pc[w] # "linking" /\ Holds(w, row[job[w]])
          => row[job[w]].trace = attempt[w]
    /\ \A w \in Workers : outcome[w] = "succeeded" =>
          /\ pc[w] \in {"releasing", "reporting"}
          /\ TypeOf[job[w]] = "index" => attempt[w] \in applied[job[w]]
    /\ SuccessWasApplied

\* A row that is given to no process, links no other trace and does not succeed.
SameHolder(j) ==
    /\ \A w \in Workers : Holds(w, row'[j]) => Holds(w, row[j]) /\ row'[j].trace = row[j].trace
    /\ row'[j].status = "succeeded" => row[j].status = "succeeded" /\ row'[j].trace = row[j].trace

LEMMA SameHolderSteps ==
    ASSUME StoreInv,
           \/ \E w \in Workers, j \in Jobs :
                 RenewLease(w, j) \/ MarkSideEffectStarted(w, j) \/ MarkCancelled(w, j)
                 \/ MarkFailed(w, j)
           \/ \E j \in Jobs : Create(j) \/ RequestCancel(j)
           \/ RecoverExpired \/ Tick \/ UNCHANGED row
    PROVE  \A j \in Jobs : SameHolder(j)
  <1>0. row \in [Jobs -> Row] /\ \A j \in Jobs : row[j] \in Row
    BY DEF StoreInv, TypeOK
  <1> SUFFICES ASSUME NEW k \in Jobs PROVE SameHolder(k)
    OBVIOUS
  <1>a. row'[k] = row[k] => SameHolder(k)
    BY DEF SameHolder
  <1>1. ASSUME NEW w \in Workers, NEW j \in Jobs, RenewLease(w, j) PROVE SameHolder(k)
    BY <1>0, <1>a, <1>1 DEF RenewLease, SameHolder, Holds, Row
  <1>2. ASSUME NEW w \in Workers, NEW j \in Jobs, MarkSideEffectStarted(w, j)
        PROVE  SameHolder(k)
    BY <1>0, <1>a, <1>2 DEF MarkSideEffectStarted, SameHolder, Holds, Row
  <1>3. ASSUME NEW w \in Workers, NEW j \in Jobs, MarkCancelled(w, j) \/ MarkFailed(w, j)
        PROVE  SameHolder(k)
    <2>0. \A status, error, result :
             row' = [row EXCEPT ![j] = Concluded(row[j], status, error, result)]
               => row'[k] = row[k] \/ row'[k].status = status
      BY ONLY <1>0, j \in Jobs, k \in Jobs DEF Concluded, Unleased, Row
    <2>1. row'[k] = row[k] \/ row'[k].status \in {"cancelled", "failed"}
      <3>1. CASE MarkCancelled(w, j)
        <4>1. row' = [row EXCEPT ![j] = Concluded(row[j], "cancelled", "none", FALSE)]
          BY <3>1 DEF MarkCancelled
        <4>2. QED BY ONLY <2>0, <4>1
      <3>2. CASE MarkFailed(w, j)
        <4>1. row' = [row EXCEPT ![j] = Concluded(row[j], "failed", "reported", FALSE)]
          BY <3>2 DEF MarkFailed
        <4>2. QED BY ONLY <2>0, <4>1
      <3>3. QED BY <1>3, <3>1, <3>2
    <2>2. QED BY <1>a, <2>1 DEF SameHolder, Holds
  <1>4. ASSUME NEW j \in Jobs, Create(j) PROVE SameHolder(k)
    <2>1. row'[k] = row[k] \/ row'[k] = [Absent EXCEPT !.status = "queued"]
      BY <1>0, <1>4 DEF Create
    <2>2. QED BY <1>a, <2>1 DEF SameHolder, Holds, Absent
  <1>5. ASSUME NEW j \in Jobs, RequestCancel(j) PROVE SameHolder(k)
    <2>1. row'[k] = row[k] \/ row'[k] = CancelRequested(row[k])
      BY <1>0, <1>5 DEF RequestCancel
    <2>2. QED BY <1>0, <1>a, <2>1 DEF CancelRequested, SameHolder, Holds, Row
  <1>6. CASE RecoverExpired
    <2>1. row'[k] = row[k] \/ row'[k] = Recovered(k, row[k])
      BY <1>0, <1>6 DEF RecoverExpired
    <2>2. Recovered(k, row[k]).status \in {"failed", "cancelled", "queued"}
      BY <1>0 DEF Recovered, Unleased, Row
    <2>3. QED BY <1>a, <2>1, <2>2 DEF SameHolder, Holds
  <1>7. CASE Tick
    BY <1>0, <1>7 DEF Tick, SameHolder, Holds, Row
  <1>8. CASE UNCHANGED row
    BY <1>a, <1>8
  <1>9. QED BY <1>1, <1>2, <1>3, <1>4, <1>5, <1>6, <1>7, <1>8

\* Such a step keeps ApplyInv if no process takes a job, starts its job without
\* linking its trace, or succeeds without having applied it.
LEMMA ApplyQuiet ==
    ASSUME WorkerInv, ApplyInv, \A j \in Jobs : SameHolder(j),
           \A j \in Jobs : applied[j] \subseteq applied'[j],
           \A v \in Workers : Busy(v)' /\ pc'[v] # "linking" =>
               Busy(v) /\ pc[v] # "linking" /\ job'[v] = job[v] /\ attempt'[v] = attempt[v],
           \A v \in Workers : outcome'[v] = "succeeded" =>
               \/ /\ outcome[v] = "succeeded" /\ job'[v] = job[v] /\ attempt'[v] = attempt[v]
                  /\ pc'[v] \in {"releasing", "reporting"}
               \/ /\ pc'[v] \in {"releasing", "reporting"}
                  /\ TypeOf[job'[v]] = "index" => attempt'[v] \in applied'[job'[v]]
    PROVE  ApplyInv'
  <1>0. \A w \in Workers : Busy(w) => job[w] \in Jobs
    BY DEF WorkerInv, JobAtHand
  <1>1. \A w \in Workers : Busy(w)' /\ pc'[w] # "linking" /\ Holds(w, row'[job'[w]])
          => row'[job'[w]].trace = attempt'[w]
    BY <1>0 DEF ApplyInv, SameHolder
  <1>2. ASSUME NEW w \in Workers, outcome'[w] = "succeeded"
        PROVE  /\ pc'[w] \in {"releasing", "reporting"}
               /\ TypeOf[job'[w]] = "index" => attempt'[w] \in applied'[job'[w]]
    <2>1. outcome[w] = "succeeded" => /\ TypeOf[job[w]] = "index" => attempt[w] \in applied[job[w]]
                                      /\ job[w] \in Jobs
      BY <1>0 DEF ApplyInv, Busy
    <2>2. QED BY <1>2, <2>1
  <1>3. SuccessWasApplied'
    BY DEF SameHolder, ApplyInv, SuccessWasApplied
  <1>4. QED BY <1>1, <1>2, <1>3 DEF ApplyInv

LEMMA ApplyInvStep ==
    WorkerInv /\ StepFitsType /\ ApplyInv /\ [WorkerNext]_workerVars => ApplyInv'
  <1> SUFFICES ASSUME WorkerInv, StepFitsType, ApplyInv, [WorkerNext]_workerVars
               PROVE  ApplyInv'
    OBVIOUS
  <1>0. /\ pc \in [Workers -> Steps] /\ job \in [Workers -> Jobs \cup {NoJob}]
        /\ attempt \in [Workers -> 0..MaxAttempts]
        /\ outcome \in [Workers -> {"none", "succeeded", "failed", "cancelled"}]
        /\ applied \in [Jobs -> SUBSET (1..MaxAttempts)]
        /\ row \in [Jobs -> Row] /\ StoreInv
    BY DEF WorkerInv, WorkerTypeOK, TypeOK
  <1>b. \A w \in Workers : Busy(w) => job[w] \in Jobs /\ attempt[w] \in 1..MaxAttempts
    BY DEF WorkerInv, JobAtHand
  <1>s. \A w \in Workers : outcome[w] = "succeeded" => pc[w] \in {"releasing", "reporting"}
    BY DEF ApplyInv
  <1> USE DEF Call
  <1>1. ASSUME NEW w \in Workers, Poll(w) PROVE ApplyInv'
    <2>1. /\ pc[w] = "idle" /\ UNCHANGED <<job, attempt, outcome, applied>>
          /\ \/ pc' = pc
             \/ \E step \in {"exited", "claiming"} : pc' = [pc EXCEPT ![w] = step]
          /\ RecoverExpired \/ UNCHANGED row
      BY <1>1 DEF Poll, Goto, effects
    <2>2. \A j \in Jobs : SameHolder(j)
      BY <1>0, <2>1, SameHolderSteps
    <2>3. \A v \in Workers : /\ Busy(v)' => v # w /\ pc'[v] = pc[v] /\ Busy(v)
                             /\ outcome[v] = "succeeded" => v # w /\ pc'[v] = pc[v]
      BY <1>0, <1>s, <2>1 DEF Busy
    <2>4. QED BY <1>s, <2>1, <2>2, <2>3, ApplyQuiet
  <1>2. ASSUME NEW w \in Workers, Claim(w) PROVE ApplyInv'
    <2>1. /\ pc[w] = "claiming" /\ UNCHANGED <<outcome, applied>>
          /\ \E step \in {"idle", "linking"} : pc' = [pc EXCEPT ![w] = step]
          /\ \A v \in Workers \ {w} : job'[v] = job[v] /\ attempt'[v] = attempt[v]
      BY <1>0, <1>2 DEF Claim, Goto, effects
    <2>2. \A v \in Workers : /\ Busy(v)' /\ pc'[v] # "linking" => v # w /\ pc'[v] = pc[v] /\ Busy(v)
                             /\ outcome[v] = "succeeded" => v # w /\ pc'[v] = pc[v]
      BY <1>0, <1>s, <2>1 DEF Busy
    <2>3. CASE UNCHANGED row
      <3>1. \A j \in Jobs : SameHolder(j)
        BY <1>0, <2>3, SameHolderSteps
      <3>2. QED BY <1>s, <2>1, <2>2, <3>1, ApplyQuiet
    <2>4. ASSUME NEW j \in Jobs, ClaimNext(w, j) PROVE ApplyInv'
      <3>1. /\ row'[j].status = "running" /\ row'[j].owner = w
            /\ \A k \in Jobs \ {j} : row'[k] = row[k]
        <4>1. PICK d \in 0..Lease : row' = [row EXCEPT ![j] = Claimed(w, row[j], d)]
          BY <2>4 DEF ClaimNext
        <4>2. row'[j] = Claimed(w, row[j], d) /\ \A k \in Jobs \ {j} : row'[k] = row[k]
          BY <1>0, <4>1
        <4>3. row[j] \in Row
          BY <1>0
        <4>4. QED BY <4>2, <4>3 DEF Claimed, Row
      <3>2. ASSUME NEW v \in Workers, Busy(v)', pc'[v] # "linking", Holds(v, row'[job'[v]])
            PROVE  row'[job'[v]].trace = attempt'[v]
        <4>1. v # w /\ pc'[v] = pc[v] /\ Busy(v) /\ job'[v] = job[v] /\ attempt'[v] = attempt[v]
          BY <2>1, <2>2, <3>2
        <4>2. job[v] # j /\ job[v] \in Jobs
          BY <1>b, <3>1, <3>2, <4>1 DEF Holds
        <4>3. row'[job[v]] = row[job[v]]
          BY <3>1, <4>2
        <4>4. QED BY <3>2, <4>1, <4>3 DEF ApplyInv
      <3>3. \A v \in Workers : outcome'[v] = "succeeded" =>
               /\ pc'[v] \in {"releasing", "reporting"}
               /\ TypeOf[job'[v]] = "index" => attempt'[v] \in applied'[job'[v]]
        BY <2>1, <2>2 DEF ApplyInv
      <3>4. SuccessWasApplied'
        BY <2>1, <3>1 DEF ApplyInv, SuccessWasApplied
      <3>5. QED BY <3>2, <3>3, <3>4 DEF ApplyInv
    <2>5. QED BY <1>2, <2>3, <2>4 DEF Claim
  <1>3. ASSUME NEW w \in Workers, Link(w) PROVE ApplyInv'
    <2>1. pc[w] = "linking" /\ Busy(w) /\ UNCHANGED <<outcome, applied>>
          /\ job[w] \in Jobs /\ attempt[w] \in 1..MaxAttempts
      BY <1>3, <1>b DEF Link, Busy, effects
    <2>a. outcome[w] # "succeeded"
      BY <1>s, <2>1
    <2>2. \A v \in Workers \ {w} : /\ pc'[v] = pc[v] /\ job'[v] = job[v]
                                   /\ attempt'[v] = attempt[v]
      BY <1>0, <1>3 DEF Link, Abandon, Goto
    <2>3. ASSUME pc'[w] = "idle", \A v \in Workers, j \in Jobs : v # w =>
                    (Holds(v, row'[j]) => Holds(v, row[j]) /\ row'[j].trace = row[j].trace),
                 \A j \in Jobs : row'[j].status = "succeeded" =>
                    row[j].status = "succeeded" /\ row'[j].trace = row[j].trace
          PROVE  ApplyInv'
      <3>1. ~Busy(w)'
        BY <2>3 DEF Busy
      <3>2. \A v \in Workers : Busy(v)' => /\ v # w /\ Busy(v) /\ pc'[v] = pc[v]
                                           /\ job'[v] = job[v] /\ attempt'[v] = attempt[v]
                                           /\ job[v] \in Jobs
        BY <1>b, <2>2, <3>1 DEF Busy
      <3>3. \A v \in Workers : Busy(v)' /\ pc'[v] # "linking" /\ Holds(v, row'[job'[v]])
              => row'[job'[v]].trace = attempt'[v]
        BY <2>3, <3>2 DEF ApplyInv
      <3>4. \A v \in Workers : outcome'[v] = "succeeded" =>
               /\ pc'[v] \in {"releasing", "reporting"}
               /\ TypeOf[job'[v]] = "index" => attempt'[v] \in applied'[job'[v]]
        BY <2>1, <2>2, <2>a DEF ApplyInv
      <3>5. SuccessWasApplied'
        BY <2>1, <2>3 DEF ApplyInv, SuccessWasApplied
      <3>6. QED BY <3>3, <3>4, <3>5 DEF ApplyInv
    <2>4. CASE UNCHANGED row /\ Abandon(w)
      <3>1. pc'[w] = "idle"
        BY <1>0, <2>4 DEF Abandon, Goto
      <3>2. QED BY <2>3, <2>4, <3>1
    <2>5. CASE LinkTrace(w, job[w], attempt[w])
      <3>1. /\ row'[job[w]] = [row[job[w]] EXCEPT !.trace = attempt[w]]
            /\ \A k \in Jobs \ {job[w]} : row'[k] = row[k]
            /\ row[job[w]].status = "running" /\ row[job[w]].owner = w
            /\ row[job[w]] \in Row
        BY <1>0, <2>1, <2>5 DEF LinkTrace, Holds
      <3>2. /\ row'[job[w]].status = "running" /\ row'[job[w]].owner = w
            /\ row'[job[w]].trace = attempt[w]
        BY <3>1 DEF Row
      <3>3. CASE Abandon(w)
        <4>1. pc'[w] = "idle"
          BY <1>0, <3>3 DEF Abandon, Goto
        <4>2. QED BY <2>3, <3>1, <3>2, <4>1 DEF Holds
      <3>4. CASE Goto(w, "starting") /\ UNCHANGED <<job, attempt>>
        <4>1. \A v \in Workers \ {w} : Busy(v)' /\ pc'[v] # "linking" /\ Holds(v, row'[job'[v]])
                => row'[job'[v]].trace = attempt'[v]
          <5>1. \A v \in Workers \ {w} : Busy(v)' => Busy(v) /\ job[v] \in Jobs
            BY <1>b, <2>2 DEF Busy
          <5>2. \A v \in Workers \ {w} : Holds(v, row'[job[v]]) => job[v] # job[w]
            BY <3>2 DEF Holds
          <5>3. QED BY <2>2, <3>1, <5>1, <5>2 DEF ApplyInv
        <4>2. row'[job'[w]].trace = attempt'[w]
          BY <3>2, <3>4
        <4>3. \A v \in Workers : outcome'[v] = "succeeded" =>
                 /\ pc'[v] \in {"releasing", "reporting"}
                 /\ TypeOf[job'[v]] = "index" => attempt'[v] \in applied'[job'[v]]
          BY <2>1, <2>2, <2>a DEF ApplyInv
        <4>4. SuccessWasApplied'
          BY <2>1, <3>1, <3>2 DEF ApplyInv, SuccessWasApplied
        <4>5. QED BY <4>1, <4>2, <4>3, <4>4 DEF ApplyInv
      <3>5. QED BY <1>3, <2>1, <3>1, <3>3, <3>4 DEF Link, Holds
    <2>6. QED BY <1>3, <2>4, <2>5 DEF Link
  <1>4. ASSUME NEW w \in Workers, Heartbeat(w) \/ LateRenewal(w) PROVE ApplyInv'
    <2>1. /\ UNCHANGED <<pc, job, attempt, outcome, applied>>
          /\ UNCHANGED row \/ \E j \in Jobs : RenewLease(w, j)
      BY <1>4 DEF Heartbeat, LateRenewal, local, effects, WorkerInv, WorkerTypeOK
    <2>2. \A j \in Jobs : SameHolder(j)
      BY <1>0, <2>1, SameHolderSteps
    <2>3. QED BY <1>s, <2>1, <2>2, ApplyQuiet DEF Busy
  <1>5. ASSUME NEW w \in Workers, Apply(w) PROVE ApplyInv'
    <2>1. /\ pc[w] = "applying" /\ Busy(w) /\ UNCHANGED <<row, job, attempt>>
          /\ job[w] \in Jobs /\ attempt[w] \in 1..MaxAttempts
          /\ pc' = [pc EXCEPT ![w] = "releasing"]
      BY <1>5, <1>b DEF Apply, Conclude, Critical, Goto, Busy
    <2>2. \/ /\ outcome' = [outcome EXCEPT ![w] = "succeeded"]
             /\ applied' = [applied EXCEPT ![job[w]] = @ \cup {attempt[w]}]
          \/ /\ outcome' = [outcome EXCEPT ![w] = "failed"]
             /\ \/ applied' = applied
                \/ applied' = [applied EXCEPT ![job[w]] = @ \cup {attempt[w]}]
      BY <1>5 DEF Apply, Conclude
    <2>3. \A j \in Jobs : SameHolder(j)
      BY <1>0, <2>1, SameHolderSteps
    <2>4. \A j \in Jobs : applied[j] \subseteq applied'[j]
      BY <1>0, <2>1, <2>2
    <2>5. \A v \in Workers : Busy(v)' /\ pc'[v] # "linking" => Busy(v) /\ pc[v] # "linking"
      BY <1>0, <2>1 DEF Busy
    <2>6. \A v \in Workers \ {w} : outcome'[v] = outcome[v] /\ pc'[v] = pc[v]
      BY <1>0, <2>1, <2>2
    <2>7. outcome'[w] = "succeeded" => attempt[w] \in applied'[job[w]] /\ pc'[w] = "releasing"
      BY <1>0, <2>1, <2>2
    <2>8. QED BY <1>s, <2>1, <2>3, <2>4, <2>5, <2>6, <2>7, ApplyQuiet
  <1>6. ASSUME NEW w \in Workers, Start(w) \/ Lock(w) \/ Build(w) \/ Query(w) \/ Code(w) \/ Edit(w)
                                  \/ Mark(w)
        PROVE  ApplyInv'
    <2>1. /\ pc[w] \in {"starting", "locking", "building", "querying", "coding", "editing",
                       "marking"}
          /\ Busy(w) /\ UNCHANGED <<job, attempt, applied>>
          /\ job[w] \in Jobs
          /\ \E step \in Steps \ {"linking"} : pc' = [pc EXCEPT ![w] = step]
          /\ \E result \in {"succeeded", "failed", "cancelled"} :
                outcome' = outcome \/ outcome' = [outcome EXCEPT ![w] = result]
      <3>1. Busy(w) /\ job[w] \in Jobs
        BY <1>6, <1>b DEF Start, Lock, Build, Query, Code, Edit, Mark, Busy
      <3>2. CASE Start(w) \/ Lock(w) \/ Build(w) \/ Query(w)
        BY <3>1, <3>2 DEF Start, Lock, Build, Query, Checkpoint, Conclude, Critical, Goto, Steps,
                          effects
      <3>3. CASE Code(w) \/ Edit(w) \/ Mark(w)
        BY <3>1, <3>3 DEF Code, Edit, Mark, Checkpoint, Conclude, Critical, Goto, Steps, effects
      <3>4. QED BY <1>6, <3>2, <3>3
    <2>2. outcome'[w] = "succeeded" => /\ TypeOf[job[w]] # "index"
                                       /\ pc'[w] \in {"releasing", "reporting"}
      <3>0. outcome[w] # "succeeded"
        BY <1>s, <2>1
      <3>1. CASE Query(w)
        BY <1>0, <3>0, <3>1 DEF Query, Conclude, Critical, Goto, StepFitsType
      <3>2. CASE Code(w)
        BY <1>0, <3>0, <3>2 DEF Code, Checkpoint, Conclude, Critical, Goto, StepFitsType
      <3>3. CASE Start(w) \/ Lock(w) \/ Build(w) \/ Edit(w) \/ Mark(w)
        BY <1>0, <3>0, <3>3 DEF Start, Lock, Build, Edit, Mark, Checkpoint, Conclude
      <3>4. QED BY <1>6, <3>1, <3>2, <3>3
    <2>3. \A j \in Jobs : SameHolder(j)
      <3>1. UNCHANGED row \/ MarkSideEffectStarted(w, job[w])
        BY <1>6 DEF Start, Lock, Build, Query, Code, Edit, Mark, Checkpoint
      <3>2. QED BY <1>0, <2>1, <3>1, SameHolderSteps
    <2>4. \A v \in Workers : Busy(v)' /\ pc'[v] # "linking" => Busy(v) /\ pc[v] # "linking"
      BY <1>0, <2>1 DEF Busy
    <2>5. \A v \in Workers \ {w} : outcome'[v] = outcome[v] /\ pc'[v] = pc[v]
      BY <1>0, <2>1
    <2>6. QED BY <1>s, <2>1, <2>2, <2>3, <2>4, <2>5, ApplyQuiet
  <1>7. ASSUME NEW w \in Workers, Release(w) PROVE ApplyInv'
    <2>1. /\ pc[w] = "releasing" /\ UNCHANGED <<row, job, attempt, applied>>
          /\ pc' = [pc EXCEPT ![w] = "reporting"]
          /\ outcome' = outcome \/ outcome' = [outcome EXCEPT ![w] = "failed"]
      BY <1>0, <1>7 DEF Release, Goto, effects
    <2>2. \A j \in Jobs : SameHolder(j)
      BY <1>0, <2>1, SameHolderSteps
    <2>3. \A v \in Workers : Busy(v)' /\ pc'[v] # "linking" => Busy(v) /\ pc[v] # "linking"
      BY <1>0, <2>1 DEF Busy
    <2>4. \A v \in Workers : outcome'[v] = "succeeded" => /\ outcome[v] = "succeeded"
                                                          /\ pc'[v] \in {"releasing", "reporting"}
      BY <1>0, <1>s, <2>1
    <2>5. QED BY <2>1, <2>2, <2>3, <2>4, ApplyQuiet
  <1>8. ASSUME NEW w \in Workers, Report(w) \/ Crash(w) PROVE ApplyInv'
    <2>1. /\ \E step \in {"idle", "dead"} : pc' = [pc EXCEPT ![w] = step]
          /\ job' = [job EXCEPT ![w] = NoJob] /\ attempt' = [attempt EXCEPT ![w] = 0]
          /\ outcome' = [outcome EXCEPT ![w] = "none"] /\ UNCHANGED applied
      BY <1>8 DEF Report, Crash, Abandon, Goto, effects
    <2>2. \A v \in Workers : Busy(v)' => /\ v # w /\ Busy(v) /\ pc'[v] = pc[v]
                                         /\ job'[v] = job[v] /\ attempt'[v] = attempt[v]
                                         /\ job[v] \in Jobs
      BY <1>0, <1>b, <2>1 DEF Busy
    <2>3. \A v \in Workers : outcome'[v] = "succeeded" =>
               /\ v # w /\ outcome[v] = "succeeded" /\ pc'[v] = pc[v]
               /\ job'[v] = job[v] /\ attempt'[v] = attempt[v]
      BY <1>0, <2>1
    <2>4. CASE ~(outcome[w] = "succeeded" /\ MarkSucceeded(w, job[w]))
      <3>1. \/ UNCHANGED row
            \/ job[w] \in Jobs /\ (MarkCancelled(w, job[w]) \/ MarkFailed(w, job[w]))
        <4>1. Report(w) => job[w] \in Jobs
          BY <1>b DEF Report, Busy
        <4>2. CASE Report(w)
          BY <2>4, <4>1, <4>2 DEF Report
        <4>3. CASE Crash(w)
          BY <4>3 DEF Crash
        <4>4. QED BY <1>8, <4>2, <4>3
      <3>2. \A j \in Jobs : SameHolder(j)
        BY <1>0, <3>1, SameHolderSteps
      <3>3. QED BY <1>s, <2>1, <2>2, <2>3, <3>2, ApplyQuiet
    <2>5. CASE outcome[w] = "succeeded" /\ MarkSucceeded(w, job[w])
      <3>1. /\ Busy(w) /\ pc[w] # "linking" /\ job[w] \in Jobs /\ Holds(w, row[job[w]])
            /\ row[job[w]].trace = attempt[w]
            /\ TypeOf[job[w]] = "index" => attempt[w] \in applied[job[w]]
        BY <1>b, <2>5 DEF ApplyInv, Busy, MarkSucceeded
      <3>2. /\ row'[job[w]].status = "succeeded" /\ row'[job[w]].trace = attempt[w]
            /\ \A k \in Jobs \ {job[w]} : row'[k] = row[k]
        <4>1. row[job[w]] \in Row
          BY <1>0, <3>1
        <4>2. /\ row'[job[w]] = Concluded(row[job[w]], "succeeded", "none", TRUE)
              /\ \A k \in Jobs \ {job[w]} : row'[k] = row[k]
          BY <1>0, <2>5, <3>1 DEF MarkSucceeded
        <4>3. QED BY <3>1, <4>1, <4>2 DEF Concluded, Unleased, Row
      <3>3. \A v \in Workers : Busy(v)' /\ pc'[v] # "linking" /\ Holds(v, row'[job'[v]])
              => row'[job'[v]].trace = attempt'[v]
        BY <2>2, <3>2 DEF ApplyInv, Holds
      <3>4. \A v \in Workers : outcome'[v] = "succeeded" =>
               /\ pc'[v] \in {"releasing", "reporting"}
               /\ TypeOf[job'[v]] = "index" => attempt'[v] \in applied'[job'[v]]
        BY <2>1, <2>3 DEF ApplyInv
      <3>5. SuccessWasApplied'
        BY <2>1, <3>1, <3>2 DEF ApplyInv, SuccessWasApplied
      <3>6. QED BY <3>3, <3>4, <3>5 DEF ApplyInv
    <2>6. QED BY <2>4, <2>5
  <1>9. ASSUME \/ \E w \in Workers : Sigterm(w) \/ LoseSession(w)
               \/ \E r \in Repos : HttpLock(r)
               \/ Client \/ Time \/ UNCHANGED workerVars
        PROVE  ApplyInv'
    <2>1. /\ UNCHANGED <<pc, job, attempt, outcome, applied>>
          /\ UNCHANGED row \/ Tick \/ \E j \in Jobs : Create(j) \/ RequestCancel(j)
      BY <1>9 DEF Sigterm, LoseSession, HttpLock, Client, Time, workerVars, local, effects
    <2>2. \A j \in Jobs : SameHolder(j)
      BY <1>0, <2>1, SameHolderSteps
    <2>3. QED BY <1>s, <2>1, <2>2, ApplyQuiet DEF Busy
  <1>10. QED BY <1>1, <1>2, <1>3, <1>4, <1>5, <1>6, <1>7, <1>8, <1>9 DEF WorkerNext, MainThread

\* A succeeded index job was applied by the very attempt whose trace its row
\* links, although leases lapse, attempts overlap and commits fail.
THEOREM WorkersSuccessWasApplied == WorkerSpec => []SuccessWasApplied
  <1>1. WorkerInit => ApplyInv
    <2> SUFFICES ASSUME WorkerInit PROVE ApplyInv
      OBVIOUS
    <2>1. \A j \in Jobs : row[j].status = "absent"
      BY DEF WorkerInit, Init, Absent
    <2>2. \A w \in Workers : ~Busy(w) /\ outcome[w] # "succeeded"
      BY DEF WorkerInit, Busy
    <2>3. QED BY <2>1, <2>2 DEF ApplyInv, SuccessWasApplied
  <1>2. ApplyInv => SuccessWasApplied
    BY DEF ApplyInv
  <1>3. QED BY <1>1, <1>2, CodingInvInit, StepFitsTypeStep, ApplyInvStep, WorkersConsistent, PTL
            DEF WorkerSpec

\* Whatever the processes do, the client sees the abstract job lifecycle.
THEOREM WorkersImplementLifecycle == WorkerSpec => ImplementsLifecycle
  BY WorkersUseStore, StoreImplementsLifecycle, PTL
=============================================================================
