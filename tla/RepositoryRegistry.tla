------------------------- MODULE RepositoryRegistry -------------------------
(***************************************************************************)
(* Which calls may work in which directory.  Three mechanisms overlap:     *)
(*   - registration (api/store.py) binds a directory to a repository only  *)
(*     if it overlaps no other binding, under a transaction-level advisory *)
(*     lock, statement by statement at READ COMMITTED;                     *)
(*   - WorkspacePolicy.operation (api/services/repositories.py) keeps the  *)
(*     calls of one process out of overlapping directories;                *)
(*   - the execution lock (jobs/locks.py) serialises the index and coding  *)
(*     calls of all processes, but is keyed by the repository and knows    *)
(*     nothing of directories.                                             *)
(* A name stands for its repository: names are unique and never reassigned.*)
(***************************************************************************)
EXTENDS Sequences, Naturals

CONSTANTS Calls,       \* requests in flight; one that ended may be used again
          NoCall,
          Processes,   \* API and worker processes
          HostOf,      \* HostOf[c]: the process that serves c
          Names,       \* repository names
          Components,  \* directory names
          Dirs,        \* directories as sequences of components; <<>> is the root
          NoRecord,    \* no repository has the name
          Unbound      \* workspace_relative_path IS NULL

ASSUME RegistryAssumption ==
    /\ NoCall \notin Calls
    /\ HostOf \in [Calls -> Processes]
    /\ Dirs \subseteq Seq(Components)
    /\ NoRecord \notin Dirs /\ Unbound \notin Dirs /\ NoRecord # Unbound

VARIABLES bound,     \* bound[n]: the workspace binding of the repository n
          call,      \* call[c]: the local state of the call c
          active,    \* active[h]: WorkspacePolicy._active of process h
          registrar, \* the transaction that holds the registration lock
          lock,      \* lock[n]: the session that holds the execution lock of n
          lost       \* calls whose lock session died under them

vars == <<bound, call, active, registrar, lock, lost>>

\* Mutant: only a directory inside a bound one is refused.
OverlapInside(a, b) == Len(b) <= Len(a) /\ SubSeq(a, 1, Len(b)) = b
\* workspace_paths_overlap.
Overlap(a, b) ==
    LET shorter == IF Len(a) <= Len(b) THEN Len(a) ELSE Len(b)
    IN SubSeq(a, 1, shorter) = SubSeq(b, 1, shorter)

\* path.is_relative_to(active) or active.is_relative_to(path)
Relative(a, b) == Len(b) <= Len(a) /\ SubSeq(a, 1, Len(b)) = b
\* Mutant: only the same directory is refused.
BusySame(h, d) == d \in active[h]
Busy(h, d) == \E a \in active[h] : Relative(d, a) \/ Relative(a, d)

Idle == [at |-> "idle", kind |-> "none", name |-> NoRecord, dir |-> <<>>]
At(c, step) == call[c].at = step
Goto(c, step) == call' = [call EXCEPT ![c].at = step]

Init ==
    /\ bound = [n \in Names |-> NoRecord]
    /\ call = [c \in Calls |-> Idle]
    /\ active = [h \in Processes |-> {}]
    /\ registrar = NoCall
    /\ lock = [n \in Names |-> NoCall]
    /\ lost = {}

\* Mutant: a session-level registration lock outlives the transaction.
LeaveRegistrar(c) ==
    /\ call' = [call EXCEPT ![c] = Idle]
    /\ active' = [active EXCEPT ![HostOf[c]] = @ \ {call[c].dir}]
    /\ lock' = [n \in Names |-> IF lock[n] = c THEN NoCall ELSE lock[n]]
    /\ lost' = lost \ {c}
    /\ UNCHANGED registrar
\* The context managers unwind: locks, transaction, then the active directory.
Leave(c) ==
    /\ call' = [call EXCEPT ![c] = Idle]
    /\ active' = [active EXCEPT ![HostOf[c]] = @ \ {call[c].dir}]
    /\ registrar' = IF registrar = c THEN NoCall ELSE registrar
    /\ lock' = [n \in Names |-> IF lock[n] = c THEN NoCall ELSE lock[n]]
    /\ lost' = lost \ {c}
-----------------------------------------------------------------------------
(* RepositoryService.locate and WorkspacePolicy.operation. *)

\* POST /repositories with a resolved directory.
AskRegister(c, n, d) ==
    /\ At(c, "idle")
    /\ call' = [call EXCEPT ![c] = [at |-> "entering", kind |-> "register",
                                    name |-> n, dir |-> d]]
    /\ UNCHANGED <<bound, active, registrar, lock, lost>>

\* locate() of an index or coding call ("mutate") or of a rag or agent call
\* ("read"); without a binding the call ends here.
Locate(c, kind, n) ==
    /\ At(c, "idle")
    /\ bound[n] \in Dirs
    /\ call' = [call EXCEPT ![c] = [at |-> "entering", kind |-> kind,
                                    name |-> n, dir |-> bound[n]]]
    /\ UNCHANGED <<bound, active, registrar, lock, lost>>

\* workspace.operation: 409 repository_busy, or the directory becomes active.
Enter(c) ==
    /\ At(c, "entering")
    /\ IF Busy(HostOf[c], call[c].dir)
         THEN call' = [call EXCEPT ![c] = Idle] /\ UNCHANGED active
         ELSE /\ active' = [active EXCEPT ![HostOf[c]] = @ \cup {call[c].dir}]
              /\ Goto(c, CASE call[c].kind = "register" -> "locking"
                           [] call[c].kind = "mutate"   -> "holding"
                           [] OTHER                     -> "working")
    /\ UNCHANGED <<bound, registrar, lock, lost>>

\* execution_lock.hold: pg_try_advisory_lock never waits.
Hold(c) ==
    /\ At(c, "holding")
    /\ IF lock[call[c].name] = NoCall
         THEN /\ lock' = [lock EXCEPT ![call[c].name] = c]
              /\ Goto(c, "working")
              /\ UNCHANGED <<active, registrar, lost>>
         ELSE Leave(c)
    /\ UNCHANGED bound

\* The operation returns or raises.
Finish(c) == At(c, "working") /\ Leave(c) /\ UNCHANGED bound
-----------------------------------------------------------------------------
(* PostgresRepositoryStore.register, statement by statement. *)

\* Mutant: the registration lock is not taken.
LockRegistrationNot(c) ==
    /\ At(c, "locking")
    /\ Goto(c, "naming")
    /\ UNCHANGED <<bound, active, registrar, lock, lost>>
\* pg_advisory_xact_lock waits, and is released when the transaction ends.
LockRegistration(c) ==
    /\ At(c, "locking")
    /\ registrar = NoCall
    /\ registrar' = c
    /\ Goto(c, "naming")
    /\ UNCHANGED <<bound, active, lock, lost>>

\* A known name is either bound to this directory already or a conflict.
ReadName(c) ==
    /\ At(c, "naming")
    /\ IF bound[call[c].name] = NoRecord
         THEN Goto(c, "comparing") /\ UNCHANGED <<active, registrar, lock, lost>>
         ELSE Leave(c)
    /\ UNCHANGED bound

\* 409 workspace_path_conflict if any binding overlaps.
ReadPaths(c) ==
    /\ At(c, "comparing")
    /\ IF \E n \in Names : bound[n] \in Dirs /\ Overlap(call[c].dir, bound[n])
         THEN Leave(c)
         ELSE Goto(c, "inserting") /\ UNCHANGED <<active, registrar, lock, lost>>
    /\ UNCHANGED bound

\* flush and commit; a name that appeared meanwhile violates uq_repositories_name.
Insert(c) ==
    /\ At(c, "inserting")
    /\ IF bound[call[c].name] = NoRecord
         THEN bound' = [bound EXCEPT ![call[c].name] = call[c].dir]
         ELSE UNCHANGED bound
    /\ Leave(c)
-----------------------------------------------------------------------------
(* The environment. *)

\* Any statement or step fails: the transaction rolls back, the call ends.
Fail(c) ==
    /\ call[c].at \notin {"idle", "entering"}
    /\ Leave(c)
    /\ UNCHANGED bound

\* A process dies with all its calls, its sessions and its active set.
Crash(h) ==
    LET mine == {c \in Calls : HostOf[c] = h} IN
    /\ call' = [c \in Calls |-> IF c \in mine THEN Idle ELSE call[c]]
    /\ active' = [active EXCEPT ![h] = {}]
    /\ registrar' = IF registrar \in mine THEN NoCall ELSE registrar
    /\ lock' = [n \in Names |-> IF lock[n] \in mine THEN NoCall ELSE lock[n]]
    /\ lost' = lost \ mine
    /\ UNCHANGED bound

\* PostgreSQL drops the session of an execution lock while the call goes on.
\* The registration lock dies with its own transaction: that is Fail.
LoseSession(n) ==
    /\ lock[n] # NoCall
    /\ lock' = [lock EXCEPT ![n] = NoCall]
    /\ lost' = lost \cup {lock[n]}
    /\ UNCHANGED <<bound, call, active, registrar>>

\* persist_repository_snapshot, outside the API: a repository without a binding.
PersistUnbound(n) ==
    /\ bound[n] = NoRecord
    /\ bound' = [bound EXCEPT ![n] = Unbound]
    /\ UNCHANGED <<call, active, registrar, lock, lost>>

Proceed(c) ==
    \/ Enter(c) \/ Hold(c) \/ Finish(c)
    \/ LockRegistration(c) \/ ReadName(c) \/ ReadPaths(c) \/ Insert(c)

Ask(c) ==
    \E n \in Names :
        \/ \E d \in Dirs : AskRegister(c, n, d)
        \/ \E kind \in {"mutate", "read"} : Locate(c, kind, n)

Next ==
    \/ \E c \in Calls : Ask(c) \/ Proceed(c) \/ Fail(c)
    \/ \E h \in Processes : Crash(h)
    \/ \E n \in Names : LoseSession(n) \/ PersistUnbound(n)

Spec == Init /\ [][Next]_vars

\* Threads run, and PostgreSQL grants a lock to those who wait for it in turn.
FairSpec ==
    /\ Spec
    /\ \A c \in Calls : WF_vars(Proceed(c)) /\ SF_vars(LockRegistration(c))
-----------------------------------------------------------------------------
(* Properties. *)

Steps == {"idle", "entering", "locking", "naming", "comparing", "inserting",
          "holding", "working"}

LocalStates == [at : Steps, kind : {"none", "register", "mutate", "read"},
                name : Names \cup {NoRecord}, dir : Dirs \cup {<<>>}]

RegistryTypeOK ==
    /\ bound \in [Names -> Dirs \cup {NoRecord, Unbound}]
    /\ call \in [Calls -> LocalStates]
    /\ active \in [Processes -> SUBSET Dirs]
    /\ registrar \in Calls \cup {NoCall}
    /\ lock \in [Names -> Calls \cup {NoCall}]
    /\ lost \subseteq Calls

\* The directories of two repositories never overlap, however registrations,
\* failures and crashes interleave: api/store.py 99 relies on the lock.
BindingsDisjoint ==
    \A m, n \in Names :
        m # n /\ bound[m] \in Dirs /\ bound[n] \in Dirs => ~Overlap(bound[m], bound[n])

\* A bound directory is never exchanged: calls use the binding they read before
\* they took any lock.
BindingFixed ==
    [][\A n \in Names : bound[n] # NoRecord => bound'[n] = bound[n]]_vars

\* Index and coding calls of all processes never work in overlapping directories
\* at once, unless a lock session died: locks are keyed by repository, so this
\* rests on the disjointness of bindings (workspace_paths_overlap's docstring).
MutationsDisjoint ==
    \A c, d \in Calls :
        /\ c # d /\ At(c, "working") /\ At(d, "working")
        /\ call[c].kind = "mutate" /\ call[d].kind = "mutate"
        /\ Overlap(call[c].dir, call[d].dir)
        => c \in lost \/ d \in lost

\* Within one process calls of any kind keep apart, and what is active is what
\* the calls inside workspace.operation entered: no directory stays busy.
Inside(c) == call[c].at \notin {"idle", "entering"}
ProcessExclusive ==
    \A h \in Processes :
        LET mine == {c \in Calls : HostOf[c] = h /\ Inside(c)} IN
        /\ active[h] = {call[c].dir : c \in mine}
        /\ \A c, d \in mine : c # d => ~Overlap(call[c].dir, call[d].dir)

\* A registration that waits for the lock gets its answer: whoever holds it is
\* inside one short transaction and waits for nothing.
Answered(c) == At(c, "locking") ~> At(c, "idle")
=============================================================================
