--------------------- MODULE RepositoryRegistry_proofs ---------------------
(***************************************************************************)
(* What TLAPS proves of the registry, for any calls, processes, names and  *)
(* directories: bindings are disjoint and fixed, therefore locks that are  *)
(* keyed by repository keep mutations of directories apart, and a process  *)
(* keeps its own calls apart whatever the registry says.                   *)
(***************************************************************************)
EXTENDS RepositoryRegistry, TLAPS

\* What a registration has established under the lock.
Registering ==
    /\ \A c \in Calls : call[c].at \in {"naming", "comparing", "inserting"} => registrar = c
    /\ \A c \in Calls : call[c].at \in {"locking", "naming", "comparing", "inserting"} =>
          call[c].dir \in Dirs /\ call[c].name \in Names
    /\ \A c \in Calls : At(c, "inserting") =>
          \A n \in Names : bound[n] \in Dirs => ~Overlap(call[c].dir, bound[n])

\* A mutating call works where its repository is bound, and holds its lock or
\* has lost it.
Mutating ==
    \A c \in Calls :
        /\ call[c].at # "idle" => call[c].dir \in Dirs /\ call[c].name \in Names
        /\ call[c].kind = "mutate" => call[c].at # "idle" /\ bound[call[c].name] = call[c].dir
        /\ At(c, "working") /\ call[c].kind = "mutate" =>
              lock[call[c].name] = c \/ c \in lost

RegistryInv == RegistryTypeOK /\ Registering /\ Mutating /\ BindingsDisjoint
-----------------------------------------------------------------------------
\* workspace_paths_overlap does not depend on the order of its arguments.
LEMMA OverlapSymmetric ==
  ASSUME NEW a \in Dirs, NEW b \in Dirs PROVE Overlap(a, b) <=> Overlap(b, a)
  <1>1. Len(a) \in Nat /\ Len(b) \in Nat
    BY RegistryAssumption
  <1>2. CASE Len(a) = Len(b)
    BY <1>2 DEF Overlap
  <1>3. CASE Len(a) < Len(b)
    BY <1>1, <1>3 DEF Overlap
  <1>4. CASE Len(b) < Len(a)
    BY <1>1, <1>4 DEF Overlap
  <1> QED BY <1>1, <1>2, <1>3, <1>4

\* The two notions of overlapping directories, of the registry and of a process,
\* are the same.
LEMMA OverlapIsRelative ==
  ASSUME NEW a \in Dirs, NEW b \in Dirs
  PROVE  Overlap(a, b) <=> Relative(a, b) \/ Relative(b, a)
  <1>1. /\ Len(a) \in Nat /\ Len(b) \in Nat
        /\ SubSeq(a, 1, Len(a)) = a /\ SubSeq(b, 1, Len(b)) = b
    BY RegistryAssumption
  <1>2. CASE Len(a) <= Len(b)
    BY <1>1, <1>2 DEF Overlap, Relative
  <1>3. CASE ~(Len(a) <= Len(b))
    BY <1>1, <1>3 DEF Overlap, Relative
  <1> QED BY <1>2, <1>3
-----------------------------------------------------------------------------
\* What an update of one call's position does.
LEMMA GotoStep ==
  ASSUME RegistryTypeOK, NEW c \in Calls, NEW step \in Steps, Goto(c, step)
  PROVE  /\ call' \in [Calls -> LocalStates]
         /\ \A d \in Calls \ {c} : call'[d] = call[d]
         /\ call'[c].at = step /\ call'[c].kind = call[c].kind
         /\ call'[c].name = call[c].name /\ call'[c].dir = call[c].dir
  <1>1. call \in [Calls -> LocalStates] /\ call[c] \in LocalStates
    BY DEF RegistryTypeOK
  <1>2. [call[c] EXCEPT !.at = step] \in LocalStates
    BY <1>1 DEF LocalStates
  <1>3. call' = [call EXCEPT ![c] = [call[c] EXCEPT !.at = step]]
    BY DEF Goto
  <1> QED BY <1>1, <1>2, <1>3 DEF LocalStates

\* What the end of a call does.
LEMMA LeaveStep ==
  ASSUME RegistryTypeOK, NEW c \in Calls, Leave(c)
  PROVE  /\ call' \in [Calls -> LocalStates] /\ active' \in [Processes -> SUBSET Dirs]
         /\ registrar' \in Calls \cup {NoCall} /\ lock' \in [Names -> Calls \cup {NoCall}]
         /\ lost' \subseteq Calls
         /\ call'[c].at = "idle" /\ call'[c].kind = "none"
         /\ \A d \in Calls \ {c} :
               /\ call'[d] = call[d]
               /\ registrar = d => registrar' = d
               /\ d \in lost => d \in lost'
               /\ \A n \in Names : lock[n] = d => lock'[n] = d
  <1>1. Idle \in LocalStates
    BY DEF Idle, LocalStates, Steps
  <1>2. HostOf[c] \in Processes /\ NoCall \notin Calls
    BY RegistryAssumption
  <1> QED BY <1>1, <1>2 DEF RegistryTypeOK, Leave, Idle

LEMMA TypeInit == Init => RegistryInv
  <1> SUFFICES ASSUME Init PROVE RegistryInv
    OBVIOUS
  <1> USE DEF Init
  <1>1. Idle \in LocalStates
    BY DEF Idle, LocalStates, Steps
  <1>2. \A c \in Calls : call[c].at = "idle" /\ call[c].kind = "none"
    BY DEF Idle
  <1>3. RegistryTypeOK
    BY <1>1 DEF RegistryTypeOK
  <1>4. Registering /\ Mutating
    BY <1>2 DEF Registering, Mutating, At
  <1>5. BindingsDisjoint
    BY RegistryAssumption DEF BindingsDisjoint
  <1> QED BY <1>3, <1>4, <1>5 DEF RegistryInv

\* A call that ends, and leaves the bindings alone, disturbs no other call.
LEMMA LeaveInv ==
  ASSUME RegistryInv, NEW c \in Calls, Leave(c), UNCHANGED bound PROVE RegistryInv'
  <1> USE DEF RegistryInv
  <1>1. RegistryTypeOK'
    BY LeaveStep DEF RegistryTypeOK
  <1>2. Registering'
    BY LeaveStep DEF Registering, At
  <1>3. Mutating'
    <2> SUFFICES ASSUME NEW d \in Calls
                 PROVE  /\ call'[d].at # "idle" => call'[d].dir \in Dirs /\ call'[d].name \in Names
                        /\ call'[d].kind = "mutate" =>
                                  call'[d].at # "idle" /\ bound'[call'[d].name] = call'[d].dir
                        /\ call'[d].at = "working" /\ call'[d].kind = "mutate" =>
                              lock'[call'[d].name] = d \/ d \in lost'
      BY DEF Mutating, At
    <2>1. CASE d = c
      BY <2>1, LeaveStep
    <2>2. CASE d # c
      BY <2>2, LeaveStep DEF Mutating, At
    <2> QED BY <2>1, <2>2
  <1>4. BindingsDisjoint'
    BY DEF BindingsDisjoint
  <1> QED BY <1>1, <1>2, <1>3, <1>4

\* Every step of the registry keeps the invariant.
LEMMA RegistryInvStep == RegistryInv /\ [Next]_vars => RegistryInv'
  <1> SUFFICES ASSUME RegistryInv, [Next]_vars PROVE RegistryInv'
    OBVIOUS
  <1> USE DEF RegistryInv
  <1>1. ASSUME NEW c \in Calls, NEW n \in Names, NEW d \in Dirs, NEW kind,
               \/ kind = "register"
               \/ kind \in {"mutate", "read"} /\ bound[n] = d,
               At(c, "idle"),
               call' = [call EXCEPT ![c] = [at |-> "entering", kind |-> kind,
                                            name |-> n, dir |-> d]],
               UNCHANGED <<bound, active, registrar, lock, lost>>
        PROVE  RegistryInv'
    <2>1. /\ [at |-> "entering", kind |-> kind, name |-> n, dir |-> d] \in LocalStates
          /\ call \in [Calls -> LocalStates]
      BY <1>1 DEF LocalStates, Steps, RegistryTypeOK
    <2>2. /\ call'[c].at = "entering" /\ call'[c].kind = kind
          /\ call'[c].name = n /\ call'[c].dir = d
          /\ \A e \in Calls \ {c} : call'[e] = call[e]
      BY <2>1, <1>1
    <2>3. RegistryTypeOK'
      BY <2>1, <1>1 DEF RegistryTypeOK
    <2>4. Registering' /\ Mutating'
      BY <2>2, <1>1 DEF Registering, Mutating, At
    <2> QED BY <2>3, <2>4, <1>1 DEF BindingsDisjoint
  <1>2. ASSUME NEW c \in Calls, Ask(c) PROVE RegistryInv'
    BY <1>1, <1>2 DEF Ask, AskRegister, Locate
  <1>3. ASSUME NEW c \in Calls, Enter(c) PROVE RegistryInv'
    <2>0. call[c].dir \in Dirs /\ call[c].name \in Names /\ HostOf[c] \in Processes
      BY <1>3, RegistryAssumption DEF Enter, At, Mutating
    <2>1. CASE Busy(HostOf[c], call[c].dir)
      <3>1. /\ call'[c].at = "idle" /\ call'[c].kind = "none"
            /\ \A e \in Calls \ {c} : call'[e] = call[e]
            /\ UNCHANGED <<bound, active, registrar, lock, lost>>
        BY <2>1, <1>3 DEF Enter, Idle, RegistryTypeOK
      <3>2. Idle \in LocalStates
        BY DEF Idle, LocalStates, Steps
      <3>3. RegistryTypeOK'
        BY <3>1, <3>2, <2>1, <1>3 DEF Enter, RegistryTypeOK
      <3>4. Registering' /\ Mutating'
        BY <3>1 DEF Registering, Mutating, At
      <3> QED BY <3>1, <3>3, <3>4 DEF BindingsDisjoint
    <2>2. CASE ~Busy(HostOf[c], call[c].dir)
      <3> DEFINE step == CASE call[c].kind = "register" -> "locking"
                           [] call[c].kind = "mutate"   -> "holding"
                           [] OTHER                     -> "working"
      <3>1. /\ Goto(c, step) /\ At(c, "entering") /\ step \in Steps
            /\ step = "working" => call[c].kind # "mutate"
            /\ step \in {"locking", "holding", "working"}
            /\ UNCHANGED <<bound, registrar, lock, lost>>
            /\ active' = [active EXCEPT ![HostOf[c]] = @ \cup {call[c].dir}]
        BY <2>2, <1>3 DEF Enter, Steps
      <3> HIDE DEF step
      <3>2. RegistryTypeOK'
        BY <3>1, <2>0, GotoStep DEF RegistryTypeOK
      <3>3. Registering'
        BY <3>1, <2>0, GotoStep DEF Registering, At
      <3>4. Mutating'
        BY <3>1, <2>0, GotoStep DEF Mutating, At
      <3> QED BY <3>1, <3>2, <3>3, <3>4 DEF BindingsDisjoint
    <2> QED BY <2>1, <2>2
  <1>4. ASSUME NEW c \in Calls, Hold(c) PROVE RegistryInv'
    <2>1. CASE lock[call[c].name] = NoCall
      <3>1. /\ call[c].at = "holding" /\ Goto(c, "working") /\ "working" \in Steps
            /\ lock' = [lock EXCEPT ![call[c].name] = c]
            /\ UNCHANGED <<bound, active, registrar, lost>>
            /\ call[c].name \in Names
        BY <2>1, <1>4 DEF Hold, At, Steps, Mutating
      <3>2. RegistryTypeOK'
        BY <3>1, GotoStep DEF RegistryTypeOK
      <3>3. Registering'
        BY <3>1, GotoStep DEF Registering, At
      <3>4. Mutating'
        BY <3>1, <2>1, GotoStep, RegistryAssumption DEF Mutating, At, RegistryTypeOK
      <3> QED BY <3>1, <3>2, <3>3, <3>4 DEF BindingsDisjoint
    <2> QED BY <2>1, <1>4, LeaveInv DEF Hold
  <1>5. ASSUME NEW c \in Calls, Finish(c) \/ Fail(c) PROVE RegistryInv'
    BY <1>5, LeaveInv DEF Finish, Fail
  <1>6. ASSUME NEW c \in Calls, LockRegistration(c) PROVE RegistryInv'
    <2>1. /\ call[c].at = "locking" /\ Goto(c, "naming") /\ "naming" \in Steps
          /\ registrar = NoCall /\ registrar' = c
          /\ UNCHANGED <<bound, active, lock, lost>>
      BY <1>6 DEF LockRegistration, At, Steps
    <2>2. RegistryTypeOK'
      BY <2>1, GotoStep DEF RegistryTypeOK
    <2>3. Registering'
      BY <2>1, GotoStep, RegistryAssumption DEF Registering, At
    <2>4. Mutating'
      BY <2>1, GotoStep DEF Mutating, At
    <2> QED BY <2>1, <2>2, <2>3, <2>4 DEF BindingsDisjoint
  <1>7. ASSUME NEW c \in Calls, ReadName(c) PROVE RegistryInv'
    <2>1. CASE bound[call[c].name] = NoRecord
      <3>1. /\ call[c].at = "naming" /\ Goto(c, "comparing") /\ "comparing" \in Steps
            /\ UNCHANGED <<bound, active, registrar, lock, lost>>
        BY <2>1, <1>7 DEF ReadName, At, Steps
      <3>2. RegistryTypeOK'
        BY <3>1, GotoStep DEF RegistryTypeOK
      <3>3. Registering' /\ Mutating'
        BY <3>1, GotoStep DEF Registering, Mutating, At
      <3> QED BY <3>1, <3>2, <3>3 DEF BindingsDisjoint
    <2> QED BY <2>1, <1>7, LeaveInv DEF ReadName
  <1>8. ASSUME NEW c \in Calls, ReadPaths(c) PROVE RegistryInv'
    <2>1. CASE \A n \in Names : bound[n] \in Dirs => ~Overlap(call[c].dir, bound[n])
      <3>1. /\ call[c].at = "comparing" /\ Goto(c, "inserting") /\ "inserting" \in Steps
            /\ UNCHANGED <<bound, active, registrar, lock, lost>>
        BY <2>1, <1>8 DEF ReadPaths, At, Steps
      <3>2. RegistryTypeOK'
        BY <3>1, GotoStep DEF RegistryTypeOK
      <3>3. Registering'
        BY <3>1, <2>1, GotoStep DEF Registering, At
      <3>4. Mutating'
        BY <3>1, GotoStep DEF Mutating, At
      <3> QED BY <3>1, <3>2, <3>3, <3>4 DEF BindingsDisjoint
    <2> QED BY <2>1, <1>8, LeaveInv DEF ReadPaths
  <1>9. ASSUME NEW c \in Calls, Insert(c) PROVE RegistryInv'
    <2>1. CASE bound[call[c].name] = NoRecord
      <3> DEFINE m == call[c].name
                 a == call[c].dir
      <3>1. /\ m \in Names /\ a \in Dirs /\ registrar = c /\ At(c, "inserting")
            /\ bound' = [bound EXCEPT ![m] = a] /\ Leave(c)
        BY <2>1, <1>9 DEF Insert, At, Registering
      <3>2. \A n \in Names : bound[n] \in Dirs => ~Overlap(a, bound[n])
        BY <3>1 DEF Registering
      <3>3. RegistryTypeOK'
        BY <3>1, LeaveStep DEF RegistryTypeOK
      <3>4. BindingsDisjoint'
        <4>1. \A n \in Names \ {m} : bound'[n] = bound[n]
          BY <3>1 DEF RegistryTypeOK
        <4>2. bound'[m] = a
          BY <3>1 DEF RegistryTypeOK
        <4> QED BY <4>1, <4>2, <3>1, <3>2, OverlapSymmetric DEF BindingsDisjoint
      <3>5. \A d \in Calls \ {c} : call[d].at \notin {"naming", "comparing", "inserting"}
        BY <3>1 DEF Registering
      <3>6. Registering'
        BY <3>1, <3>5, LeaveStep DEF Registering, At
      <3>7. Mutating'
        <4> SUFFICES ASSUME NEW d \in Calls
                     PROVE  /\ call'[d].at # "idle" =>
                                  call'[d].dir \in Dirs /\ call'[d].name \in Names
                            /\ call'[d].kind = "mutate" =>
                                  call'[d].at # "idle" /\ bound'[call'[d].name] = call'[d].dir
                            /\ call'[d].at = "working" /\ call'[d].kind = "mutate" =>
                                  lock'[call'[d].name] = d \/ d \in lost'
          BY DEF Mutating, At
        <4>1. CASE d = c
          BY <4>1, <3>1, LeaveStep
        <4>2. CASE d # c
          <5>1. call'[d] = call[d]
            BY <4>2, <3>1, LeaveStep
          <5>2. call[d].kind = "mutate" /\ call[d].at # "idle" => call[d].name # m
            BY <2>1, RegistryAssumption DEF Mutating
          <5>3. call[d].at = "idle" => call[d].kind # "mutate"
            BY DEF Mutating
          <5> QED BY <5>1, <5>2, <5>3, <4>2, <3>1, LeaveStep DEF Mutating, At, RegistryTypeOK
        <4> QED BY <4>1, <4>2
      <3> QED BY <3>3, <3>4, <3>6, <3>7
    <2> QED BY <2>1, <1>9, LeaveInv DEF Insert
  <1>10. ASSUME NEW h \in Processes, Crash(h) PROVE RegistryInv'
    <2> DEFINE mine == {c \in Calls : HostOf[c] = h}
    <2>1. Idle \in LocalStates /\ Idle.at = "idle" /\ Idle.kind = "none"
      BY DEF Idle, LocalStates, Steps
    <2>2. /\ call' = [c \in Calls |-> IF c \in mine THEN Idle ELSE call[c]]
          /\ registrar' = IF registrar \in mine THEN NoCall ELSE registrar
          /\ lock' = [n \in Names |-> IF lock[n] \in mine THEN NoCall ELSE lock[n]]
          /\ lost' = lost \ mine /\ UNCHANGED bound
      BY <1>10 DEF Crash
    <2>3. RegistryTypeOK'
      BY <1>10, <2>1, <2>2 DEF Crash, RegistryTypeOK
    <2> HIDE DEF mine
    <2>4. \A c \in Calls : \/ call'[c].at = "idle" /\ call'[c].kind = "none"
                           \/ c \notin mine /\ call'[c] = call[c]
      BY <2>1, <2>2
    <2>5. Registering'
      BY <2>2, <2>4 DEF Registering, At
    <2>6. Mutating'
      BY <2>2, <2>4 DEF Mutating, At
    <2> QED BY <2>2, <2>3, <2>5, <2>6 DEF BindingsDisjoint
  <1>11. ASSUME NEW n \in Names, LoseSession(n) PROVE RegistryInv'
    <2>1. RegistryTypeOK'
      BY <1>11 DEF LoseSession, RegistryTypeOK
    <2>2. Registering'
      BY <1>11 DEF LoseSession, Registering, At
    <2>3. Mutating'
      BY <1>11 DEF LoseSession, Mutating, At, RegistryTypeOK
    <2> QED BY <2>1, <2>2, <2>3, <1>11 DEF LoseSession, BindingsDisjoint
  <1>12. ASSUME NEW n \in Names, PersistUnbound(n) PROVE RegistryInv'
    <2>1. /\ bound[n] = NoRecord /\ bound' = [bound EXCEPT ![n] = Unbound]
          /\ UNCHANGED <<call, active, registrar, lock, lost>>
      BY <1>12 DEF PersistUnbound
    <2>2. \A k \in Names : bound'[k] \in Dirs => bound[k] \in Dirs /\ bound'[k] = bound[k]
      BY <2>1, RegistryAssumption DEF RegistryTypeOK
    <2>3. RegistryTypeOK' /\ BindingsDisjoint'
      BY <2>1, <2>2 DEF RegistryTypeOK, BindingsDisjoint
    <2>4. Registering'
      BY <2>1, <2>2 DEF Registering, At
    <2>5. Mutating'
      BY <2>1, RegistryAssumption DEF Mutating, At, RegistryTypeOK
    <2> QED BY <2>3, <2>4, <2>5
  <1>13. CASE UNCHANGED vars
    BY <1>13 DEF vars, RegistryTypeOK, Registering, Mutating, BindingsDisjoint, At
  <1> QED BY <1>2, <1>3, <1>4, <1>5, <1>6, <1>7, <1>8, <1>9, <1>10, <1>11, <1>12, <1>13
          DEF Next, Proceed
-----------------------------------------------------------------------------
\* The inductive invariant of the registry.
THEOREM RegistryConsistent == Spec => []RegistryInv
  BY TypeInit, RegistryInvStep, PTL DEF Spec

\* Bound directories never overlap (PostgresRepositoryStore.register).
THEOREM RegistryBindingsDisjoint == Spec => []BindingsDisjoint
  <1>1. RegistryInv => BindingsDisjoint
    BY DEF RegistryInv
  <1> QED BY <1>1, RegistryConsistent, PTL

\* Locks that are keyed by repository keep index and coding calls of all
\* processes in disjoint directories while their sessions live.
THEOREM RegistryMutationsDisjoint == Spec => []MutationsDisjoint
  <1>1. RegistryInv => MutationsDisjoint
    <2> SUFFICES ASSUME RegistryInv, NEW c \in Calls, NEW d \in Calls, c # d,
                        At(c, "working"), At(d, "working"),
                        call[c].kind = "mutate", call[d].kind = "mutate",
                        Overlap(call[c].dir, call[d].dir), c \notin lost, d \notin lost
                 PROVE  FALSE
      BY DEF MutationsDisjoint
    <2>1. lock[call[c].name] = c /\ lock[call[d].name] = d
      BY DEF RegistryInv, Mutating
    <2>2. /\ bound[call[c].name] = call[c].dir /\ bound[call[d].name] = call[d].dir
          /\ call[c].dir \in Dirs /\ call[d].dir \in Dirs
          /\ call[c].name \in Names /\ call[d].name \in Names
      BY DEF RegistryInv, Mutating
    <2>3. call[c].name # call[d].name
      BY <2>1
    <2> QED BY <2>2, <2>3 DEF RegistryInv, BindingsDisjoint
  <1> QED BY <1>1, RegistryConsistent, PTL

\* A binding that was read stays true.
THEOREM RegistryBindingFixed == Spec => BindingFixed
  <1>1. RegistryInv /\ [Next]_vars =>
          [\A n \in Names : bound[n] # NoRecord => bound'[n] = bound[n]]_vars
    <2> SUFFICES ASSUME RegistryInv, Next
                 PROVE  \A n \in Names : bound[n] # NoRecord => bound'[n] = bound[n]
      OBVIOUS
    <2>1. CASE UNCHANGED bound
      BY <2>1
    <2>2. ASSUME NEW c \in Calls, Insert(c)
          PROVE  \A n \in Names : bound[n] # NoRecord => bound'[n] = bound[n]
      BY <2>2 DEF Insert, RegistryInv, RegistryTypeOK
    <2>3. ASSUME NEW m \in Names, PersistUnbound(m)
          PROVE  \A n \in Names : bound[n] # NoRecord => bound'[n] = bound[n]
      BY <2>3 DEF PersistUnbound, RegistryInv, RegistryTypeOK
    <2> QED BY <2>1, <2>2, <2>3
            DEF Next, Ask, AskRegister, Locate, Proceed, Enter, Hold, Finish, LockRegistration,
                ReadName, ReadPaths, Fail, Crash, LoseSession
  <1> QED BY <1>1, RegistryConsistent, PTL DEF Spec, BindingFixed
-----------------------------------------------------------------------------
\* ProcessExclusive call by call: every call inside an operation has its directory
\* in the active set, every active directory belongs to such a call, and no two of
\* them overlap.  s and a are values of call and active.
In(s, c) == s[c].at \notin {"idle", "entering"}
Apart(s, a) ==
    /\ \A c \in Calls : In(s, c) => s[c].dir \in a[HostOf[c]]
    /\ \A h \in Processes : \A d \in a[h] :
          \E c \in Calls : HostOf[c] = h /\ In(s, c) /\ s[c].dir = d
    /\ \A c, d \in Calls :
          c # d /\ HostOf[c] = HostOf[d] /\ In(s, c) /\ In(s, d)
             => s[c].dir # s[d].dir /\ ~Overlap(s[c].dir, s[d].dir)

\* Calls that stay inside their operations, or outside, stay apart.
LEMMA StayApart ==
  ASSUME NEW s, NEW t, NEW a, Apart(s, a),
         \A c \in Calls : (In(t, c) <=> In(s, c)) /\ (In(s, c) => t[c].dir = s[c].dir)
  PROVE  Apart(t, a)
  <1>1. \A c \in Calls : In(t, c) => t[c].dir \in a[HostOf[c]]
    BY DEF Apart
  <1>2. ASSUME NEW h \in Processes, NEW d \in a[h]
        PROVE  \E c \in Calls : HostOf[c] = h /\ In(t, c) /\ t[c].dir = d
    BY DEF Apart
  <1>3. ASSUME NEW c \in Calls, NEW d \in Calls, c # d, HostOf[c] = HostOf[d],
               In(t, c), In(t, d)
        PROVE  t[c].dir # t[d].dir /\ ~Overlap(t[c].dir, t[d].dir)
    BY <1>3 DEF Apart
  <1> QED BY <1>1, <1>2, <1>3 DEF Apart

\* A call that ends gives back its own directory and no other.
LEMMA LeaveApart ==
  ASSUME NEW s, NEW t, NEW a, NEW b, NEW c \in Calls, Apart(s, a), In(s, c), ~In(t, c),
         \A d \in Calls \ {c} : t[d] = s[d],
         \A h \in Processes : b[h] = IF h = HostOf[c] THEN a[h] \ {s[c].dir} ELSE a[h]
  PROVE  Apart(t, b)
  <1>1. \A d \in Calls \ {c} : In(t, d) <=> In(s, d)
    BY DEF In
  <1>2. \A d \in Calls : HostOf[d] \in Processes
    BY RegistryAssumption
  <1>3. ASSUME NEW d \in Calls, In(t, d) PROVE t[d].dir \in b[HostOf[d]]
    <2>1. d # c /\ t[d] = s[d] /\ In(s, d)
      BY <1>1, <1>3
    <2>2. s[d].dir \in a[HostOf[d]] /\ (HostOf[d] = HostOf[c] => s[d].dir # s[c].dir)
      BY <2>1 DEF Apart
    <2> QED BY <2>1, <2>2, <1>2
  <1>4. ASSUME NEW h \in Processes, NEW e \in b[h]
        PROVE  \E d \in Calls : HostOf[d] = h /\ In(t, d) /\ t[d].dir = e
    <2>1. e \in a[h] /\ (h = HostOf[c] => e # s[c].dir)
      BY <1>4
    <2>2. PICK d \in Calls : HostOf[d] = h /\ In(s, d) /\ s[d].dir = e
      BY <2>1 DEF Apart
    <2>3. d # c
      BY <2>1, <2>2
    <2> QED BY <2>2, <2>3, <1>1
  <1>5. ASSUME NEW d \in Calls, NEW e \in Calls, d # e, HostOf[d] = HostOf[e],
               In(t, d), In(t, e)
        PROVE  t[d].dir # t[e].dir /\ ~Overlap(t[d].dir, t[e].dir)
    <2>1. d # c /\ e # c /\ t[d] = s[d] /\ t[e] = s[e] /\ In(s, d) /\ In(s, e)
      BY <1>1, <1>5
    <2> QED BY <2>1, <1>5 DEF Apart
  <1> QED BY <1>3, <1>4, <1>5 DEF Apart

\* A call may enter a directory that overlaps no active one.
LEMMA EnterApart ==
  ASSUME NEW s, NEW t, NEW a, NEW b, NEW c \in Calls, Apart(s, a), ~In(s, c), In(t, c),
         t[c].dir = s[c].dir, s[c].dir \in Dirs,
         \A d \in Calls \ {c} : t[d] = s[d],
         \A d \in Calls : In(s, d) => s[d].dir \in Dirs,
         \A h \in Processes : b[h] = IF h = HostOf[c] THEN a[h] \cup {s[c].dir} ELSE a[h],
         \A d \in a[HostOf[c]] : ~(Relative(s[c].dir, d) \/ Relative(d, s[c].dir))
  PROVE  Apart(t, b)
  <1>1. \A d \in Calls \ {c} : In(t, d) <=> In(s, d)
    BY DEF In
  <1>2. \A d \in Calls : HostOf[d] \in Processes
    BY RegistryAssumption
  <1>3. ASSUME NEW d \in Calls \ {c}, In(s, d), HostOf[d] = HostOf[c]
        PROVE  /\ s[d].dir # s[c].dir
               /\ ~Overlap(s[d].dir, s[c].dir) /\ ~Overlap(s[c].dir, s[d].dir)
    <2>1. s[d].dir \in a[HostOf[c]] /\ s[d].dir \in Dirs
      BY <1>3 DEF Apart
    <2>2. ~Relative(s[d].dir, s[c].dir) /\ ~Relative(s[c].dir, s[d].dir)
      BY <2>1
    <2>3. ~Overlap(s[d].dir, s[c].dir) /\ ~Overlap(s[c].dir, s[d].dir)
      BY <2>1, <2>2, OverlapIsRelative
    <2> QED BY <2>3 DEF Overlap
  <1>4. ASSUME NEW d \in Calls, In(t, d) PROVE t[d].dir \in b[HostOf[d]]
    <2>1. CASE d = c
      BY <2>1, <1>2
    <2>2. CASE d # c
      <3>1. t[d] = s[d] /\ s[d].dir \in a[HostOf[d]]
        BY <2>2, <1>1, <1>4 DEF Apart
      <3> QED BY <3>1, <1>2
    <2> QED BY <2>1, <2>2
  <1>5. ASSUME NEW h \in Processes, NEW e \in b[h]
        PROVE  \E d \in Calls : HostOf[d] = h /\ In(t, d) /\ t[d].dir = e
    <2>1. CASE h = HostOf[c] /\ e = s[c].dir
      BY <2>1
    <2>2. CASE ~(h = HostOf[c] /\ e = s[c].dir)
      <3>1. e \in a[h]
        BY <2>2, <1>5
      <3>2. PICK d \in Calls : HostOf[d] = h /\ In(s, d) /\ s[d].dir = e
        BY <3>1 DEF Apart
      <3>3. d # c
        BY <3>2
      <3> QED BY <3>2, <3>3, <1>1
    <2> QED BY <2>1, <2>2
  <1>6. ASSUME NEW d \in Calls, NEW e \in Calls, d # e, HostOf[d] = HostOf[e],
               In(t, d), In(t, e)
        PROVE  t[d].dir # t[e].dir /\ ~Overlap(t[d].dir, t[e].dir)
    <2>1. CASE d = c
      BY <2>1, <1>1, <1>3, <1>6
    <2>2. CASE e = c
      BY <2>2, <1>1, <1>3, <1>6
    <2>3. CASE d # c /\ e # c
      <3>1. t[d] = s[d] /\ t[e] = s[e] /\ In(s, d) /\ In(s, e)
        BY <2>3, <1>1, <1>6
      <3> QED BY <3>1, <1>6 DEF Apart
    <2> QED BY <2>1, <2>2, <2>3
  <1> QED BY <1>4, <1>5, <1>6 DEF Apart

\* A process that dies takes all its calls and all its active directories along.
LEMMA CrashApart ==
  ASSUME NEW s, NEW t, NEW a, NEW b, NEW p \in Processes, Apart(s, a),
         \A c \in Calls : IF HostOf[c] = p THEN ~In(t, c) ELSE t[c] = s[c],
         \A h \in Processes : b[h] = IF h = p THEN {} ELSE a[h]
  PROVE  Apart(t, b)
  <1>1. \A c \in Calls : /\ In(t, c) => HostOf[c] # p /\ In(s, c) /\ t[c] = s[c]
                         /\ In(s, c) /\ HostOf[c] # p => In(t, c) /\ t[c] = s[c]
    BY DEF In
  <1>2. \A c \in Calls : HostOf[c] \in Processes
    BY RegistryAssumption
  <1>3. ASSUME NEW c \in Calls, In(t, c) PROVE t[c].dir \in b[HostOf[c]]
    <2>1. HostOf[c] # p /\ t[c] = s[c] /\ s[c].dir \in a[HostOf[c]]
      BY <1>1, <1>3 DEF Apart
    <2> QED BY <2>1, <1>2
  <1>4. ASSUME NEW h \in Processes, NEW e \in b[h]
        PROVE  \E c \in Calls : HostOf[c] = h /\ In(t, c) /\ t[c].dir = e
    <2>1. h # p /\ e \in a[h]
      BY <1>4
    <2>2. PICK c \in Calls : HostOf[c] = h /\ In(s, c) /\ s[c].dir = e
      BY <2>1 DEF Apart
    <2> QED BY <2>1, <2>2, <1>1
  <1>5. ASSUME NEW c \in Calls, NEW d \in Calls, c # d, HostOf[c] = HostOf[d],
               In(t, c), In(t, d)
        PROVE  t[c].dir # t[d].dir /\ ~Overlap(t[c].dir, t[d].dir)
    BY <1>1, <1>5 DEF Apart
  <1> QED BY <1>3, <1>4, <1>5 DEF Apart
-----------------------------------------------------------------------------
\* A call that ends, inside or outside an operation, keeps the others apart.
LEMMA EndApart ==
  ASSUME RegistryTypeOK, Apart(call, active), NEW c \in Calls, In(call, c), Leave(c)
  PROVE  Apart(call', active')
  <1>1. ~In(call', c) /\ \A d \in Calls \ {c} : call'[d] = call[d]
    BY LeaveStep DEF In
  <1>2. \A h \in Processes :
           active'[h] = IF h = HostOf[c] THEN active[h] \ {call[c].dir} ELSE active[h]
    BY DEF Leave, RegistryTypeOK
  <1> QED BY <1>1, <1>2, LeaveApart

\* A step of a call from one place inside its operation to another.
LEMMA MoveApart ==
  ASSUME RegistryTypeOK, Apart(call, active), NEW c \in Calls, In(call, c),
         NEW step \in Steps \ {"idle", "entering"}, Goto(c, step), UNCHANGED active
  PROVE  Apart(call', active')
  <1>1. /\ In(call', c) /\ call'[c].dir = call[c].dir
        /\ \A d \in Calls \ {c} : call'[d] = call[d]
    BY GotoStep DEF In
  <1>2. \A d \in Calls : /\ In(call', d) <=> In(call, d)
                         /\ In(call, d) => call'[d].dir = call[d].dir
    BY <1>1 DEF In
  <1> QED BY <1>2, StayApart

\* The two outcomes of workspace.operation.
LEMMA EnterKeepsApart ==
  ASSUME RegistryInv, Apart(call, active), NEW c \in Calls, Enter(c)
  PROVE  Apart(call', active')
  <1>0. /\ RegistryTypeOK /\ HostOf[c] \in Processes /\ ~In(call, c)
        /\ \A d \in Calls : In(call, d) => call[d].dir \in Dirs
        /\ call[c].dir \in Dirs
    BY RegistryAssumption DEF Enter, At, In, RegistryInv, Mutating
  <1>1. CASE Busy(HostOf[c], call[c].dir)
    <2>1. call' = [call EXCEPT ![c] = Idle] /\ active' = active
      BY <1>1 DEF Enter
    <2>2. ~In(call', c) /\ \A d \in Calls \ {c} : call'[d] = call[d]
      BY <2>1, <1>0 DEF In, Idle, RegistryTypeOK
    <2>3. \A d \in Calls : /\ In(call', d) <=> In(call, d)
                           /\ In(call, d) => call'[d].dir = call[d].dir
      BY <2>2, <1>0 DEF In
    <2> QED BY <2>1, <2>3, StayApart
  <1>2. CASE ~Busy(HostOf[c], call[c].dir)
    <2>1. PICK step \in {"locking", "holding", "working"} : Goto(c, step)
      BY <1>2 DEF Enter
    <2>2. /\ In(call', c) /\ call'[c].dir = call[c].dir
          /\ \A d \in Calls \ {c} : call'[d] = call[d]
      BY <2>1, <1>0, GotoStep DEF In, Steps
    <2>3. \A h \in Processes :
             active'[h] = IF h = HostOf[c] THEN active[h] \cup {call[c].dir} ELSE active[h]
      BY <1>2, <1>0 DEF Enter, RegistryTypeOK
    <2>4. \A d \in active[HostOf[c]] : ~(Relative(call[c].dir, d) \/ Relative(d, call[c].dir))
      BY <1>2 DEF Busy
    <2> QED BY <1>0, <2>2, <2>3, <2>4, EnterApart
  <1> QED BY <1>1, <1>2

\* Every step keeps the calls of a process apart.
LEMMA ApartStep ==
  RegistryInv /\ Apart(call, active) /\ [Next]_vars => Apart(call', active')
  <1> SUFFICES ASSUME RegistryInv, Apart(call, active), [Next]_vars
               PROVE  Apart(call', active')
    OBVIOUS
  <1>0. RegistryTypeOK
    BY DEF RegistryInv
  <1>1. ASSUME NEW c \in Calls, Ask(c) PROVE Apart(call', active')
    <2>1. /\ ~In(call, c) /\ ~In(call', c) /\ active' = active
          /\ \A d \in Calls \ {c} : call'[d] = call[d]
      BY <1>0, <1>1 DEF Ask, AskRegister, Locate, At, In, RegistryTypeOK
    <2>2. \A d \in Calls : /\ In(call', d) <=> In(call, d)
                           /\ In(call, d) => call'[d].dir = call[d].dir
      BY <2>1 DEF In
    <2> QED BY <2>1, <2>2, StayApart
  <1>2. ASSUME NEW c \in Calls, Enter(c) PROVE Apart(call', active')
    BY <1>2, EnterKeepsApart
  <1>3. ASSUME NEW c \in Calls,
               Hold(c) \/ LockRegistration(c) \/ ReadName(c) \/ ReadPaths(c)
        PROVE  Apart(call', active')
    <2>1. In(call, c)
      BY <1>3 DEF Hold, LockRegistration, ReadName, ReadPaths, At, In
    <2>2. Leave(c) \/ (UNCHANGED active /\ \E step \in Steps \ {"idle", "entering"} : Goto(c, step))
      BY <1>3 DEF Hold, LockRegistration, ReadName, ReadPaths, Steps
    <2> QED BY <1>0, <2>1, <2>2, EndApart, MoveApart
  <1>4. ASSUME NEW c \in Calls, Finish(c) \/ Fail(c) \/ Insert(c)
        PROVE  Apart(call', active')
    <2>1. In(call, c) /\ Leave(c)
      BY <1>4 DEF Finish, Fail, Insert, At, In
    <2> QED BY <1>0, <2>1, EndApart
  <1>5. ASSUME NEW p \in Processes, Crash(p) PROVE Apart(call', active')
    <2>1. /\ call' = [c \in Calls |-> IF HostOf[c] = p THEN Idle ELSE call[c]]
          /\ active' = [active EXCEPT ![p] = {}]
      BY <1>5 DEF Crash
    <2>2. \A c \in Calls : IF HostOf[c] = p THEN ~In(call', c) ELSE call'[c] = call[c]
      BY <2>1 DEF In, Idle
    <2>3. \A h \in Processes : active'[h] = IF h = p THEN {} ELSE active[h]
      BY <2>1, <1>0 DEF RegistryTypeOK
    <2> QED BY <2>2, <2>3, CrashApart
  <1>6. CASE UNCHANGED <<call, active>>
    BY <1>6
  <1> QED BY <1>1, <1>2, <1>3, <1>4, <1>5, <1>6
          DEF Next, Proceed, LoseSession, PersistUnbound, vars

CallsApart == Apart(call, active)

\* In one process no two calls are inside overlapping directories, and every
\* directory is given back (WorkspacePolicy.operation).
THEOREM RegistryProcessExclusive == Spec => []ProcessExclusive
  <1>1. Init => CallsApart
    BY RegistryAssumption DEF Init, Idle, In, Apart, CallsApart
  <1>2. CallsApart => ProcessExclusive
    <2> SUFFICES ASSUME CallsApart, NEW h \in Processes
                 PROVE  /\ active[h] = {call[c].dir : c \in {e \in Calls : HostOf[e] = h /\ Inside(e)}}
                        /\ \A c, d \in {e \in Calls : HostOf[e] = h /\ Inside(e)} :
                              c # d => ~Overlap(call[c].dir, call[d].dir)
      BY DEF ProcessExclusive
    <2>1. \A c \in Calls : In(call, c) <=> Inside(c)
      BY DEF In, Inside
    <2>2. active[h] = {call[c].dir : c \in {e \in Calls : HostOf[e] = h /\ Inside(e)}}
      <3>1. \A d \in active[h] :
               d \in {call[c].dir : c \in {e \in Calls : HostOf[e] = h /\ Inside(e)}}
        BY <2>1 DEF Apart, CallsApart
      <3>2. \A d \in {call[c].dir : c \in {e \in Calls : HostOf[e] = h /\ Inside(e)}} :
               d \in active[h]
        BY <2>1 DEF Apart, CallsApart
      <3> QED BY <3>1, <3>2
    <2>3. \A c, d \in {e \in Calls : HostOf[e] = h /\ Inside(e)} :
             c # d => ~Overlap(call[c].dir, call[d].dir)
      BY <2>1 DEF Apart, CallsApart
    <2> QED BY <2>2, <2>3
  <1>3. RegistryInv /\ CallsApart /\ [Next]_vars => CallsApart'
    <2>1. RegistryInv /\ CallsApart /\ [Next]_vars => Apart(call', active')
      BY ApartStep DEF CallsApart
    <2> QED BY <2>1 DEF CallsApart, Apart, In
  <1> QED BY <1>1, <1>2, <1>3, RegistryConsistent, PTL DEF Spec
=============================================================================
