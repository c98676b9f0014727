--------------------------- MODULE Agents_proofs ----------------------------
(***************************************************************************)
(* What TLAPS proves of the agents, for any trees, indexes, iterations and *)
(* limits: the indexed agent completes only with an answer that rests on   *)
(* the tree, and its evidence is what the files showed; a tool that ran a  *)
(* program reports what the program did; a finished embedding call has the *)
(* vector of every text; and the stored trace of a run is what the run did.*)
(***************************************************************************)
EXTENDS IndexedAgent, SubprocessTools, ProviderCalls, TraceRun, SequenceFolds,
        FiniteSetTheorems, TLAPS

-----------------------------------------------------------------------------
(* IndexedAgent. *)

Hint(o)       == o.tool = "indexed_code_search" /\ PathsOf(o) # {}
Reads(o, p)   == o.tool = "read_file" /\ o.ok /\ o.path = p
Missing(o, p) == o.tool = "read_file" /\ o.path = p /\ o.error = "missing"

IsSeq(s) == \E S : s \in Seq(S)

\* What becomes of every search that returned hints: a later one replaces it, a read
\* settles it, or the hints that were not found gone are still pending; and nothing is
\* pending that is no hint of the latest one.
Later(list, s)   == \E t \in (s + 1)..Len(list) : Hint(list[t])
Settled(list, s) == \E t \in (s + 1)..Len(list) : \E p \in PathsOf(list[s]) : Reads(list[t], p)
Gone(list, s, p) == \E t \in (s + 1)..Len(list) : Missing(list[t], p)
Accounted(list, open) ==
    \A s \in 1..Len(list) : Hint(list[s]) =>
        \/ Later(list, s)
        \/ Settled(list, s)
        \/ \A p \in PathsOf(list[s]) : p \in open \/ Gone(list, s, p)
LatestOnly(list, open) ==
    \A s \in 1..Len(list) : Hint(list[s]) => Later(list, s) \/ open \subseteq PathsOf(list[s])

AgentInv ==
    /\ IsSeq(steps)
    /\ agent = "calling" => call \in Calls
    /\ agent = "completed" => pending = {}
    /\ Accounted(steps, pending) /\ LatestOnly(steps, pending)

\* A search of the index never fails, and only such a search is one.
LEMMA ExecuteTool ==
  ASSUME NEW c \in Calls
  PROVE  Execute(c).tool = c.tool /\ (c.tool = "indexed_code_search" => Execute(c).ok)
  <1>1. CASE c.tool = "indexed_code_search"
    BY <1>1 DEF Execute, IndexedCodeSearch, Returned
  <1>2. CASE c.tool = "read_file"
    <2>1. Execute(c) = ReadFile(tree, c.arg, c.from, c.to)
      BY <1>2 DEF Execute
    <2>2. \A p, e : Failed("read_file", p, e).tool = "read_file"
      BY DEF Failed
    <2>3. \A p, e : Returned("read_file", p, e).tool = "read_file"
      BY DEF Returned
    <2>4. ReadFile(tree, c.arg, c.from, c.to).tool = "read_file"
      BY <2>2, <2>3 DEF ReadFile
    <2>5. QED BY <1>2, <2>1, <2>4
  <1>3. CASE c.tool \in {"search_code", "find_symbol"}
    <2>1. \A name, words, limit : Found(name, tree, words, limit).tool = name
      BY DEF Found, Returned
    <2>2. QED BY <1>3, <2>1 DEF Execute, SearchCode, FindSymbol
  <1>4. QED BY <1>1, <1>2, <1>3 DEF Calls

\* What is appended comes last.
LEMMA AppendIs ==
  ASSUME NEW s, IsSeq(s), NEW e
  PROVE  /\ IsSeq(Append(s, e)) /\ Len(s) \in Nat /\ Len(Append(s, e)) = Len(s) + 1
         /\ Append(s, e)[Len(s) + 1] = e
         /\ \A i \in 1..Len(s) : Append(s, e)[i] = s[i]
  <1>1. PICK S : s \in Seq(S)
    BY DEF IsSeq
  <1>2. s \in Seq(S \cup {e})
    BY <1>1
  <1>3. Append(s, e) \in Seq(S \cup {e})
    BY <1>2
  <1>4. IsSeq(Append(s, e))
    BY <1>3 DEF IsSeq
  <1>5. QED BY <1>1, <1>2, <1>4

\* An observation that leaves every search accounted for.
LEMMA ObservedNext ==
  ASSUME NEW list, IsSeq(list), NEW o, NEW open, NEW next,
         Accounted(list, open), LatestOnly(list, open),
         \/ Hint(o) /\ next = PathsOf(o)
         \/ ~Hint(o) /\ next = open
         \/ ~Hint(o) /\ Missing(o, o.path) /\ next = open \ {o.path}
         \/ ~Hint(o) /\ Reads(o, o.path) /\ o.path \in open /\ next = {}
  PROVE  Accounted(Append(list, o), next) /\ LatestOnly(Append(list, o), next)
  <1> DEFINE new == Append(list, o)
             n   == Len(list)
  <1>1. /\ n \in Nat /\ Len(new) = n + 1 /\ new[n + 1] = o
        /\ \A i \in 1..n : new[i] = list[i]
    BY AppendIs
  <1> HIDE DEF new
  <1>2. ASSUME NEW s \in 1..n
        PROVE  /\ new[s] = list[s]
               /\ \A t \in (s + 1)..n : t \in (s + 1)..(n + 1) /\ new[t] = list[t]
               /\ n + 1 \in (s + 1)..(n + 1)
    BY <1>1
  <1>3. ASSUME NEW s \in 1..n, Hint(list[s])
        PROVE  /\ Later(list, s) => Later(new, s)
               /\ Settled(list, s) => Settled(new, s)
               /\ \A p : Gone(list, s, p) => Gone(new, s, p)
               /\ Hint(o) => Later(new, s)
               /\ \A p \in PathsOf(list[s]) : Reads(o, p) => Settled(new, s)
               /\ \A p : Missing(o, p) => Gone(new, s, p)
    BY <1>1, <1>2 DEF Later, Settled, Gone
  <1>4. ASSUME NEW s \in 1..n, Hint(list[s])
        PROVE  /\ \/ Later(new, s) \/ Settled(new, s)
                  \/ \A p \in PathsOf(new[s]) : p \in next \/ Gone(new, s, p)
               /\ Later(new, s) \/ next \subseteq PathsOf(new[s])
    <2>0. new[s] = list[s]
      BY <1>2
    <2>1. /\ \/ Later(list, s) \/ Settled(list, s)
             \/ \A p \in PathsOf(list[s]) : p \in open \/ Gone(list, s, p)
          /\ Later(list, s) \/ open \subseteq PathsOf(list[s])
      BY <1>1, <1>4 DEF Accounted, LatestOnly
    <2>2. CASE Hint(o)
      BY <1>3, <1>4, <2>0, <2>2
    <2>3. CASE next = open
      BY <1>3, <1>4, <2>0, <2>1, <2>3
    <2>4. CASE Missing(o, o.path) /\ next = open \ {o.path}
      BY <1>3, <1>4, <2>0, <2>1, <2>4
    <2>5. CASE Reads(o, o.path) /\ o.path \in open /\ next = {}
      BY <1>3, <1>4, <2>0, <2>1, <2>5
    <2>6. QED BY <2>2, <2>3, <2>4, <2>5
  <1>5. \A s \in 1..Len(new) : s \in 1..n \/ s = n + 1
    BY <1>1
  <1>6. Hint(new[n + 1]) => next = PathsOf(new[n + 1])
    BY <1>1
  <1>7. Accounted(new, next) /\ LatestOnly(new, next)
    BY <1>2, <1>4, <1>5, <1>6 DEF Accounted, LatestOnly
  <1>8. QED BY <1>7 DEF new

LEMMA AgentInitially == AgentInit => AgentInv
  <1> SUFFICES ASSUME AgentInit PROVE AgentInv
    OBVIOUS
  <1>1. <<>> \in Seq({}) /\ Len(<<>>) = 0
    OBVIOUS
  <1>2. steps = <<>> /\ agent = "deciding"
    BY DEF AgentInit
  <1>3. IsSeq(steps)
    BY <1>1, <1>2 DEF IsSeq
  <1>4. \A s : s \notin 1..Len(steps)
    BY <1>1, <1>2
  <1>5. QED BY <1>2, <1>3, <1>4 DEF AgentInv, Accounted, LatestOnly

\* A step that leaves observations and pending hints alone.
LEMMA AgentUntouched ==
  ASSUME AgentInv, UNCHANGED <<steps, pending>>,
         agent' = "calling" => call' \in Calls,
         agent' = "completed" => pending = {}
  PROVE  AgentInv'
  <1>1. IsSeq(steps) /\ Accounted(steps, pending) /\ LatestOnly(steps, pending)
    BY DEF AgentInv
  <1>2. IsSeq(steps') /\ Accounted(steps', pending') /\ LatestOnly(steps', pending')
    BY <1>1
  <1>3. QED BY <1>2 DEF AgentInv, Accounted, LatestOnly, Later, Settled, Gone, Hint, Reads, Missing,
                        IsSeq

\* A failed step of any tool is not a hint.
LEMMA FailedHintsNothing == \A t, p, e : ~Hint(Failed(t, p, e))
  BY DEF Hint, Failed, PathsOf

LEMMA AgentStep ==
  ASSUME AgentInv, [AgentNext]_agentVars PROVE AgentInv'
  <1> USE DEF NextIteration
  <1>1. IsSeq(steps) /\ Accounted(steps, pending) /\ LatestOnly(steps, pending)
    BY DEF AgentInv
  <1>2. ASSUME NEW o, steps' = Append(steps, o), agent' # "calling", agent' # "completed",
               \/ Hint(o) /\ pending' = PathsOf(o)
               \/ ~Hint(o) /\ pending' = pending
               \/ ~Hint(o) /\ Missing(o, o.path) /\ pending' = pending \ {o.path}
               \/ ~Hint(o) /\ Reads(o, o.path) /\ o.path \in pending /\ pending' = {}
        PROVE  AgentInv'
    <2>1. Accounted(steps', pending') /\ LatestOnly(steps', pending')
      BY <1>1, <1>2, ObservedNext
    <2>2. IsSeq(steps')
      BY <1>1, <1>2, AppendIs
    <2>3. QED BY <1>2, <2>1, <2>2 DEF AgentInv, Accounted, LatestOnly, Later, Settled, Gone, Hint,
                                      Reads, Missing, IsSeq
  <1>3. CASE FinalAnswer
    <2>1. CASE pending = {}
      BY <1>3, <2>1, AgentUntouched DEF FinalAnswer
    <2>2. CASE pending # {}
      <3>1. /\ steps' = Append(steps, Feedback) /\ pending' = pending
            /\ agent' # "calling" /\ agent' # "completed"
        BY <1>3, <2>2 DEF FinalAnswer
      <3>2. QED BY <1>2, <3>1, FailedHintsNothing DEF Feedback
    <2>3. QED BY <2>1, <2>2
  <1>4. ASSUME NEW c \in Calls, CallTool(c) PROVE AgentInv'
    <2>1. CASE executions[c] >= MAX_IDENTICAL_TOOL_EXECUTIONS
      <3>1. /\ steps' = Append(steps, Failed(c.tool, c.arg, "repeated")) /\ pending' = pending
            /\ agent' # "calling" /\ agent' # "completed"
        BY <1>4, <2>1 DEF CallTool
      <3>2. QED BY <1>2, <3>1, FailedHintsNothing
    <2>2. CASE ~(executions[c] >= MAX_IDENTICAL_TOOL_EXECUTIONS)
      BY <1>4, <2>2, AgentUntouched DEF CallTool
    <2>3. QED BY <2>1, <2>2
  <1>5. CASE RunTool
    <2> DEFINE o == Execute(call)
    <2>1. /\ steps' = Append(steps, o) /\ pending' = Observe(o)
          /\ agent' # "calling" /\ agent' # "completed"
      BY <1>5 DEF RunTool
    <2>2. call \in Calls
      BY <1>5 DEF RunTool, AgentInv
    <2>3. Hint(o) => o.ok
      BY <2>2, ExecuteTool DEF Hint
    <2> HIDE DEF o
    <2>4. \/ Hint(o) /\ Observe(o) = PathsOf(o)
          \/ ~Hint(o) /\ Observe(o) = pending
          \/ ~Hint(o) /\ Missing(o, o.path) /\ Observe(o) = pending \ {o.path}
          \/ ~Hint(o) /\ Reads(o, o.path) /\ o.path \in pending /\ Observe(o) = {}
      BY <2>3 DEF Observe, Hint, Missing, Reads
    <2>5. QED BY <1>2, <2>1, <2>4
  <1>6. CASE TreeChanges \/ \E status \in {"error", "cancelled"} : Stop(status)
    <2>1. /\ UNCHANGED <<steps, pending, call>>
          /\ agent' = agent \/ agent' \in {"error", "cancelled"}
      BY <1>6 DEF TreeChanges, Stop
    <2>2. QED BY <2>1, AgentUntouched DEF AgentInv
  <1>7. CASE UNCHANGED agentVars
    BY <1>7, AgentUntouched DEF agentVars, AgentInv
  <1>8. QED BY <1>3, <1>4, <1>5, <1>6, <1>7 DEF AgentNext

\* An answer of the indexed agent rests on the tree (agent/indexed.py).
THEOREM AgentGroundedAnswer == AgentSpec => []GroundedAnswer
  <1>1. AgentInv => GroundedAnswer
    <2> SUFFICES ASSUME AgentInv, agent = "completed" PROVE GroundedAnswer
      BY DEF GroundedAnswer
    <2>1. ASSUME NEW s \in 1..Len(steps), Hint(steps[s])
          PROVE  \/ Later(steps, s) \/ Settled(steps, s)
                 \/ \A p \in PathsOf(steps[s]) : Gone(steps, s, p)
      BY <2>1 DEF AgentInv, Accounted
    <2>2. ASSUME NEW s \in 1..Len(steps), Settled(steps, s)
          PROVE  \E t \in (s + 1)..Len(steps) : /\ steps[t].tool = "read_file" /\ steps[t].ok
                                               /\ steps[t].path \in PathsOf(steps[s])
      BY <2>2 DEF Settled, Reads
    <2>3. QED BY <2>1, <2>2 DEF GroundedAnswer, Later, Gone, Hint, Missing
  <1>2. QED BY <1>1, AgentInitially, AgentStep, PTL DEF AgentSpec
-----------------------------------------------------------------------------
(***************************************************************************)
(* The evidence of the indexed agent.  It accumulates over the trail of    *)
(* locations that the observations show; after each of them it holds the   *)
(* distinct ones so far, in the order of their first appearance, as far as *)
(* there is room, and says whether one found none.                         *)
(***************************************************************************)
Evidences(T) == [locations : Seq(T), truncated : BOOLEAN]
NoEvidence == [locations |-> <<>>, truncated |-> FALSE]

\* The evidence after each location of the trail.
EvidenceRun(run, trail, T) ==
    /\ run \in [0..Len(trail) -> Evidences(T)] /\ run[0] = NoEvidence
    /\ \A m \in 1..Len(trail) : run[m] = Collect(run[m - 1], trail[m])

LEMMA CollectType ==
    ASSUME NEW T, NEW e \in Evidences(T), NEW l \in T
    PROVE  Collect(e, l) \in Evidences(T)
  <1>1. e.locations \in Seq(T) /\ Append(e.locations, l) \in Seq(T)
    BY DEF Evidences
  <1>2. QED BY <1>1 DEF Collect, Evidences

\* The evidence is what the accumulator holds after the last location.
LEMMA EvidenceIsFolded ==
    ASSUME NEW T, NEW trail \in Seq(T)
    PROVE  \E run : /\ EvidenceRun(run, trail, T)
                    /\ FoldLeft(Collect, NoEvidence, trail) = run[Len(trail)]
  <1> DEFINE n == Len(trail)
             step == [p \in Evidences(T) \X (1..n) |-> Collect(p[1], trail[p[2]])]
             Body(g) == [s \in SUBSET DOMAIN trail |->
                          IF s = {} THEN NoEvidence
                                    ELSE Collect(g[s \ {Max(s)}], trail[Max(s)])]
             It == CHOOSE g : g = Body(g)
  <1>1. n \in Nat /\ DOMAIN trail = 1..n /\ \A i \in 1..n : trail[i] \in T
    OBVIOUS
  <1>2. FoldLeft(Collect, NoEvidence, trail) = It[DOMAIN trail]
    BY DEF FoldLeft, MapThenFoldSet
  <1> HIDE DEF n
  <1>3. step \in [Evidences(T) \X (1..n) -> Evidences(T)] /\ NoEvidence \in Evidences(T)
    <2>1. \A e \in Evidences(T), i \in 1..n : Collect(e, trail[i]) \in Evidences(T)
      BY <1>1, CollectType
    <2>2. NoEvidence \in Evidences(T)
      <3>1. <<>> \in Seq(T)
        OBVIOUS
      <3>2. QED BY <3>1 DEF NoEvidence, Evidences
    <2>3. QED BY <2>1, <2>2
  <1>4. PICK f \in [SUBSET (1..n) -> Evidences(T)] : FoldOf(f, n, NoEvidence, step)
    <2> HIDE DEF step
    <2>1. QED BY <1>1, <1>3, FoldExists
  <1>5. f = Body(f)
    <2>1. \A s \in SUBSET (1..n) : s # {} =>
            s \ {Max(s)} \in SUBSET (1..n) /\ Max(s) \in 1..n
      BY <1>1, MaxOfFinite
    <2>2. \A s \in SUBSET (1..n) : s # {} =>
            f[s] = Collect(f[s \ {Max(s)}], trail[Max(s)])
      BY <1>1, <1>4, <2>1 DEF FoldOf
    <2>3. f[{}] = NoEvidence
      BY <1>4 DEF FoldOf
    <2>4. QED BY <1>1, <2>2, <2>3
  <1>6. It = Body(It)
    <2> HIDE DEF Body
    <2>1. QED BY <1>5
  <1>7. It[{}] = NoEvidence /\ \A m \in 1..n : It[1..m] = Collect(It[1..(m - 1)], trail[m])
    <2>1. \A s \in SUBSET (1..n) :
            It[s] = IF s = {} THEN NoEvidence ELSE Collect(It[s \ {Max(s)}], trail[Max(s)])
      BY <1>1, <1>6
    <2>2. \A m \in 1..n : m \in Nat /\ m # 0 /\ 1..m \subseteq 1..n /\ m \in 1..m
      BY <1>1
    <2> HIDE DEF It
    <2>3. QED BY <1>1, <2>1, <2>2, MaxOfInterval
  <1> HIDE DEF Body, It
  <1>8. GoesOn(It, n, Evidences(T), NoEvidence, step)
    BY <1>7 DEF GoesOn
  <1> DEFINE run == RunOf(It, n)
  <1>9. FoldRun(run, n, Evidences(T), NoEvidence, step) /\ It[1..n] = run[n]
    <2> HIDE DEF step
    <2>1. FoldRun(run, n, Evidences(T), NoEvidence, step)
      BY <1>1, <1>3, <1>8, FoldReached
    <2>2. QED BY <1>1, <2>1 DEF RunOf
  <1> HIDE DEF run
  <1>10. EvidenceRun(run, trail, T)
    <2>1. \A m \in 1..n : m - 1 \in 0..n
      BY <1>1
    <2>2. QED BY <1>9, <2>1 DEF FoldRun, EvidenceRun, n
  <1>11. QED BY <1>1, <1>2, <1>9, <1>10 DEF n

\* Where a location is first seen on the trail.
FirstAt(trail, l) == CHOOSE i \in 1..Len(trail) : trail[i] = l /\ \A k \in 1..(i - 1) : trail[k] # l
SeenBy(trail, m) == {trail[i] : i \in 1..m}

LEMMA FirstSeen ==
    ASSUME NEW T, NEW trail \in Seq(T)
    PROVE  /\ \A l \in ToSet(trail) : FirstAt(trail, l) \in 1..Len(trail)
                                      /\ trail[FirstAt(trail, l)] = l
           /\ \A i \in 1..Len(trail) : trail[i] \in ToSet(trail) /\ FirstAt(trail, trail[i]) <= i
  <1> DEFINE n == Len(trail)
             IsFirst(i, l) == trail[i] = l /\ \A k \in 1..(i - 1) : trail[k] # l
             S == {m \in Nat : \A i \in 1..n : i <= m => \E j \in 1..i : IsFirst(j, trail[i])}
  <1>1. n \in Nat /\ ToSet(trail) = {trail[i] : i \in 1..n}
    BY DEF ToSet
  <1> HIDE DEF n
  <1>2. 0 \in S
    BY <1>1
  <1>3. \A m \in Nat : m \in S => m + 1 \in S
    <2> HIDE DEF IsFirst
    <2> SUFFICES ASSUME NEW m \in Nat, m \in S PROVE m + 1 \in S
      OBVIOUS
    <2>0. m + 1 \in Nat
      OBVIOUS
    <2> SUFFICES ASSUME NEW i \in 1..n, i <= m + 1 PROVE \E j \in 1..i : IsFirst(j, trail[i])
      BY <2>0, Zenon
    <2> USE DEF IsFirst
    <2>1. CASE \E k \in 1..(i - 1) : trail[k] = trail[i]
      <3>1. PICK k \in 1..(i - 1) : trail[k] = trail[i]
        BY <2>1
      <3>2. k \in 1..n /\ k <= m /\ 1..k \subseteq 1..i
        BY <1>1
      <3> HIDE DEF IsFirst
      <3>3. QED BY <3>1, <3>2
    <2>2. CASE ~\E k \in 1..(i - 1) : trail[k] = trail[i]
      <3>1. IsFirst(i, trail[i]) /\ i \in 1..i
        BY <2>2
      <3>2. QED BY <3>1
    <2>3. QED BY <2>1, <2>2
  <1> HIDE DEF S
  <1>4. Nat \subseteq S
    BY <1>2, <1>3, NumbersAllIn
  <1>5. \A i \in 1..n : \E j \in 1..i : IsFirst(j, trail[i])
    <2> SUFFICES ASSUME NEW i \in 1..n PROVE \E j \in 1..i : IsFirst(j, trail[i])
      OBVIOUS
    <2>1. i \in S /\ i <= i
      BY <1>4
    <2> HIDE DEF IsFirst
    <2>2. QED BY <2>1 DEF S
  <1>6. \A l : FirstAt(trail, l) = CHOOSE i \in 1..n : IsFirst(i, l)
    BY DEF FirstAt, n
  <1>7. \A i \in 1..n : \A j \in 1..i : j \in 1..n
    BY <1>1
  <1>8. \A i \in 1..n : FirstAt(trail, trail[i]) \in 1..n
                        /\ IsFirst(FirstAt(trail, trail[i]), trail[i])
    <2> HIDE DEF IsFirst
    <2> SUFFICES ASSUME NEW i \in 1..n
                 PROVE  /\ FirstAt(trail, trail[i]) \in 1..n
                        /\ IsFirst(FirstAt(trail, trail[i]), trail[i])
      OBVIOUS
    <2>1. \E j \in 1..n : IsFirst(j, trail[i])
      BY ONLY <1>5, <1>7, i \in 1..n, Zenon
    <2>2. QED BY ONLY <1>6, <2>1, Zenon
  <1>9. \A i \in 1..n : FirstAt(trail, trail[i]) <= i
    <2> SUFFICES ASSUME NEW i \in 1..n, ~(FirstAt(trail, trail[i]) <= i) PROVE FALSE
      OBVIOUS
    <2>1. i \in 1..(FirstAt(trail, trail[i]) - 1)
      BY <1>1, <1>8
    <2>2. QED BY <1>8, <2>1
  <1>10. QED BY <1>1, <1>8, <1>9 DEF n

\* After m locations: the distinct ones in the order of their first appearance, as far as
\* there is room, and "truncated" if one found none.
Collected(e, m, trail) ==
    /\ ToSet(e.locations) \subseteq SeenBy(trail, m)
    /\ \A i, k \in 1..Len(e.locations) :
          i < k => FirstAt(trail, e.locations[i]) < FirstAt(trail, e.locations[k])
    /\ Len(e.locations) <= EvidenceLimit
    /\ ~e.truncated => SeenBy(trail, m) \subseteq ToSet(e.locations)
    /\ e.truncated => /\ Len(e.locations) = EvidenceLimit
                      /\ SeenBy(trail, m) \ ToSet(e.locations) # {}
                      /\ \A l \in SeenBy(trail, m) \ ToSet(e.locations) :
                           \A i \in 1..Len(e.locations) :
                              FirstAt(trail, e.locations[i]) < FirstAt(trail, l)

LEMMA CollectStep ==
    ASSUME NEW T, NEW trail \in Seq(T), NEW m \in Nat, m + 1 \in 1..Len(trail),
           NEW e \in Evidences(T), Collected(e, m, trail)
    PROVE  Collected(Collect(e, trail[m + 1]), m + 1, trail)
  <1> DEFINE l == trail[m + 1]
             locs == e.locations
             next == Collect(e, l)
             At(x) == FirstAt(trail, x)
  <1>1. locs \in Seq(T) /\ Len(locs) \in Nat /\ ToSet(locs) = {locs[i] : i \in 1..Len(locs)}
    BY DEF Evidences, ToSet
  <1>2. SeenBy(trail, m + 1) = SeenBy(trail, m) \cup {l}
    <2>1. 1..(m + 1) = 1..m \cup {m + 1}
      OBVIOUS
    <2> HIDE DEF l
    <2>2. QED BY <2>1 DEF SeenBy, l
  <1>3. \A x \in SeenBy(trail, m) : At(x) \in Nat /\ At(x) <= m
    <2> SUFFICES ASSUME NEW i \in 1..m PROVE At(trail[i]) \in Nat /\ At(trail[i]) <= m
      BY DEF SeenBy
    <2>1. i \in 1..Len(trail) /\ i <= m
      OBVIOUS
    <2>2. At(trail[i]) \in 1..Len(trail) /\ At(trail[i]) <= i
      BY <2>1, FirstSeen
    <2>3. QED BY <2>1, <2>2
  <1>4. l \notin SeenBy(trail, m) => At(l) \in Nat /\ At(l) = m + 1
    <2>1. At(l) \in 1..Len(trail) /\ trail[At(l)] = l /\ At(l) <= m + 1
      BY FirstSeen
    <2>2. At(l) \in 1..m => l \in SeenBy(trail, m)
      BY <2>1 DEF SeenBy
    <2>3. At(l) \notin 1..m => At(l) = m + 1
      BY <2>1
    <2>4. QED BY <2>1, <2>2, <2>3
  <1>5. EvidenceLimit \in Nat
    BY AgentAssumption
  <1> HIDE DEF At, l
  <1>6. CASE l \in ToSet(locs)
    <2>1. next = e
      BY <1>6 DEF Collect
    <2>2. SeenBy(trail, m + 1) = SeenBy(trail, m)
      BY <1>2, <1>6 DEF Collected
    <2>3. QED BY <2>1, <2>2 DEF Collected, l
  <1>7. CASE l \notin ToSet(locs) /\ Len(locs) >= EvidenceLimit
    <2>1. next = [e EXCEPT !.truncated = TRUE]
      BY <1>7 DEF Collect
    <2>2. next.locations = locs /\ next.truncated = TRUE
      BY <2>1 DEF Evidences
    <2>3. Len(locs) = EvidenceLimit
      BY <1>1, <1>5, <1>7 DEF Collected
    <2>4. \A x \in ToSet(locs) : x \in SeenBy(trail, m)
      BY DEF Collected
    <2>5. ASSUME NEW x \in SeenBy(trail, m + 1) \ ToSet(locs), NEW i \in 1..Len(locs)
          PROVE  At(locs[i]) < At(x)
      <3>1. At(locs[i]) \in Nat /\ At(locs[i]) <= m
        BY <1>1, <1>3, <2>4
      <3>2. CASE x \in SeenBy(trail, m)
        <4>1. e.truncated
          BY <2>5, <3>2 DEF Collected
        <4>2. QED BY <2>5, <3>2, <4>1 DEF Collected, At
      <3>3. CASE x \notin SeenBy(trail, m)
        <4>1. At(x) = m + 1
          BY <1>2, <1>4, <2>5, <3>3
        <4>2. QED BY <3>1, <4>1
      <3>4. QED BY <3>2, <3>3
    <2>6. l \in SeenBy(trail, m + 1) \ ToSet(locs)
      BY <1>2, <1>7
    <2>7. \A i, k \in 1..Len(locs) : i < k => At(locs[i]) < At(locs[k])
      BY DEF Collected, At
    <2>8. ToSet(locs) \subseteq SeenBy(trail, m + 1) /\ Len(locs) <= EvidenceLimit
      BY <1>2, <2>4 DEF Collected
    <2> HIDE DEF next, locs
    <2>9. Collected(next, m + 1, trail)
      BY <2>2, <2>3, <2>5, <2>6, <2>7, <2>8 DEF Collected, At
    <2>10. QED BY <2>9 DEF next, l
  <1>8. CASE l \notin ToSet(locs) /\ ~(Len(locs) >= EvidenceLimit)
    <2> DEFINE more == Append(locs, l)
    <2>1. next = [e EXCEPT !.locations = Append(@, l)]
      BY <1>8 DEF Collect
    <2>2. next.locations = more /\ next.truncated = e.truncated
      BY <2>1 DEF Evidences
    <2>3. l \in T
      BY DEF l
    <2>4. /\ Len(more) = Len(locs) + 1 /\ more[Len(locs) + 1] = l
          /\ \A i \in 1..Len(locs) : more[i] = locs[i]
          /\ DOMAIN more = 1..(Len(locs) + 1)
      BY <1>1, <2>3
    <2>5. ~e.truncated /\ Len(locs) + 1 <= EvidenceLimit
      BY <1>1, <1>5, <1>8 DEF Collected
    <2>6. ToSet(locs) = SeenBy(trail, m)
      BY <2>5 DEF Collected
    <2> HIDE DEF more
    <2>7. 1..(Len(locs) + 1) = 1..Len(locs) \cup {Len(locs) + 1}
      BY <1>1
    <2>8. ToSet(more) = ToSet(locs) \cup {l}
      <3>1. ToSet(more) = {more[i] : i \in 1..(Len(locs) + 1)}
        BY <2>4 DEF ToSet
      <3>2. \A i \in 1..(Len(locs) + 1) : more[i] \in ToSet(locs) \cup {l}
        BY <1>1, <2>4, <2>7
      <3>3. \A i \in 1..Len(locs) : locs[i] \in ToSet(more)
        BY <2>4, <2>7, <3>1
      <3>4. l \in ToSet(more)
        BY <2>4, <2>7, <3>1
      <3> HIDE DEF locs
      <3>5. QED BY <1>1, <3>1, <3>2, <3>3, <3>4
    <2>9. ASSUME NEW i \in 1..Len(more), NEW k \in 1..Len(more), i < k
          PROVE  At(more[i]) < At(more[k])
      <3>1. i \in 1..Len(locs) /\ more[i] = locs[i]
        BY <1>1, <2>4, <2>9
      <3>2. CASE k \in 1..Len(locs)
        <4>1. more[k] = locs[k]
          BY <2>4, <3>2
        <4>2. QED BY <2>9, <3>1, <3>2, <4>1 DEF Collected, At
      <3>3. CASE k \notin 1..Len(locs)
        <4>1. more[k] = l
          BY <1>1, <2>4, <3>3
        <4>2. At(locs[i]) \in Nat /\ At(locs[i]) <= m
          BY <1>1, <1>3, <2>6, <3>1
        <4>3. At(l) = m + 1
          BY <1>4, <1>8, <2>6
        <4>4. QED BY <3>1, <4>1, <4>2, <4>3
      <3>4. QED BY <3>2, <3>3
    <2>10. ToSet(more) = SeenBy(trail, m + 1)
      BY <1>2, <2>6, <2>8
    <2> HIDE DEF next, locs
    <2>11. Collected(next, m + 1, trail)
      BY <2>2, <2>4, <2>5, <2>9, <2>10 DEF Collected, At
    <2>12. QED BY <2>11 DEF next, l
  <1>9. QED BY <1>6, <1>7, <1>8

\* What the evidence owes the trail.
Faithful(e, trail) ==
    LET distinct == ToSet(trail)
        Rank(l)  == Cardinality({m \in distinct : FirstAt(trail, m) <= FirstAt(trail, l)})
    IN /\ ToSet(e.locations) = {l \in distinct : Rank(l) <= EvidenceLimit}
       /\ \A i \in 1..Len(e.locations) : Rank(e.locations[i]) = i
       /\ e.truncated <=> Cardinality(distinct) > EvidenceLimit

\* The first places of distinct locations are distinct places.
LEMMA DistinctFinite ==
    ASSUME NEW T, NEW trail \in Seq(T)
    PROVE  IsFiniteSet(ToSet(trail))
  <1> DEFINE f == [l \in ToSet(trail) |-> FirstAt(trail, l)]
  <1>1. f \in [ToSet(trail) -> 1..Len(trail)]
    BY FirstSeen
  <1>2. \A x, y \in ToSet(trail) : f[x] = f[y] => x = y
    BY FirstSeen
  <1> HIDE DEF f
  <1>3. f \in Injection(ToSet(trail), 1..Len(trail))
    BY <1>1, <1>2 DEF Injection, IsInjective
  <1>4. Len(trail) \in Int /\ 1 \in Int
    OBVIOUS
  <1>5. IsFiniteSet(1..Len(trail))
    BY <1>4, FS_Interval
  <1>6. QED BY <1>3, <1>5, FS_Injection

\* An ascending list has as many elements, up to a place, as that place says.
LEMMA AscendingRanks ==
    ASSUME NEW trail, NEW locs, NEW n \in Nat,
           \A i \in 1..n : FirstAt(trail, locs[i]) \in Nat,
           \A i, k \in 1..n : i < k => FirstAt(trail, locs[i]) < FirstAt(trail, locs[k])
    PROVE  \A i \in 0..n : IsFiniteSet(SeenBy(locs, i)) /\ Cardinality(SeenBy(locs, i)) = i
  <1> SUFFICES ASSUME NEW i \in 0..n
               PROVE  IsFiniteSet(SeenBy(locs, i)) /\ Cardinality(SeenBy(locs, i)) = i
    OBVIOUS
  <1> DEFINE f == [j \in 1..i |-> locs[j]]
  <1>1. \A j, k \in 1..i : j # k => locs[j] # locs[k]
    <2>1. \A j \in 1..i : j \in 1..n
      OBVIOUS
    <2>2. \A j, k \in 1..i : j < k => locs[j] # locs[k]
      BY <2>1
    <2>3. \A j, k \in 1..i : j # k => j < k \/ k < j
      OBVIOUS
    <2>4. QED BY <2>2, <2>3
  <1>2. f \in Bijection(1..i, SeenBy(locs, i))
    <2>1. f \in [1..i -> SeenBy(locs, i)]
      BY DEF SeenBy
    <2>2. \A j, k \in 1..i : f[j] = f[k] => j = k
      BY <1>1
    <2>3. \A x \in SeenBy(locs, i) : \E j \in 1..i : f[j] = x
      BY DEF SeenBy
    <2> HIDE DEF f
    <2>4. QED BY <2>1, <2>2, <2>3 DEF Bijection, Injection, Surjection, IsInjective
  <1> HIDE DEF f
  <1>3. 1 \in Int /\ i \in Int /\ (IF 1 > i THEN 0 ELSE i - 1 + 1) = i
    OBVIOUS
  <1>4. IsFiniteSet(1..i) /\ Cardinality(1..i) = i
    BY <1>3, FS_Interval
  <1>5. QED BY <1>2, <1>4, FS_Bijection DEF ExistsBijection

LEMMA CollectedIsFaithful ==
    ASSUME NEW T, NEW trail \in Seq(T), NEW e \in Evidences(T),
           Collected(e, Len(trail), trail)
    PROVE  Faithful(e, trail)
  <1> DEFINE distinct == ToSet(trail)
             At(l) == FirstAt(trail, l)
             Upto(l) == {m \in distinct : At(m) <= At(l)}
             locs == e.locations
             n == Len(locs)
             Up(i) == SeenBy(locs, i)
  <1>1. locs \in Seq(T) /\ n \in Nat /\ ToSet(locs) = Up(n) /\ EvidenceLimit \in Nat
    BY AgentAssumption DEF Evidences, ToSet, SeenBy
  <1>2. SeenBy(trail, Len(trail)) = distinct
    BY DEF SeenBy, ToSet
  <1>3. \A l \in distinct : At(l) \in Nat
    BY FirstSeen
  <1>4. ToSet(locs) \subseteq distinct
    BY <1>2 DEF Collected
  <1>5. \A i \in 1..n : locs[i] \in distinct
    BY <1>1, <1>4 DEF SeenBy
  <1>6. \A i, k \in 1..n : i < k => At(locs[i]) < At(locs[k])
    BY DEF Collected
  <1>7. \A l \in distinct \ ToSet(locs) : \A i \in 1..n : At(locs[i]) < At(l)
    BY <1>2 DEF Collected
  <1>8. IsFiniteSet(distinct)
    BY DistinctFinite
  <1>9. n <= EvidenceLimit /\ (~e.truncated => ToSet(locs) = distinct)
        /\ (e.truncated => n = EvidenceLimit /\ distinct \ ToSet(locs) # {})
    BY <1>2, <1>4 DEF Collected
  <1>10. e.truncated \in BOOLEAN
    BY DEF Evidences
  <1> HIDE DEF distinct, locs, n, At
  <1>11. \A i \in 0..n : IsFiniteSet(Up(i)) /\ Cardinality(Up(i)) = i
    <2>1. \A i \in 1..n : At(locs[i]) \in Nat
      BY <1>3, <1>5
    <2>2. QED BY <1>1, <1>6, <2>1, AscendingRanks DEF At
  <1> USE DEF SeenBy
  <1>12. \A i \in 1..n : Upto(locs[i]) = Up(i)
    <2> SUFFICES ASSUME NEW i \in 1..n PROVE Upto(locs[i]) = Up(i)
      OBVIOUS
    <2>1. i \in Nat /\ \A j \in 1..i : j \in 1..n /\ (j < i \/ j = i)
      BY <1>1
    <2>2. \A j \in 1..i : locs[j] \in Upto(locs[i])
      <3> SUFFICES ASSUME NEW j \in 1..i PROVE locs[j] \in Upto(locs[i])
        OBVIOUS
      <3>1. locs[j] \in distinct /\ At(locs[j]) \in Nat /\ At(locs[i]) \in Nat
        BY <1>3, <1>5, <2>1
      <3>2. At(locs[j]) <= At(locs[i])
        BY <1>6, <2>1, <3>1
      <3>3. QED BY <3>1, <3>2
    <2>3. ASSUME NEW x \in distinct, At(x) <= At(locs[i]) PROVE x \in Up(i)
      <3>1. At(x) \in Nat /\ At(locs[i]) \in Nat
        BY <1>3, <1>5
      <3>2. x \in ToSet(locs)
        BY <1>7, <2>3, <3>1
      <3>3. PICK j \in 1..n : x = locs[j]
        BY <1>1, <3>2
      <3>4. ~(i < j)
        BY <1>6, <2>3, <3>1, <3>3
      <3>5. j \in 1..i
        BY <1>1, <3>4
      <3>6. QED BY <3>3, <3>5
    <2>4. QED BY <2>2, <2>3
  <1>13. \A i \in 1..n : Cardinality(Upto(locs[i])) = i
    <2>1. \A i \in 1..n : i \in 0..n
      BY <1>1
    <2> HIDE DEF Up, Upto, SeenBy
    <2>2. QED BY <1>11, <1>12, <2>1
  <1>14. ASSUME NEW l \in distinct \ ToSet(locs)
         PROVE  /\ e.truncated /\ Cardinality(Upto(l)) \in Nat
                /\ Cardinality(Upto(l)) > EvidenceLimit
                /\ Cardinality(distinct) \in Nat /\ Cardinality(distinct) > EvidenceLimit
    <2>1. e.truncated /\ n = EvidenceLimit
      BY <1>9, <1>10, <1>14
    <2>2. IsFiniteSet(Up(n)) /\ Cardinality(Up(n)) = n /\ l \notin Up(n)
      <3>1. n \in 0..n
        BY <1>1
      <3> HIDE DEF Up, SeenBy
      <3>2. QED BY <1>1, <1>11, <1>14, <3>1
    <2>3. IsFiniteSet(Up(n) \cup {l}) /\ Cardinality(Up(n) \cup {l}) = n + 1
      <3> HIDE DEF Up, SeenBy
      <3>1. QED BY <2>2, FS_AddElement
    <2>4. \A i \in 1..n : locs[i] \in Upto(l)
      <3> SUFFICES ASSUME NEW i \in 1..n PROVE locs[i] \in Upto(l)
        OBVIOUS
      <3>1. locs[i] \in distinct /\ At(locs[i]) \in Nat /\ At(l) \in Nat
        BY <1>3, <1>5
      <3>2. At(locs[i]) <= At(l)
        BY <1>7, <3>1
      <3>3. QED BY <3>1, <3>2
    <2>5. l \in Upto(l)
      <3>1. At(l) \in Nat
        BY <1>3
      <3>2. At(l) <= At(l)
        BY <3>1
      <3>3. QED BY <3>2
    <2>6. Up(n) \cup {l} \in SUBSET Upto(l) /\ Upto(l) \in SUBSET distinct
      BY <2>4, <2>5
    <2> HIDE DEF Up, Upto, SeenBy
    <2>7. IsFiniteSet(Upto(l)) /\ Cardinality(Upto(l)) <= Cardinality(distinct)
      BY <1>8, <2>6, FS_Subset
    <2>8. n + 1 <= Cardinality(Upto(l))
      BY <2>3, <2>6, <2>7, FS_Subset
    <2>9. Cardinality(Upto(l)) \in Nat /\ Cardinality(distinct) \in Nat
      BY <1>8, <2>7, FS_CardinalityType
    <2>10. QED BY <1>1, <2>1, <2>7, <2>8, <2>9
  <1>15. ToSet(locs) = {l \in distinct : Cardinality(Upto(l)) <= EvidenceLimit}
    <2>1. \A l \in ToSet(locs) : l \in distinct /\ Cardinality(Upto(l)) <= EvidenceLimit
      <3> SUFFICES ASSUME NEW i \in 1..n
                   PROVE  locs[i] \in distinct /\ Cardinality(Upto(locs[i])) <= EvidenceLimit
        BY <1>1
      <3>1. i <= EvidenceLimit
        BY <1>1, <1>9
      <3> HIDE DEF Upto
      <3>2. QED BY <1>5, <1>13, <3>1
    <2>2. \A l \in distinct : Cardinality(Upto(l)) <= EvidenceLimit => l \in ToSet(locs)
      <3> HIDE DEF Upto
      <3>1. \A c \in Nat : ~(c > EvidenceLimit /\ c <= EvidenceLimit)
        BY <1>1
      <3>2. QED BY <1>14, <3>1
    <2> HIDE DEF Upto
    <2>3. QED BY <2>1, <2>2
  <1>16. e.truncated <=> Cardinality(distinct) > EvidenceLimit
    <2>1. CASE e.truncated
      <3> HIDE DEF Upto
      <3>1. QED BY <1>9, <1>14, <2>1
    <2>2. CASE ~e.truncated
      <3>1. distinct = Up(n)
        BY <1>1, <1>9, <2>2
      <3>2. Cardinality(distinct) = n
        <4>1. n \in 0..n
          BY <1>1
        <4> HIDE DEF Up, SeenBy
        <4>2. QED BY <1>11, <3>1, <4>1
      <3>3. ~(n > EvidenceLimit)
        BY <1>1, <1>9
      <3>4. QED BY <2>2, <3>2, <3>3
    <2>3. QED BY <2>1, <2>2
  <1>17. QED BY <1>13, <1>15, <1>16 DEF Faithful, distinct, locs, n, At

\* What is kept of a sequence is one.
LEMMA WithinType ==
    ASSUME NEW T, NEW seq \in Seq(T), NEW S
    PROVE  Within(seq, S) \in Seq(T)
  <1> DEFINE n == Len(seq)
             Next(kept, x) == IF x \in S THEN Append(kept, x) ELSE kept
             step == [p \in Seq(T) \X (1..n) |-> Next(p[1], seq[p[2]])]
             Body(g) == [s \in SUBSET DOMAIN seq |->
                          IF s = {} THEN <<>> ELSE Next(g[s \ {Max(s)}], seq[Max(s)])]
             It == CHOOSE g : g = Body(g)
  <1>1. n \in Nat /\ DOMAIN seq = 1..n /\ \A i \in 1..n : seq[i] \in T
    OBVIOUS
  <1>2. Within(seq, S) = It[DOMAIN seq]
    BY DEF Within, FoldLeft, MapThenFoldSet
  <1> HIDE DEF n
  <1>3. step \in [Seq(T) \X (1..n) -> Seq(T)] /\ <<>> \in Seq(T)
    <2>1. \A kept \in Seq(T), i \in 1..n : Next(kept, seq[i]) \in Seq(T)
      BY <1>1
    <2>2. <<>> \in Seq(T)
      OBVIOUS
    <2> HIDE DEF Next
    <2>3. QED BY <2>1, <2>2
  <1> HIDE DEF Next
  <1>4. PICK f \in [SUBSET (1..n) -> Seq(T)] : FoldOf(f, n, <<>>, step)
    <2> HIDE DEF step
    <2>1. QED BY <1>1, <1>3, FoldExists
  <1>5. f = Body(f)
    <2>1. \A s \in SUBSET (1..n) : s # {} =>
            s \ {Max(s)} \in SUBSET (1..n) /\ Max(s) \in 1..n
      BY <1>1, MaxOfFinite
    <2>2. \A s \in SUBSET (1..n) : s # {} => f[s] = Next(f[s \ {Max(s)}], seq[Max(s)])
      BY <1>1, <1>4, <2>1 DEF FoldOf
    <2>3. f[{}] = <<>>
      BY <1>4 DEF FoldOf
    <2>4. QED BY <1>1, <2>2, <2>3
  <1>6. It = Body(It)
    <2> HIDE DEF Body
    <2>1. QED BY <1>5
  <1>7. It[{}] = <<>> /\ \A m \in 1..n : It[1..m] = Next(It[1..(m - 1)], seq[m])
    <2>1. \A s \in SUBSET (1..n) :
            It[s] = IF s = {} THEN <<>> ELSE Next(It[s \ {Max(s)}], seq[Max(s)])
      BY <1>1, <1>6
    <2>2. \A m \in 1..n : m \in Nat /\ m # 0 /\ 1..m \subseteq 1..n /\ m \in 1..m
      BY <1>1
    <2> HIDE DEF It
    <2>3. QED BY <1>1, <2>1, <2>2, MaxOfInterval
  <1> HIDE DEF Body, It
  <1>8. GoesOn(It, n, Seq(T), <<>>, step)
    BY <1>7 DEF GoesOn
  <1>9. FoldRun(RunOf(It, n), n, Seq(T), <<>>, step)
    <2> HIDE DEF step
    <2>1. QED BY <1>1, <1>3, <1>8, FoldReached
  <1>10. RunOf(It, n)[n] = It[1..n] /\ RunOf(It, n)[n] \in Seq(T)
    <2>1. n \in 0..n
      BY <1>1
    <2>2. RunOf(It, n)[n] = It[1..n]
      BY <2>1 DEF RunOf
    <2>3. QED BY <1>9, <2>1, <2>2 DEF FoldRun
  <1>11. QED BY <1>1, <1>2, <1>10

LEMMA FunctionIsSeq ==
    ASSUME NEW f, NEW n \in Nat, DOMAIN f = 1..n, f = [i \in 1..n |-> f[i]]
    PROVE  IsSeq(f)
  <1> DEFINE S == {f[i] : i \in 1..n}
  <1>1. f \in [1..n -> S]
    OBVIOUS
  <1>2. f \in Seq(S)
    <2> HIDE DEF S
    <2>1. QED BY <1>1
  <1>3. QED BY <1>2 DEF IsSeq

\* A sequence is one over its elements and over any larger set.
LEMMA SeqOver ==
    ASSUME NEW s, IsSeq(s), NEW U, ToSet(s) \subseteq U
    PROVE  s \in Seq(U)
  <1>1. PICK S : s \in Seq(S)
    BY DEF IsSeq
  <1>2. Len(s) \in Nat /\ DOMAIN s = 1..Len(s) /\ s = [i \in 1..Len(s) |-> s[i]]
    BY <1>1
  <1>3. \A i \in 1..Len(s) : s[i] \in U
    BY <1>2 DEF ToSet
  <1>4. s \in [1..Len(s) -> U]
    BY <1>2, <1>3
  <1>5. QED BY <1>2, <1>4

\* A search looks through finitely many lines.
LEMMA LinesAreListed ==
    ASSUME NEW t \in Trees
    PROVE  IsSeq(SourceLines(t))
  <1> DEFINE Line == [path : Paths, line : Nat, words : SUBSET [word : Words, declares : BOOLEAN]]
             Of(p) == IF p \in Metadata \/ t[p].kind # "text" THEN <<>>
                      ELSE [n \in 1..Len(t[p].lines) |->
                              [path |-> p, line |-> n, words |-> t[p].lines[n]]]
             all == [p \in Paths |-> Of(p)]
  <1>1. ASSUME NEW p \in Paths PROVE Of(p) \in Seq(Line)
    <2>1. t[p].lines \in Seq(SUBSET [word : Words, declares : BOOLEAN])
      BY AgentAssumption
    <2> DEFINE content == t[p].lines
               list == [n \in 1..Len(content) |-> [path |-> p, line |-> n, words |-> content[n]]]
    <2>2. Len(content) \in Nat
          /\ \A n \in 1..Len(content) : content[n] \in SUBSET [word : Words, declares : BOOLEAN]
      BY <2>1
    <2>3. list \in [1..Len(content) -> Line]
      <3> HIDE DEF content
      <3>1. QED BY <2>2
    <2>4. list \in Seq(Line) /\ <<>> \in Seq(Line)
      <3> HIDE DEF list, content, Line
      <3>1. QED BY <2>2, <2>3
    <2>5. Of(p) = <<>> \/ Of(p) = list
      OBVIOUS
    <2> HIDE DEF Of, list
    <2>6. QED BY <2>4, <2>5
  <1>2. all \in Seq(Seq(Line))
    <2> HIDE DEF Of, Line
    <2>1. Paths = 1..MaxPath /\ MaxPath \in Nat
      BY ToolsAssumption DEF Paths
    <2>2. all \in [1..MaxPath -> Seq(Line)]
      BY <1>1, <2>1
    <2> HIDE DEF all
    <2>3. QED BY <2>1, <2>2
  <1>3. SourceLines(t) = FlattenSeq(all)
    BY DEF SourceLines
  <1> HIDE DEF all, Line
  <1>4. SourceLines(t) \in Seq(Line)
    BY <1>2, <1>3, FlattenType
  <1>5. QED BY <1>4 DEF IsSeq

\* Whatever a tool returns, its locations are a list.
LEMMA ToolLocations ==
    ASSUME NEW c \in Calls, tree \in Trees
    PROVE  IsSeq(Execute(c).locations)
  <1>1. IsSeq(<<>>) /\ \A l : IsSeq(<<l>>)
    <2>1. <<>> \in Seq({})
      OBVIOUS
    <2>2. \A l : <<l>> \in Seq({l})
      OBVIOUS
    <2>3. QED BY <2>1, <2>2 DEF IsSeq
  <1>2. /\ \A name, path, error : Failed(name, path, error).locations = <<>>
        /\ \A name, path, locs : Returned(name, path, locs).locations = locs
    BY DEF Failed, Returned
  <1>3. CASE c.tool = "indexed_code_search"
    <2> DEFINE hits == Hits[c.arg]
               locs == [i \in 1..Len(hits) |-> Location(hits[i], 1, 1)]
    <2>1. c.arg \in DOMAIN Hits
      BY <1>3 DEF Calls
    <2>2. hits \in Seq(Paths)
      BY <2>1, AgentAssumption
    <2>3. Len(hits) \in Nat
      BY <2>2
    <2>4. Execute(c).locations = locs
      BY <1>2, <1>3 DEF Execute, IndexedCodeSearch
    <2> HIDE DEF hits
    <2>5. IsSeq(locs)
      BY <2>3, FunctionIsSeq
    <2>6. QED BY <2>4, <2>5
  <1>4. CASE c.tool = "read_file"
    <2>1. Execute(c) = ReadFile(tree, c.arg, c.from, c.to)
      BY <1>4 DEF Execute
    <2>2. /\ \A p, e : IsSeq(Failed("read_file", p, e).locations)
          /\ \A p, from, to : IsSeq(Returned("read_file", p, <<Location(p, from, to)>>).locations)
      BY <1>1, <1>2
    <2>3. IsSeq(ReadFile(tree, c.arg, c.from, c.to).locations)
      BY <2>2 DEF ReadFile
    <2>4. QED BY <2>1, <2>3
  <1>5. CASE c.tool \in {"search_code", "find_symbol"}
    <2>1. ASSUME NEW name, NEW words
          PROVE  IsSeq(Found(name, tree, words, MaxSearchResults).locations)
      <3> DEFINE lines == SourceLines(tree)
                 hits  == Within(lines, {l \in ToSet(lines) : l.words \cap words # {}})
                 shown == IF MaxSearchResults < MaxSearchResults
                          THEN MaxSearchResults ELSE MaxSearchResults
                 m == IF Len(hits) < shown THEN Len(hits) ELSE shown
                 kept == SubSeq(hits, 1, m)
                 locs == [i \in 1..Len(kept) |-> Location(kept[i].path, kept[i].line, kept[i].line)]
      <3>1. PICK T : lines \in Seq(T)
        BY LinesAreListed DEF IsSeq
      <3>2. hits \in Seq(T)
        BY <3>1, WithinType
      <3>3. Found(name, tree, words, MaxSearchResults).locations = locs
        <4>1. Found(name, tree, words, MaxSearchResults) =
                [Returned(name, 0, locs) EXCEPT !.truncated = Len(hits) > shown]
          BY DEF Found
        <4> HIDE DEF locs, hits, shown
        <4>2. QED BY <4>1 DEF Returned
      <3> HIDE DEF hits
      <3>4. Len(kept) \in Nat
        <4>1. MaxSearchResults \in Nat
          BY ToolsAssumption
        <4>2. Len(hits) \in Nat
          BY <3>2
        <4>3. m \in Nat /\ m <= Len(hits) /\ (m = 0 \/ 1 <= m)
          BY <4>1, <4>2
        <4> HIDE DEF m
        <4>4. kept \in Seq(T)
          BY <3>2, <4>2, <4>3
        <4> HIDE DEF kept
        <4>5. QED BY <4>4
      <3> HIDE DEF kept
      <3>5. IsSeq(locs)
        BY <3>4, FunctionIsSeq
      <3> HIDE DEF locs
      <3>6. QED BY <3>3, <3>5
    <2>2. QED BY <1>5, <2>1 DEF Execute, SearchCode, FindSymbol
  <1>6. c.tool \in {"indexed_code_search", "read_file", "search_code", "find_symbol"}
    BY DEF Calls
  <1>7. QED BY <1>3, <1>4, <1>5, <1>6

\* The observations of the run list locations.
LocationsInv ==
    /\ tree \in Trees
    /\ \A i \in 1..Len(steps) : IsSeq(steps[i].locations)

LEMMA LocationsInvStep == AgentInv /\ LocationsInv /\ [AgentNext]_agentVars => LocationsInv'
  <1> SUFFICES ASSUME AgentInv, LocationsInv, [AgentNext]_agentVars PROVE LocationsInv'
    OBVIOUS
  <1>1. tree' \in Trees
    BY DEF LocationsInv, AgentNext, agentVars, FinalAnswer, RunTool, TreeChanges, CallTool, Stop
  <1>2. IsSeq(<<>>)
    <2>1. <<>> \in Seq({})
      OBVIOUS
    <2>2. QED BY <2>1 DEF IsSeq
  <1>3. ASSUME NEW o, IsSeq(o.locations), steps' = Append(steps, o)
        PROVE  \A i \in 1..Len(steps') : IsSeq((steps'[i]).locations)
    <2>1. PICK S : steps \in Seq(S)
      BY DEF AgentInv, IsSeq
    <2>2. /\ Len(steps') = Len(steps) + 1 /\ Len(steps) \in Nat /\ steps'[Len(steps) + 1] = o
          /\ \A i \in 1..Len(steps) : steps'[i] = steps[i]
      BY <1>3, <2>1
    <2>3. \A i \in 1..(Len(steps) + 1) : i \in 1..Len(steps) \/ i = Len(steps) + 1
      BY <2>2
    <2>4. QED BY <1>3, <2>2, <2>3 DEF LocationsInv
  <1>4. CASE UNCHANGED steps
    BY <1>1, <1>4 DEF LocationsInv
  <1>5. CASE \E o : IsSeq(o.locations) /\ steps' = Append(steps, o)
    BY <1>1, <1>3, <1>5 DEF LocationsInv
  <1>6. \A name, path, error : IsSeq(Failed(name, path, error).locations)
    BY <1>2 DEF Failed
  <1>7. CASE FinalAnswer
    BY <1>4, <1>5, <1>6, <1>7 DEF FinalAnswer, Feedback
  <1>8. ASSUME NEW c \in Calls, CallTool(c) PROVE LocationsInv'
    BY <1>4, <1>5, <1>6, <1>8 DEF CallTool
  <1>9. CASE RunTool
    <2>1. call \in Calls /\ tree \in Trees
      BY <1>9 DEF RunTool, AgentInv, LocationsInv
    <2>2. IsSeq(Execute(call).locations)
      BY <2>1, ToolLocations
    <2>3. steps' = Append(steps, Execute(call))
      BY <1>9 DEF RunTool
    <2>4. QED BY <1>5, <2>2, <2>3
  <1>10. CASE TreeChanges \/ (\E status \in {"error", "cancelled"} : Stop(status))
              \/ UNCHANGED agentVars
    BY <1>4, <1>10 DEF TreeChanges, Stop, agentVars
  <1>11. QED BY <1>7, <1>8, <1>9, <1>10 DEF AgentNext

\* The citable locations of all steps, one after the other, are a list.
LEMMA TrailIsListed ==
    ASSUME AgentInv, LocationsInv
    PROVE  IsSeq(FlattenSeq([i \in 1..Len(steps) |-> Observed(steps[i])]))
  <1> DEFINE n == Len(steps)
             all == [i \in 1..n |-> Observed(steps[i])]
             U == UNION {ToSet(all[i]) : i \in 1..n}
  <1>1. n \in Nat
    BY DEF AgentInv, IsSeq
  <1>2. ASSUME NEW i \in 1..n PROVE IsSeq(Observed(steps[i]))
    <2> DEFINE locs == steps[i].locations
    <2>1. PICK T : locs \in Seq(T)
      BY DEF LocationsInv, IsSeq
    <2>2. Within(locs, {l \in ToSet(locs) : l.from > 0}) \in Seq(T)
      BY <2>1, WithinType
    <2>3. <<>> \in Seq(T)
      OBVIOUS
    <2>4. Observed(steps[i]) = <<>>
          \/ Observed(steps[i]) = Within(locs, {l \in ToSet(locs) : l.from > 0})
      BY DEF Observed
    <2>5. QED BY <2>2, <2>3, <2>4 DEF IsSeq
  <1> HIDE DEF n
  <1>3. \A i \in 1..n : IsSeq(all[i]) /\ ToSet(all[i]) \subseteq U
    BY <1>2
  <1>4. all \in [1..n -> Seq(U)]
    <2>1. \A i \in 1..n : all[i] \in Seq(U)
      <3> HIDE DEF all, U
      <3>1. QED BY <1>3, SeqOver
    <2> HIDE DEF U
    <2>2. QED BY <2>1
  <1>5. all \in Seq(Seq(U))
    <2> HIDE DEF all, U
    <2>1. QED BY <1>1, <1>4
  <1> HIDE DEF all, U
  <1>6. FlattenSeq(all) \in Seq(U)
    BY <1>5, FlattenType
  <1>7. QED BY <1>6 DEF all, n, IsSeq

\* The evidence at the end of a list of locations is what it owes them.
LEMMA EvidenceOwes ==
    ASSUME NEW trail, IsSeq(trail)
    PROVE  Faithful(FoldLeft(Collect, NoEvidence, trail), trail)
  <1>1. PICK T : trail \in Seq(T)
    BY DEF IsSeq
  <1> DEFINE n == Len(trail)
  <1>2. n \in Nat
    BY <1>1
  <1>3. PICK run : EvidenceRun(run, trail, T) /\ FoldLeft(Collect, NoEvidence, trail) = run[n]
    BY <1>1, EvidenceIsFolded
  <1> DEFINE S == {m \in Nat : m <= n => run[m] \in Evidences(T) /\ Collected(run[m], m, trail)}
  <1>4. 0 \in S
    <2>1. run[0] = NoEvidence /\ run[0] \in Evidences(T)
      BY <1>2, <1>3 DEF EvidenceRun
    <2>2. ToSet(<<>>) = {} /\ SeenBy(trail, 0) = {} /\ Len(<<>>) = 0
      BY DEF ToSet, SeenBy
    <2>3. 1..Len(<<>>) = {} /\ 0 <= EvidenceLimit
      BY AgentAssumption
    <2>4. Collected(NoEvidence, 0, trail)
      BY <2>2, <2>3 DEF Collected, NoEvidence
    <2>5. QED BY <2>1, <2>4
  <1>5. \A m \in Nat : m \in S => m + 1 \in S
    <2> SUFFICES ASSUME NEW m \in Nat, m \in S, m + 1 <= n
                 PROVE  run[m + 1] \in Evidences(T) /\ Collected(run[m + 1], m + 1, trail)
      OBVIOUS
    <2>1. m <= n /\ m + 1 \in 1..n /\ (m + 1) - 1 = m /\ m + 1 \in 0..n
      BY <1>2
    <2>2. run[m] \in Evidences(T) /\ Collected(run[m], m, trail)
      BY <2>1
    <2>3. run[m + 1] = Collect(run[m], trail[m + 1]) /\ run[m + 1] \in Evidences(T)
      BY <1>3, <2>1 DEF EvidenceRun
    <2>4. QED BY <1>1, <2>1, <2>2, <2>3, CollectStep
  <1> HIDE DEF S
  <1>6. n \in S
    BY <1>2, <1>4, <1>5, NumbersAllIn
  <1>7. run[n] \in Evidences(T) /\ Collected(run[n], n, trail)
    BY <1>2, <1>6 DEF S
  <1>8. QED BY <1>1, <1>3, <1>7, CollectedIsFaithful

\* The evidence of an answer is what the files showed, each location once and in the
\* order of its first appearance (agent/evidence.py).
THEOREM AgentEvidenceIsObserved == AgentSpec => []EvidenceIsObserved
  <1>1. AgentInv /\ LocationsInv => EvidenceIsObserved
    <2> SUFFICES ASSUME AgentInv, LocationsInv PROVE EvidenceIsObserved
      OBVIOUS
    <2> DEFINE trail == FlattenSeq([i \in 1..Len(steps) |-> Observed(steps[i])])
    <2>1. IsSeq(trail)
      BY TrailIsListed
    <2>2. Evidence = FoldLeft(Collect, NoEvidence, trail)
      BY DEF Evidence, NoEvidence
    <2>3. Faithful(Evidence, trail)
      <3> HIDE DEF trail
      <3>1. QED BY <2>1, <2>2, EvidenceOwes
    <2>4. QED BY <2>3 DEF Faithful, EvidenceIsObserved, FirstAt
  <1>2. AgentInit => LocationsInv
    <2> SUFFICES ASSUME AgentInit PROVE LocationsInv
      OBVIOUS
    <2>1. steps = <<>> /\ tree \in Trees
      BY DEF AgentInit
    <2>2. 1..Len(steps) = {}
      BY <2>1
    <2>3. QED BY <2>1, <2>2 DEF LocationsInv
  <1>3. QED BY <1>1, <1>2, AgentInitially, AgentStep, LocationsInvStep, PTL DEF AgentSpec
-----------------------------------------------------------------------------
(* SubprocessTools. *)

Results == [exit : {"none", "zero", "other"}, timedOut : BOOLEAN, overflow : BOOLEAN,
            passed : BOOLEAN, chars : Nat, truncated : BOOLEAN]

SubprocessTypeOK ==
    /\ kind \in {"verifier", "git"}
    /\ child \in {"none", "running", "exited", "killed"} /\ code \in {"none", "zero", "other"}
    /\ orphans \in SUBSET {"group", "apart"} /\ refused \in BOOLEAN /\ late \in BOOLEAN
    /\ output \in Nat /\ result \in Results

\* Where the tool and its timer are, and what is settled there: a code is that of a child
\* that ended by itself, the child has stopped and its group is gone once the tool passed
\* the kill, and a timer that fired is seen by whoever reaps.
ToolPlaces ==
    /\ kind = "verifier" => /\ tool \in {"starting", "waiting", "polled", "terminating",
                                         "collecting", "done", "error"}
                            /\ timer = "none"
    /\ kind = "git" => /\ tool \in {"starting", "reading", "reaping", "done", "error"}
                       /\ orphans = {}
    /\ tool \in {"starting", "error"} /\ kind = "verifier" => child = "none"
    /\ tool = "starting" => child = "none" /\ timer = "none"
    /\ tool \notin {"starting", "error"} => child # "none"
CodeOfExit ==
    /\ code # "none" <=> child = "exited"
    /\ result.exit # "none" => result.exit = code
TimerTells == timer \in {"set", "over"} => late
GroupGone ==
    /\ tool \in {"collecting", "done"} => Stopped
    /\ tool = "error" => child \in {"none", "exited", "killed"}
    /\ tool \in {"collecting", "done", "error"} => ("group" \in orphans => refused)
    /\ child = "none" => orphans = {}
Reported ==
    /\ result.passed => result.exit = "zero"
    /\ kind = "verifier" /\ tool = "done" /\ ~result.truncated => result.chars = output
    /\ kind = "git" /\ tool \in {"reaping", "done"} /\ ~result.truncated =>
         result.chars = output /\ Stopped
    /\ kind = "git" /\ tool = "done" /\ ~result.truncated =>
         child = "exited" /\ code = "zero"

SubprocessInv ==
    /\ SubprocessTypeOK /\ ToolPlaces /\ CodeOfExit /\ TimerTells /\ GroupGone /\ Reported

LEMMA SubprocessInitially == SubprocessInit => SubprocessInv
  <1> SUFFICES ASSUME SubprocessInit PROVE SubprocessInv
    OBVIOUS
  <1>1. result \in Results /\ ~result.passed /\ result.exit = "none"
    BY DEF SubprocessInit, NoResult, Results
  <1>2. /\ kind \in {"verifier", "git"} /\ tool = "starting" /\ child = "none" /\ code = "none"
        /\ orphans = {} /\ output = 0 /\ late = FALSE /\ timer = "none" /\ refused = FALSE
    BY DEF SubprocessInit
  <1>3. QED BY <1>1, <1>2 DEF SubprocessInv, SubprocessTypeOK, ToolPlaces, CodeOfExit, TimerTells,
                              GroupGone, Reported, Stopped

\* The program and the clock.
LEMMA SubprocessChild ==
  ASSUME SubprocessInv, Write \/ Spawn \/ Exit \/ OrphanEnds
                        \/ DeadlinePasses \/ Expire \/ ExpireKill
  PROVE  SubprocessInv'
  <1> USE DEF SubprocessInv, SubprocessTypeOK, ToolPlaces, CodeOfExit, TimerTells, GroupGone,
              Reported, Stopped
  <1>1. CASE Write
    <2>1. /\ output' \in Nat /\ (child = "running" \/ orphans # {}) /\ tool \notin {"done", "error"}
          /\ UNCHANGED <<kind, tool, child, code, orphans, late, timer, refused, result>>
      BY <1>1 DEF Write
    <2>2. kind = "git" => child = "running"
      BY <2>1
    <2>3. QED BY <2>1, <2>2
  <1>2. CASE Spawn
    <2>1. /\ kind = "verifier" /\ child = "running" /\ orphans' \in SUBSET {"group", "apart"}
          /\ UNCHANGED <<kind, tool, child, code, output, late, timer, refused, result>>
      BY <1>2 DEF Spawn
    <2>2. tool \notin {"collecting", "done", "error"}
      BY <2>1
    <2>3. QED BY <2>1, <2>2
  <1>3. CASE Exit
    BY <1>3 DEF Exit
  <1>4. CASE OrphanEnds
    <2>1. /\ orphans' \in SUBSET orphans
          /\ UNCHANGED <<kind, tool, child, code, output, late, timer, refused, result>>
      BY <1>4 DEF OrphanEnds
    <2>2. QED BY <2>1
  <1>5. CASE DeadlinePasses
    BY <1>5 DEF DeadlinePasses, childVars
  <1>6. CASE Expire
    BY <1>6 DEF Expire, childVars
  <1>7. CASE ExpireKill
    BY <1>7 DEF ExpireKill, Killed
  <1>8. QED BY <1>1, <1>2, <1>3, <1>4, <1>5, <1>6, <1>7

\* The tool.
LEMMA SubprocessTool ==
  ASSUME SubprocessInv, ToolStep PROVE SubprocessInv'
  <1> USE DEF SubprocessInv, SubprocessTypeOK, ToolPlaces, CodeOfExit, TimerTells, GroupGone,
              Reported, Stopped, childVars, Killed
  <1>1. CASE StartChild
    BY <1>1 DEF StartChild
  <1>2. CASE WaitBounded
    BY <1>2 DEF WaitBounded, Results
  <1>3. CASE PollSpool
    BY <1>3 DEF PollSpool, Results
  <1>4. CASE TerminateTree
    <2>1. /\ kind = "verifier" /\ tool' = "collecting" /\ child' \in {"exited", "killed"}
          /\ child' = "exited" <=> child = "exited"
          /\ refused' \in BOOLEAN /\ orphans' \in SUBSET orphans /\ ("group" \in orphans' => refused')
          /\ UNCHANGED <<kind, code, output, late, timer, result>>
      BY <1>4 DEF TerminateTree
    <2>2. QED BY <2>1
  <1>5. CASE CollectOutput
    BY <1>5, SubprocessAssumption DEF CollectOutput, Results
  <1>6. CASE ReadPipe
    <2> DEFINE b == output > MaxChars
               n == IF output > MaxChars THEN MaxChars ELSE output
    <2>1. /\ kind = "git" /\ tool = "reading" /\ tool' = "reaping"
          /\ UNCHANGED <<kind, code, orphans, output, late, timer, refused>>
      BY <1>6 DEF ReadPipe
    <2>2. MaxChars \in Nat
      BY SubprocessAssumption
    <2>3. b \in BOOLEAN /\ n \in Nat /\ (~b => n = output)
      BY <2>2
    <2>4. result' = [result EXCEPT !.truncated = b, !.chars = n] /\ result \in Results
      BY <1>6 DEF ReadPipe
    <2> HIDE DEF b, n
    <2>5. /\ result' \in Results /\ (result'.passed => result.passed) /\ result'.exit = result.exit
          /\ ~result'.truncated => result'.chars = output
      <3>1. CASE b = TRUE
        <4>1. result' = [result EXCEPT !.truncated = TRUE, !.chars = n]
          BY <2>4, <3>1
        <4>2. QED BY <2>3, <2>4, <4>1 DEF Results
      <3>2. CASE b = FALSE
        <4>1. result' = [result EXCEPT !.truncated = FALSE, !.chars = n]
          BY <2>4, <3>2
        <4>2. QED BY <2>3, <2>4, <3>2, <4>1 DEF Results
      <3>3. QED BY <2>3, <3>1, <3>2
    <2>6. Stopped' /\ (child' = "exited" <=> child = "exited")
      BY <1>6, <2>1 DEF ReadPipe
    <2>7. SubprocessTypeOK' /\ ToolPlaces' /\ TimerTells' /\ GroupGone'
      BY <2>1, <2>5, <2>6
    <2>8. CodeOfExit'
      BY <2>1, <2>5, <2>6
    <2>9. Reported'
      BY <2>1, <2>5, <2>6
    <2>10. QED BY <2>7, <2>8, <2>9
  <1>7. CASE Reap
    BY <1>7 DEF Reap
  <1>8. QED BY <1>1, <1>2, <1>3, <1>4, <1>5, <1>6, <1>7 DEF ToolStep

\* What a tool says of a program is what the program did (tools/verification.py,
\* tools/git.py).
THEOREM SubprocessIsHonest == SubprocessSpec => []SubprocessHonest
  <1>1. SubprocessInv => SubprocessHonest
    BY DEF SubprocessInv, SubprocessTypeOK, ToolPlaces, CodeOfExit, GroupGone, Reported, Stopped,
           SubprocessHonest
  <1>2. SubprocessInv /\ UNCHANGED subprocessVars => SubprocessInv'
    BY DEF subprocessVars, SubprocessInv, SubprocessTypeOK, ToolPlaces, CodeOfExit, TimerTells,
           GroupGone, Reported, Stopped
  <1>3. SubprocessInv /\ [SubprocessNext]_subprocessVars => SubprocessInv'
    BY <1>2, SubprocessChild, SubprocessTool DEF SubprocessNext, TimerStep
  <1>4. QED BY <1>1, <1>3, SubprocessInitially, PTL DEF SubprocessSpec

-----------------------------------------------------------------------------
(***************************************************************************)
(* ProviderCalls.  The batches cover the texts, and at any time the        *)
(* vectors are those of the first texts and the batches that are left      *)
(* cover the others; the request at hand was sent once for each attempt,   *)
(* and every earlier one asked only for texts that have their vectors.     *)
(***************************************************************************)

SumOf(w, seq) == FoldLeft(LAMBDA sum, t : sum + w[t], 0, seq)
PartialSums(run, w, seq, n) ==
    /\ run \in [0..n -> Nat] /\ run[0] = 0
    /\ \A m \in 1..n : run[m] = run[m - 1] + w[seq[m]]

\* The sum of a sequence is what its partial sums lead to.
LEMMA SumIsFold ==
    ASSUME NEW w, NEW n \in Nat, NEW seq, DOMAIN seq = 1..n,
           \A i \in 1..n : w[seq[i]] \in Nat
    PROVE  \E run : PartialSums(run, w, seq, n) /\ SumOf(w, seq) = run[n]
  <1> DEFINE step == [p \in Nat \X (1..n) |-> p[1] + w[seq[p[2]]]]
             Body(g) == [s \in SUBSET DOMAIN seq |->
                          IF s = {} THEN 0 ELSE g[s \ {Max(s)}] + w[seq[Max(s)]]]
             It == CHOOSE g : g = Body(g)
  <1>1. SumOf(w, seq) = It[1..n]
    BY DEF SumOf, FoldLeft, MapThenFoldSet
  <1>2. step \in [Nat \X (1..n) -> Nat]
    OBVIOUS
  <1>3. PICK f \in [SUBSET (1..n) -> Nat] : FoldOf(f, n, 0, step)
    <2> HIDE DEF step
    <2>1. 0 \in Nat
      OBVIOUS
    <2>2. QED BY <1>2, <2>1, FoldExists
  <1>4. f = Body(f)
    <2>1. \A s \in SUBSET (1..n) : s # {} =>
            s \ {Max(s)} \in SUBSET (1..n) /\ Max(s) \in 1..n
      BY MaxOfFinite
    <2>2. \A s \in SUBSET (1..n) : s # {} => f[s] = f[s \ {Max(s)}] + w[seq[Max(s)]]
      BY <1>3, <2>1 DEF FoldOf
    <2>3. f[{}] = 0
      BY <1>3 DEF FoldOf
    <2>4. QED BY <2>2, <2>3
  <1>5. It = Body(It)
    <2> HIDE DEF Body
    <2>1. QED BY <1>4
  <1>6. It[{}] = 0 /\ \A m \in 1..n : It[1..m] = It[1..(m - 1)] + w[seq[m]]
    <2>1. \A s \in SUBSET (1..n) :
            It[s] = IF s = {} THEN 0 ELSE It[s \ {Max(s)}] + w[seq[Max(s)]]
      BY <1>5
    <2>2. \A m \in 1..n : m \in Nat /\ m # 0 /\ 1..m \subseteq 1..n /\ m \in 1..m
      OBVIOUS
    <2> HIDE DEF It
    <2>3. QED BY <2>1, <2>2, MaxOfInterval
  <1>7. GoesOn(It, n, Nat, 0, step)
    <2> HIDE DEF It
    <2>1. QED BY <1>6 DEF GoesOn
  <1> DEFINE run == RunOf(It, n)
  <1>8. FoldRun(run, n, Nat, 0, step) /\ It[1..n] = run[n]
    <2> HIDE DEF It, step
    <2>1. 0 \in Nat
      OBVIOUS
    <2>2. FoldRun(run, n, Nat, 0, step)
      BY <1>2, <1>7, <2>1, FoldReached
    <2>3. QED BY <2>2 DEF RunOf
  <1> HIDE DEF run
  <1>9. PartialSums(run, w, seq, n)
    <2>1. \A m \in 1..n : m - 1 \in 0..n
      OBVIOUS
    <2>2. QED BY <1>8, <2>1 DEF FoldRun, PartialSums
  <1>10. QED BY <1>1, <1>8, <1>9

\* One more summand.
LEMMA SumAppend ==
    ASSUME NEW w, NEW seq \in Seq(Nat), NEW x \in Nat, w[x] \in Nat,
           \A i \in 1..Len(seq) : w[seq[i]] \in Nat
    PROVE  /\ SumOf(w, seq) \in Nat
           /\ SumOf(w, Append(seq, x)) = SumOf(w, seq) + w[x]
  <1> DEFINE n == Len(seq)
             longer == Append(seq, x)
  <1>1. n \in Nat /\ DOMAIN seq = 1..n
    OBVIOUS
  <1>2. DOMAIN longer = 1..(n + 1) /\ longer[n + 1] = x /\ n + 1 \in Nat
    OBVIOUS
  <1>3. \A i \in 1..n : longer[i] = seq[i]
    OBVIOUS
  <1>4. \A i \in 1..(n + 1) : w[longer[i]] \in Nat
    <2>1. \A i \in 1..(n + 1) : i \in 1..n \/ i = n + 1
      OBVIOUS
    <2>3. \A i \in 1..n : w[seq[i]] \in Nat
      OBVIOUS
    <2> HIDE DEF longer, n
    <2>2. QED BY <1>2, <1>3, <2>1, <2>3
  <1> HIDE DEF longer, n
  <1>5. PICK a : PartialSums(a, w, seq, n) /\ SumOf(w, seq) = a[n]
    <2>1. \A i \in 1..n : w[seq[i]] \in Nat
      BY DEF n
    <2>2. QED BY <1>1, <2>1, SumIsFold
  <1>6. PICK b : PartialSums(b, w, longer, n + 1) /\ SumOf(w, longer) = b[n + 1]
    BY <1>2, <1>4, SumIsFold
  <1> DEFINE S == {m \in Nat : m <= n => a[m] = b[m]}
  <1>7. 0 \in S
    BY <1>5, <1>6 DEF PartialSums
  <1>8. \A m \in Nat : m \in S => m + 1 \in S
    <2> SUFFICES ASSUME NEW m \in Nat, m \in S, m + 1 <= n PROVE a[m + 1] = b[m + 1]
      OBVIOUS
    <2>1. m + 1 \in 1..n /\ m + 1 \in 1..(n + 1) /\ (m + 1) - 1 = m /\ m <= n
      BY <1>1
    <2>2. a[m] = b[m]
      BY <2>1
    <2>3. a[m + 1] = a[m] + w[seq[m + 1]]
      <3>1. a[m + 1] = a[(m + 1) - 1] + w[seq[m + 1]]
        BY <1>5, <2>1, Zenon DEF PartialSums
      <3>2. QED BY ONLY <2>1, <3>1
    <2>4. b[m + 1] = b[m] + w[longer[m + 1]]
      <3>1. b[m + 1] = b[(m + 1) - 1] + w[longer[m + 1]]
        BY <1>6, <2>1, Zenon DEF PartialSums
      <3>2. QED BY ONLY <2>1, <3>1
    <2>5. longer[m + 1] = seq[m + 1]
      BY <1>3, <2>1, Zenon
    <2>6. QED BY ONLY <2>2, <2>3, <2>4, <2>5
  <1> HIDE DEF S
  <1>9. n \in S
    BY <1>1, <1>7, <1>8, NumbersAllIn
  <1>10. a[n] = b[n]
    BY <1>9 DEF S
  <1>11. b[n + 1] = b[n] + w[x]
    <2>1. n + 1 \in 1..(n + 1) /\ (n + 1) - 1 = n
      BY <1>1
    <2>2. QED BY <1>2, <1>6, <2>1 DEF PartialSums
  <1>12. a[n] \in Nat
    BY <1>1, <1>5 DEF PartialSums
  <1>13. QED BY <1>5, <1>6, <1>10, <1>11, <1>12 DEF longer

\* An empty sum is zero.
LEMMA SumOfNone ==
    ASSUME NEW w PROVE SumOf(w, <<>>) = 0
  <1>1. 0 \in Nat /\ DOMAIN <<>> = 1..0 /\ \A i \in 1..0 : w[(<<>>)[i]] \in Nat
    OBVIOUS
  <1>2. PICK run : PartialSums(run, w, <<>>, 0) /\ SumOf(w, <<>>) = run[0]
    BY <1>1, SumIsFold
  <1>3. QED BY <1>2 DEF PartialSums

\* _batches as an accumulator: what is complete, and the batch that is open.
Accs == [full : Seq(Seq(Nat)), batch : Seq(Nat), chars : Nat]
NoBatch == [full |-> <<>>, batch |-> <<>>, chars |-> 0]
BatchAdd(input, acc, i) ==
    IF acc.batch # <<>> /\ (Len(acc.batch) >= BatchSize \/ acc.chars + input[i] > MaxBatchChars)
      THEN [full |-> Append(acc.full, acc.batch), batch |-> <<i>>, chars |-> input[i]]
      ELSE [acc EXCEPT !.batch = Append(@, i), !.chars = @ + input[i]]
Closed(acc) == IF acc.batch = <<>> THEN acc.full ELSE Append(acc.full, acc.batch)

BatchRun(run, input) ==
    /\ run \in [0..Len(input) -> Accs] /\ run[0] = NoBatch
    /\ \A m \in 1..Len(input) : run[m] = BatchAdd(input, run[m - 1], m)

\* The accumulator keeps its type.
LEMMA BatchAddType ==
    ASSUME NEW input \in Seq(Nat), NEW acc \in Accs, NEW i \in 1..Len(input)
    PROVE  BatchAdd(input, acc, i) \in Accs
  <1>1. input[i] \in Nat /\ i \in Nat
    OBVIOUS
  <1>2. acc.full \in Seq(Seq(Nat)) /\ acc.batch \in Seq(Nat) /\ acc.chars \in Nat
    BY DEF Accs
  <1>3. <<i>> \in Seq(Nat) /\ Append(acc.batch, i) \in Seq(Nat)
        /\ Append(acc.full, acc.batch) \in Seq(Seq(Nat)) /\ acc.chars + input[i] \in Nat
    BY <1>1, <1>2
  <1>4. QED BY <1>1, <1>2, <1>3 DEF BatchAdd, Accs

\* The batches are what the accumulator holds after the last text.
LEMMA BatchesAreFolded ==
    ASSUME NEW input \in Seq(Nat)
    PROVE  \E run : BatchRun(run, input) /\ Batches(input) = Closed(run[Len(input)])
  <1> DEFINE n == Len(input)
             ids == [i \in 1..n |-> i]
             step == [p \in Accs \X (1..n) |-> BatchAdd(input, p[1], p[2])]
             Body(g) == [s \in SUBSET DOMAIN ids |->
                          IF s = {} THEN NoBatch
                                    ELSE BatchAdd(input, g[s \ {Max(s)}], ids[Max(s)])]
             It == CHOOSE g : g = Body(g)
  <1>1. n \in Nat /\ DOMAIN ids = 1..n /\ \A i \in 1..n : ids[i] = i
    OBVIOUS
  <1>2. Batches(input) = Closed(It[DOMAIN ids])
    BY DEF Batches, FoldLeft, MapThenFoldSet, Closed, BatchAdd, NoBatch
  <1> HIDE DEF ids, n
  <1>3. step \in [Accs \X (1..n) -> Accs] /\ NoBatch \in Accs
    <2>1. \A p \in Accs \X (1..n) : BatchAdd(input, p[1], p[2]) \in Accs
      <3> SUFFICES ASSUME NEW acc \in Accs, NEW i \in 1..n PROVE BatchAdd(input, acc, i) \in Accs
        OBVIOUS
      <3>1. QED BY BatchAddType DEF n
    <2>2. NoBatch \in Accs
      BY DEF NoBatch, Accs
    <2>3. QED BY ONLY <2>1, <2>2
  <1>4. PICK f \in [SUBSET (1..n) -> Accs] : FoldOf(f, n, NoBatch, step)
    <2> HIDE DEF step
    <2>1. QED BY <1>1, <1>3, FoldExists
  <1>5. f = Body(f)
    <2>1. \A s \in SUBSET (1..n) : s # {} =>
            s \ {Max(s)} \in SUBSET (1..n) /\ Max(s) \in 1..n
      BY <1>1, MaxOfFinite
    <2>2. \A s \in SUBSET (1..n) : s # {} =>
            f[s] = BatchAdd(input, f[s \ {Max(s)}], ids[Max(s)])
      BY <1>1, <1>4, <2>1 DEF FoldOf
    <2>3. f[{}] = NoBatch
      BY <1>4 DEF FoldOf
    <2>4. QED BY <1>1, <2>2, <2>3
  <1>6. It = Body(It)
    <2> HIDE DEF Body
    <2>1. QED BY <1>5
  <1>7. It[{}] = NoBatch /\ \A m \in 1..n : It[1..m] = BatchAdd(input, It[1..(m - 1)], m)
    <2>1. \A s \in SUBSET (1..n) :
            It[s] = IF s = {} THEN NoBatch
                              ELSE BatchAdd(input, It[s \ {Max(s)}], ids[Max(s)])
      BY <1>1, <1>6
    <2>2. \A m \in 1..n : m \in Nat /\ m # 0 /\ 1..m \subseteq 1..n /\ m \in 1..m
      BY <1>1
    <2> HIDE DEF It
    <2>3. It[{}] = NoBatch
      BY ONLY <2>1, Zenon
    <2>4. ASSUME NEW m \in 1..n PROVE It[1..m] = BatchAdd(input, It[1..(m - 1)], m)
      <3>1. 1..m # {} /\ Max(1..m) = m /\ (1..m) \ {Max(1..m)} = 1..(m - 1) /\ 1..m \in SUBSET (1..n)
        BY <2>2, <2>4, MaxOfInterval
      <3>2. It[1..m] = BatchAdd(input, It[(1..m) \ {Max(1..m)}], ids[Max(1..m)])
        BY ONLY <2>1, <3>1, Zenon
      <3>3. QED BY ONLY <1>1, <3>1, <3>2, Zenon
    <2>5. QED BY <2>3, <2>4
  <1> HIDE DEF Body, It
  <1>8. GoesOn(It, n, Accs, NoBatch, step)
    BY <1>7 DEF GoesOn
  <1> DEFINE run == RunOf(It, n)
  <1>9. FoldRun(run, n, Accs, NoBatch, step) /\ It[1..n] = run[n]
    <2> HIDE DEF step
    <2>1. FoldRun(run, n, Accs, NoBatch, step)
      BY <1>1, <1>3, <1>8, FoldReached
    <2>2. QED BY <1>1, <2>1 DEF RunOf
  <1> HIDE DEF run
  <1>10. BatchRun(run, input)
    <2>1. \A m \in 1..n : m - 1 \in 0..n
      BY <1>1
    <2>2. QED BY <1>9, <2>1 DEF FoldRun, BatchRun, n
  <1>11. QED BY <1>1, <1>2, <1>9, <1>10 DEF n

\* A batch is a run of consecutive texts and within the limits.
BatchFits(b, input) ==
    /\ b \in Seq(Nat) /\ b # <<>> /\ b[1] \in 1..Len(input) /\ b[1] + Len(b) - 1 <= Len(input)
    /\ \A j \in 1..Len(b) : b[j] = b[1] + j - 1
    /\ Len(b) <= BatchSize
    /\ Len(b) > 1 => SumOf(input, b) <= MaxBatchChars
\* What the batches cover: the texts after the first "from", up to the text "to".
Covers(blocks, from, to, input) ==
    /\ blocks \in Seq(Seq(Nat))
    /\ \A k \in 1..Len(blocks) : BatchFits(blocks[k], input)
    /\ \A k \in 1..(Len(blocks) - 1) : blocks[k + 1][1] = blocks[k][1] + Len(blocks[k])
    /\ IF blocks = <<>> THEN from = to
         ELSE blocks[1][1] = from + 1 /\ blocks[Len(blocks)][1] + Len(blocks[Len(blocks)]) = to + 1

\* A batch asks for texts that there are.
LEMMA BatchNumbers ==
    ASSUME NEW input \in Seq(Nat), NEW b, BatchFits(b, input)
    PROVE  /\ \A j \in 1..Len(b) : b[j] \in 1..Len(input)
           /\ \A j \in 1..Len(b) : input[b[j]] \in Nat
  <1>1. ASSUME NEW j \in 1..Len(b) PROVE b[j] \in 1..Len(input)
    <2>1. b \in Seq(Nat) /\ b[1] \in 1..Len(input) /\ b[1] + Len(b) - 1 <= Len(input)
          /\ b[j] = b[1] + j - 1
      BY Zenon DEF BatchFits
    <2>2. Len(b) \in Nat /\ Len(input) \in Nat /\ j \in Nat /\ 1 <= j /\ j <= Len(b)
      <3>1. Len(b) \in Nat
        BY <2>1
      <3>2. Len(input) \in Nat
        OBVIOUS
      <3>3. \A n \in Nat : \A i \in 1..n : i \in Nat /\ 1 <= i /\ i <= n
        OBVIOUS
      <3>4. QED BY <3>1, <3>2, <3>3, Zenon
    <2>3. b[1] \in Nat /\ 1 <= b[1]
      BY ONLY <2>1, <2>2
    <2>4. b[1] + j - 1 \in 1..Len(input)
      <3>1. \A x, i, l, n \in Nat : 1 <= x /\ 1 <= i /\ i <= l /\ x + l - 1 <= n => x + i - 1 \in 1..n
        OBVIOUS
      <3>2. QED BY ONLY <2>1, <2>2, <2>3, <3>1, Zenon
    <2>5. QED BY ONLY <2>1, <2>4
  <1>2. QED BY <1>1

\* One more batch that begins where the others end.
LEMMA CoversAppend ==
    ASSUME NEW input \in Seq(Nat), NEW blocks, NEW from \in Nat, NEW to \in Nat, NEW b,
           Covers(blocks, from, to, input), BatchFits(b, input), b[1] = to + 1
    PROVE  Covers(Append(blocks, b), from, to + Len(b), input)
  <1> DEFINE more == Append(blocks, b)
             n == Len(blocks)
  <1>1. blocks \in Seq(Seq(Nat)) /\ b \in Seq(Nat) /\ n \in Nat /\ Len(b) \in Nat
    <2>1. blocks \in Seq(Seq(Nat)) /\ b \in Seq(Nat)
      BY Zenon DEF Covers, BatchFits
    <2>2. QED BY ONLY <2>1
  <1>2. more \in Seq(Seq(Nat)) /\ Len(more) = n + 1 /\ more # <<>> /\ more[n + 1] = b
    <2>1. more \in Seq(Seq(Nat)) /\ Len(more) = n + 1 /\ more[n + 1] = b
      BY <1>1
    <2> HIDE DEF more
    <2>2. QED BY <1>1, <2>1
  <1>3. \A k \in 1..n : more[k] = blocks[k]
    BY <1>1
  <1>4. blocks = <<>> <=> n = 0
    BY <1>1
  <1> HIDE DEF more, n
  <1>5. \A k \in 1..Len(more) : BatchFits(more[k], input)
    <2>1. \A k \in 1..(n + 1) : k \in 1..n \/ k = n + 1
      BY <1>1
    <2>2. QED BY <1>2, <1>3, <2>1 DEF Covers, n
  <1>6. \A k \in 1..(Len(more) - 1) : more[k + 1][1] = more[k][1] + Len(more[k])
    <2> SUFFICES ASSUME NEW k \in 1..n PROVE more[k + 1][1] = more[k][1] + Len(more[k])
      BY <1>1, <1>2
    <2>1. CASE k = n
      <3>1. n # 0 /\ k + 1 = n + 1 /\ more[k] = blocks[n]
        BY <1>1, <1>3, <2>1
      <3>2. blocks[n][1] + Len(blocks[n]) = to + 1
        BY <1>4, <3>1 DEF Covers, n
      <3>3. QED BY <1>2, <3>1, <3>2
    <2>2. CASE k # n
      <3>1. k \in 1..(n - 1) /\ k + 1 \in 1..n
        BY <1>1, <2>2
      <3>2. blocks[k + 1][1] = blocks[k][1] + Len(blocks[k])
        BY <3>1 DEF Covers, n
      <3>3. QED BY <1>3, <3>1, <3>2
    <2>3. QED BY <2>1, <2>2
  <1>7. more[1][1] = from + 1
    <2>1. CASE n = 0
      <3>1. from = to
        BY <1>4, <2>1 DEF Covers
      <3>2. QED BY <1>2, <2>1, <3>1
    <2>2. CASE n # 0
      <3>1. 1 \in 1..n
        BY <1>1, <2>2
      <3>2. blocks[1][1] = from + 1
        BY <1>4, <2>2 DEF Covers
      <3>3. QED BY <1>3, <3>1, <3>2
    <2>3. QED BY <2>1, <2>2
  <1>8. more[Len(more)][1] + Len(more[Len(more)]) = (to + Len(b)) + 1
    <2>1. (to + 1) + Len(b) = (to + Len(b)) + 1
      BY <1>1
    <2>2. QED BY <1>2, <2>1
  <1>9. Covers(more, from, to + Len(b), input)
    BY <1>2, <1>5, <1>6, <1>7, <1>8 DEF Covers
  <1>10. QED BY <1>9 DEF more

\* What the first batch covers, and what the others do.
LEMMA CoversTail ==
    ASSUME NEW input \in Seq(Nat), NEW blocks, NEW from \in Nat, NEW to \in Nat,
           Covers(blocks, from, to, input), blocks # <<>>
    PROVE  /\ BatchFits(Head(blocks), input) /\ Head(blocks)[1] = from + 1
           /\ Covers(Tail(blocks), from + Len(Head(blocks)), to, input)
  <1> DEFINE rest == Tail(blocks)
             n == Len(blocks)
             b == Head(blocks)
  <1>1. blocks \in Seq(Seq(Nat)) /\ n \in Nat /\ n # 0 /\ b = blocks[1] /\ b \in Seq(Nat)
        /\ Len(b) \in Nat /\ 1 \in 1..n
    BY DEF Covers
  <1>2. rest \in Seq(Seq(Nat)) /\ Len(rest) = n - 1 /\ (rest = <<>> <=> n = 1)
    <2>1. rest \in Seq(Seq(Nat)) /\ Len(rest) = n - 1
      BY <1>1
    <2> HIDE DEF rest, n
    <2>2. QED BY <1>1, <2>1
  <1>3. \A k \in 1..(n - 1) : rest[k] = blocks[k + 1] /\ k + 1 \in 1..n
    BY <1>1
  <1>4. \A k \in 1..n : BatchFits(blocks[k], input)
    BY DEF Covers
  <1>5. \A k \in 1..(n - 1) : blocks[k + 1][1] = blocks[k][1] + Len(blocks[k])
    BY DEF Covers
  <1>6. blocks[1][1] = from + 1 /\ blocks[n][1] + Len(blocks[n]) = to + 1
    BY DEF Covers
  <1> HIDE DEF rest, n, b
  <1>7. BatchFits(b, input) /\ b[1] = from + 1
    BY <1>1, <1>4, <1>6
  <1>8. \A k \in 1..Len(rest) : BatchFits(rest[k], input)
    BY <1>2, <1>3, <1>4
  <1>9. \A k \in 1..(Len(rest) - 1) : rest[k + 1][1] = rest[k][1] + Len(rest[k])
    <2> SUFFICES ASSUME NEW k \in 1..(n - 2)
                 PROVE  rest[k + 1][1] = rest[k][1] + Len(rest[k])
      BY <1>1, <1>2
    <2>1. k \in 1..(n - 1) /\ k + 1 \in 1..(n - 1)
      BY <1>1
    <2>2. QED BY <1>3, <1>5, <2>1
  <1>10. n = 1 => from + Len(b) = to
    <2>1. n = 1 => (from + 1) + Len(b) = to + 1
      BY <1>1, <1>6
    <2>2. \A x, y, z \in Nat : (x + 1) + y = z + 1 => x + y = z
      OBVIOUS
    <2>3. Len(b) \in Nat
      BY <1>1
    <2>4. ASSUME (from + 1) + Len(b) = to + 1 PROVE from + Len(b) = to
      BY <2>2, <2>3, <2>4, Zenon
    <2>5. QED BY <2>1, <2>4
  <1>11. n # 1 => /\ rest[1][1] = (from + Len(b)) + 1
                  /\ rest[Len(rest)][1] + Len(rest[Len(rest)]) = to + 1
    <2> SUFFICES ASSUME n # 1
                 PROVE  /\ rest[1][1] = (from + Len(b)) + 1
                        /\ rest[n - 1][1] + Len(rest[n - 1]) = to + 1
      BY <1>2
    <2>1. 1 \in 1..(n - 1) /\ n - 1 \in 1..(n - 1) /\ (n - 1) + 1 = n
      BY <1>1
    <2>2. rest[1][1] = (from + 1) + Len(b)
      BY <1>1, <1>3, <1>5, <1>6, <2>1
    <2>3. rest[n - 1] = blocks[n]
      BY <1>3, <2>1
    <2>4. \A x, y \in Nat : (x + 1) + y = (x + y) + 1
      OBVIOUS
    <2>5. (from + 1) + Len(b) = (from + Len(b)) + 1
      BY <1>1, <2>4, Zenon
    <2>6. QED BY <1>6, <2>2, <2>3, <2>5
  <1>12. Covers(rest, from + Len(b), to, input)
    BY <1>2, <1>8, <1>9, <1>10, <1>11 DEF Covers
  <1>13. QED BY <1>7, <1>12 DEF rest, b

\* After m texts: the full batches cover those before the open one, which is the rest.
AccCovers(acc, m, input) ==
    /\ acc \in Accs
    /\ m - Len(acc.batch) \in Nat
    /\ Covers(acc.full, 0, m - Len(acc.batch), input)
    /\ acc.batch # <<>> => BatchFits(acc.batch, input) /\ acc.batch[1] = (m - Len(acc.batch)) + 1
    /\ acc.chars = SumOf(input, acc.batch)

\* The open batch is closed at the end.
LEMMA ClosedCovers ==
    ASSUME NEW input \in Seq(Nat), NEW m \in Nat, NEW acc, AccCovers(acc, m, input)
    PROVE  Covers(Closed(acc), 0, m, input)
  <1> DEFINE c == m - Len(acc.batch)
  <1>1. c \in Nat /\ Covers(acc.full, 0, c, input) /\ acc.batch \in Seq(Nat) /\ 0 \in Nat
    BY DEF AccCovers, Accs
  <1>2. Len(acc.batch) \in Nat /\ (acc.batch = <<>> => Len(acc.batch) = 0)
    BY <1>1
  <1>3. CASE acc.batch = <<>>
    <2>1. c = m
      BY <1>2, <1>3
    <2>2. QED BY <1>1, <1>3, <2>1 DEF Closed
  <1>4. CASE acc.batch # <<>>
    <2>1. BatchFits(acc.batch, input) /\ acc.batch[1] = c + 1
      BY <1>4 DEF AccCovers
    <2>2. c + Len(acc.batch) = m
      BY <1>2
    <2> HIDE DEF c
    <2>3. Covers(Append(acc.full, acc.batch), 0, c + Len(acc.batch), input)
      BY <1>1, <2>1, CoversAppend
    <2>4. QED BY <1>4, <2>2, <2>3 DEF Closed
  <1>5. QED BY <1>3, <1>4

\* One more text, in the open batch or in a new one.
LEMMA AccStep ==
    ASSUME NEW input \in Seq(Nat), NEW m \in Nat, m + 1 \in 1..Len(input),
           NEW acc, AccCovers(acc, m, input)
    PROVE  AccCovers(BatchAdd(input, acc, m + 1), m + 1, input)
  <1> DEFINE i == m + 1
             next == BatchAdd(input, acc, i)
             b == acc.batch
  <1>1. acc \in Accs /\ b \in Seq(Nat) /\ Len(b) \in Nat /\ acc.full \in Seq(Seq(Nat))
    BY DEF AccCovers, Accs
  <1>2. input[i] \in Nat /\ i \in Nat /\ i \in 1..Len(input) /\ i - 1 = m /\ Len(input) \in Nat
    OBVIOUS
  <1>3. next \in Accs
    BY <1>1, <1>2, BatchAddType
  <1>4. BatchSize \in Nat \ {0} /\ MaxBatchChars \in Nat
    BY ProviderAssumption
  <1>5. BatchFits(<<i>>, input)
    <2>1. <<i>> \in Seq(Nat) /\ <<i>> # <<>> /\ Len(<<i>>) = 1 /\ (<<i>>)[1] = i
      BY <1>2
    <2>2. i + 1 - 1 <= Len(input) /\ \A j \in 1..1 : i = i + j - 1
      BY <1>2
    <2>3. \A j \in 1..1 : (<<i>>)[j] = i
      BY <2>1
    <2> HIDE DEF i
    <2>4. QED BY <1>2, <1>4, <2>1, <2>2, <2>3 DEF BatchFits
  <1>6. /\ SumOf(input, <<>>) = 0 /\ SumOf(input, <<i>>) = input[i]
    <2>1. <<>> \in Seq(Nat) /\ Append(<<>>, i) = <<i>> /\ \A j \in 1..Len(<<>>) : FALSE
      BY <1>2
    <2> HIDE DEF i
    <2>2. SumOf(input, Append(<<>>, i)) = SumOf(input, <<>>) + input[i]
      BY <1>2, <2>1, SumAppend
    <2>3. QED BY <1>2, <2>1, <2>2, SumOfNone
  <1>7. CASE b # <<>> /\ (Len(b) >= BatchSize \/ acc.chars + input[i] > MaxBatchChars)
    <2>1. next = [full |-> Append(acc.full, b), batch |-> <<i>>, chars |-> input[i]]
      BY <1>7 DEF BatchAdd
    <2>2. Covers(Append(acc.full, b), 0, m, input)
      <3>1. Closed(acc) = Append(acc.full, b)
        BY <1>7 DEF Closed
      <3>2. QED BY <3>1, ClosedCovers
    <2>3. Len(<<i>>) = 1 /\ (<<i>>)[1] = i /\ i - 1 = m /\ (i - 1) + 1 = i
      BY <1>2
    <2> HIDE DEF next, i
    <2>4. next.full = Append(acc.full, b) /\ next.batch = <<i>> /\ next.chars = input[i]
      BY <2>1
    <2>5. AccCovers(next, i, input)
      BY <1>2, <1>3, <1>5, <1>6, <2>2, <2>3, <2>4 DEF AccCovers
    <2>6. QED BY <2>5 DEF i, next
  <1>8. CASE ~(b # <<>> /\ (Len(b) >= BatchSize \/ acc.chars + input[i] > MaxBatchChars))
    <2> DEFINE grown == Append(b, i)
    <2>1. next = [acc EXCEPT !.batch = Append(@, i), !.chars = @ + input[i]]
      BY <1>8 DEF BatchAdd
    <2>2. next.full = acc.full /\ next.batch = grown /\ next.chars = acc.chars + input[i]
      BY <1>1, <2>1 DEF Accs
    <2>3. grown \in Seq(Nat) /\ Len(grown) = Len(b) + 1 /\ grown[Len(b) + 1] = i
          /\ \A j \in 1..Len(b) : grown[j] = b[j]
      BY <1>1, <1>2
    <2>4. grown # <<>>
      <3> HIDE DEF grown
      <3>1. QED BY <1>1, <2>3
    <2>5. b = <<>> <=> Len(b) = 0
      BY <1>1
    <2>6. \A j \in 1..Len(b) : input[b[j]] \in Nat
      <3>1. CASE b = <<>>
        BY <2>5, <3>1
      <3>2. CASE b # <<>>
        BY <3>2, BatchNumbers DEF AccCovers
      <3>3. QED BY <3>1, <3>2
    <2>7. SumOf(input, grown) = acc.chars + input[i] /\ acc.chars \in Nat
      <3>1. acc.chars = SumOf(input, b)
        BY DEF AccCovers
      <3> HIDE DEF i, b
      <3>2. SumOf(input, b) \in Nat /\ SumOf(input, grown) = SumOf(input, b) + input[i]
        BY <1>1, <1>2, <2>6, SumAppend
      <3>3. QED BY <3>1, <3>2
    <2> DEFINE c == m - Len(b)
    <2>8. c \in Nat /\ i - (Len(b) + 1) = c /\ c + Len(b) = m
      <3>1. c \in Nat
        BY DEF AccCovers
      <3>2. QED BY <1>1, <3>1
    <2>18. \A x, l, k, n \in Nat : x + l = k /\ k + 1 <= n =>
              x + 1 \in 1..n /\ (x + 1) + (l + 1) - 1 = k + 1
      OBVIOUS
    <2>19. c + 1 \in 1..Len(input) /\ (c + 1) + (Len(b) + 1) - 1 = i
      <3>1. m + 1 <= Len(input) /\ Len(input) \in Nat
        BY <1>2
      <3>2. c \in Nat /\ Len(b) \in Nat /\ c + Len(b) = m
        BY <1>1, <2>8
      <3> HIDE DEF c, b, i
      <3>3. c + 1 \in 1..Len(input) /\ (c + 1) + (Len(b) + 1) - 1 = m + 1
        BY <2>18, <3>1, <3>2
      <3>4. QED BY <3>3 DEF i
    <2>9. grown[1] = c + 1
      <3>1. CASE b = <<>>
        <4>1. Len(b) + 1 = 1 /\ c = m
          BY <2>5, <3>1
        <4> HIDE DEF grown, c
        <4>2. QED BY <2>3, <4>1
      <3>2. CASE b # <<>>
        <4>1. b[1] = c + 1
          BY <3>2 DEF AccCovers
        <4>2. 1 \in 1..Len(b)
          BY <1>1, <2>5, <3>2
        <4> HIDE DEF grown
        <4>3. QED BY <2>3, <4>1, <4>2
      <3>3. QED BY <3>1, <3>2
    <2> HIDE DEF grown, c, next
    <2>10. \A j \in 1..Len(grown) : grown[j] = grown[1] + j - 1
      <3> SUFFICES ASSUME NEW j \in 1..(Len(b) + 1) PROVE grown[j] = (c + 1) + j - 1
        BY <2>3, <2>9
      <3>1. CASE j = Len(b) + 1
        BY <2>3, <2>19, <3>1
      <3>2. CASE j # Len(b) + 1
        <4>1. j \in 1..Len(b) /\ b # <<>>
          BY <1>1, <2>5, <3>2
        <4>2. b[j] = b[1] + j - 1 /\ b[1] = c + 1
          BY <4>1 DEF AccCovers, BatchFits, c
        <4>3. QED BY <2>3, <4>1, <4>2
      <3>3. QED BY <3>1, <3>2
    <2>11. Len(grown) <= BatchSize /\ (Len(grown) > 1 => SumOf(input, grown) <= MaxBatchChars)
      <3>1. CASE b = <<>>
        <4>1. Len(grown) = 1
          BY <2>3, <2>5, <3>1
        <4>2. QED BY <1>4, <4>1
      <3>2. CASE b # <<>>
        <4>1. ~(Len(b) >= BatchSize) /\ ~(acc.chars + input[i] > MaxBatchChars)
          BY <1>8, <3>2
        <4>2. Len(b) + 1 <= BatchSize
          BY <1>1, <1>4, <4>1
        <4>3. acc.chars + input[i] <= MaxBatchChars
          BY <1>2, <1>4, <2>7, <4>1
        <4>4. QED BY <2>3, <2>7, <4>2, <4>3
      <3>3. QED BY <3>1, <3>2
    <2>12. grown[1] \in 1..Len(input) /\ grown[1] + Len(grown) - 1 <= Len(input)
      <3>1. i <= Len(input)
        BY <1>2
      <3>2. QED BY <2>3, <2>9, <2>19, <3>1
    <2>13. BatchFits(grown, input)
      BY <2>3, <2>4, <2>10, <2>11, <2>12 DEF BatchFits
    <2>14. Covers(acc.full, 0, c, input)
      BY DEF AccCovers, c
    <2>15. i - Len(grown) = c
      BY <2>3, <2>8
    <2>16. AccCovers(next, i, input)
      BY <1>3, <2>2, <2>7, <2>8, <2>9, <2>13, <2>14, <2>15 DEF AccCovers
    <2>17. QED BY <2>16 DEF next
  <1>9. QED BY <1>7, <1>8

\* _batches: consecutive batches within the limits that cover all texts.
LEMMA BatchesCover ==
    ASSUME NEW input \in Seq(Nat)
    PROVE  Covers(Batches(input), 0, Len(input), input)
  <1> DEFINE n == Len(input)
  <1>1. n \in Nat /\ 0 \in Nat
    OBVIOUS
  <1>2. PICK a : BatchRun(a, input) /\ Batches(input) = Closed(a[n])
    BY BatchesAreFolded
  <1> DEFINE S == {m \in Nat : m <= n => AccCovers(a[m], m, input)}
  <1>3. 0 \in S
    <2>1. a[0] = NoBatch
      BY <1>2 DEF BatchRun
    <2>2. NoBatch \in Accs /\ NoBatch.batch = <<>> /\ NoBatch.full = <<>> /\ NoBatch.chars = 0
      BY DEF NoBatch, Accs
    <2>3. Len(<<>>) = 0 /\ 0 - 0 = 0 /\ <<>> \in Seq(Seq(Nat))
      OBVIOUS
    <2>4. \A k \in 1..Len(<<>>) : FALSE
      OBVIOUS
    <2>5. \A k \in 1..(Len(<<>>) - 1) : FALSE
      OBVIOUS
    <2>6. Covers(<<>>, 0, 0, input)
      BY <2>3, <2>4, <2>5 DEF Covers
    <2>7. AccCovers(NoBatch, 0, input)
      BY <2>2, <2>3, <2>6, SumOfNone DEF AccCovers
    <2>8. QED BY <2>1, <2>7
  <1>4. \A m \in Nat : m \in S => m + 1 \in S
    <2> SUFFICES ASSUME NEW m \in Nat, m \in S, m + 1 <= n
                 PROVE  AccCovers(a[m + 1], m + 1, input)
      OBVIOUS
    <2>1. AccCovers(a[m], m, input) /\ m + 1 \in 1..n /\ (m + 1) - 1 = m
      BY <1>1
    <2>2. a[m + 1] = BatchAdd(input, a[m], m + 1)
      BY <1>2, <2>1 DEF BatchRun
    <2>3. QED BY <2>1, <2>2, AccStep
  <1> HIDE DEF S
  <1>5. n \in S
    BY <1>1, <1>3, <1>4, NumbersAllIn
  <1>6. AccCovers(a[n], n, input)
    BY <1>5 DEF S
  <1>7. QED BY <1>1, <1>2, <1>6, ClosedCovers

\* How often a request was sent.
Sendings(reqs, r) == {k \in 1..Len(reqs) : reqs[k] = r}
Often(reqs, r) == Cardinality(Sendings(reqs, r))

RequestFits(r) ==
    /\ Len(r) <= BatchSize
    /\ Len(r) > 1 => SumOf(texts, r) <= MaxBatchChars

\* Two requests are the same one, or the later one asks for later texts.
Apart(reqs) ==
    \A i \in 1..Len(reqs) : \A k \in 1..(i - 1) : reqs[k] = reqs[i] \/
        (\A p \in ToSet(reqs[k]), q \in ToSet(reqs[i]) : p < q)
Limited(reqs) == \A i \in 1..Len(reqs) : Often(reqs, reqs[i]) <= MaxRetries + 1
\* Everything sent was a sending of b, or only asked for the first n texts.
Before(reqs, b, n) ==
    \A k \in 1..Len(reqs) : reqs[k] = b \/ \A p \in ToSet(reqs[k]) : p <= n

AllFit == \A i \in 1..Len(requests) : RequestFits(requests[i])

Vectors == [of : Nat, dim : Dimensions \cup {"invalid"}]
ProviderTyped ==
    /\ operation \in {"text", "structured", "embedding"}
    /\ phase \in {"requesting", "sleeping", "done", "failed"}
    /\ texts \in Seq(Nat) /\ batches \in Seq(Seq(Nat)) /\ requests \in Seq(Seq(Nat))
    /\ vectors \in Seq(Vectors) /\ attempt \in Nat
\* The vectors are those of the first texts, and what is left to ask for are the others.
Outstanding ==
    /\ \A i \in 1..Len(vectors) : vectors[i].of = i
    /\ phase # "failed" /\ operation = "embedding" =>
          /\ Covers(batches, Len(vectors), Len(texts), texts)
          /\ (batches = <<>>) <=> (phase = "done")
          /\ phase = "done" => Consistent(vectors)
    /\ phase # "failed" /\ operation # "embedding" => batches = <<<<>>>> /\ vectors = <<>>
\* The request at hand was sent once for each attempt that it took.
PaidFor ==
    phase \in {"requesting", "sleeping"} =>
        /\ Before(requests, Head(batches), Len(vectors))
        /\ attempt <= MaxRetries
        /\ phase = "requesting" => Often(requests, Head(batches)) <= attempt
        /\ phase = "sleeping" => attempt < MaxRetries
                                 /\ Often(requests, Head(batches)) <= attempt + 1
ProviderInv ==
    /\ ProviderTyped /\ Outstanding /\ PaidFor
    /\ AllFit /\ Apart(requests) /\ Limited(requests)

LEMMA NumbersOf == \A s \in Seq(Nat) : ToSet(s) \subseteq Nat
  <1> SUFFICES ASSUME NEW s \in Seq(Nat), NEW x \in ToSet(s) PROVE x \in Nat
    OBVIOUS
  <1>1. PICK i \in 1..Len(s) : x = s[i]
    BY DEF ToSet
  <1>2. QED BY <1>1

\* A request is sent a number of times.
LEMMA SendingsFinite ==
    ASSUME NEW reqs \in Seq(Seq(Nat)), NEW r
    PROVE  IsFiniteSet(Sendings(reqs, r)) /\ Often(reqs, r) \in Nat
  <1>1. Len(reqs) \in Nat /\ 1 \in Int /\ Len(reqs) \in Int
    OBVIOUS
  <1>2. IsFiniteSet(1..Len(reqs))
    BY <1>1, FS_Interval
  <1>3. Sendings(reqs, r) \subseteq 1..Len(reqs)
    BY DEF Sendings
  <1>4. IsFiniteSet(Sendings(reqs, r))
    BY <1>2, <1>3, FS_Subset
  <1>5. QED BY <1>4, FS_CardinalityType DEF Often

\* Sending the request at hand once more.
LEMMA SendOne ==
    ASSUME NEW reqs \in Seq(Seq(Nat)), NEW b \in Seq(Nat), NEW n \in Nat, NEW c \in Nat,
           c <= MaxRetries, Often(reqs, b) <= c, Before(reqs, b, n),
           \A p \in ToSet(b) : n < p, Apart(reqs), Limited(reqs)
    PROVE  /\ Apart(Append(reqs, b)) /\ Limited(Append(reqs, b))
           /\ Before(Append(reqs, b), b, n) /\ Often(Append(reqs, b), b) <= c + 1
  <1> DEFINE more == Append(reqs, b)
             m == Len(reqs)
  <1>1. m \in Nat /\ Len(more) = m + 1 /\ more[m + 1] = b /\ more \in Seq(Seq(Nat))
    OBVIOUS
  <1>2. \A k \in 1..m : more[k] = reqs[k] /\ reqs[k] \in Seq(Nat)
    OBVIOUS
  <1>3. MaxRetries \in Nat
    BY ProviderAssumption
  <1> HIDE DEF more
  <1>4. \A k \in 1..(m + 1) : k \in 1..m \/ k = m + 1
    BY <1>1
  <1>5. \A r : Sendings(more, r) = Sendings(reqs, r) \cup IF r = b THEN {m + 1} ELSE {}
    BY <1>1, <1>2, <1>4 DEF Sendings
  <1>6. Often(more, b) <= c + 1
    <2>1. m + 1 \notin Sendings(reqs, b)
      BY <1>1 DEF Sendings
    <2>2. Often(more, b) = Often(reqs, b) + 1
      BY <1>5, <2>1, SendingsFinite, FS_AddElement DEF Often
    <2>3. Often(reqs, b) \in Nat
      BY SendingsFinite
    <2>4. QED BY <2>2, <2>3
  <1>7. \A r : r # b => Often(more, r) = Often(reqs, r)
    BY <1>5 DEF Often
  <1>8. Limited(more)
    <2> SUFFICES ASSUME NEW i \in 1..(m + 1) PROVE Often(more, more[i]) <= MaxRetries + 1
      BY <1>1 DEF Limited
    <2>1. CASE more[i] = b
      <3>1. Often(more, b) \in Nat
        BY <1>1, SendingsFinite
      <3>2. QED BY <1>3, <1>6, <2>1, <3>1
    <2>2. CASE more[i] # b
      <3>1. i \in 1..m /\ more[i] = reqs[i]
        BY <1>1, <1>2, <1>4, <2>2
      <3>2. QED BY <1>7, <2>2, <3>1 DEF Limited
    <2>3. QED BY <2>1, <2>2
  <1>9. Before(more, b, n)
    BY <1>1, <1>2, <1>4 DEF Before
  <1>10. Apart(more)
    <2> SUFFICES ASSUME NEW i \in 1..(m + 1), NEW k \in 1..(i - 1), more[k] # more[i],
                        NEW p \in ToSet(more[k]), NEW q \in ToSet(more[i])
                 PROVE  p < q
      BY <1>1 DEF Apart
    <2>1. k \in 1..m /\ more[k] = reqs[k]
      <3> HIDE DEF m
      <3>1. i \in Int /\ i <= m + 1 /\ k \in Int /\ 1 <= k /\ k <= i - 1
        BY <1>1
      <3>2. k \in 1..m
        BY <1>1, <3>1
      <3>3. QED BY <1>2, <3>2
    <2>2. CASE i \in 1..m
      BY <1>2, <2>1, <2>2 DEF Apart
    <2>3. CASE i = m + 1
      <3>1. p <= n /\ n < q
        BY <1>1, <2>1, <2>3 DEF Before
      <3>2. p \in Nat /\ q \in Nat
        <4>1. \A s \in Seq(Nat) : ToSet(s) \subseteq Nat
          BY NumbersOf
        <4>2. QED BY <1>1, <1>2, <2>1, <2>3, <4>1
      <3>3. QED BY <3>1, <3>2
    <2>4. QED BY <1>4, <2>2, <2>3
  <1>11. QED BY <1>6, <1>8, <1>9, <1>10 DEF more

\* What is asked for next are texts that have no vector yet, within the limits.
LEMMA NextRequest ==
    ASSUME ProviderInv, phase \in {"requesting", "sleeping"}
    PROVE  /\ Head(batches) \in Seq(Nat) /\ RequestFits(Head(batches))
           /\ \A p \in ToSet(Head(batches)) : Len(vectors) < p
           /\ operation = "embedding" =>
                /\ BatchFits(Head(batches), texts)
                /\ \A j \in 1..Len(Head(batches)) : Head(batches)[j] = Len(vectors) + j
                /\ Covers(Tail(batches), Len(vectors) + Len(Head(batches)), Len(texts), texts)
  <1> DEFINE b == Head(batches)
             v == Len(vectors)
  <1>1. v \in Nat /\ texts \in Seq(Nat) /\ Len(texts) \in Nat
    BY DEF ProviderInv, ProviderTyped
  <1>2. CASE operation = "embedding"
    <2>1. Covers(batches, v, Len(texts), texts) /\ batches # <<>>
      BY <1>2 DEF ProviderInv, Outstanding
    <2>2. /\ BatchFits(b, texts) /\ b[1] = v + 1
          /\ Covers(Tail(batches), v + Len(b), Len(texts), texts)
      BY <1>1, <2>1, CoversTail
    <2>3. b \in Seq(Nat) /\ Len(b) \in Nat
      BY <2>2 DEF BatchFits
    <2> HIDE DEF b, v
    <2>4. \A j \in 1..Len(b) : b[j] = v + j
      <3> SUFFICES ASSUME NEW j \in 1..Len(b) PROVE b[j] = v + j
        OBVIOUS
      <3>1. b[j] = (v + 1) + j - 1 /\ j \in Nat
        BY <2>2, <2>3 DEF BatchFits
      <3>2. QED BY <1>1, <3>1
    <2>5. \A p \in ToSet(b) : v < p
      <3> SUFFICES ASSUME NEW j \in 1..Len(b) PROVE v < b[j]
        BY <2>3 DEF ToSet
      <3>1. b[j] = v + j /\ j \in Nat /\ 1 <= j
        BY <2>3, <2>4
      <3>2. QED BY <1>1, <3>1
    <2>6. RequestFits(b)
      BY <2>2 DEF BatchFits, RequestFits
    <2>7. QED BY <2>2, <2>3, <2>4, <2>5, <2>6 DEF b, v
  <1>3. CASE operation # "embedding"
    <2>1. b = <<>>
      <3>1. batches = <<<<>>>>
        BY <1>3 DEF ProviderInv, Outstanding
      <3>2. QED BY <3>1
    <2>2. ToSet(<<>>) = {} /\ <<>> \in Seq(Nat) /\ Len(<<>>) = 0
      BY DEF ToSet
    <2>3. RequestFits(<<>>)
      BY <2>2, ProviderAssumption DEF RequestFits
    <2>4. QED BY <1>3, <2>1, <2>2, <2>3
  <1>4. QED BY <1>2, <1>3

\* A request that is sent is within the limits and apart from the earlier ones.
LEMMA SentKeeps ==
    ASSUME ProviderInv, phase = "requesting", Sent, texts' = texts
    PROVE  /\ requests' \in Seq(Seq(Nat))
           /\ AllFit' /\ Apart(requests') /\ Limited(requests')
           /\ Before(requests', Head(batches), Len(vectors))
           /\ Often(requests', Head(batches)) <= attempt + 1
  <1> DEFINE b == Head(batches)
             v == Len(vectors)
             n == Len(requests)
  <1>1. /\ b \in Seq(Nat) /\ RequestFits(b) /\ \A p \in ToSet(b) : v < p
    BY NextRequest
  <1>2. requests \in Seq(Seq(Nat)) /\ v \in Nat /\ attempt \in Nat /\ n \in Nat
    BY DEF ProviderInv, ProviderTyped
  <1>3. /\ attempt <= MaxRetries /\ Often(requests, b) <= attempt /\ Before(requests, b, v)
        /\ Apart(requests) /\ Limited(requests)
        /\ \A i \in 1..n : RequestFits(requests[i])
    BY DEF ProviderInv, PaidFor, AllFit
  <1>4. requests' = Append(requests, b)
    BY DEF Sent
  <1> HIDE DEF b, v
  <1>5. /\ Apart(requests') /\ Limited(requests') /\ Before(requests', b, v)
        /\ Often(requests', b) <= attempt + 1
    BY <1>1, <1>2, <1>3, <1>4, SendOne
  <1>6. /\ requests' \in Seq(Seq(Nat)) /\ Len(requests') = n + 1 /\ requests'[n + 1] = b
        /\ \A i \in 1..n : requests'[i] = requests[i]
    BY <1>1, <1>2, <1>4
  <1>7. \A i \in 1..(n + 1) : i \in 1..n \/ i = n + 1
    BY <1>2
  <1> HIDE DEF n
  <1>8. \A i \in 1..Len(requests') : RequestFits(requests'[i])
    BY <1>1, <1>3, <1>6, <1>7
  <1>9. AllFit'
    BY <1>8 DEF AllFit, RequestFits
  <1>10. QED BY <1>5, <1>6, <1>9 DEF b, v

\* A function on 1..n is a sequence of length n.
LEMMA AsSequence ==
    ASSUME NEW T, NEW n \in Nat, NEW s \in [1..n -> T]
    PROVE  s \in Seq(T) /\ Len(s) = n
  OBVIOUS

\* The batches cover the texts before anything is sent.
LEMMA ProviderInitially == ProviderInit => ProviderInv
  <1> SUFFICES ASSUME ProviderInit PROVE ProviderInv
    OBVIOUS
  <1>1. /\ attempt = 0 /\ vectors = <<>> /\ requests = <<>>
        /\ operation \in {"text", "structured", "embedding"}
    BY DEF ProviderInit
  <1>2. <<>> \in Seq(Nat) /\ <<>> \in Seq(Seq(Nat)) /\ <<>> \in Seq(Vectors)
        /\ <<<<>>>> \in Seq(Seq(Nat)) /\ <<<<>>>> # <<>> /\ Len(<<>>) = 0
        /\ \A i \in 1..0 : FALSE
    OBVIOUS
  <1>3. \A r : Often(<<>>, r) = 0
    BY <1>2, FS_EmptySet DEF Often, Sendings
  <1>4. Apart(<<>>) /\ Limited(<<>>) /\ \A b, n : Before(<<>>, b, n)
    BY <1>2 DEF Apart, Limited, Before
  <1>5. Consistent(<<>>)
    BY <1>2 DEF Consistent
  <1>6. MaxRetries \in Nat /\ 0 <= MaxRetries
    BY ProviderAssumption
  <1>7. CASE operation = "embedding"
    <2>1. /\ texts \in Inputs
          /\ batches = IF Valid(texts) THEN Batches(texts) ELSE <<>>
          /\ phase = IF ~Valid(texts) THEN "failed"
                     ELSE IF texts = <<>> THEN "done" ELSE "requesting"
      BY <1>7 DEF ProviderInit
    <2>2. texts \in Seq(Nat) /\ Len(texts) \in Nat /\ (texts = <<>> <=> Len(texts) = 0)
      <3>1. texts \in Seq(Nat)
        BY <2>1, ProviderAssumption
      <3>2. QED BY <3>1
    <2>3. Covers(Batches(texts), 0, Len(texts), texts)
      BY <2>2, BatchesCover
    <2>4. Batches(texts) \in Seq(Seq(Nat))
      BY <2>3 DEF Covers
    <2>5. Batches(texts) = <<>> <=> texts = <<>>
      <3>1. Batches(texts) = <<>> => Len(texts) = 0
        BY <2>3 DEF Covers
      <3>2. ASSUME Batches(texts) # <<>>, texts = <<>> PROVE FALSE
        <4>1. Len(Batches(texts)) \in Nat /\ Len(Batches(texts)) # 0
          BY <2>4, <3>2
        <4>2. 1 \in 1..Len(Batches(texts))
          BY <4>1
        <4>3. BatchFits(Batches(texts)[1], texts)
          BY <2>3, <4>2 DEF Covers
        <4>4. Batches(texts)[1][1] \in 1..0
          BY <2>2, <3>2, <4>3 DEF BatchFits
        <4>5. QED BY <1>2, <4>4
      <3>3. QED BY <2>2, <3>1, <3>2
    <2>6. ProviderTyped
      BY <1>1, <1>2, <2>1, <2>2, <2>4 DEF ProviderTyped
    <2>7. Outstanding
      BY <1>1, <1>2, <1>5, <1>7, <2>1, <2>3, <2>5 DEF Outstanding
    <2>8. PaidFor
      BY <1>1, <1>3, <1>4, <1>6, <2>1 DEF PaidFor
    <2>9. QED BY <1>1, <1>2, <1>4, <2>6, <2>7, <2>8 DEF ProviderInv, AllFit
  <1>8. CASE operation # "embedding"
    <2>1. texts = <<>> /\ batches = <<<<>>>> /\ phase = "requesting"
      BY <1>8 DEF ProviderInit
    <2>2. ProviderTyped
      BY <1>1, <1>2, <2>1 DEF ProviderTyped
    <2>3. Outstanding
      BY <1>1, <1>2, <1>8, <2>1 DEF Outstanding
    <2>4. PaidFor
      BY <1>1, <1>3, <1>4, <1>6, <2>1 DEF PaidFor
    <2>5. QED BY <1>1, <1>2, <1>4, <2>2, <2>3, <2>4 DEF ProviderInv, AllFit
  <1>9. QED BY <1>7, <1>8

\* A request was answered with a vector for every text of it, in any order.
LEMMA AcceptedStep ==
    ASSUME ProviderInv, phase = "requesting", operation = "embedding", Sent,
           NEW answer \in Answers(Head(batches)), Acceptable(answer, Head(batches)),
           vectors' = vectors \o Ordered(answer, Head(batches)), batches' = Tail(batches),
           phase' = IF batches' # <<>> THEN "requesting"
                    ELSE IF Consistent(vectors') THEN "done" ELSE "failed",
           attempt' = 0, UNCHANGED <<operation, texts>>
    PROVE  ProviderInv'
  <1> DEFINE b == Head(batches)
             v == Len(vectors)
             n == Len(b)
             new == Ordered(answer, b)
  <1>1. /\ b \in Seq(Nat) /\ BatchFits(b, texts) /\ \A j \in 1..n : b[j] = v + j
        /\ Covers(Tail(batches), v + n, Len(texts), texts)
    BY NextRequest
  <1>2. v \in Nat /\ n \in Nat /\ vectors \in Seq(Vectors) /\ texts \in Seq(Nat)
    BY <1>1 DEF ProviderInv, ProviderTyped
  <1>3. ASSUME NEW i \in 1..n PROVE new[i] \in Vectors /\ new[i].of = v + i
    <2>1. PICK k \in DOMAIN answer : answer[k].index = i - 1
      <3>1. i - 1 \in 0..(n - 1)
        BY <1>2
      <3>2. {answer[m].index : m \in DOMAIN answer} = 0..(n - 1)
        BY DEF Acceptable
      <3>3. QED BY <3>1, <3>2
    <2> DEFINE kk == CHOOSE m \in DOMAIN answer : answer[m].index = i - 1
    <2>2. kk \in DOMAIN answer /\ answer[kk].index = i - 1
      BY <2>1
    <2>3. answer[kk] \in Items(b)
      <3>1. PICK m \in 0..(Len(b) + 1) : answer \in [1..m -> Items(b)]
        BY DEF Answers
      <3> HIDE DEF kk
      <3>2. QED BY <2>2, <3>1
    <2>4. new[i] = [of |-> b[answer[kk].index + 1], dim |-> answer[kk].dim]
      BY DEF Ordered, Vector
    <2> HIDE DEF kk, new
    <2>5. answer[kk].index + 1 = i
      BY <2>2
    <2>6. new[i].of = b[i] /\ new[i].dim \in Dimensions \cup {"invalid"} /\ b[i] \in Nat
      <3>1. answer[kk].dim \in Dimensions \cup {"invalid"}
        BY ONLY <2>3 DEF Items
      <3>2. new[i].of = b[i] /\ new[i].dim = answer[kk].dim
        BY ONLY <2>4, <2>5
      <3>3. b[i] \in Nat
        BY <1>1
      <3>4. QED BY ONLY <3>1, <3>2, <3>3
    <2>7. QED BY <1>1, <2>4, <2>5, <2>6 DEF Vectors
  <1>4. new \in Seq(Vectors) /\ Len(new) = n
    <2>1. new \in [1..n -> Vectors]
      BY <1>3 DEF Ordered
    <2> HIDE DEF new, n
    <2>2. QED BY <1>2, <2>1, AsSequence
  <1> HIDE DEF new
  <1>5. /\ vectors' \in Seq(Vectors) /\ Len(vectors') = v + n
        /\ \A i \in 1..v : vectors'[i] = vectors[i]
        /\ \A i \in 1..n : vectors'[v + i] = new[i]
    <2>1. vectors' = vectors \o new
      BY DEF new
    <2>2. /\ vectors \o new \in Seq(Vectors)
          /\ Len(vectors \o new) = Len(vectors) + Len(new)
          /\ \A i \in 1..Len(vectors) : (vectors \o new)[i] = vectors[i]
          /\ \A i \in 1..Len(new) : (vectors \o new)[Len(vectors) + i] = new[i]
      <3>1. vectors \in Seq(Vectors) /\ new \in Seq(Vectors)
        BY <1>2, <1>4
      <3>2. QED BY ONLY <3>1, SMT
    <2> HIDE DEF n
    <2>3. QED BY <1>4, <2>1, <2>2
  <1>6. \A i \in 1..Len(vectors') : vectors'[i].of = i
    <2> SUFFICES ASSUME NEW i \in 1..(v + n) PROVE vectors'[i].of = i
      BY <1>5
    <2>1. CASE i \in 1..v
      BY <1>5, <2>1 DEF ProviderInv, Outstanding
    <2>2. CASE i \notin 1..v
      <3> DEFINE j == i - v
      <3>1. j \in 1..n /\ v + j = i
        BY <1>2, <2>2
      <3> HIDE DEF j
      <3>2. QED BY <1>3, <1>5, <3>1
    <2>3. QED BY <2>1, <2>2
  <1>7. /\ requests' \in Seq(Seq(Nat))
        /\ AllFit' /\ Apart(requests') /\ Limited(requests') /\ Before(requests', b, v)
    BY SentKeeps
  <1>8. batches' \in Seq(Seq(Nat)) /\ Covers(batches', Len(vectors'), Len(texts'), texts')
    BY <1>1, <1>5 DEF Covers
  <1>9. \A k \in 1..Len(requests') : \A p \in ToSet(requests'[k]) : p <= Len(vectors')
    <2> SUFFICES ASSUME NEW k \in 1..Len(requests'), NEW p \in ToSet(requests'[k])
                 PROVE  p <= v + n
      BY <1>5
    <2>1. CASE requests'[k] = b
      <3>1. PICK j \in 1..n : p = b[j]
        BY <1>1, <2>1 DEF ToSet
      <3>2. p = v + j
        BY <1>1, <3>1
      <3>3. QED BY <1>2, <3>1, <3>2
    <2>2. CASE requests'[k] # b
      <3>1. p <= v
        BY <1>7, <2>2 DEF Before
      <3>2. p \in Nat
        <4>1. \A s \in Seq(Nat) : ToSet(s) \subseteq Nat
          BY NumbersOf
        <4>2. requests'[k] \in Seq(Nat)
          BY <1>7
        <4>3. QED BY <4>1, <4>2
      <3>3. QED BY <1>2, <3>1, <3>2
    <2>3. QED BY <2>1, <2>2
  <1>10. batches' # <<>> => Often(requests', Head(batches')) = 0
    <2> SUFFICES ASSUME batches' # <<>> PROVE Often(requests', Head(batches')) = 0
      OBVIOUS
    <2> DEFINE next == Head(batches')
    <2>1. BatchFits(next, texts') /\ next[1] = Len(vectors') + 1
      <3>1. Len(vectors') \in Nat /\ texts' \in Seq(Nat) /\ Len(texts') \in Nat
        BY <1>2, <1>5
      <3>2. QED BY <1>8, <3>1, CoversTail
    <2>2. next[1] \in ToSet(next)
      <3>1. next \in Seq(Nat) /\ next # <<>>
        BY <2>1 DEF BatchFits
      <3>2. 1 \in DOMAIN next
        BY <3>1
      <3>3. QED BY <3>2 DEF ToSet
    <2> HIDE DEF next
    <2>3. \A k \in 1..Len(requests') : requests'[k] # next
      <3>1. ~(Len(vectors') + 1 <= Len(vectors'))
        BY <1>2, <1>5
      <3>2. QED BY <1>9, <2>1, <2>2, <3>1
    <2>4. Sendings(requests', next) = {}
      BY <2>3 DEF Sendings
    <2>5. QED BY <2>4, FS_EmptySet DEF Often, next
  <1>11. ProviderTyped'
    BY <1>5, <1>7, <1>8 DEF ProviderInv, ProviderTyped
  <1>12. Outstanding'
    BY <1>6, <1>8 DEF Outstanding
  <1>13. PaidFor'
    <2>1. MaxRetries \in Nat /\ 0 <= MaxRetries
      BY ProviderAssumption
    <2>2. phase' \in {"requesting", "sleeping"} => batches' # <<>> /\ phase' = "requesting"
      OBVIOUS
    <2>3. \A r : Before(requests', r, Len(vectors'))
      BY <1>9 DEF Before
    <2>4. QED BY <1>10, <2>1, <2>2, <2>3 DEF PaidFor
  <1>14. QED BY <1>7, <1>11, <1>12, <1>13 DEF ProviderInv

\* Every step of a call keeps the books.
LEMMA ProviderInvStep == ProviderInv /\ [ProviderNext]_providerVars => ProviderInv'
  <1> SUFFICES ASSUME ProviderInv, [ProviderNext]_providerVars PROVE ProviderInv'
    OBVIOUS
  <1>1. MaxRetries \in Nat /\ attempt \in Nat
    BY ProviderAssumption DEF ProviderInv, ProviderTyped
  <1>2. CASE AnswerEmbedding
    <2>1. PICK answer \in Answers(Head(batches)) :
            IF Acceptable(answer, Head(batches))
              THEN /\ vectors' = vectors \o Ordered(answer, Head(batches))
                   /\ batches' = Tail(batches)
                   /\ phase' = IF batches' # <<>> THEN "requesting"
                              ELSE IF Consistent(vectors') THEN "done" ELSE "failed"
              ELSE phase' = "failed" /\ UNCHANGED <<vectors, batches>>
      BY <1>2 DEF AnswerEmbedding
    <2>2. /\ phase = "requesting" /\ operation = "embedding" /\ Sent /\ attempt' = 0
          /\ UNCHANGED <<operation, texts>>
      BY <1>2 DEF AnswerEmbedding
    <2>3. CASE Acceptable(answer, Head(batches))
      BY <2>1, <2>2, <2>3, AcceptedStep
    <2>4. CASE ~Acceptable(answer, Head(batches))
      <3>1. phase' = "failed" /\ UNCHANGED <<vectors, batches>>
        BY <2>1, <2>4
      <3>2. /\ requests' \in Seq(Seq(Nat)) /\ AllFit' /\ Apart(requests')
            /\ Limited(requests')
        BY <2>2, SentKeeps
      <3>3. QED BY <2>2, <3>1, <3>2
                DEF ProviderInv, ProviderTyped, Outstanding, PaidFor
    <2>5. QED BY <2>3, <2>4
  <1>3. CASE AnswerCompletion
    <2>1. /\ phase = "requesting" /\ operation # "embedding" /\ Sent
          /\ phase' \in {"done", "failed"}
          /\ UNCHANGED <<operation, texts, batches, attempt, vectors>>
      BY <1>3 DEF AnswerCompletion
    <2>2. /\ requests' \in Seq(Seq(Nat)) /\ AllFit' /\ Apart(requests') /\ Limited(requests')
      BY <2>1, SentKeeps
    <2>3. QED BY <2>1, <2>2 DEF ProviderInv, ProviderTyped, Outstanding, PaidFor
  <1>4. CASE Transient \/ Fatal
    <2>1. /\ phase = "requesting" /\ Sent /\ phase' \in {"failed", "sleeping"}
          /\ phase' = "sleeping" => ~(attempt >= MaxRetries)
          /\ UNCHANGED <<operation, texts, batches, attempt, vectors>>
      BY <1>4 DEF Transient, Fatal
    <2>2. /\ requests' \in Seq(Seq(Nat)) /\ AllFit' /\ Apart(requests') /\ Limited(requests')
          /\ Before(requests', Head(batches), Len(vectors))
          /\ Often(requests', Head(batches)) <= attempt + 1
      BY <2>1, SentKeeps
    <2>3. phase' = "sleeping" => attempt < MaxRetries /\ attempt <= MaxRetries
      BY <1>1, <2>1
    <2>4. ProviderTyped'
      BY <2>1, <2>2 DEF ProviderInv, ProviderTyped
    <2>5. Outstanding'
      BY <2>1 DEF ProviderInv, Outstanding
    <2>6. PaidFor'
      BY <2>1, <2>2, <2>3 DEF PaidFor
    <2>7. QED BY <2>2, <2>4, <2>5, <2>6 DEF ProviderInv
  <1>5. CASE Sleep
    <2>1. /\ phase = "sleeping" /\ attempt' = attempt + 1 /\ phase' = "requesting"
          /\ UNCHANGED <<operation, texts, batches, vectors, requests>>
      BY <1>5 DEF Sleep
    <2>2. attempt + 1 \in Nat /\ (attempt < MaxRetries => attempt + 1 <= MaxRetries)
      BY <1>1
    <2>3. ProviderTyped'
      BY <2>1, <2>2 DEF ProviderInv, ProviderTyped
    <2>4. Outstanding'
      BY <2>1 DEF ProviderInv, Outstanding
    <2>5. PaidFor'
      BY <2>1, <2>2 DEF ProviderInv, PaidFor
    <2>6. AllFit'
      BY <2>1 DEF ProviderInv, AllFit, RequestFits
    <2>7. QED BY <2>1, <2>3, <2>4, <2>5, <2>6 DEF ProviderInv
  <1>6. CASE UNCHANGED providerVars
    BY <1>6 DEF providerVars, ProviderInv, ProviderTyped, Outstanding, PaidFor, AllFit,
                RequestFits
  <1>7. QED BY <1>2, <1>3, <1>4, <1>5, <1>6 DEF ProviderNext

\* A finished call returns one vector for every text, in order and of one size; no request is
\* sent more often than the retries allow, exceeds the limits or asks for what was answered.
THEOREM ProviderAligns == ProviderSpec => []EmbeddingsAligned
  <1>1. ProviderInv => EmbeddingsAligned
    <2> SUFFICES ASSUME ProviderInv PROVE EmbeddingsAligned
      OBVIOUS
    <2>1. /\ texts \in Seq(Nat) /\ vectors \in Seq(Vectors) /\ requests \in Seq(Seq(Nat))
          /\ \A i \in 1..Len(vectors) : vectors[i].of = i
      BY DEF ProviderInv, ProviderTyped, Outstanding
    <2>2. ASSUME phase = "done", operation = "embedding"
          PROVE  /\ [i \in 1..Len(vectors) |-> vectors[i].of] = [i \in 1..Len(texts) |-> i]
                 /\ Consistent(vectors)
      <3>1. batches = <<>> /\ Covers(batches, Len(vectors), Len(texts), texts)
            /\ Consistent(vectors)
        BY <2>2 DEF ProviderInv, Outstanding
      <3>2. Len(vectors) = Len(texts)
        BY <3>1 DEF Covers
      <3>3. QED BY <2>1, <3>1, <3>2
    <2>3. \A i \in 1..Len(requests) :
             Cardinality({k \in 1..Len(requests) : requests[k] = requests[i]}) <= MaxRetries + 1
      BY DEF ProviderInv, Limited, Often, Sendings
    <2>4. RequestsBounded
      <3> SUFFICES ASSUME NEW i \in 1..Len(requests)
                   PROVE  /\ Len(requests[i]) <= BatchSize
                          /\ Len(requests[i]) > 1 =>
                               SumOf(texts, requests[i]) <= MaxBatchChars
                          /\ \A k \in 1..(i - 1) : requests[k] = requests[i] \/
                               (\A p \in ToSet(requests[k]), q \in ToSet(requests[i]) : p < q)
        BY DEF RequestsBounded, SumOf
      <3>1. RequestFits(requests[i])
        BY DEF ProviderInv, AllFit
      <3>2. QED BY <3>1 DEF ProviderInv, RequestFits, Apart
    <2>5. QED BY <2>2, <2>3, <2>4 DEF EmbeddingsAligned
  <1>2. QED BY <1>1, ProviderInitially, ProviderInvStep, PTL DEF ProviderSpec

-----------------------------------------------------------------------------
(***************************************************************************)
(* TraceRun.  The frame on top of the stack says which operations are      *)
(* open, each counter of the operation has the number of its events, and   *)
(* both are true of the events up to what a telemetry fault swallowed.     *)
(***************************************************************************)
Frames == {"tracing", "run", "tool", "verification", "model"}
Tags == [category : Frames \cup {"job", "file"},
         what : {"started", "completed", "failed", "cancelled", "mutated"}]

\* The stack of a run: tracing, the agent in it, and one call at a time.
Stacked ==
    /\ stack \in Seq(Frames) /\ Len(stack) <= 3
    /\ Len(stack) >= 1 => stack[1] = "tracing"
    /\ Len(stack) >= 2 => stack[2] \in {"run", "model"}
    /\ Len(stack) = 3 => stack[2] = "run" /\ stack[3] \in {"tool", "verification", "model"}
Level == IF Len(stack) = 0 THEN None ELSE Top

\* The categories that a frame has opened and not yet closed.
OpenIn(frame) == CASE frame = "tool" -> {"tool"}
                   [] frame = "verification" -> {"tool", "verification"}
                   [] frame = "model" -> {"model"}
                   [] OTHER -> {}

ClosedLater(list, i) ==
    \E k \in (i + 1)..Len(list) :
        /\ Closes(list[k], list[i])
        /\ \A m \in (i + 1)..(k - 1) : list[m].category # list[i].category
Awaited(list, i) == \A m \in (i + 1)..Len(list) : list[m].category # list[i].category
Balanced(list, open) ==
    \A i \in 2..Len(list) : Opens(list[i]) =>
        ClosedLater(list, i) \/ (list[i].category \in open /\ Awaited(list, i))

TraceTypeOK ==
    /\ Stacked /\ started \in BOOLEAN /\ finished \in BOOLEAN
    /\ {models, tools, mutations, faults} \subseteq Nat
    /\ events \in Seq(Tags)
    /\ faults = 0 => started /\ events # <<>>
    /\ finished => started /\ Len(stack) <= 1

\* A counter and its events.
Tally(tags, n) ==
    /\ Count(events, tags) \in Nat /\ Count(events, tags) <= n
    /\ faults = 0 => Count(events, tags) = n
Tallies ==
    /\ Tally({Tag("model", "started")}, models)
    /\ Tally({Tag("tool", "started")}, tools)
    /\ Tally({Tag("file", "mutated")}, mutations)

EndTold ==
    /\ stored # NotStored => finished /\ stored = Summary(events, final.status)
    /\ finished /\ faults = 0 => Last(events) = final.event

TraceInv ==
    /\ TraceTypeOK /\ Tallies /\ EndTold
    /\ faults = 0 => Balanced(events, OpenIn(Level))

Hit(e, tags) == IF e \in tags THEN 1 ELSE 0

LEMMA CountNone == \A tags : Count(<<>>, tags) = 0
  <1> SUFFICES ASSUME NEW tags PROVE Count(<<>>, tags) = 0
    OBVIOUS
  <1>1. {i \in 1..Len(<<>>) : <<>>[i] \in tags} = {}
    <2>1. 1..Len(<<>>) = {}
      OBVIOUS
    <2>2. QED BY <2>1
  <1>2. QED BY <1>1, FS_EmptySet DEF Count

\* One event more counts for one, if at all.
LEMMA CountAppend ==
  ASSUME NEW list \in Seq(Tags), NEW e \in Tags, NEW tags
  PROVE  /\ Count(list, tags) \in Nat
         /\ Count(Append(list, e), tags) = Count(list, tags) + Hit(e, tags)
  <1> DEFINE A == {i \in 1..Len(list) : list[i] \in tags}
             B == {i \in 1..Len(Append(list, e)) : Append(list, e)[i] \in tags}
  <1>1. /\ Len(Append(list, e)) = Len(list) + 1 /\ Len(list) \in Nat
        /\ Append(list, e)[Len(list) + 1] = e
        /\ \A i \in 1..Len(list) : Append(list, e)[i] = list[i]
    OBVIOUS
  <1>2. IsFiniteSet(A) /\ Cardinality(A) \in Nat
    <2>1. IsFiniteSet(1..Len(list))
      BY <1>1, FS_Interval
    <2>2. A \subseteq 1..Len(list)
      OBVIOUS
    <2>3. IsFiniteSet(A)
      BY <2>1, <2>2, FS_Subset
    <2>4. QED BY <2>3, FS_CardinalityType
  <1>3. CASE e \in tags
    <2>1. B = A \cup {Len(list) + 1}
      BY <1>1, <1>3
    <2>2. Len(list) + 1 \notin A
      BY <1>1
    <2>3. Cardinality(B) = Cardinality(A) + 1
      BY <1>2, <2>1, <2>2, FS_AddElement
    <2>4. QED BY <1>2, <1>3, <2>3 DEF Count, Hit
  <1>4. CASE e \notin tags
    <2>1. B = A
      BY <1>1, <1>4
    <2> HIDE DEF A, B
    <2>2. Cardinality(B) = Cardinality(A) + 0
      BY <1>2, <2>1
    <2> USE DEF A, B
    <2>3. QED BY <1>2, <1>4, <2>2 DEF Count, Hit
  <1>5. QED BY <1>3, <1>4

LEMMA SubSeqOne ==
  ASSUME NEW S, NEW s \in Seq(S), NEW i \in 1..Len(s)
  PROVE  SubSeq(s, i, i) = <<s[i]>>
  <1> DEFINE t == SubSeq(s, i, i)
  <1>1. t \in Seq(S) /\ Len(t) = 1 /\ t[1] = s[i]
    OBVIOUS
  <1> HIDE DEF t
  <1>2. t = <<s[i]>>
    BY <1>1
  <1>3. QED BY <1>2 DEF t

\* What emit does to one event, and to two: all of them, or one is lost to a fault.
LEMMA EmitOne ==
  ASSUME events \in Seq(Tags), faults \in Nat, NEW a \in Tags, Emit(<<a>>)
  PROVE  \/ (~started \/ finished) /\ UNCHANGED <<events, faults>>
         \/ started /\ ~finished /\ events' = Append(events, a) /\ faults' = faults
         \/ started /\ ~finished /\ events' = events /\ faults' = faults + 1
  <1>1. events \o <<a>> = Append(events, a)
    OBVIOUS
  <1>2. Len(<<a>>) = 1 /\ events \o RemoveAt(<<a>>, 1) = events
    <2>1. RemoveAt(<<a>>, 1) = <<>>
      BY DEF RemoveAt
    <2>2. QED BY <2>1
  <1>3. \A k \in 1..1 : k = 1
    OBVIOUS
  <1>4. QED BY <1>1, <1>2, <1>3 DEF Emit, Fault

LEMMA EmitTwo ==
  ASSUME events \in Seq(Tags), faults \in Nat, NEW a \in Tags, NEW b \in Tags, Emit(<<a, b>>)
  PROVE  \/ (~started \/ finished) /\ UNCHANGED <<events, faults>>
         \/ started /\ ~finished /\ events' = Append(Append(events, a), b) /\ faults' = faults
         \/ /\ started /\ ~finished /\ faults' = faults + 1
            /\ events' = Append(events, a) \/ events' = Append(events, b)
  <1>1. events \o <<a, b>> = Append(Append(events, a), b)
    OBVIOUS
  <1>2. /\ Len(<<a, b>>) = 2
        /\ RemoveAt(<<a, b>>, 1) = <<b>> /\ RemoveAt(<<a, b>>, 2) = <<a>>
    <2>1. SubSeq(<<a, b>>, 1, 0) = <<>> /\ SubSeq(<<a, b>>, 3, 2) = <<>>
      OBVIOUS
    <2>2. SubSeq(<<a, b>>, 1, 1) = <<a>> /\ SubSeq(<<a, b>>, 2, 2) = <<b>>
      <3> DEFINE pair == <<a, b>>
      <3>1. pair \in Seq(Tags) /\ Len(pair) = 2 /\ pair[1] = a /\ pair[2] = b
        OBVIOUS
      <3> HIDE DEF pair
      <3>2. SubSeq(pair, 1, 1) = <<pair[1]>> /\ SubSeq(pair, 2, 2) = <<pair[2]>>
        BY <3>1, SubSeqOne
      <3>3. SubSeq(pair, 1, 1) = <<a>> /\ SubSeq(pair, 2, 2) = <<b>>
        BY <3>1, <3>2
      <3>4. QED BY <3>3 DEF pair
    <2>3. <<>> \o <<b>> = <<b>> /\ <<a>> \o <<>> = <<a>>
      OBVIOUS
    <2>4. Len(<<a, b>>) = 2 /\ 1 - 1 = 0 /\ 1 + 1 = 2 /\ 2 - 1 = 1 /\ 2 + 1 = 3
      OBVIOUS
    <2>5. /\ RemoveAt(<<a, b>>, 1) = SubSeq(<<a, b>>, 1, 0) \o SubSeq(<<a, b>>, 2, 2)
          /\ RemoveAt(<<a, b>>, 2) = SubSeq(<<a, b>>, 1, 1) \o SubSeq(<<a, b>>, 3, 2)
      BY <2>4, Zenon DEF RemoveAt
    <2>6. QED BY <2>1, <2>2, <2>3, <2>4, <2>5, Zenon
  <1>3. /\ events \o RemoveAt(<<a, b>>, 1) = Append(events, b)
        /\ events \o RemoveAt(<<a, b>>, 2) = Append(events, a)
    <2>1. events \o <<a>> = Append(events, a) /\ events \o <<b>> = Append(events, b)
      OBVIOUS
    <2>2. QED BY <1>2, <2>1
  <1>4. \A k \in 1..2 : k = 1 \/ k = 2
    OBVIOUS
  <1>5. QED BY <1>1, <1>2, <1>3, <1>4 DEF Emit, Fault

\* Each event is told once; nothing is told that is no event, and a fault is one fault more.
LEMMA TellOne ==
  ASSUME TraceInv, ~finished, NEW a \in Tags, Emit(<<a>>)
  PROVE  /\ events' \in Seq(Tags) /\ faults' \in Nat
         /\ faults' = 0 => faults = 0 /\ events' = Append(events, a) /\ events' # <<>>
         /\ \A tags :
               /\ Count(events', tags) \in Nat
               /\ Count(events', tags) <= Count(events, tags) + Hit(a, tags)
               /\ faults' = 0 => Count(events', tags) = Count(events, tags) + Hit(a, tags)
  <1>1. /\ events \in Seq(Tags) /\ faults \in Nat /\ started \in BOOLEAN
        /\ faults = 0 => started
    BY DEF TraceInv, TraceTypeOK
  <1>2. \/ ~started /\ UNCHANGED <<events, faults>>
        \/ events' = Append(events, a) /\ faults' = faults
        \/ events' = events /\ faults' = faults + 1
    BY <1>1, EmitOne
  <1>3. Append(events, a) \in Seq(Tags) /\ Append(events, a) # <<>>
    BY <1>1
  <1>4. \A tags : /\ Count(events, tags) \in Nat /\ Hit(a, tags) \in {0, 1}
                  /\ Count(Append(events, a), tags) = Count(events, tags) + Hit(a, tags)
    BY <1>1, CountAppend DEF Hit
  <1>5. CASE events' = Append(events, a) /\ faults' = faults
    <2>1. /\ events' \in Seq(Tags) /\ faults' \in Nat
          /\ faults' = 0 => faults = 0 /\ events' = Append(events, a) /\ events' # <<>>
      BY ONLY <1>1, <1>3, <1>5
    <2>2. ASSUME NEW tags
          PROVE  /\ Count(events', tags) \in Nat
                 /\ Count(events', tags) <= Count(events, tags) + Hit(a, tags)
                 /\ faults' = 0 => Count(events', tags) = Count(events, tags) + Hit(a, tags)
      <3>1. /\ Count(events, tags) \in Nat /\ Hit(a, tags) \in {0, 1}
            /\ Count(events', tags) = Count(events, tags) + Hit(a, tags)
        BY ONLY <1>4, <1>5, Zenon
      <3>2. QED BY ONLY <3>1
    <2>3. QED BY ONLY <2>1, <2>2, Zenon
  <1>6. CASE UNCHANGED events /\ (faults' = faults + 1 \/ (~started /\ UNCHANGED faults))
    <2>1. events' \in Seq(Tags) /\ faults' \in Nat /\ faults' # 0
      BY <1>1, <1>6
    <2>2. QED BY <1>4, <1>6, <2>1
  <1>7. QED BY <1>2, <1>5, <1>6

LEMMA TellTwo ==
  ASSUME TraceInv, ~finished, NEW a \in Tags, NEW b \in Tags, Emit(<<a, b>>)
  PROVE  /\ events' \in Seq(Tags) /\ faults' \in Nat
         /\ faults' = 0 =>
               faults = 0 /\ events' = Append(Append(events, a), b) /\ events' # <<>>
         /\ \A tags :
               /\ Count(events', tags) \in Nat
               /\ Count(events', tags) <= Count(events, tags) + Hit(a, tags) + Hit(b, tags)
               /\ faults' = 0 =>
                     Count(events', tags) = Count(events, tags) + Hit(a, tags) + Hit(b, tags)
  <1>1. /\ events \in Seq(Tags) /\ faults \in Nat /\ started \in BOOLEAN
        /\ faults = 0 => started
    BY DEF TraceInv, TraceTypeOK
  <1>2. \/ ~started /\ UNCHANGED <<events, faults>>
        \/ events' = Append(Append(events, a), b) /\ faults' = faults
        \/ faults' = faults + 1 /\ (events' = Append(events, a) \/ events' = Append(events, b))
    BY <1>1, EmitTwo
  <1>3. /\ Append(events, a) \in Seq(Tags) /\ Append(events, b) \in Seq(Tags)
        /\ Append(Append(events, a), b) \in Seq(Tags)
        /\ Append(Append(events, a), b) # <<>>
    BY <1>1
  <1>4. \A tags : /\ Count(events, tags) \in Nat
                  /\ Hit(a, tags) \in {0, 1} /\ Hit(b, tags) \in {0, 1}
                  /\ Count(Append(events, a), tags) = Count(events, tags) + Hit(a, tags)
                  /\ Count(Append(events, b), tags) = Count(events, tags) + Hit(b, tags)
    BY <1>1, CountAppend DEF Hit
  <1>5. \A tags : Count(Append(Append(events, a), b), tags)
                      = Count(Append(events, a), tags) + Hit(b, tags)
    BY <1>3, CountAppend
  <1>6. CASE events' = Append(Append(events, a), b) /\ faults' = faults
    BY <1>1, <1>3, <1>4, <1>5, <1>6
  <1>7. CASE /\ events' = events \/ events' = Append(events, a) \/ events' = Append(events, b)
             /\ faults' = faults + 1 \/ (~started /\ UNCHANGED faults)
    <2>1. faults' \in Nat /\ faults' # 0
      BY <1>1, <1>7
    <2>2. events' \in Seq(Tags)
      BY <1>1, <1>3, <1>7
    <2>3. \A tags : /\ Count(events', tags) \in Nat
                    /\ Count(events', tags)
                          <= Count(events, tags) + Hit(a, tags) + Hit(b, tags)
      <3>1. CASE events' = events
        BY <1>4, <3>1
      <3>2. CASE events' = Append(events, a)
        BY <1>4, <3>2
      <3>3. CASE events' = Append(events, b)
        BY <1>4, <3>3
      <3>4. QED BY <1>7, <3>1, <3>2, <3>3
    <2>4. QED BY <2>1, <2>2, <2>3
  <1>8. QED BY <1>2, <1>6, <1>7

\* An operation begins whose category is not open.
LEMMA BalancedOpens ==
  ASSUME NEW list \in Seq(Tags), NEW e \in Tags, NEW open, Balanced(list, open),
         e.category \notin open
  PROVE  Balanced(Append(list, e), open \cup {e.category})
  <1> DEFINE longer == Append(list, e)
  <1>1. /\ Len(longer) = Len(list) + 1 /\ Len(list) \in Nat /\ longer[Len(list) + 1] = e
        /\ \A i \in 1..Len(list) : longer[i] = list[i]
    OBVIOUS
  <1> HIDE DEF longer
  <1>2. SUFFICES ASSUME NEW i \in 2..Len(longer), Opens(longer[i])
                 PROVE  \/ ClosedLater(longer, i)
                        \/ longer[i].category \in open \cup {e.category} /\ Awaited(longer, i)
    BY DEF Balanced, longer
  <1>3. CASE i = Len(list) + 1
    BY <1>1, <1>3 DEF Awaited
  <1>4. CASE i \in 2..Len(list)
    <2>1. longer[i] = list[i] /\ i \in Nat /\ \A m \in (i + 1)..Len(list) : longer[m] = list[m]
      BY <1>1, <1>4
    <2>2. CASE ClosedLater(list, i)
      <3>1. PICK k \in (i + 1)..Len(list) :
              /\ Closes(list[k], list[i])
              /\ \A m \in (i + 1)..(k - 1) : list[m].category # list[i].category
        BY <2>2 DEF ClosedLater
      <3>2. k \in (i + 1)..Len(longer)
        BY <1>1, <2>1, <3>1
      <3>3. \A m \in (i + 1)..(k - 1) : m \in (i + 1)..Len(list)
        BY <1>1, <2>1, <3>1
      <3>4. Closes(longer[k], longer[i])
        BY <2>1, <3>1
      <3>5. \A m \in (i + 1)..(k - 1) : longer[m].category # longer[i].category
        BY <2>1, <3>1, <3>3
      <3>6. QED BY <3>2, <3>4, <3>5 DEF ClosedLater
    <2>3. CASE list[i].category \in open /\ Awaited(list, i)
      <3>1. ASSUME NEW m \in (i + 1)..Len(longer) PROVE longer[m].category # list[i].category
        BY <1>1, <1>4, <2>1, <2>3, <3>1 DEF Awaited
      <3>2. QED BY <2>1, <2>3, <3>1 DEF Awaited
    <2>4. QED BY <1>2, <1>4, <2>1, <2>2, <2>3 DEF Balanced
  <1>5. QED BY <1>1, <1>3, <1>4

\* The end of an operation closes it; an event of another category opens nothing.
LEMMA BalancedCloses ==
  ASSUME NEW list \in Seq(Tags), NEW e \in Tags, NEW open, Balanced(list, open),
         e.what # "started",
         e.category \notin open \/ e.what \in {"completed", "failed", "cancelled"}
  PROVE  Balanced(Append(list, e), open \ {e.category})
  <1> DEFINE longer == Append(list, e)
  <1>1. /\ Len(longer) = Len(list) + 1 /\ Len(list) \in Nat /\ longer[Len(list) + 1] = e
        /\ \A i \in 1..Len(list) : longer[i] = list[i]
    OBVIOUS
  <1> HIDE DEF longer
  <1>2. SUFFICES ASSUME NEW i \in 2..Len(longer), Opens(longer[i])
                 PROVE  \/ ClosedLater(longer, i)
                        \/ longer[i].category \in open \ {e.category} /\ Awaited(longer, i)
    BY DEF Balanced, longer
  <1>3. i \in 2..Len(list)
    BY <1>1, <1>2 DEF Opens
  <1>4. longer[i] = list[i] /\ i \in Nat /\ \A m \in (i + 1)..Len(list) : longer[m] = list[m]
    BY <1>1, <1>3
  <1>5. CASE ClosedLater(list, i)
    <2>1. PICK k \in (i + 1)..Len(list) :
              /\ Closes(list[k], list[i])
              /\ \A m \in (i + 1)..(k - 1) : list[m].category # list[i].category
      BY <1>5 DEF ClosedLater
    <2>2. /\ k \in (i + 1)..Len(longer) /\ longer[k] = list[k]
          /\ \A m \in (i + 1)..(k - 1) : longer[m] = list[m]
      BY <1>1, <1>4, <2>1
    <2>3. QED BY <1>4, <2>1, <2>2 DEF ClosedLater
  <1>6. CASE list[i].category \in open /\ Awaited(list, i)
    <2>1. CASE list[i].category = e.category
      <3>1. Closes(longer[Len(list) + 1], longer[i])
        BY <1>1, <1>4, <1>6, <2>1 DEF Closes
      <3>2. \A m \in (i + 1)..Len(list) : longer[m].category # longer[i].category
        BY <1>4, <1>6 DEF Awaited
      <3>3. Len(list) + 1 \in (i + 1)..Len(longer) /\ (Len(list) + 1) - 1 = Len(list)
        BY <1>1, <1>3
      <3>4. QED BY <3>1, <3>2, <3>3 DEF ClosedLater
    <2>2. CASE list[i].category # e.category
      <3>1. ASSUME NEW m \in (i + 1)..Len(longer) PROVE longer[m].category # list[i].category
        BY <1>1, <1>4, <1>6, <2>2, <3>1 DEF Awaited
      <3>2. QED BY <1>4, <1>6, <2>2, <3>1 DEF Awaited
    <2>3. QED BY <2>1, <2>2
  <1>7. QED BY <1>2, <1>3, <1>4, <1>5, <1>6 DEF Balanced

\* The stack.
LEMMA StackedLength ==
  ASSUME Stacked
  PROVE  stack \in Seq(Frames) /\ Len(stack) \in 0..3
  <1>1. stack \in Seq(Frames) /\ Len(stack) <= 3
    BY DEF Stacked
  <1>2. Len(stack) \in Nat
    BY <1>1
  <1>3. \A n \in Nat : n <= 3 => n \in 0..3
    OBVIOUS
  <1>4. QED BY <1>1, <1>2, <1>3, Zenon

LEMMA PushStacked ==
  ASSUME Stacked, NEW frame, Push(frame),
         \/ Level = "tracing" /\ frame \in {"run", "model"}
         \/ Level = "run" /\ frame \in {"tool", "verification", "model"}
  PROVE  Stacked' /\ Level' = frame
  <1>1. frame \in Frames /\ stack \in Seq(Frames) /\ Len(stack) \in 1..2
    <2>1. stack \in Seq(Frames) /\ Len(stack) \in 0..3
      BY StackedLength
    <2>2. Len(stack) # 0
      BY DEF Level, None
    <2>3. Len(stack) = 3 => Level \notin {"tracing", "run"}
      BY DEF Level, Top, Stacked
    <2>4. QED BY <2>1, <2>2, <2>3 DEF Frames
  <1>2. /\ stack' \in Seq(Frames) /\ Len(stack') = Len(stack) + 1
        /\ stack'[Len(stack) + 1] = frame
        /\ \A i \in 1..Len(stack) : stack'[i] = stack[i]
    <2>1. stack' = Append(stack, frame)
      BY DEF Push
    <2>2. stack' \in Seq(Frames) /\ IsSeq(stack)
      BY <1>1, <2>1 DEF IsSeq
    <2>3. QED BY <2>1, <2>2, AppendIs
  <1>3. Level = stack[Len(stack)] /\ Level' = frame
    BY <1>1, <1>2 DEF Level, Top
  <1>4. Stacked'
    BY <1>1, <1>2, <1>3 DEF Stacked
  <1>5. QED BY <1>3, <1>4

LEMMA PrefixIs ==
  ASSUME NEW S, NEW s \in Seq(S), NEW n \in 0..Len(s)
  PROVE  /\ SubSeq(s, 1, n) \in Seq(S) /\ Len(SubSeq(s, 1, n)) = n
         /\ \A i \in 1..n : SubSeq(s, 1, n)[i] = s[i]
  OBVIOUS

LEMMA PopStacked ==
  ASSUME Stacked, Pop, Len(stack) >= 1
  PROVE  /\ Stacked' /\ Level' \in {None, "tracing", "run"}
         /\ Len(stack') = Len(stack) - 1 /\ Len(stack) \in 1..3
  <1>1. stack \in Seq(Frames) /\ Len(stack) \in 1..3
    BY StackedLength
  <1>2. /\ stack' \in Seq(Frames) /\ Len(stack') = Len(stack) - 1
        /\ \A i \in 1..(Len(stack) - 1) : stack'[i] = stack[i]
    <2>1. \A n \in 1..3 : n - 1 \in 0..n
      OBVIOUS
    <2>2. QED BY <1>1, <2>1, PrefixIs, Zenon DEF Pop
  <1>3. Stacked'
    BY <1>1, <1>2 DEF Stacked
  <1>4. Level' \in {None, "tracing", "run"}
    BY <1>1, <1>2 DEF Stacked, Level, Top
  <1>5. QED BY <1>1, <1>2, <1>3, <1>4

\* A step that tells nothing and opens nothing.
LEMMA TraceQuiet ==
  ASSUME TraceInv, Stacked', OpenIn(Level') = OpenIn(Level), finished => Len(stack') <= 1,
         UNCHANGED <<ghosts, started, events, finished, final, stored, faults>>
  PROVE  TraceInv'
  <1> USE DEF ghosts
  <1>1. TraceTypeOK' /\ Tallies'
    BY DEF TraceInv, TraceTypeOK, Tallies, Tally
  <1>2. EndTold'
    BY DEF TraceInv, EndTold
  <1>3. faults' = 0 => Balanced(events', OpenIn(Level'))
    BY DEF TraceInv
  <1>4. QED BY <1>1, <1>2, <1>3 DEF TraceInv

\* A step of the operation that tells something.
LEMMA TraceGrows ==
  ASSUME TraceInv, ~finished, UNCHANGED <<started, finished, final, stored>>, Stacked',
         {models', tools', mutations', faults'} \subseteq Nat, events' \in Seq(Tags),
         Tallies',
         faults' = 0 => faults = 0 /\ events' # <<>> /\ Balanced(events', OpenIn(Level'))
  PROVE  TraceInv'
  <1>1. TraceTypeOK'
    BY DEF TraceInv, TraceTypeOK
  <1>2. EndTold'
    BY DEF TraceInv, EndTold
  <1>3. QED BY <1>1, <1>2 DEF TraceInv

\* The tags of the counters.
Counted == {Tag("model", "started"), Tag("tool", "started"), Tag("file", "mutated")}
LEMMA HitIs ==
  /\ \A e : e \notin Counted =>
        /\ Hit(e, {Tag("model", "started")}) = 0
        /\ Hit(e, {Tag("tool", "started")}) = 0
        /\ Hit(e, {Tag("file", "mutated")}) = 0
  /\ Hit(Tag("model", "started"), {Tag("model", "started")}) = 1
  /\ Hit(Tag("model", "started"), {Tag("tool", "started")}) = 0
  /\ Hit(Tag("model", "started"), {Tag("file", "mutated")}) = 0
  /\ Hit(Tag("tool", "started"), {Tag("model", "started")}) = 0
  /\ Hit(Tag("tool", "started"), {Tag("tool", "started")}) = 1
  /\ Hit(Tag("tool", "started"), {Tag("file", "mutated")}) = 0
  /\ Hit(Tag("file", "mutated"), {Tag("model", "started")}) = 0
  /\ Hit(Tag("file", "mutated"), {Tag("tool", "started")}) = 0
  /\ Hit(Tag("file", "mutated"), {Tag("file", "mutated")}) = 1
  <1>1. /\ Tag("model", "started") # Tag("tool", "started")
        /\ Tag("model", "started") # Tag("file", "mutated")
        /\ Tag("tool", "started") # Tag("file", "mutated")
    BY DEF Tag
  <1>2. QED BY <1>1 DEF Hit, Counted

\* One event, in a frame that the step leaves or enters.
LEMMA TraceOne ==
  ASSUME TraceInv, ~finished, UNCHANGED <<started, finished, final, stored>>, Stacked',
         NEW a \in Tags, Emit(<<a>>),
         {models', tools', mutations'} \subseteq Nat,
         models' = models + Hit(a, {Tag("model", "started")}),
         tools' = tools + Hit(a, {Tag("tool", "started")}),
         mutations' = mutations + Hit(a, {Tag("file", "mutated")}),
         \/ a.category \notin OpenIn(Level) /\ OpenIn(Level') = OpenIn(Level) \cup {a.category}
         \/ /\ a.what \in {"completed", "failed"}
            /\ OpenIn(Level') = OpenIn(Level) \ {a.category}
  PROVE  TraceInv'
  <1>1. /\ events' \in Seq(Tags) /\ faults' \in Nat
        /\ faults' = 0 => faults = 0 /\ events' = Append(events, a) /\ events' # <<>>
        /\ \A tags :
              /\ Count(events', tags) \in Nat
              /\ Count(events', tags) <= Count(events, tags) + Hit(a, tags)
              /\ faults' = 0 => Count(events', tags) = Count(events, tags) + Hit(a, tags)
    BY TellOne
  <1>2. \A tags : Hit(a, tags) \in {0, 1} /\ Count(events, tags) \in Nat
    BY CountAppend DEF Hit, TraceInv, TraceTypeOK
  <1>3. {models, tools, mutations} \subseteq Nat
    BY DEF TraceInv, TraceTypeOK
  <1>4. Tallies'
    <2>1. ASSUME NEW tags, NEW n \in Nat, NEW next, Tally(tags, n), next = n + Hit(a, tags)
          PROVE  /\ Count(events', tags) \in Nat /\ Count(events', tags) <= next
                 /\ faults' = 0 => Count(events', tags) = next
      <3>1. /\ Count(events', tags) \in Nat
            /\ Count(events', tags) <= Count(events, tags) + Hit(a, tags)
            /\ faults' = 0 => faults = 0 /\ Count(events', tags) = Count(events, tags) + Hit(a, tags)
        BY <1>1, Zenon
      <3>2. Hit(a, tags) \in {0, 1} /\ Count(events, tags) \in Nat
        BY <1>2, Zenon
      <3>3. Count(events, tags) <= n /\ (faults = 0 => Count(events, tags) = n)
        BY <2>1, Zenon DEF Tally
      <3>4. QED BY ONLY <2>1, <3>1, <3>2, <3>3, n \in Nat
    <2>2. QED BY <1>3, <2>1 DEF TraceInv, Tallies, Tally
  <1>5. ASSUME faults' = 0 PROVE Balanced(events', OpenIn(Level'))
    <2>1. events' = Append(events, a) /\ events \in Seq(Tags) /\ Balanced(events, OpenIn(Level))
      BY <1>1, <1>5 DEF TraceInv, TraceTypeOK
    <2>2. CASE a.category \notin OpenIn(Level) /\ OpenIn(Level') = OpenIn(Level) \cup {a.category}
      BY <2>1, <2>2, BalancedOpens
    <2>3. CASE /\ a.what \in {"completed", "failed"}
               /\ OpenIn(Level') = OpenIn(Level) \ {a.category}
      <3>1. a.what # "started" /\ a.what \in {"completed", "failed", "cancelled"}
        BY <2>3
      <3>2. QED BY <2>1, <2>3, <3>1, BalancedCloses
    <2>4. QED BY <2>2, <2>3
  <1>6. QED BY <1>1, <1>4, <1>5, TraceGrows

\* Two events; between them the first category is opened or closed.
LEMMA TraceTwo ==
  ASSUME TraceInv, ~finished, UNCHANGED <<started, finished, final, stored>>, Stacked',
         NEW a \in Tags, NEW b \in Tags, Emit(<<a, b>>),
         {models', tools', mutations'} \subseteq Nat,
         models' = models + Hit(a, {Tag("model", "started")}) + Hit(b, {Tag("model", "started")}),
         tools' = tools + Hit(a, {Tag("tool", "started")}) + Hit(b, {Tag("tool", "started")}),
         mutations' = mutations + Hit(a, {Tag("file", "mutated")})
                                + Hit(b, {Tag("file", "mutated")}),
         \/ /\ a.category \notin OpenIn(Level)
            /\ b.category \notin OpenIn(Level) \cup {a.category}
            /\ OpenIn(Level') = (OpenIn(Level) \cup {a.category}) \cup {b.category}
         \/ /\ a.what \in {"completed", "failed"} /\ b.what # "started"
            /\ b.category \notin OpenIn(Level) \/ b.what \in {"completed", "failed"}
            /\ OpenIn(Level') = (OpenIn(Level) \ {a.category}) \ {b.category}
  PROVE  TraceInv'
  <1>1. /\ events' \in Seq(Tags) /\ faults' \in Nat
        /\ faults' = 0 => faults = 0 /\ events' = Append(Append(events, a), b) /\ events' # <<>>
        /\ \A tags :
              /\ Count(events', tags) \in Nat
              /\ Count(events', tags) <= Count(events, tags) + Hit(a, tags) + Hit(b, tags)
              /\ faults' = 0 =>
                    Count(events', tags) = Count(events, tags) + Hit(a, tags) + Hit(b, tags)
    BY TellTwo
  <1>2. \A tags : /\ Hit(a, tags) \in {0, 1} /\ Hit(b, tags) \in {0, 1}
                  /\ Count(events, tags) \in Nat
    BY CountAppend DEF Hit, TraceInv, TraceTypeOK
  <1>3. {models, tools, mutations} \subseteq Nat
    BY DEF TraceInv, TraceTypeOK
  <1>4. ASSUME NEW tags, NEW n \in Nat, NEW next, Tally(tags, n),
               next = n + Hit(a, tags) + Hit(b, tags)
        PROVE  /\ Count(events', tags) \in Nat /\ Count(events', tags) <= next
               /\ faults' = 0 => Count(events', tags) = next
    <2>1. /\ Hit(a, tags) \in Nat /\ Hit(b, tags) \in Nat /\ Count(events, tags) \in Nat
          /\ Count(events, tags) <= n
          /\ faults = 0 => Count(events, tags) = n
          /\ Count(events', tags) \in Nat
          /\ Count(events', tags) <= Count(events, tags) + Hit(a, tags) + Hit(b, tags)
          /\ faults' = 0 =>
                /\ faults = 0
                /\ Count(events', tags) = Count(events, tags) + Hit(a, tags) + Hit(b, tags)
      <3>1. /\ Count(events', tags) \in Nat
            /\ Count(events', tags) <= Count(events, tags) + Hit(a, tags) + Hit(b, tags)
            /\ faults' = 0 =>
                  /\ faults = 0
                  /\ Count(events', tags) = Count(events, tags) + Hit(a, tags) + Hit(b, tags)
        BY <1>1, Zenon
      <3>2. Hit(a, tags) \in {0, 1} /\ Hit(b, tags) \in {0, 1} /\ Count(events, tags) \in Nat
        BY <1>2, Zenon
      <3>3. Count(events, tags) <= n /\ (faults = 0 => Count(events, tags) = n)
        BY <1>4, Zenon DEF Tally
      <3>4. QED BY ONLY <3>1, <3>2, <3>3
    <2>2. QED BY ONLY <1>4, <2>1, n \in Nat
  <1>5. Tallies'
    BY <1>3, <1>4 DEF TraceInv, Tallies, Tally
  <1>6. ASSUME faults' = 0 PROVE Balanced(events', OpenIn(Level'))
    <2> DEFINE half == Append(events, a)
    <2>1. /\ events' = Append(half, b) /\ events \in Seq(Tags) /\ half \in Seq(Tags)
          /\ Balanced(events, OpenIn(Level))
      BY <1>1, <1>6 DEF TraceInv, TraceTypeOK
    <2>2. CASE /\ a.category \notin OpenIn(Level)
               /\ b.category \notin OpenIn(Level) \cup {a.category}
               /\ OpenIn(Level') = (OpenIn(Level) \cup {a.category}) \cup {b.category}
      <3>1. Balanced(half, OpenIn(Level) \cup {a.category})
        BY <2>1, <2>2, BalancedOpens
      <3> HIDE DEF half
      <3>2. QED BY <2>1, <2>2, <3>1, BalancedOpens
    <2>3. CASE /\ a.what \in {"completed", "failed"} /\ b.what # "started"
               /\ b.category \notin OpenIn(Level) \/ b.what \in {"completed", "failed"}
               /\ OpenIn(Level') = (OpenIn(Level) \ {a.category}) \ {b.category}
      <3>1. a.what # "started" /\ a.what \in {"completed", "failed", "cancelled"}
        BY <2>3
      <3>2. Balanced(half, OpenIn(Level) \ {a.category})
        BY <2>1, <3>1, BalancedCloses
      <3>3. \/ b.category \notin OpenIn(Level) \ {a.category}
            \/ b.what \in {"completed", "failed", "cancelled"}
        BY <2>3
      <3> HIDE DEF half
      <3>4. QED BY <2>1, <2>3, <3>2, <3>3, BalancedCloses
    <2>4. QED BY <2>2, <2>3
  <1>7. QED BY <1>1, <1>5, <1>6, TraceGrows

\* Tools and models: what a frame opens when it is entered it closes when it is left.
LEMMA FrameFacts ==
  ASSUME Stacked
  PROVE  /\ \A frame : Inside(frame) => Level = frame /\ Len(stack) >= 1
         /\ Len(stack) >= 1 => Level = Top /\ Level \in Frames
         /\ Level = "run" => Len(stack) = 2
         /\ Level = "tracing" => Len(stack) = 1
         /\ Len(stack) = 1 => Level = "tracing"
         /\ Len(stack) = 0 => Level = None
  <1>1. stack \in Seq(Frames) /\ Len(stack) \in 0..3
    BY StackedLength
  <1>2. Len(stack) = 0 <=> stack = <<>>
    BY <1>1
  <1>3. Len(stack) >= 1 => Level = Top /\ Level \in Frames
    BY <1>1 DEF Level, Top
  <1>4. Len(stack) = 0 => Level = None
    BY DEF Level
  <1>5. Level = "run" => Len(stack) = 2
    BY <1>1, <1>4 DEF Stacked, Level, Top, None
  <1>6. Level = "tracing" => Len(stack) = 1
    BY <1>1, <1>4 DEF Stacked, Level, Top, None
  <1>7. Len(stack) = 1 => Level = "tracing"
    BY <1>1, <1>3 DEF Stacked, Top
  <1>8. \A frame : Inside(frame) => Level = frame /\ Len(stack) >= 1
    BY <1>1, <1>2, <1>3 DEF Inside
  <1>9. QED BY <1>3, <1>4, <1>5, <1>6, <1>7, <1>8

LEMMA OpenIs ==
  /\ OpenIn("tool") = {"tool"} /\ OpenIn("verification") = {"tool", "verification"}
  /\ OpenIn("model") = {"model"}
  /\ \A frame \in {None, "tracing", "run"} : OpenIn(frame) = {}
  BY DEF OpenIn, None

LEMMA TagIs ==
  /\ \A category, what : Tag(category, what).category = category /\ Tag(category, what).what = what
  /\ \A category \in Frames \cup {"job", "file"} :
        \A what \in {"started", "completed", "failed", "cancelled", "mutated"} :
           Tag(category, what) \in Tags
  /\ \A category, what :
        what \notin {"started", "mutated"} \/ category \in {"verification", "run", "job"}
           => Tag(category, what) \notin Counted
  BY DEF Tag, Tags, Counted

\* A call begins.
LEMMA TraceBegins ==
  ASSUME TraceInv, CallModel \/ \E flag \in BOOLEAN : BeginTool(flag)
  PROVE  TraceInv'
  <1>0. /\ Stacked /\ {models, tools, mutations} \subseteq Nat
        /\ finished => Len(stack) <= 1
    BY DEF TraceInv, TraceTypeOK
  <1>1. CASE CallModel
    <2>1. /\ Inside("run") \/ Inside("tracing")
          /\ ~finished /\ Push("model") /\ Emit(<<Tag("model", "started")>>)
          /\ models' = models + 1
          /\ UNCHANGED <<tools, mutations, started, finished, final, stored>>
      BY <1>1 DEF CallModel
    <2>2. Level \in {"run", "tracing"}
      BY <1>0, <2>1, FrameFacts
    <2>3. Stacked' /\ Level' = "model"
      BY <1>0, <2>1, <2>2, PushStacked
    <2>4. OpenIn(Level) = {} /\ OpenIn(Level') = {} \cup {"model"}
      BY <2>2, <2>3, OpenIs
    <2>5. Tag("model", "started") \in Tags /\ Tag("model", "started").category = "model"
      BY TagIs DEF Frames
    <2>6. /\ models' = models + Hit(Tag("model", "started"), {Tag("model", "started")})
          /\ tools' = tools + Hit(Tag("model", "started"), {Tag("tool", "started")})
          /\ mutations' = mutations + Hit(Tag("model", "started"), {Tag("file", "mutated")})
          /\ {models', tools', mutations'} \subseteq Nat
      BY <1>0, <2>1, HitIs
    <2> DEFINE e == Tag("model", "started")
    <2>7. e.category \notin OpenIn(Level) /\ OpenIn(Level') = OpenIn(Level) \cup {e.category}
      BY <2>4, <2>5
    <2>8. QED BY <2>1, <2>3, <2>5, <2>6, <2>7, TraceOne
  <1>2. ASSUME NEW flag \in BOOLEAN, BeginTool(flag) PROVE TraceInv'
    <2> DEFINE e == Tag("tool", "started")
               v == Tag("verification", "started")
    <2>1. /\ Inside("run") /\ tools' = tools + 1
          /\ UNCHANGED <<models, mutations, started, finished, final, stored>>
      BY <1>2 DEF BeginTool
    <2>2. Level = "run" /\ ~finished
      BY <1>0, <2>1, FrameFacts
    <2>3. /\ e \in Tags /\ v \in Tags /\ e.category = "tool" /\ v.category = "verification"
          /\ v \notin Counted
      BY TagIs DEF Frames
    <2>4. /\ models' = models + Hit(e, {Tag("model", "started")})
          /\ tools' = tools + Hit(e, {Tag("tool", "started")})
          /\ mutations' = mutations + Hit(e, {Tag("file", "mutated")})
          /\ {models', tools', mutations'} \subseteq Nat
      BY <1>0, <2>1, HitIs
    <2>5. CASE ~flag
      <3>1. Push("tool") /\ Emit(<<e>>)
        BY <1>2, <2>5 DEF BeginTool
      <3>2. Stacked' /\ Level' = "tool"
        BY <1>0, <2>2, <3>1, PushStacked
      <3>3. e.category \notin OpenIn(Level) /\ OpenIn(Level') = OpenIn(Level) \cup {e.category}
        BY <2>2, <2>3, <3>2, OpenIs
      <3> HIDE DEF e
      <3>4. QED BY <2>1, <2>2, <2>3, <2>4, <3>1, <3>2, <3>3, TraceOne
    <2>6. CASE flag
      <3>1. Push("verification") /\ Emit(<<e, v>>)
        BY <1>2, <2>6 DEF BeginTool
      <3>2. Stacked' /\ Level' = "verification"
        BY <1>0, <2>2, <3>1, PushStacked
      <3>3. /\ e.category \notin OpenIn(Level)
            /\ v.category \notin OpenIn(Level) \cup {e.category}
            /\ OpenIn(Level') = (OpenIn(Level) \cup {e.category}) \cup {v.category}
        BY <2>2, <2>3, <3>2, OpenIs
      <3>4. /\ models' = models + Hit(e, {Tag("model", "started")})
                                + Hit(v, {Tag("model", "started")})
            /\ tools' = tools + Hit(e, {Tag("tool", "started")}) + Hit(v, {Tag("tool", "started")})
            /\ mutations' = mutations + Hit(e, {Tag("file", "mutated")})
                                      + Hit(v, {Tag("file", "mutated")})
        <4>1. /\ Hit(v, {Tag("model", "started")}) = 0 /\ Hit(v, {Tag("tool", "started")}) = 0
              /\ Hit(v, {Tag("file", "mutated")}) = 0
          BY <2>3, HitIs
        <4>2. /\ models' + 0 = models' /\ tools' + 0 = tools' /\ mutations' + 0 = mutations'
          BY <2>4
        <4> HIDE DEF e, v
        <4>3. QED BY <2>4, <4>1, <4>2
      <3> HIDE DEF e, v
      <3>5. QED BY <2>1, <2>2, <2>3, <2>4, <3>1, <3>2, <3>3, <3>4, TraceTwo
    <2>7. QED BY <2>5, <2>6
  <1>3. QED BY <1>1, <1>2

LEMMA Joined ==
  ASSUME NEW S, NEW a \in S, NEW b \in S
  PROVE  /\ (<<a>> \o <<>>) \o <<>> = <<a>>
         /\ (<<a>> \o <<b>>) \o <<>> = <<a, b>>
         /\ (<<a>> \o <<>>) \o <<b>> = <<a, b>>
  <1>1. <<a>> \o <<b>> = <<a, b>>
    <2> DEFINE s == <<a>> \o <<b>>
    <2>1. s \in Seq(S) /\ Len(s) = 2 /\ s[1] = a /\ s[2] = b
      OBVIOUS
    <2> HIDE DEF s
    <2>2. s = <<a, b>>
      BY <2>1
    <2>3. QED BY <2>2 DEF s
  <1>2. <<a>> \o <<>> = <<a>>
    OBVIOUS
  <1>3. <<a, b>> \o <<>> = <<a, b>>
    OBVIOUS
  <1>4. QED BY <1>1, <1>2, <1>3

\* A call returns, and its frame with it.
LEMMA TraceReturns ==
  ASSUME TraceInv, ModelReturns \/ \E flag \in BOOLEAN : ToolReturns(flag)
  PROVE  TraceInv'
  <1>0. /\ Stacked /\ {models, tools, mutations} \subseteq Nat
        /\ finished => Len(stack) <= 1
    BY DEF TraceInv, TraceTypeOK
  <1>1. ASSUME NEW frame \in {"tool", "verification", "model"}, Inside(frame), Pop
        PROVE  /\ Level = frame /\ ~finished /\ Stacked' /\ OpenIn(Level') = {}
    <2>1. Level = frame /\ Len(stack) >= 1
      BY <1>0, <1>1, FrameFacts
    <2>2. Len(stack) # 1
      BY <1>0, <1>1, <2>1, FrameFacts
    <2>3. Stacked' /\ Level' \in {None, "tracing", "run"} /\ Len(stack) \in 1..3
      BY <1>0, <1>1, <2>1, PopStacked
    <2>4. QED BY <1>0, <2>1, <2>2, <2>3, OpenIs
  <1>2. CASE ModelReturns
    <2> DEFINE e == Tag("model", "completed")
    <2>1. /\ Inside("model") /\ Pop /\ Emit(<<e>>)
          /\ UNCHANGED <<models, tools, mutations, started, finished, final, stored>>
      BY <1>2 DEF ModelReturns, ghosts
    <2>2. Level = "model" /\ ~finished /\ Stacked' /\ OpenIn(Level') = {}
      BY <1>1, <2>1
    <2>3. /\ e \in Tags /\ e \notin Counted /\ e.category = "model" /\ e.what = "completed"
      BY TagIs DEF Frames
    <2>4. /\ models' = models + Hit(e, {Tag("model", "started")})
          /\ tools' = tools + Hit(e, {Tag("tool", "started")})
          /\ mutations' = mutations + Hit(e, {Tag("file", "mutated")})
          /\ {models', tools', mutations'} \subseteq Nat
      <3>1. /\ Hit(e, {Tag("model", "started")}) = 0 /\ Hit(e, {Tag("tool", "started")}) = 0
            /\ Hit(e, {Tag("file", "mutated")}) = 0
        BY <2>3, HitIs
      <3> HIDE DEF e
      <3>2. QED BY <1>0, <2>1, <3>1
    <2>5. e.what \in {"completed", "failed"} /\ OpenIn(Level') = OpenIn(Level) \ {e.category}
      BY <2>2, <2>3, OpenIs
    <2> HIDE DEF e
    <2>6. QED BY <2>1, <2>2, <2>3, <2>4, <2>5, TraceOne
  <1>3. ASSUME NEW mutating \in BOOLEAN, ToolReturns(mutating) PROVE TraceInv'
    <2> DEFINE e == Tag("tool", "completed")
               v == Tag("verification", "completed")
               f == Tag("file", "mutated")
    <2>1. /\ Inside("tool") \/ Inside("verification")
          /\ Pop /\ UNCHANGED <<models, tools, started, finished, final, stored>>
          /\ mutations' = IF mutating THEN mutations + 1 ELSE mutations
          /\ mutating => Top = "tool"
      BY <1>3 DEF ToolReturns
    <2>2. /\ Level \in {"tool", "verification"} /\ Level = Top
          /\ ~finished /\ Stacked' /\ OpenIn(Level') = {}
      BY <1>0, <1>1, <2>1, FrameFacts
    <2>3. /\ e \in Tags /\ e \notin Counted /\ e.category = "tool" /\ e.what = "completed"
          /\ v \in Tags /\ v \notin Counted /\ v.category = "verification"
          /\ v.what = "completed"
          /\ f \in Tags /\ f.category = "file" /\ f.what = "mutated"
      BY TagIs DEF Frames
    <2>4. /\ \A x \in {e, v} : /\ Hit(x, {Tag("model", "started")}) = 0
                               /\ Hit(x, {Tag("tool", "started")}) = 0
                               /\ Hit(x, {Tag("file", "mutated")}) = 0
          /\ Hit(f, {Tag("model", "started")}) = 0
          /\ Hit(f, {Tag("tool", "started")}) = 0
          /\ Hit(f, {Tag("file", "mutated")}) = 1
      BY <2>3, HitIs
    <2>5. {models', tools', mutations'} \subseteq Nat
      BY <1>0, <2>1
    <2>6. CASE Level = "tool" /\ ~mutating
      <3>1. Emit(<<e>>)
        <4>1. Emit((<<e>> \o <<>>) \o <<>>)
          BY <1>3, <2>2, <2>6 DEF ToolReturns
        <4>2. (<<e>> \o <<>>) \o <<>> = <<e>>
          BY <2>3, Joined
        <4>3. QED BY <4>1, <4>2
      <3>2. /\ models' = models + Hit(e, {Tag("model", "started")})
            /\ tools' = tools + Hit(e, {Tag("tool", "started")})
            /\ mutations' = mutations + Hit(e, {Tag("file", "mutated")})
        BY <1>0, <2>1, <2>4, <2>6
      <3>3. e.what \in {"completed", "failed"} /\ OpenIn(Level') = OpenIn(Level) \ {e.category}
        BY <2>2, <2>3, <2>6, OpenIs
      <3> HIDE DEF e
      <3>4. QED BY <2>1, <2>2, <2>3, <2>5, <3>1, <3>2, <3>3, TraceOne
    <2>7. ASSUME NEW x \in Tags, Emit(<<e, x>>), x.what # "started",
                 x.category \notin OpenIn(Level) \/ x.what \in {"completed", "failed"},
                 OpenIn(Level) \ {"tool"} \subseteq {x.category},
                 Hit(x, {Tag("model", "started")}) = 0, Hit(x, {Tag("tool", "started")}) = 0,
                 mutations' = mutations + Hit(x, {Tag("file", "mutated")})
          PROVE  TraceInv'
      <3>1. /\ models' = models + Hit(e, {Tag("model", "started")})
                                + Hit(x, {Tag("model", "started")})
            /\ tools' = tools + Hit(e, {Tag("tool", "started")}) + Hit(x, {Tag("tool", "started")})
            /\ mutations' = mutations + Hit(e, {Tag("file", "mutated")})
                                      + Hit(x, {Tag("file", "mutated")})
        BY <1>0, <2>1, <2>4, <2>7
      <3>2. /\ e.what \in {"completed", "failed"}
            /\ OpenIn(Level') = (OpenIn(Level) \ {e.category}) \ {x.category}
        BY <2>2, <2>3, <2>7
      <3> HIDE DEF e
      <3>3. QED BY <2>1, <2>2, <2>3, <2>5, <2>7, <3>1, <3>2, TraceTwo
    <2>8. CASE Level = "verification"
      <3>1. ~mutating
        BY <2>1, <2>2, <2>8
      <3>2. Emit(<<e, v>>)
        <4>1. Emit((<<e>> \o <<v>>) \o <<>>)
          BY <1>3, <2>2, <2>8, <3>1 DEF ToolReturns
        <4>2. (<<e>> \o <<v>>) \o <<>> = <<e, v>>
          BY <2>3, Joined
        <4>3. QED BY <4>1, <4>2
      <3>3. OpenIn(Level) \ {"tool"} \subseteq {v.category}
        BY <2>3, <2>8, OpenIs
      <3>4. mutations' = mutations + Hit(v, {Tag("file", "mutated")})
        BY <1>0, <2>1, <2>4, <3>1
      <3> HIDE DEF e, v
      <3>5. QED BY <2>3, <2>4, <2>7, <3>2, <3>3, <3>4
    <2>9. CASE Level = "tool" /\ mutating
      <3>1. Emit(<<e, f>>)
        <4>1. Emit((<<e>> \o <<>>) \o <<f>>)
          BY <1>3, <2>2, <2>9 DEF ToolReturns
        <4>2. (<<e>> \o <<>>) \o <<f>> = <<e, f>>
          BY <2>3, Joined
        <4>3. QED BY <4>1, <4>2
      <3>2. f.category \notin OpenIn(Level) /\ OpenIn(Level) \ {"tool"} \subseteq {f.category}
        BY <2>3, <2>9, OpenIs
      <3>3. mutations' = mutations + Hit(f, {Tag("file", "mutated")})
        BY <1>0, <2>1, <2>4, <2>9
      <3> HIDE DEF e, f
      <3>4. QED BY <2>3, <2>4, <2>7, <3>1, <3>2, <3>3
    <2>10. QED BY <2>2, <2>6, <2>8, <2>9
  <1>4. QED BY <1>2, <1>3

\* A call fails: the agent may observe it or go down with it.
LEMMA TraceUnwinds ==
  ASSUME TraceInv, Unwind
  PROVE  TraceInv'
  <1>0. /\ Stacked /\ {models, tools, mutations} \subseteq Nat
        /\ finished => Len(stack) <= 1
    BY DEF TraceInv, TraceTypeOK
  <1>1. /\ Pop /\ Len(stack) > 1
        /\ UNCHANGED <<models, tools, mutations, started, finished, final, stored>>
    BY DEF Unwind, ghosts
  <1>2. /\ Level = Top /\ Len(stack) \in 2..3 /\ ~finished
        /\ Level \in {"run", "tool", "verification", "model"}
    <2>1. stack \in Seq(Frames) /\ Len(stack) \in 0..3
      BY <1>0, StackedLength
    <2>2. Len(stack) \in 2..3
      <3>1. \A n \in 0..3 : n > 1 => n \in 2..3
        OBVIOUS
      <3>2. QED BY <1>1, <2>1, <3>1, Zenon
    <2>3. Level = Top
      <3>1. Len(stack) >= 1
        BY ONLY <2>2
      <3>2. QED BY <1>0, <3>1, FrameFacts, Zenon
    <2>4. Top \in {"run", "tool", "verification", "model"}
      <3>1. CASE Len(stack) = 2
        BY <1>0, <3>1 DEF Stacked, Top
      <3>2. CASE Len(stack) = 3
        BY <1>0, <3>2 DEF Stacked, Top
      <3>3. QED BY <2>2, <3>1, <3>2
    <2>5. ~finished
      BY ONLY <1>0, <2>2
    <2>6. QED BY <2>2, <2>3, <2>4, <2>5
  <1>3. Stacked' /\ Level' \in {None, "tracing", "run"} /\ OpenIn(Level') = {}
    <2>1. Len(stack) >= 1
      BY <1>2
    <2>2. QED BY <1>0, <1>1, <2>1, PopStacked, OpenIs
  <1>4. CASE Level = "run"
    <2>1. UNCHANGED <<events, faults, began>>
      BY <1>2, <1>4 DEF Unwind, ghosts
    <2>2. OpenIn(Level) = {}
      BY <1>4, OpenIs
    <2>3. QED BY <1>1, <1>2, <1>3, <2>1, <2>2, TraceQuiet DEF ghosts
  <1>5. ASSUME NEW x \in Tags, x \notin Counted
        PROVE  /\ Hit(x, {Tag("model", "started")}) = 0
               /\ Hit(x, {Tag("tool", "started")}) = 0
               /\ Hit(x, {Tag("file", "mutated")}) = 0
    BY <1>5, HitIs
  <1>6. CASE Level \in {"tool", "model"}
    <2> DEFINE e == Tag(Top, "failed")
    <2>1. Emit(<<e>>)
      BY <1>2, <1>6 DEF Unwind
    <2>2. e \in Tags /\ e \notin Counted /\ e.category = Level /\ e.what = "failed"
      BY <1>2, <1>6, TagIs DEF Frames
    <2>3. e.what \in {"completed", "failed"} /\ OpenIn(Level') = OpenIn(Level) \ {e.category}
      BY <1>3, <1>6, <2>2, OpenIs
    <2> HIDE DEF e
    <2>4. /\ models' = models + Hit(e, {Tag("model", "started")})
          /\ tools' = tools + Hit(e, {Tag("tool", "started")})
          /\ mutations' = mutations + Hit(e, {Tag("file", "mutated")})
          /\ {models', tools', mutations'} \subseteq Nat
      <3>1. /\ Hit(e, {Tag("model", "started")}) = 0 /\ Hit(e, {Tag("tool", "started")}) = 0
            /\ Hit(e, {Tag("file", "mutated")}) = 0
        BY <1>5, <2>2
      <3>2. QED BY <1>0, <1>1, <3>1
    <2>5. QED BY <1>1, <1>2, <1>3, <2>1, <2>2, <2>3, <2>4, TraceOne
  <1>7. CASE Level = "verification"
    <2> DEFINE e == Tag("tool", "failed")
               v == Tag("verification", "failed")
    <2>1. Emit(<<e, v>>)
      BY <1>2, <1>7 DEF Unwind
    <2>2. /\ e \in Tags /\ e \notin Counted /\ e.category = "tool" /\ e.what = "failed"
          /\ v \in Tags /\ v \notin Counted /\ v.category = "verification" /\ v.what = "failed"
      BY TagIs DEF Frames
    <2>3. /\ e.what \in {"completed", "failed"} /\ v.what # "started"
          /\ v.category \notin OpenIn(Level) \/ v.what \in {"completed", "failed"}
          /\ OpenIn(Level') = (OpenIn(Level) \ {e.category}) \ {v.category}
      BY <1>3, <1>7, <2>2, OpenIs
    <2> HIDE DEF e, v
    <2>4. /\ models' = models + Hit(e, {Tag("model", "started")})
                              + Hit(v, {Tag("model", "started")})
          /\ tools' = tools + Hit(e, {Tag("tool", "started")}) + Hit(v, {Tag("tool", "started")})
          /\ mutations' = mutations + Hit(e, {Tag("file", "mutated")})
                                    + Hit(v, {Tag("file", "mutated")})
          /\ {models', tools', mutations'} \subseteq Nat
      <3>1. /\ Hit(e, {Tag("model", "started")}) = 0 /\ Hit(e, {Tag("tool", "started")}) = 0
            /\ Hit(e, {Tag("file", "mutated")}) = 0
        BY <1>5, <2>2
      <3>2. /\ Hit(v, {Tag("model", "started")}) = 0 /\ Hit(v, {Tag("tool", "started")}) = 0
            /\ Hit(v, {Tag("file", "mutated")}) = 0
        BY <1>5, <2>2
      <3>3. QED BY <1>0, <1>1, <3>1, <3>2
    <2>5. QED BY <1>1, <1>2, <1>3, <2>1, <2>2, <2>3, <2>4, TraceTwo
  <1>8. QED BY <1>2, <1>4, <1>6, <1>7

\* The first finish tells how the run ended, and stores what was told.
LEMMA TraceFinishes ==
  ASSUME TraceInv, NEW status, Finish(status) \/ FinishUnstored(status), Level = "tracing",
         Stacked', Len(stack') <= 1, UNCHANGED <<ghosts, started>>
  PROVE  TraceInv'
  <1> DEFINE e == Terminal(status)
  <1>0. /\ events \in Seq(Tags) /\ faults \in Nat /\ {models, tools, mutations} \subseteq Nat
        /\ started \in BOOLEAN /\ finished \in BOOLEAN
        /\ UNCHANGED <<models, tools, mutations>>
    BY DEF TraceInv, TraceTypeOK, ghosts
  <1>1. OpenIn(Level) = {} /\ OpenIn(Level') = {}
    <2>1. Len(stack') \in {0, 1}
      <3>1. stack' \in Seq(Frames)
        BY DEF Stacked
      <3>2. Len(stack') \in Nat
        BY <3>1
      <3>3. \A n \in Nat : n <= 1 => n \in {0, 1}
        OBVIOUS
      <3>4. QED BY <3>2, <3>3, Zenon
    <2>2. Level' \in {None, "tracing"}
      BY <2>1 DEF Stacked, Level, Top
    <2>3. QED BY <2>2, OpenIs
  <1>2. CASE UNCHANGED <<events, finished, final, stored, faults>>
    BY <1>1, <1>2, TraceQuiet
  <1>3. /\ e \in Tags /\ e \notin Counted /\ e.what # "started" /\ e.category \notin {}
    BY TagIs DEF Terminal, Frames
  <1>4. \A tags \in {{Tag("model", "started")}, {Tag("tool", "started")},
                    {Tag("file", "mutated")}} :
           Hit(e, tags) = 0
    BY <1>3, HitIs
  <1>5. CASE /\ started /\ ~finished /\ finished'
             /\ final' = [status |-> status, event |-> e]
             /\ \/ Emit(<<e>>) /\ stored' = Summary(events', status)
                \/ faults' = faults + 1 /\ events' = Append(events, e) /\ stored' = stored
    <2> HIDE DEF e
    <2>1. /\ events' \in Seq(Tags) /\ faults' \in Nat
          /\ faults' = 0 => faults = 0 /\ events' = Append(events, e) /\ events' # <<>>
          /\ \A tags :
                /\ Count(events', tags) \in Nat
                /\ Count(events', tags) <= Count(events, tags) + Hit(e, tags)
                /\ faults' = 0 => Count(events', tags) = Count(events, tags) + Hit(e, tags)
      <3>1. CASE Emit(<<e>>)
        BY <1>3, <1>5, <3>1, TellOne
      <3>2. CASE faults' = faults + 1 /\ events' = Append(events, e)
        <4>1. events' \in Seq(Tags) /\ faults' \in Nat /\ faults' # 0
          BY <1>0, <1>3, <3>2
        <4>2. \A tags : /\ Count(events, tags) \in Nat
                        /\ Count(events', tags) = Count(events, tags) + Hit(e, tags)
                        /\ Hit(e, tags) \in Nat
          BY <1>0, <1>3, <3>2, CountAppend DEF Hit
        <4>3. QED BY <4>1, <4>2
      <3>3. QED BY <1>5, <3>1, <3>2
    <2>2. TraceTypeOK'
      BY <1>0, <1>5, <2>1 DEF TraceInv, TraceTypeOK
    <2>3. ASSUME NEW n \in Nat,
                 NEW tags \in {{Tag("model", "started")}, {Tag("tool", "started")},
                               {Tag("file", "mutated")}},
                 Tally(tags, n)
          PROVE  /\ Count(events', tags) \in Nat /\ Count(events', tags) <= n
                 /\ faults' = 0 => Count(events', tags) = n
      <3>1. /\ Count(events, tags) \in Nat /\ Count(events, tags) <= n
            /\ faults = 0 => Count(events, tags) = n
        BY <2>3, CountAppend, <1>0, <1>3 DEF Tally
      <3>2. Hit(e, tags) = 0
        BY <1>4
      <3>3. QED BY <2>1, <3>1, <3>2
    <2>4. Tallies'
      BY <1>0, <2>3 DEF TraceInv, Tallies, Tally
    <2>5. EndTold'
      <3>1. stored' # NotStored => finished' /\ stored' = Summary(events', final'.status)
        BY <1>5 DEF TraceInv, EndTold
      <3>2. faults' = 0 => Last(events') = final'.event
        <4>1. Last(Append(events, e)) = e
          BY <1>0, <1>3 DEF Last
        <4>2. QED BY <1>5, <2>1, <4>1
      <3>3. QED BY <3>1, <3>2 DEF EndTold
    <2>6. ASSUME faults' = 0 PROVE Balanced(events', OpenIn(Level'))
      <3>1. Balanced(events, {}) /\ events' = Append(events, e)
        BY <1>1, <2>1, <2>6 DEF TraceInv
      <3>2. Balanced(events', {} \ {e.category})
        BY <1>0, <1>3, <3>1, BalancedCloses
      <3>3. {} \ {e.category} = {}
        OBVIOUS
      <3>4. QED BY <1>1, <3>2, <3>3
    <2>7. QED BY <2>2, <2>4, <2>5, <2>6 DEF TraceInv
  <1>6. QED BY <1>2, <1>5 DEF Finish, FinishUnstored, Fault

LEMMA TraceInitially == TraceInit => TraceInv
  <1> SUFFICES ASSUME TraceInit PROVE TraceInv
    OBVIOUS
  <1>1. /\ stack = <<"tracing">> /\ models = 0 /\ tools = 0 /\ mutations = 0
        /\ started \in BOOLEAN /\ finished = FALSE /\ stored = NotStored
        /\ faults \in {0, 1} /\ (faults = 0 => started)
        /\ events = IF started THEN <<Tag("run", "started")>> ELSE <<>>
    BY DEF TraceInit
  <1>2. Stacked
    BY <1>1 DEF Stacked, Frames
  <1>3. Tag("run", "started") \in Tags /\ Tag("run", "started") \notin Counted
    BY TagIs DEF Frames
  <1>4. Append(<<>>, Tag("run", "started")) = <<Tag("run", "started")>> /\ <<>> \in Seq(Tags)
    OBVIOUS
  <1>5. events \in Seq(Tags) /\ (started => events # <<>>) /\ Len(events) \in {0, 1}
    BY <1>1, <1>3
  <1>6. \A tags \in {{Tag("model", "started")}, {Tag("tool", "started")},
                    {Tag("file", "mutated")}} :
           Count(events, tags) = 0
    <2>1. CASE started
      <3>1. events = Append(<<>>, Tag("run", "started"))
        BY <1>1, <1>4, <2>1
      <3>2. \A tags : Count(events, tags) = Count(<<>>, tags) + Hit(Tag("run", "started"), tags)
        BY <1>3, <1>4, <3>1, CountAppend
      <3>3. \A tags \in {{Tag("model", "started")}, {Tag("tool", "started")},
                         {Tag("file", "mutated")}} : Hit(Tag("run", "started"), tags) = 0
        BY <1>3, HitIs
      <3>4. 0 + 0 = 0
        OBVIOUS
      <3>5. QED BY <3>2, <3>3, <3>4, CountNone, Zenon
    <2>2. CASE ~started
      BY <1>1, <2>2, CountNone
    <2>3. QED BY <1>1, <2>1, <2>2
  <1>7. Tallies
    BY <1>1, <1>6 DEF Tallies, Tally
  <1>8. \A open : Balanced(events, open)
    BY <1>5 DEF Balanced
  <1>9. TraceTypeOK /\ EndTold
    <2>1. {models, tools, mutations, faults} \subseteq Nat
      BY <1>1
    <2>2. TraceTypeOK
      BY <1>1, <1>2, <1>5, <2>1 DEF TraceTypeOK
    <2>3. QED BY <1>1, <2>2 DEF EndTold
  <1>10. QED BY <1>7, <1>8, <1>9 DEF TraceInv

LEMMA TraceInvStep == TraceInv /\ [TraceNext]_traceVars => TraceInv'
  <1> SUFFICES ASSUME TraceInv, [TraceNext]_traceVars PROVE TraceInv'
    OBVIOUS
  <1> USE DEF ghosts
  <1>0. Stacked /\ (finished => Len(stack) <= 1)
    BY DEF TraceInv, TraceTypeOK
  <1>1. CASE EnterRun
    <2>1. /\ Inside("tracing") /\ ~finished /\ Push("run")
          /\ UNCHANGED <<ghosts, started, events, finished, final, stored, faults>>
      BY <1>1 DEF EnterRun
    <2>2. Level = "tracing"
      BY <1>0, <2>1, FrameFacts
    <2>3. Stacked' /\ Level' = "run"
      BY <1>0, <2>1, <2>2, PushStacked
    <2>4. OpenIn(Level') = OpenIn(Level)
      BY <2>2, <2>3, OpenIs
    <2>5. QED BY <2>1, <2>3, <2>4, TraceQuiet
  <1>2. CASE LeaveRun
    <2>1. /\ Inside("run") /\ Pop
          /\ UNCHANGED <<ghosts, started, events, finished, final, stored, faults>>
      BY <1>2 DEF LeaveRun
    <2>2. Level = "run" /\ Len(stack) = 2
      BY <1>0, <2>1, FrameFacts
    <2>3. Stacked' /\ Level' \in {None, "tracing", "run"} /\ ~finished
      BY <1>0, <2>1, <2>2, PopStacked
    <2>4. OpenIn(Level') = OpenIn(Level)
      BY <2>2, <2>3, OpenIs
    <2>5. QED BY <2>1, <2>3, <2>4, TraceQuiet
  <1>3. CASE (\E exception \in {"error", "cancelled"} : Raise(exception)) \/ UNCHANGED traceVars
    <2>1. UNCHANGED <<stack, ghosts, started, events, finished, final, stored, faults>>
      BY <1>3 DEF Raise, traceVars
    <2>2. Stacked' /\ Level' = Level
      BY <1>0, <2>1 DEF Stacked, Level, Top
    <2>3. finished => Len(stack') <= 1
      BY <1>0, <2>1
    <2>4. QED BY <2>1, <2>2, <2>3, TraceQuiet
  <1>4. CASE \E status \in DomainStatuses : ReportStatus(status)
    <2>1. PICK status : /\ Inside("tracing")
                        /\ Finish(status) \/ FinishUnstored(status)
                        /\ UNCHANGED <<stack, ghosts, started>>
      BY <1>4 DEF ReportStatus
    <2>2. Level = "tracing" /\ Len(stack) = 1
      BY <1>0, <2>1, FrameFacts
    <2>3. Stacked' /\ Len(stack') <= 1
      BY <1>0, <2>1, <2>2 DEF Stacked
    <2>4. QED BY <2>1, <2>2, <2>3, TraceFinishes
  <1>5. CASE LeaveTracing
    <2>1. PICK status : /\ Finish(status) \/ FinishUnstored(status)
                        /\ Len(stack) = 1 /\ Pop /\ UNCHANGED <<ghosts, started>>
      BY <1>5 DEF LeaveTracing
    <2>2. Level = "tracing"
      BY <1>0, <2>1, FrameFacts
    <2>3. Stacked' /\ Len(stack') <= 1
      BY <1>0, <2>1, PopStacked
    <2>4. QED BY <2>1, <2>2, <2>3, TraceFinishes
  <1>6. QED BY <1>1, <1>2, <1>3, <1>4, <1>5, TraceBegins, TraceReturns, TraceUnwinds DEF TraceNext

\* A stored trace is the run: its status was reported first, its events and counts are those
\* of the operation, every call in it is closed, and a telemetry fault only leaves things out.
THEOREM TraceIsTheRun == TraceSpec => []StoredTraceIsTheRun
  <1>1. TraceInv => StoredTraceIsTheRun
    <2> SUFFICES ASSUME TraceInv, stored # NotStored PROVE StoredTraceIsTheRun
      BY DEF StoredTraceIsTheRun
    <2>1. finished /\ stored = Summary(events, final.status)
      BY DEF TraceInv, EndTold
    <2>2. /\ stored.status = RunStatus(final.status) /\ stored.events = events
          /\ stored.models = Count(events, {Tag("model", "started")})
          /\ stored.tools = Count(events, {Tag("tool", "started")})
          /\ stored.mutations = Count(events, {Tag("file", "mutated")})
      BY <2>1 DEF Summary
    <2>3. /\ stored.models <= models /\ stored.tools <= tools /\ stored.mutations <= mutations
          /\ faults = 0 => stored.models = models /\ stored.tools = tools
                           /\ stored.mutations = mutations
      BY <2>2 DEF TraceInv, Tallies, Tally
    <2>4. OpenIn(Level) = {}
      <3>1. stack \in Seq(Frames) /\ Stacked /\ Len(stack) \in 0..3 /\ Len(stack) <= 1
        BY <2>1, StackedLength DEF TraceInv, TraceTypeOK
      <3>2. \A n \in 0..3 : n <= 1 => n = 0 \/ n = 1
        OBVIOUS
      <3>3. Len(stack) = 0 \/ Len(stack) = 1
        BY <3>1, <3>2, Zenon
      <3>4. Level \in {None, "tracing"}
        BY <3>1, <3>3, FrameFacts
      <3>5. QED BY <3>4, OpenIs
    <2>5. ASSUME faults = 0, NEW i \in 2..Len(events), Opens(events[i])
          PROVE  ClosedLater(events, i)
      BY <2>4, <2>5 DEF TraceInv, Balanced
    <2>6. faults = 0 => Last(events) = final.event
      BY <2>1 DEF TraceInv, EndTold
    <2>7. QED BY <2>1, <2>2, <2>3, <2>5, <2>6 DEF StoredTraceIsTheRun, ClosedLater
  <1>2. QED BY <1>1, TraceInitially, TraceInvStep, PTL DEF TraceSpec
=============================================================================
