--------------------------- MODULE Retrieval_proofs -------------------------
(***************************************************************************)
(* What TLAPS proves of the way from a file to an answer: whatever becomes *)
(* of the working tree while it is read, the snapshot is true to every     *)
(* path that nobody touched; whatever is committed while a question is     *)
(* asked, a search returns one sound ranking, the prompt is within its     *)
(* budgets, and an answer cites what the model was shown; and the chunks   *)
(* of a file that is cut into windows of lines cover it honestly.          *)
(***************************************************************************)
EXTENDS Chunking, SourceIngestion, RepositoryQuestion, SequenceFolds, SequenceTheorems

-----------------------------------------------------------------------------
(* Directories form a forest below the root. *)

Places == Paths \cup {Root}

LEMMA PathFacts ==
    /\ IsFiniteSet(Paths) /\ Paths \subseteq Nat /\ Root \notin Paths
    /\ \A p \in Paths : DirOf(p) \in Places /\ (DirOf(p) \in Paths => DirOf(p) < p)
  <1>1. IsFiniteSet(Paths)
    <2> DEFINE f == [n \in Names |-> n.path]
    <2>1. f \in Surjection(Names, Paths)
      BY DEF Surjection, Paths
    <2>2. QED BY <2>1, FS_Surjection, IngestionAssumption
  <1>2. ASSUME NEW p \in Paths
        PROVE  p \in Nat /\ p # Root /\ DirOf(p) \in Places /\ (DirOf(p) # Root => DirOf(p) < p)
    <2>1. \E n \in Names : n.path = p
      BY DEF Paths
    <2>2. PICK n \in Names : n.path = p /\ DirOf(p) = n.dir
      BY <2>1 DEF DirOf
    <2>3. QED BY <2>2, IngestionAssumption DEF Paths, Places
  <1>3. QED BY <1>1, <1>2

LEMMA UnderOwn ==
    ASSUME NEW p \in Paths, DirOf(p) \in Paths
    PROVE  Under(p, DirOf(p))
  BY PathFacts DEF Under

LEMMA UnderUp ==
    ASSUME NEW p \in Paths, NEW d \in Paths, Under(p, d), DirOf(d) \in Paths
    PROVE  Under(p, DirOf(d))
  BY PathFacts DEF Under, Upward

LEMMA UnderTrans ==
    ASSUME NEW p \in Paths, NEW d \in Paths, NEW e \in Paths, Under(p, d), Under(d, e)
    PROVE  Under(p, e)
  <1> SUFFICES ASSUME NEW S \in SUBSET Paths, DirOf(p) \in S \cup {Root}, Upward(S) PROVE e \in S
    BY DEF Under
  <1>1. d \in S
    BY DEF Under
  <1>2. DirOf(d) \in S \cup {Root}
    BY <1>1 DEF Upward
  <1>3. QED BY <1>2 DEF Under

LEMMA UnderCases ==
    ASSUME NEW p \in Paths, NEW d \in Paths, Under(p, d)
    PROVE  DirOf(p) = d \/ (DirOf(p) \in Paths /\ Under(DirOf(p), d))
  <1> DEFINE S == {x \in Paths : DirOf(p) = x \/ (DirOf(p) \in Paths /\ Under(DirOf(p), x))}
  <1>1. DirOf(p) \in S \cup {Root}
    BY PathFacts DEF Places
  <1>2. Upward(S)
    <2> SUFFICES ASSUME NEW q \in S, DirOf(q) # Root PROVE DirOf(q) \in S
      BY DEF Upward
    <2>1. q \in Paths /\ DirOf(q) \in Paths
      BY PathFacts DEF Places
    <2>2. CASE DirOf(p) = q
      BY <2>1, <2>2, UnderOwn
    <2>3. CASE DirOf(p) \in Paths /\ Under(DirOf(p), q)
      BY <2>1, <2>3, UnderUp
    <2>4. QED BY <2>2, <2>3
  <1>3. S \in SUBSET Paths
    OBVIOUS
  <1> HIDE DEF S
  <1>4. d \in S
    BY <1>1, <1>2, <1>3 DEF Under
  <1>5. QED BY <1>4 DEF S

LEMMA UnderLess ==
    ASSUME NEW p \in Paths, NEW d \in Paths, Under(p, d)
    PROVE  d < p
  <1> DEFINE S == {x \in Paths : x < p}
  <1>1. DirOf(p) \in S \cup {Root}
    BY PathFacts DEF Places
  <1>2. Upward(S)
    <2> SUFFICES ASSUME NEW q \in S, DirOf(q) # Root PROVE DirOf(q) \in S
      BY DEF Upward
    <2>1. q \in Nat /\ p \in Nat /\ DirOf(q) \in Paths /\ DirOf(q) < q /\ q < p /\ DirOf(q) \in Nat
      BY PathFacts DEF Places
    <2>2. DirOf(q) < p
      BY <2>1
    <2>3. QED BY <2>1, <2>2
  <1>3. S \in SUBSET Paths
    OBVIOUS
  <1> HIDE DEF S
  <1>4. d \in S
    BY <1>1, <1>2, <1>3 DEF Under
  <1>5. QED BY <1>4 DEF S

\* Of two directories above the same path, one is above the other.
LEMMA UnderChain ==
    ASSUME NEW p \in Paths, NEW d \in Paths, NEW e \in Paths, Under(p, d), Under(p, e)
    PROVE  d = e \/ Under(d, e) \/ Under(e, d)
  <1> DEFINE S == {x \in Paths : x = d \/ Under(d, x) \/ Under(x, d)}
  <1>1. DirOf(p) \in S \cup {Root}
    BY PathFacts, UnderCases DEF Places
  <1>2. Upward(S)
    <2> SUFFICES ASSUME NEW q \in S, DirOf(q) # Root PROVE DirOf(q) \in S
      BY DEF Upward
    <2>1. q \in Paths /\ DirOf(q) \in Paths
      BY PathFacts DEF Places
    <2>2. CASE q = d
      BY <2>1, <2>2, UnderOwn
    <2>3. CASE Under(d, q)
      BY <2>1, <2>3, UnderUp
    <2>4. CASE Under(q, d)
      BY <2>1, <2>4, UnderCases
    <2>5. QED BY <2>2, <2>3, <2>4
  <1>3. S \in SUBSET Paths
    OBVIOUS
  <1> HIDE DEF S
  <1>4. e \in S
    BY <1>1, <1>2, <1>3 DEF Under
  <1>5. QED BY <1>4 DEF S

\* What is below a directory but not in it is below a directory in it.
LEMMA UnderThrough ==
    ASSUME NEW p \in Paths, NEW d \in Places, Below(p, d), DirOf(p) # d
    PROVE  \E c \in Paths : Under(p, c) /\ DirOf(c) = d
  <1> SUFFICES ASSUME \A c \in Paths : Under(p, c) => DirOf(c) # d PROVE FALSE
    OBVIOUS
  <1> DEFINE S == {x \in Paths : Under(p, x) /\ x # d}
  <1>0. \A q \in S : DirOf(q) # Root => DirOf(q) \in S
    <2> SUFFICES ASSUME NEW q \in S, DirOf(q) # Root PROVE DirOf(q) \in S
      OBVIOUS
    <2>1. DirOf(q) \in Paths /\ DirOf(q) # d
      BY PathFacts DEF Places
    <2>2. QED BY <2>1, UnderUp
  <1>1. DirOf(p) \in S \cup {Root}
    BY PathFacts, UnderOwn DEF Places
  <1>2. CASE d \in Paths
    <2>1. S \in SUBSET Paths /\ Upward(S)
      BY <1>0 DEF Upward
    <2>2. Under(p, d)
      BY <1>2, PathFacts DEF Below
    <2>3. d \notin S
      OBVIOUS
    <2> HIDE DEF S
    <2>4. QED BY <1>1, <2>1, <2>2, <2>3 DEF Under
  <1>3. CASE d = Root
    <2>1. DirOf(p) \in S
      BY <1>1, <1>3
    <2>2. \A q \in S : q \in Nat /\ DirOf(q) \in S /\ DirOf(q) < q
      <3>1. \A q \in S : DirOf(q) # Root
        BY <1>3
      <3>2. QED BY <1>0, <3>1, PathFacts
    <2> HIDE DEF S
    <2>3. PICK x \in S : \A y \in S : <<y, x>> \notin OpToRel(<, Nat)
      <3>1. S \subseteq Nat /\ S # {}
        BY <2>1, <2>2
      <3>2. QED BY <3>1, NatLessThanWellFounded, WFMin
    <2>4. DirOf(x) \in S /\ DirOf(x) < x /\ x \in Nat /\ DirOf(x) \in Nat
      BY <2>2
    <2>5. QED BY <2>3, <2>4 DEF OpToRel
  <1>4. QED BY <1>2, <1>3 DEF Places

\* Neither of two entries of one directory is below the other.
LEMMA Siblings ==
    ASSUME NEW p \in Paths, NEW q \in Paths, DirOf(p) = DirOf(q)
    PROVE  ~Below(p, q)
  <1>1. q # Root
    BY PathFacts
  <1> SUFFICES ASSUME Under(p, q) PROVE FALSE
    BY <1>1 DEF Below
  <1>2. DirOf(p) = q \/ (DirOf(p) \in Paths /\ Under(DirOf(p), q))
    BY UnderCases
  <1>3. CASE DirOf(p) = q
    <2>1. DirOf(q) = q /\ DirOf(q) < q /\ q \in Nat
      BY <1>3, PathFacts
    <2>2. QED BY <2>1
  <1>4. CASE DirOf(p) \in Paths /\ Under(DirOf(p), q)
    <2>1. q < DirOf(q) /\ DirOf(q) < q /\ q \in Nat /\ DirOf(q) \in Nat
      BY <1>4, PathFacts, UnderLess
    <2>2. QED BY <2>1
  <1>5. QED BY <1>2, <1>3, <1>4
-----------------------------------------------------------------------------
(* Lists without repetitions, as the sets of what they hold. *)

\* s lists the set S, each element once.
Lists(s, S) == s \in Seq(S) /\ IsInjective(s) /\ Range(s) = S

LEMMA SortedLists ==
    ASSUME NEW S \in SUBSET Paths
    PROVE  Lists(Sorted(S), S)
  <1> DEFINE n == Cardinality(S)
             Less(p) == {q \in S : q < p}
             rank == [p \in S |-> Cardinality(Less(p)) + 1]
  <1>1. IsFiniteSet(S) /\ n \in Nat /\ S \subseteq Nat
    BY PathFacts, FS_Subset, FS_CardinalityType
  <1>2. ASSUME NEW p \in S PROVE Cardinality(Less(p)) \in Nat /\ Cardinality(Less(p)) < n
    <2>1. Less(p) \in SUBSET S /\ p \notin Less(p) /\ Less(p) # S
      BY <1>1
    <2>2. IsFiniteSet(Less(p)) /\ Cardinality(Less(p)) <= n /\ n # Cardinality(Less(p))
      BY <1>1, <2>1, FS_Subset
    <2>3. Cardinality(Less(p)) \in Nat
      BY <2>2, FS_CardinalityType
    <2>4. QED BY <1>1, <2>2, <2>3
  <1>3. ASSUME NEW p \in S, NEW q \in S, p < q PROVE rank[p] < rank[q]
    <2>1. Less(p) \in SUBSET Less(q) /\ p \in Less(q) /\ p \notin Less(p)
      <3>1. \A r \in S : r < p => r < q
        BY <1>1, <1>3
      <3>2. ~(p < p)
        BY <1>1
      <3>3. QED BY <1>3, <3>1, <3>2, Zenon
    <2>2. IsFiniteSet(Less(q)) /\ Less(q) # Less(p)
      BY <1>1, <2>1, FS_Subset
    <2>3. Cardinality(Less(p)) <= Cardinality(Less(q)) /\ Cardinality(Less(q)) # Cardinality(Less(p))
      BY <2>1, <2>2, FS_Subset
    <2>4. QED BY <1>2, <2>3
  <1>4. rank \in [S -> 1..n]
    BY <1>1, <1>2
  <1>5. rank \in Injection(S, 1..n)
    <2> HIDE DEF rank
    <2>1. \A p, q \in S : rank[p] = rank[q] => p = q
      <3> SUFFICES ASSUME NEW p \in S, NEW q \in S, rank[p] = rank[q], p # q PROVE FALSE
        OBVIOUS
      <3>1. p < q \/ q < p
        BY <1>1
      <3>2. rank[p] \in 1..n /\ rank[q] \in 1..n
        BY <1>4
      <3>3. QED BY <1>3, <3>1, <3>2
    <2>2. QED BY <1>4, <2>1 DEF Injection, IsInjective
  <1>6. rank \in Surjection(S, 1..n)
    <2>1. IsFiniteSet(1..n) /\ Cardinality(1..n) = n
      BY <1>1, FS_Interval
    <2> HIDE DEF rank
    <2>2. QED BY <1>5, <2>1, FS_Injection
  <1>7. ASSUME NEW i \in 1..n
        PROVE  Sorted(S)[i] \in S /\ rank[Sorted(S)[i]] = i
    <2>1. PICK p \in S : rank[p] = i
      BY <1>6 DEF Surjection
    <2>2. Cardinality(Less(p)) = i - 1
      BY <1>2, <2>1
    <2>3. Sorted(S)[i] = CHOOSE q \in S : Cardinality(Less(q)) = i - 1
      BY DEF Sorted
    <2> HIDE DEF Less
    <2>4. Sorted(S)[i] \in S /\ Cardinality(Less(Sorted(S)[i])) = i - 1
      BY <2>2, <2>3
    <2>5. QED BY <2>4
  <1>8. Sorted(S) \in [1..n -> S]
    <2>1. DOMAIN Sorted(S) = 1..n /\ Sorted(S) = [i \in 1..n |-> Sorted(S)[i]]
      BY DEF Sorted
    <2>2. QED BY <1>7, <2>1
  <1> HIDE DEF rank, n
  <1>9. Sorted(S) \in Seq(S)
    BY <1>1, <1>8, SeqDef
  <1>10. IsInjective(Sorted(S))
    BY <1>7, <1>8 DEF IsInjective
  <1>11. ASSUME NEW p \in S PROVE \E i \in 1..n : Sorted(S)[i] = p
    <2>1. rank[p] \in 1..n
      BY <1>4
    <2>2. rank[Sorted(S)[rank[p]]] = rank[p] /\ Sorted(S)[rank[p]] \in S
      BY <1>7, <2>1
    <2>3. Sorted(S)[rank[p]] = p
      BY <1>5, <2>2 DEF Injection, IsInjective
    <2>4. QED BY <2>1, <2>3
  <1>12. Range(Sorted(S)) = S
    BY <1>8, <1>11 DEF Range
  <1>13. QED BY <1>9, <1>10, <1>12 DEF Lists

LEMMA TailLists ==
    ASSUME NEW S, NEW s, Lists(s, S), s # <<>>
    PROVE  Head(s) \in S /\ Lists(Tail(s), S \ {Head(s)})
  <1> DEFINE T == S \ {Head(s)}
  <1>1. /\ s \in Seq(S) /\ IsInjective(s) /\ Range(s) = S
        /\ DOMAIN s = 1..Len(s) /\ Len(s) \in Nat \ {0} /\ Head(s) = s[1]
    BY DEF Lists
  <1>2. \A i, j \in 1..Len(s) : s[i] = s[j] => i = j
    BY <1>1 DEF IsInjective
  <1>3. \A x \in S : \E i \in 1..Len(s) : s[i] = x
    BY <1>1 DEF Range
  <1>4. /\ Tail(s) \in Seq(S) /\ Len(Tail(s)) = Len(s) - 1
        /\ \A i \in 1..(Len(s) - 1) : Tail(s)[i] = s[i + 1] /\ i + 1 \in 1..Len(s)
    BY <1>1
  <1>5. \A i \in 1..(Len(s) - 1) : Tail(s)[i] \in T
    BY <1>1, <1>2, <1>4
  <1>6. Tail(s) \in Seq(T)
    <2>1. Len(Tail(s)) \in Nat /\ DOMAIN Tail(s) = 1..(Len(s) - 1)
      BY <1>1, <1>4
    <2>2. Tail(s) \in [1..Len(Tail(s)) -> S]
      BY <1>4, LenProperties
    <2>3. \A i \in 1..Len(Tail(s)) : Tail(s)[i] \in T
      BY <1>4, <1>5
    <2> HIDE DEF T
    <2>4. Tail(s) \in [1..Len(Tail(s)) -> T]
      BY <2>2, <2>3
    <2>5. \E k \in Nat : Tail(s) \in [1..k -> T]
      BY <2>1, <2>4
    <2>6. QED BY <2>5, SeqDef, Zenon
  <1>7. IsInjective(Tail(s))
    BY <1>1, <1>2, <1>4 DEF IsInjective
  <1>8. ASSUME NEW x \in T PROVE \E i \in 1..(Len(s) - 1) : Tail(s)[i] = x
    <2>1. PICK i \in 1..Len(s) : s[i] = x
      BY <1>3
    <2>2. i # 1
      BY <1>1, <2>1
    <2>3. i - 1 \in 1..(Len(s) - 1) /\ (i - 1) + 1 = i
      BY <1>1, <2>2
    <2>4. QED BY <1>4, <2>1, <2>3
  <1>9. Range(Tail(s)) = T
    BY <1>1, <1>4, <1>5, <1>8 DEF Range
  <1>10. Head(s) \in S
    BY <1>1
  <1>11. QED BY <1>6, <1>7, <1>9, <1>10 DEF Lists

LEMMA ConcatLists ==
    ASSUME NEW S, NEW T, NEW s, NEW t, Lists(s, S), Lists(t, T), S \cap T = {}
    PROVE  Lists(s \o t, S \cup T)
  <1> DEFINE U == S \cup T
             c == s \o t
             m == Len(s)
             n == Len(t)
  <1>1. /\ s \in Seq(U) /\ t \in Seq(U) /\ m \in Nat /\ n \in Nat
        /\ DOMAIN s = 1..m /\ DOMAIN t = 1..n
        /\ \A i \in 1..m : s[i] \in S
        /\ \A i \in 1..n : t[i] \in T
    BY DEF Lists
  <1>2. /\ \A i, j \in 1..m : s[i] = s[j] => i = j
        /\ \A i, j \in 1..n : t[i] = t[j] => i = j
        /\ \A x \in S : \E i \in 1..m : s[i] = x
        /\ \A x \in T : \E i \in 1..n : t[i] = x
    BY <1>1 DEF Lists, IsInjective, Range
  <1>3. /\ c \in Seq(U) /\ Len(c) = m + n /\ DOMAIN c = 1..(m + n)
        /\ \A i \in 1..(m + n) : c[i] = IF i <= m THEN s[i] ELSE t[i - m]
    BY <1>1
  <1> HIDE DEF c, m, n
  <1>4. \A i \in 1..(m + n) : i <= m => i \in 1..m
    BY <1>1
  <1>5. \A i \in 1..(m + n) : ~(i <= m) => i - m \in 1..n
    BY <1>1
  <1>6. IsInjective(c)
    <2> SUFFICES ASSUME NEW i \in 1..(m + n), NEW j \in 1..(m + n), c[i] = c[j] PROVE i = j
      BY <1>3 DEF IsInjective
    <2>1. CASE i <= m /\ j <= m
      BY <1>2, <1>3, <1>4, <2>1
    <2>2. CASE ~(i <= m) /\ ~(j <= m)
      <3>1. i - m = j - m
        BY <1>2, <1>3, <1>5, <2>2
      <3>2. QED BY <1>1, <3>1
    <2>3. CASE (i <= m) # (j <= m)
      BY <1>1, <1>3, <1>4, <1>5, <2>3
    <2>4. QED BY <2>1, <2>2, <2>3
  <1>7. \A i \in 1..(m + n) : c[i] \in U
    BY <1>1, <1>3, <1>4, <1>5
  <1>8. ASSUME NEW x \in U PROVE \E i \in 1..(m + n) : c[i] = x
    <2>1. CASE x \in S
      <3>1. PICK i \in 1..m : s[i] = x
        BY <1>2, <2>1
      <3>2. i \in 1..(m + n) /\ i <= m
        BY <1>1
      <3>3. QED BY <1>3, <3>1, <3>2
    <2>2. CASE x \in T
      <3>1. PICK i \in 1..n : t[i] = x
        BY <1>2, <2>2
      <3>2. m + i \in 1..(m + n) /\ ~(m + i <= m) /\ (m + i) - m = i
        BY <1>1
      <3>3. QED BY <1>3, <3>1, <3>2
    <2>3. QED BY <2>1, <2>2
  <1>9. Range(c) = U
    BY <1>3, <1>7, <1>8 DEF Range
  <1>10. Lists(c, U)
    BY <1>3, <1>6, <1>9 DEF Lists
  <1>11. QED BY <1>10 DEF c
-----------------------------------------------------------------------------
(* The walk. *)

Recorded(p) == (\E f \in files : f.walked = p) \/ (\E s \in skipped : s.path = p)
Open(p)     == /\ \A d \in Paths : Under(p, d) => trait[d] # "ignored"
               /\ \A d \in unlisted : ~Below(p, d)

WalkType ==
    /\ entry \in [Paths -> Kinds \cup {Gone}]
    /\ trait \in [Paths -> {"supported", "unsupported", "ignored"}]
    /\ moved \in SUBSET Paths /\ unlisted \in SUBSET Places /\ refused \in SUBSET Paths
    /\ dirs \in Seq(Places) /\ names \in Seq(Paths)
    /\ at \in {"walking", "checking", "resolving", "reading", "done"}
    /\ at \in {"checking", "resolving", "reading"} => names # <<>>
    /\ at = "reading" => target \in Paths
    /\ at = "done" => names = <<>> /\ dirs = <<>>
    /\ \A f \in files : \E p, q \in Paths, n \in Nat :
                         f = [walked |-> p, path |-> q, size |-> n] /\ n <= MaxSize
    /\ \A s \in skipped : \E p \in Paths : s = [path |-> p, reason |-> s.reason]

\* What is below a changed directory counts as changed, and the other directories stand.
StillTreeHolds ==
    /\ \A q \in moved, p \in Paths : Under(p, q) => p \in moved
    /\ \A p \in Paths \ moved : (\E q \in Paths : Under(q, p)) <=> entry[p].type = "directory"

\* The directories to be listed are apart and apart from those that could not be listed, no
\* file waits or is recorded below them or twice, the way to each of them is open, and what
\* could not be looked at is not waiting any more.
Frontier ==
    /\ IsInjective(dirs) /\ IsInjective(names)
    /\ \A d, e \in Range(dirs) : d # e => ~Below(d, e)
    /\ \A n \in Range(names) : ~Recorded(n) /\ \A d \in Range(dirs) : ~Below(n, d)
    /\ \A p \in Paths : Recorded(p) => Open(p) /\ \A d \in Range(dirs) : ~Below(p, d)
    /\ \A n \in Range(names) : Open(n)
    /\ \A d \in Range(dirs) \ {Root} : Open(d) /\ trait[d] # "ignored"
    /\ \A u \in unlisted : u \notin Range(dirs)
    /\ \A u \in unlisted \ {Root}, d \in Range(dirs) : ~Below(u, d)
    /\ \A p \in refused : Recorded(p)

\* What is walked has at most one record, under its own path unless it was touched.
OneRecord ==
    /\ \A f, g \in files : f.walked = g.walked => f = g
    /\ \A s, t \in skipped : s.path = t.path => s = t
    /\ \A f \in files, s \in skipped : f.walked # s.path
    /\ \A f \in files : f.path # f.walked => f.walked \in moved

Settled(p) == IF Owed(p) = "loaded"
                THEN [walked |-> p, path |-> p, size |-> entry[p].size] \in files
                ELSE [path |-> p, reason |-> Owed(p)] \in skipped

\* A path that nobody touched has what it is owed, unless it is still to come or owed
\* nothing; and while it is looked at, it is a file that is resolved to itself.
Ledger ==
    /\ \A p \in Paths \ moved : Owed(p) = "nothing" => ~Recorded(p)
    /\ \A p \in Paths \ moved :
         Open(p) /\ Owed(p) # "nothing" =>
             Settled(p) \/ p \in Range(names) \/ \E d \in Range(dirs) : Below(p, d)
    /\ at \in {"checking", "resolving", "reading"} /\ Head(names) \notin moved =>
         /\ entry[Head(names)].type = "file" /\ trait[Head(names)] = "supported"
         /\ at = "reading" => target = Head(names)

WalkInv == WalkType /\ StillTreeHolds /\ Frontier /\ OneRecord /\ Ledger

LEMMA RangeOfTuples == (\A x : Range(<<x>>) = {x}) /\ Range(<<>>) = {}
  BY DEF Range

LEMMA WalkInvInit == IngestionInit => WalkInv
  <1> SUFFICES ASSUME IngestionInit PROVE WalkInv
    OBVIOUS
  <1>1. WalkType
    BY DEF IngestionInit, WalkType, Places
  <1>2. StillTreeHolds
    BY DEF IngestionInit, StillTreeHolds
  <1>3. Range(dirs) = {Root} /\ Range(names) = {}
    BY RangeOfTuples DEF IngestionInit
  <1>4. \A p \in Paths : ~Recorded(p)
    BY DEF IngestionInit, Recorded
  <1>5. IsInjective(dirs) /\ IsInjective(names)
    BY DEF IngestionInit, IsInjective
  <1>6. Frontier
    BY <1>3, <1>4, <1>5 DEF Frontier, IngestionInit
  <1>7. OneRecord
    BY DEF IngestionInit, OneRecord
  <1>8. Ledger
    BY <1>3, <1>4 DEF Ledger, Below, IngestionInit
  <1>9. QED BY <1>1, <1>2, <1>6, <1>7, <1>8 DEF WalkInv

\* A path that nobody touched is what the walk takes it for.
LEMMA NowStill ==
    ASSUME WalkInv, NEW p \in Paths \ moved
    PROVE  Reachable(entry, p) /\ Now(p) = entry[p]
  <1>1. ASSUME NEW d \in Paths, Under(p, d) PROVE entry[d].type = "directory"
    <2>1. d \notin moved
      BY <1>1 DEF WalkInv, StillTreeHolds
    <2>2. QED BY <1>1, <2>1 DEF WalkInv, StillTreeHolds
  <1>2. QED BY <1>1 DEF Reachable, Now

LEMMA NameFacts ==
    ASSUME WalkInv, names # <<>>
    PROVE  /\ Head(names) \in Paths /\ Head(names) \in Range(names) /\ ~Recorded(Head(names))
           /\ Tail(names) \in Seq(Paths) /\ IsInjective(Tail(names))
           /\ Range(Tail(names)) = Range(names) \ {Head(names)}
  <1>1. names \in Seq(Paths) /\ IsInjective(names)
    BY DEF WalkInv, WalkType, Frontier
  <1>2. names \in Seq(Range(names))
    <2>1. Len(names) \in Nat /\ names \in [1..Len(names) -> Range(names)]
      BY <1>1, LenProperties DEF Range
    <2> DEFINE n == Len(names)
    <2> HIDE DEF n
    <2>2. \E k \in Nat : names \in [1..k -> Range(names)]
      BY <2>1 DEF n
    <2>3. QED BY <2>2, SeqDef, Zenon
  <1>3. Lists(names, Range(names))
    BY <1>1, <1>2 DEF Lists
  <1>4. Head(names) \in Range(names) /\ Lists(Tail(names), Range(names) \ {Head(names)})
    BY <1>3, TailLists
  <1>5. Head(names) \in Paths /\ Tail(names) \in Seq(Paths)
    BY <1>1, HeadTailProperties
  <1>6. ~Recorded(Head(names))
    BY <1>4 DEF WalkInv, Frontier
  <1>7. QED BY <1>4, <1>5, <1>6 DEF Lists

\* What keeps the invariant when the next file leaves the list, with the records it gets:
\* at most one, of its own, and the true one if nobody touched it.
LEMMA FileDone ==
    ASSUME WalkInv, names # <<>>, NEW h, h = Head(names),
           UNCHANGED <<entry, trait, moved, unlisted, dirs>>, names' = Tail(names), at' = "walking",
           NEW F, NEW T, NEW R,
           files' = files \cup F, skipped' = skipped \cup T, refused' = refused \cup R,
           F = {} \/ T = {},
           F = {} \/ \E q \in Paths, n \in Nat : /\ F = {[walked |-> h, path |-> q, size |-> n]}
                                                 /\ n <= MaxSize /\ (q # h => h \in moved),
           T = {} \/ \E x : T = {[path |-> h, reason |-> x]},
           R = {} \/ (R = {h} /\ T # {}),
           h \notin moved => IF Owed(h)' = "nothing" THEN F = {} /\ T = {} ELSE Settled(h)'
    PROVE  WalkInv'
  <1>1. /\ h \in Paths /\ h \in Range(names) /\ ~Recorded(h)
        /\ names' \in Seq(Paths) /\ IsInjective(names') /\ Range(names') = Range(names) \ {h}
    BY NameFacts
  <1>2. \A f \in F : /\ f.walked = h /\ (f.path # f.walked => f.walked \in moved)
                     /\ \E q \in Paths, n \in Nat :
                          f = [walked |-> h, path |-> q, size |-> n] /\ n <= MaxSize
    OBVIOUS
  <1>3. \A s \in T : s.path = h /\ s = [path |-> h, reason |-> s.reason]
    OBVIOUS
  <1>4. (\A f, g \in F : f = g) /\ (\A s, t \in T : s = t)
    OBVIOUS
  <1>5. \A p : (Recorded(p)' => Recorded(p) \/ p = h) /\ (Recorded(p) => Recorded(p)')
    BY <1>2, <1>3 DEF Recorded
  <1>6. \A f \in files : Recorded(f.walked)
    BY DEF Recorded
  <1>7. \A s \in skipped : Recorded(s.path)
    BY DEF Recorded
  <1>8. WalkType'
    <2>1. /\ entry' \in [Paths -> Kinds \cup {Gone}]
          /\ trait' \in [Paths -> {"supported", "unsupported", "ignored"}]
          /\ moved' \in SUBSET Paths /\ unlisted' \in SUBSET Places /\ refused' \in SUBSET Paths
          /\ dirs' \in Seq(Places)
      BY <1>1 DEF WalkInv, WalkType
    <2>2. \A f \in files' : \E p, q \in Paths, n \in Nat :
                              f = [walked |-> p, path |-> q, size |-> n] /\ n <= MaxSize
      BY <1>1, <1>2 DEF WalkInv, WalkType
    <2>3. \A s \in skipped' : \E p \in Paths : s = [path |-> p, reason |-> s.reason]
      BY <1>1, <1>3 DEF WalkInv, WalkType
    <2>4. QED BY <1>1, <2>1, <2>2, <2>3 DEF WalkType
  <1>9. StillTreeHolds'
    BY DEF WalkInv, StillTreeHolds
  <1>10. \A p \in Paths : Open(p)' <=> Open(p)
    BY DEF Open
  <1>11. Frontier'
    <2>1. /\ IsInjective(dirs') /\ IsInjective(names')
          /\ dirs' = dirs /\ trait' = trait /\ unlisted' = unlisted
      BY <1>1 DEF WalkInv, Frontier
    <2>2. \A n \in Range(names') : n \in Range(names) /\ ~Recorded(n)'
      BY <1>1, <1>5 DEF WalkInv, Frontier
    <2>3. \A p \in Paths : Recorded(p)' => Open(p)' /\ \A d \in Range(dirs) : ~Below(p, d)
      BY <1>1, <1>5, <1>10 DEF WalkInv, Frontier
    <2>4. \A n \in Range(names) : n \in Paths
      BY DEF WalkInv, WalkType, Range
    <2>5. \A d \in Range(dirs) \ {Root} : d \in Paths
      BY DEF WalkInv, WalkType, Range, Places
    <2>6. \A p \in refused' : Recorded(p)'
      <3>1. R = {h} => Recorded(h)'
        BY <1>3 DEF Recorded
      <3>2. QED BY <1>5, <3>1 DEF WalkInv, Frontier
    <2>7. QED BY <1>10, <2>1, <2>2, <2>3, <2>4, <2>5, <2>6 DEF WalkInv, Frontier
  <1>12. OneRecord'
    <2>1. \A f \in files : f.walked # h
      BY <1>1, <1>6
    <2>2. \A s \in skipped : s.path # h
      BY <1>1, <1>7
    <2>3. QED BY <1>2, <1>3, <1>4, <2>1, <2>2 DEF WalkInv, OneRecord
  <1>13. \A p \in Paths : p # h => Owed(p)' = Owed(p)
    BY DEF Owed, Verdict
  <1>14. \A p \in Paths : p # h /\ Settled(p) => Settled(p)'
    BY <1>13 DEF Settled
  <1>15. Ledger'
    <2>1. ASSUME NEW p \in Paths \ moved, Owed(p)' = "nothing" PROVE ~Recorded(p)'
      <3>1. CASE p = h
        <4>1. F = {} /\ T = {}
          BY <2>1, <3>1
        <4>2. files' = files /\ skipped' = skipped
          BY <4>1
        <4>3. QED BY <1>1, <3>1, <4>2 DEF Recorded
      <3>2. CASE p # h
        BY <1>5, <1>13, <2>1, <3>2 DEF WalkInv, Ledger
      <3>3. QED BY <3>1, <3>2
    <2>2. ASSUME NEW p \in Paths \ moved, Open(p), Owed(p)' # "nothing"
          PROVE  Settled(p)' \/ p \in Range(names') \/ \E d \in Range(dirs) : Below(p, d)
      <3>1. CASE p = h
        BY <2>2, <3>1
      <3>2. CASE p # h
        BY <1>1, <1>13, <1>14, <2>2, <3>2 DEF WalkInv, Ledger
      <3>3. QED BY <3>1, <3>2
    <2>3. dirs' = dirs /\ moved' = moved /\ at' = "walking"
      OBVIOUS
    <2>4. QED BY <1>10, <2>1, <2>2, <2>3 DEF Ledger
  <1>16. QED BY <1>8, <1>9, <1>11, <1>12, <1>15 DEF WalkInv

\* The usual case: it could be looked at, and it is left out for a reason, or for none.
LEMMA FileSkipped ==
    ASSUME WalkInv, names # <<>>, NEW h, h = Head(names),
           UNCHANGED <<entry, trait, moved, unlisted, refused, dirs>>,
           NEW reason, Skip(h, reason), h \notin moved => Verdict(h) = reason,
           reason # "nothing", reason # "loaded"
    PROVE  WalkInv'
  <1>1. /\ names' = Tail(names) /\ at' = "walking" /\ files' = files \cup {}
        /\ skipped' = skipped \cup {[path |-> h, reason |-> reason]} /\ refused' = refused \cup {}
    BY DEF Skip, Done
  <1>2. h \in Paths /\ h \notin refused
    BY NameFacts DEF WalkInv, Frontier
  <1>3. h \notin moved => Owed(h)' = reason
    BY <1>2 DEF Owed, Verdict
  <1>4. h \notin moved => Owed(h)' # "nothing" /\ Settled(h)'
    BY <1>1, <1>3 DEF Settled
  <1>5. QED BY <1>1, <1>4, FileDone

\* The next file passes a look: nothing is recorded yet.
LEMMA LookPassed ==
    ASSUME WalkInv, names # <<>>,
           UNCHANGED <<entry, trait, moved, unlisted, refused, dirs, names, files, skipped>>,
           at' \in {"checking", "resolving", "reading"}, at' = "reading" => target' \in Paths,
           NEW h, h = Head(names),
           h \notin moved => /\ entry[h].type = "file" /\ trait[h] = "supported"
                             /\ at' = "reading" => target' = h
    PROVE  WalkInv'
  <1>1. WalkType'
    BY DEF WalkInv, WalkType
  <1>2. StillTreeHolds' /\ OneRecord'
    BY DEF WalkInv, StillTreeHolds, OneRecord
  <1>3. \A p : /\ (Recorded(p)' <=> Recorded(p)) /\ (Open(p)' <=> Open(p))
               /\ (Settled(p)' <=> Settled(p)) /\ Owed(p)' = Owed(p)
    BY DEF Recorded, Open, Settled, Owed, Verdict
  <1>4. Frontier'
    BY <1>3 DEF WalkInv, Frontier
  <1>5. Ledger'
    BY <1>3 DEF WalkInv, Ledger
  <1>6. QED BY <1>1, <1>2, <1>4, <1>5 DEF WalkInv

\* The sizes of what can be read are numbers.
LEMMA NowType ==
    ASSUME WalkInv, NEW p \in Paths
    PROVE  Now(p).size \in Nat
  <1>1. entry[p] \in Kinds \cup {Gone}
    BY DEF WalkInv, WalkType
  <1>2. Gone.size = 0
    BY DEF Gone, Entry
  <1>3. QED BY <1>1, <1>2, IngestionAssumption DEF Now

LEMMA CheckFileKeeps == WalkInv /\ CheckFile => WalkInv'
  <1> SUFFICES ASSUME WalkInv, CheckFile PROVE WalkInv'
    OBVIOUS
  <1>1. names # <<>> /\ UNCHANGED <<entry, trait, moved, unlisted, refused, dirs>> /\ at = "walking"
    BY DEF CheckFile
  <1>2. PICK h : h = Head(names)
    OBVIOUS
  <1>3. h \in Paths
    BY <1>1, <1>2, NameFacts
  <1>4. h \notin moved => Now(h) = entry[h]
    BY <1>3, NowStill
  <1> DEFINE type == Now(h).type
  <1>5. \/ type = "link" /\ Skip(h, "symlink")
        \/ type \notin {"link", "file"} /\ Done /\ UNCHANGED <<files, skipped>>
        \/ type = "file" /\ trait[h] = "unsupported" /\ Skip(h, "unsupported_extension")
        \/ type = "file" /\ trait[h] = "ignored" /\ Skip(h, "ignored_file_pattern")
        \/ /\ type = "file" /\ trait[h] \notin {"unsupported", "ignored"}
           /\ at' = "checking" /\ UNCHANGED <<names, target, files, skipped>>
    <2>1. trait[h] \in {"supported", "unsupported", "ignored"}
      BY <1>3 DEF WalkInv, WalkType
    <2>2. QED BY <1>2, <2>1 DEF CheckFile
  <1>6. CASE type = "link" /\ Skip(h, "symlink")
    <2>1. h \notin moved => Verdict(h) = "symlink"
      BY <1>4, <1>6 DEF Verdict
    <2>2. QED BY <1>1, <1>2, <1>6, <2>1, FileSkipped
  <1>7. CASE type \notin {"link", "file"} /\ Done /\ UNCHANGED <<files, skipped>>
    <2>1. h \notin refused
      BY <1>1, <1>2, <1>3, NameFacts DEF WalkInv, Frontier
    <2>2. h \notin moved => Owed(h)' = "nothing"
      BY <1>1, <1>4, <1>7, <2>1 DEF Owed, Verdict
    <2>3. /\ names' = Tail(names) /\ at' = "walking" /\ refused' = refused \cup {}
          /\ files' = files \cup {} /\ skipped' = skipped \cup {}
      BY <1>1, <1>7 DEF Done
    <2>4. QED BY <1>1, <1>2, <2>2, <2>3, FileDone
  <1>8. CASE type = "file" /\ trait[h] = "unsupported" /\ Skip(h, "unsupported_extension")
    <2>1. h \notin moved => Verdict(h) = "unsupported_extension"
      BY <1>4, <1>8 DEF Verdict
    <2>2. QED BY <1>1, <1>2, <1>8, <2>1, FileSkipped
  <1>9. CASE type = "file" /\ trait[h] = "ignored" /\ Skip(h, "ignored_file_pattern")
    <2>1. h \notin moved => Verdict(h) = "ignored_file_pattern"
      BY <1>4, <1>9 DEF Verdict
    <2>2. QED BY <1>1, <1>2, <1>9, <2>1, FileSkipped
  <1>10. CASE /\ type = "file" /\ trait[h] \notin {"unsupported", "ignored"}
              /\ at' = "checking" /\ UNCHANGED <<names, target, files, skipped>>
    <2>1. h \notin moved => entry[h].type = "file"
      BY <1>4, <1>10
    <2>2. trait[h] = "supported"
      BY <1>3, <1>10 DEF WalkInv, WalkType
    <2>3. QED BY <1>1, <1>2, <1>10, <2>1, <2>2, LookPassed
  <1>11. QED BY <1>5, <1>6, <1>7, <1>8, <1>9, <1>10

\* Between two looks an untouched file is still the supported file it was.
LEMMA LookedAt ==
    ASSUME WalkInv, at \in {"checking", "resolving", "reading"}
    PROVE  /\ names # <<>> /\ Head(names) \in Paths
           /\ Head(names) \notin moved =>
                /\ Now(Head(names)) = entry[Head(names)] /\ trait[Head(names)] = "supported"
                /\ entry[Head(names)].type = "file"
                /\ at = "reading" => target = Head(names)
  <1>1. names # <<>>
    BY DEF WalkInv, WalkType
  <1>2. Head(names) \in Paths
    BY <1>1, NameFacts
  <1>3. Head(names) \notin moved => Now(Head(names)) = entry[Head(names)]
    BY <1>2, NowStill
  <1>4. QED BY <1>1, <1>2, <1>3 DEF WalkInv, Ledger

LEMMA CheckLinksKeeps == WalkInv /\ CheckLinks => WalkInv'
  <1> SUFFICES ASSUME WalkInv, CheckLinks PROVE WalkInv'
    OBVIOUS
  <1>1. UNCHANGED <<entry, trait, moved, unlisted, refused, dirs>> /\ at = "checking"
    BY DEF CheckLinks
  <1>2. PICK h : h = Head(names)
    OBVIOUS
  <1>3. /\ names # <<>>
        /\ h \notin moved => Now(h) = entry[h] /\ entry[h].type = "file" /\ trait[h] = "supported"
    BY <1>1, <1>2, LookedAt
  <1>4. CASE Now(h).type = "link"
    <2>1. Skip(h, "symlink") /\ h \in moved
      BY <1>2, <1>3, <1>4 DEF CheckLinks
    <2>2. QED BY <1>1, <1>2, <1>3, <2>1, FileSkipped
  <1>5. CASE Now(h).type # "link"
    <2>1. at' = "resolving" /\ UNCHANGED <<names, files, skipped>>
      BY <1>2, <1>5 DEF CheckLinks
    <2>2. QED BY <1>1, <1>2, <1>3, <2>1, LookPassed
  <1>6. QED BY <1>4, <1>5

LEMMA LookFailsKeeps == WalkInv /\ LookFails => WalkInv'
  <1> SUFFICES ASSUME WalkInv, LookFails PROVE WalkInv'
    OBVIOUS
  <1>1. UNCHANGED <<entry, trait, moved, unlisted, dirs>> /\ names # <<>>
    BY DEF LookFails
  <1>2. PICK h : h = Head(names)
    OBVIOUS
  <1>3. /\ names' = Tail(names) /\ at' = "walking" /\ files' = files \cup {}
        /\ skipped' = skipped \cup {[path |-> h, reason |-> "symlink"]}
        /\ refused' = refused \cup {h}
    BY <1>2 DEF LookFails, Skip, Done
  <1>4. Owed(h)' = "symlink"
    BY <1>3 DEF Owed
  <1>5. Owed(h)' # "nothing" /\ Settled(h)'
    BY <1>3, <1>4 DEF Settled
  <1> DEFINE T == {[path |-> h, reason |-> "symlink"]}
  <1>6. T # {} /\ \E x : T = {[path |-> h, reason |-> x]}
    OBVIOUS
  <1>7. skipped' = skipped \cup T
    BY <1>3
  <1> HIDE DEF T
  <1>8. h \notin moved => IF Owed(h)' = "nothing" THEN {} = {} /\ T = {} ELSE Settled(h)'
    BY <1>5
  <1>9. QED BY <1>1, <1>2, <1>3, <1>6, <1>7, <1>8, FileDone

LEMMA ResolveFileKeeps == WalkInv /\ ResolveFile => WalkInv'
  <1> SUFFICES ASSUME WalkInv, ResolveFile PROVE WalkInv'
    OBVIOUS
  <1>1. UNCHANGED <<entry, trait, moved, unlisted, refused, dirs>> /\ at = "resolving"
    BY DEF ResolveFile
  <1>2. PICK h : h = Head(names)
    OBVIOUS
  <1>3. /\ names # <<>> /\ h \in Paths
        /\ h \notin moved => Now(h) = entry[h] /\ entry[h].type = "file" /\ trait[h] = "supported"
    BY <1>1, <1>2, LookedAt
  <1>4. ASSUME NEW q \in Paths, Resolved(q), h \notin moved => q = h PROVE WalkInv'
    <2>1. CASE trait[q] = "unsupported" /\ Skip(h, "unsupported_extension")
      BY <1>1, <1>2, <1>3, <1>4, <2>1, FileSkipped
    <2>2. CASE trait[q] = "ignored" /\ Skip(h, "ingestion_error")
      BY <1>1, <1>2, <1>3, <1>4, <2>2, FileSkipped
    <2>3. CASE at' = "reading" /\ target' = q /\ UNCHANGED <<names, files, skipped>>
      BY <1>1, <1>2, <1>3, <1>4, <2>3, LookPassed
    <2>4. QED BY <1>2, <1>4, <2>1, <2>2, <2>3 DEF Resolved
  <1>5. CASE Now(h).type # "link" /\ Resolved(h)
    BY <1>3, <1>4, <1>5
  <1>6. ASSUME Now(h).type = "link", NEW q \in Paths, Resolved(q) PROVE WalkInv'
    BY <1>3, <1>4, <1>6
  <1>7. CASE Now(h).type = "link" /\ Skip(h, "path_outside_repository")
    BY <1>1, <1>2, <1>3, <1>7, FileSkipped
  <1>8. QED BY <1>2, <1>5, <1>6, <1>7 DEF ResolveFile

LEMMA ReadSourceKeeps == WalkInv /\ ReadSource => WalkInv'
  <1> SUFFICES ASSUME WalkInv, ReadSource PROVE WalkInv'
    OBVIOUS
  <1>1. UNCHANGED <<entry, trait, moved, unlisted, refused, dirs>> /\ at = "reading"
    BY DEF ReadSource
  <1>2. PICK h : h = Head(names)
    OBVIOUS
  <1>3. /\ names # <<>> /\ h \in Paths
        /\ h \notin moved =>
             /\ Now(h) = entry[h] /\ entry[h].type = "file" /\ trait[h] = "supported"
             /\ target = h
    BY <1>1, <1>2, LookedAt
  <1>4. target \in Paths /\ Now(target).size \in Nat
    BY <1>1, NowType DEF WalkInv, WalkType
  <1> DEFINE e == Now(target)
  <1>5. \/ ReadResult(e) = "loaded" /\ Load(h)
        \/ ReadResult(e) # "loaded" /\ Skip(h, ReadResult(e))
    BY <1>2 DEF ReadSource
  <1>6. h \notin moved => Verdict(h) = ReadResult(e)
    BY <1>3 DEF Verdict, ReadResult
  <1>7. CASE ReadResult(e) # "loaded" /\ Skip(h, ReadResult(e))
    <2>1. ReadResult(e) # "nothing"
      BY DEF ReadResult
    <2>2. QED BY <1>1, <1>2, <1>3, <1>6, <1>7, <2>1, FileSkipped
  <1>8. CASE ReadResult(e) = "loaded" /\ Load(h)
    <2>1. PICK n : n = e.size
      OBVIOUS
    <2>2. n \in Nat /\ n <= MaxSize
      <3>1. ~(e.size > MaxSize)
        BY <1>8 DEF ReadResult
      <3>2. QED BY <1>4, <2>1, <3>1, IngestionAssumption
    <2>3. /\ files' = files \cup {[walked |-> h, path |-> target, size |-> n]}
          /\ skipped' = skipped \cup {} /\ refused' = refused \cup {}
          /\ names' = Tail(names) /\ at' = "walking"
      BY <1>1, <1>8, <2>1 DEF Load, Done
    <2>4. target # h => h \in moved
      BY <1>3
    <2>5. h \notin moved => Owed(h)' # "nothing" /\ Settled(h)'
      <3>1. h \notin refused
        BY <1>2, <1>3, NameFacts DEF WalkInv, Frontier
      <3>2. h \notin moved => Owed(h)' = "loaded"
        BY <1>1, <1>6, <1>8, <3>1 DEF Owed, Verdict
      <3>3. h \notin moved => n = entry[h].size /\ target = h /\ entry' = entry
        BY <1>1, <1>3, <2>1
      <3>4. QED BY <2>3, <3>2, <3>3 DEF Settled
    <2>6. QED BY <1>1, <1>2, <1>3, <1>4, <2>2, <2>3, <2>4, <2>5, FileDone
  <1>9. QED BY <1>5, <1>7, <1>8

LEMMA TreeChangesKeeps ==
    ASSUME WalkInv, NEW q \in Paths, TreeChanges(q)
    PROVE  WalkInv'
  <1>1. /\ UNCHANGED <<trait, walkVars>> /\ at # "done"
        /\ moved' = moved \cup {q} \cup {p \in Paths : Under(p, q)}
    BY DEF TreeChanges
  <1>2. PICK k \in Kinds \cup {Gone} : entry' = [entry EXCEPT ![q] = k]
    BY DEF TreeChanges
  <1>3. entry \in [Paths -> Kinds \cup {Gone}]
    BY DEF WalkInv, WalkType
  <1>4. \A p \in Paths \ moved' : p \in Paths \ moved /\ entry'[p] = entry[p]
    BY <1>1, <1>2, <1>3
  <1>5. WalkType'
    BY <1>1, <1>2, <1>3 DEF WalkInv, WalkType, walkVars
  <1>6. StillTreeHolds'
    <2>1. ASSUME NEW d \in moved', NEW p \in Paths, Under(p, d) PROVE p \in moved'
      <3>1. CASE d \in moved
        BY <1>1, <2>1, <3>1 DEF WalkInv, StillTreeHolds
      <3>2. CASE d = q
        BY <1>1, <2>1, <3>2
      <3>3. CASE d \in Paths /\ Under(d, q)
        BY <1>1, <2>1, <3>3, UnderTrans
      <3>4. QED BY <1>1, <3>1, <3>2, <3>3
    <2>2. \A p \in Paths \ moved' : (\E d \in Paths : Under(d, p)) <=> entry'[p].type = "directory"
      BY <1>4 DEF WalkInv, StillTreeHolds
    <2>3. QED BY <2>1, <2>2 DEF StillTreeHolds
  <1>7. \A p : (Recorded(p)' <=> Recorded(p)) /\ (Open(p)' <=> Open(p))
    BY <1>1 DEF Recorded, Open, walkVars
  <1>8. Frontier'
    BY <1>1, <1>7 DEF WalkInv, Frontier, walkVars
  <1>9. OneRecord'
    BY <1>1 DEF WalkInv, OneRecord, walkVars
  <1>10. \A p \in Paths \ moved' : Owed(p)' = Owed(p)
    BY <1>1, <1>4 DEF Owed, Verdict, walkVars
  <1>11. \A p \in Paths \ moved' : Settled(p) => Settled(p)'
    BY <1>1, <1>4, <1>10 DEF Settled, walkVars
  <1>12. Ledger'
    <2>1. at' = at /\ names' = names /\ dirs' = dirs /\ trait' = trait /\ target' = target
      BY <1>1 DEF walkVars
    <2>2. at \in {"checking", "resolving", "reading"} /\ Head(names) \notin moved' =>
            /\ entry'[Head(names)].type = "file" /\ trait[Head(names)] = "supported"
            /\ at = "reading" => target = Head(names)
      BY <1>4, LookedAt
    <2>3. \A p \in Paths \ moved' : Owed(p)' = "nothing" => ~Recorded(p)'
      BY <1>4, <1>7, <1>10 DEF WalkInv, Ledger
    <2>4. \A p \in Paths \ moved' :
            Open(p)' /\ Owed(p)' # "nothing" =>
                Settled(p)' \/ p \in Range(names) \/ \E d \in Range(dirs) : Below(p, d)
      BY <1>4, <1>7, <1>10, <1>11 DEF WalkInv, Ledger
    <2>5. QED BY <2>1, <2>2, <2>3, <2>4 DEF Ledger
  <1>13. QED BY <1>5, <1>6, <1>8, <1>9, <1>12 DEF WalkInv

LEMMA EndWalkKeeps == WalkInv /\ EndWalk => WalkInv'
  <1> SUFFICES ASSUME WalkInv, EndWalk PROVE WalkInv'
    OBVIOUS
  <1>1. UNCHANGED <<entry, trait, moved, unlisted, refused, dirs, names, files, skipped>> /\ at' = "done"
        /\ names = <<>> /\ dirs = <<>>
    BY DEF EndWalk
  <1>2. WalkType'
    BY <1>1 DEF WalkInv, WalkType
  <1>3. \A p : /\ (Recorded(p)' <=> Recorded(p)) /\ (Open(p)' <=> Open(p))
               /\ (Settled(p)' <=> Settled(p)) /\ Owed(p)' = Owed(p)
    BY <1>1 DEF Recorded, Open, Settled, Owed, Verdict
  <1>4. StillTreeHolds' /\ OneRecord'
    BY <1>1 DEF WalkInv, StillTreeHolds, OneRecord
  <1>5. Frontier'
    BY <1>1, <1>3 DEF WalkInv, Frontier
  <1>6. Ledger'
    BY <1>1, <1>3 DEF WalkInv, Ledger
  <1>7. QED BY <1>2, <1>4, <1>5, <1>6 DEF WalkInv

LEMMA ListDirectoryKeeps == WalkInv /\ ListDirectory => WalkInv'
  <1> SUFFICES ASSUME WalkInv, ListDirectory PROVE WalkInv'
    OBVIOUS
  <1>1. /\ UNCHANGED <<entry, trait, moved, unlisted, refused, at, files, skipped>> /\ at = "walking"
        /\ names = <<>> /\ dirs # <<>> /\ dirs \in Seq(Places)
    BY DEF ListDirectory, WalkInv, WalkType
  <1>2. PICK h : h = Head(dirs)
    OBVIOUS
  <1>3. PICK D : D = Range(dirs)
    OBVIOUS
  <1>4. PICK B \in SUBSET Paths :
            B = {p \in Present(h) : entry[p].type = "directory" /\ trait[p] # "ignored"}
    BY DEF Present
  <1>5. PICK N \in SUBSET Paths : N = {p \in Present(h) : entry[p].type # "directory"}
    BY DEF Present
  <1>6. names' = Sorted(N) /\ dirs' = Sorted(B) \o Tail(dirs)
    BY <1>2, <1>4, <1>5 DEF ListDirectory
  <1>7. \A x \in B \cup N : x \in Paths /\ DirOf(x) = h
    BY <1>4, <1>5 DEF Present
  <1>8. D \subseteq Places /\ Lists(dirs, D)
    <2>1. Len(dirs) \in Nat /\ dirs \in [1..Len(dirs) -> Places]
      BY <1>1, LenProperties
    <2>2. D \subseteq Places /\ dirs \in [1..Len(dirs) -> D]
      BY <1>3, <2>1 DEF Range
    <2>3. \E k \in Nat : dirs \in [1..k -> D]
      BY <2>1, <2>2, Zenon
    <2>4. dirs \in Seq(D)
      BY <2>3, SeqDef, Zenon
    <2>5. QED BY <1>3, <2>2, <2>4 DEF Lists, WalkInv, Frontier
  <1>9. h \in D /\ Lists(Tail(dirs), D \ {h})
    BY <1>1, <1>2, <1>8, TailLists
  <1>10. /\ \A d, e \in D : d # e => ~Below(d, e)
         /\ \A p \in Paths : Recorded(p) => Open(p) /\ \A d \in D : ~Below(p, d)
         /\ \A d \in D \ {Root} : Open(d) /\ trait[d] # "ignored"
         /\ \A u \in unlisted : u \notin D
         /\ \A u \in unlisted \ {Root}, d \in D : ~Below(u, d)
    BY <1>3 DEF WalkInv, Frontier
  <1>11. \A x \in B \cup N : Below(x, h)
    <2> SUFFICES ASSUME NEW x \in B \cup N PROVE Below(x, h)
      OBVIOUS
    <2>1. x \in Paths /\ DirOf(x) = h /\ (h = Root \/ h \in Paths)
      BY <1>7, <1>8, <1>9 DEF Places
    <2>2. QED BY <2>1, UnderOwn DEF Below
  <1>12. ASSUME NEW x \in B \cup N, NEW e \in D \ {h}
         PROVE  ~Below(x, e) /\ ~Below(e, x) /\ x # e
    <2>1. x \in Paths /\ x # Root /\ DirOf(x) = h
      BY <1>7, PathFacts
    <2>2. e \in Paths /\ e # Root
      BY <1>8, <1>9, <1>10 DEF Below, Places
    <2>3. ~Below(x, e)
      <3> SUFFICES ASSUME Under(x, e) PROVE FALSE
        BY <2>2 DEF Below
      <3>1. h = e \/ Under(h, e)
        BY <2>1, <2>2, UnderCases
      <3>2. QED BY <1>9, <1>10, <3>1 DEF Below
    <2>4. ~Below(e, x)
      <3> SUFFICES ASSUME Under(e, x) PROVE FALSE
        BY <2>1 DEF Below
      <3>1. h = Root \/ h \in Paths
        BY <1>8, <1>9 DEF Places
      <3>2. h \in Paths => Under(e, h)
        BY <2>1, <2>2, UnderOwn, UnderTrans
      <3>3. Below(e, h)
        BY <3>1, <3>2 DEF Below
      <3>4. QED BY <1>9, <1>10, <3>3
    <2>5. x # e
      BY <1>9, <1>10, <1>11
    <2>6. QED BY <2>3, <2>4, <2>5
  <1>13. /\ names' \in Seq(Paths) /\ IsInjective(names') /\ Range(names') = N
         /\ dirs' \in Seq(Places) /\ IsInjective(dirs') /\ Range(dirs') = B \cup (D \ {h})
    <2>1. Lists(names', N)
      BY <1>6, SortedLists
    <2>2. Lists(Sorted(B), B)
      BY SortedLists
    <2>3. B \cap (D \ {h}) = {}
      BY <1>12
    <2>4. Lists(dirs', B \cup (D \ {h}))
      BY <1>6, <1>9, <2>2, <2>3, ConcatLists
    <2>5. names' \in Seq(N) /\ dirs' \in Seq(B \cup (D \ {h}))
      BY <2>1, <2>4 DEF Lists
    <2>6. N \subseteq Paths /\ B \cup (D \ {h}) \subseteq Places
      BY <1>8 DEF Places
    <2>7. names' \in Seq(Paths) /\ dirs' \in Seq(Places)
      BY <2>5, <2>6, SeqMonotonic
    <2>8. QED BY <2>1, <2>4, <2>7 DEF Lists
  <1>14. WalkType'
    BY <1>1, <1>13 DEF WalkInv, WalkType
  <1>15. StillTreeHolds' /\ OneRecord'
    BY <1>1 DEF WalkInv, StillTreeHolds, OneRecord
  <1>16. \A p : /\ (Recorded(p)' <=> Recorded(p)) /\ (Open(p)' <=> Open(p))
                /\ (Settled(p)' <=> Settled(p)) /\ Owed(p)' = Owed(p)
    BY <1>1 DEF Recorded, Open, Settled, Owed, Verdict
  <1>17. \A x \in B \cup N : Open(x)
    <2>1. ASSUME NEW x \in B \cup N, NEW d \in Paths, Under(x, d)
          PROVE  d = h \/ (h \in Paths \ {Root} /\ Under(h, d))
      BY <1>7, <2>1, UnderCases, PathFacts
    <2>2. ASSUME NEW x \in B \cup N, NEW d \in Paths, Under(x, d) PROVE trait[d] # "ignored"
      <3>1. h # Root
        BY <2>1, <2>2, PathFacts
      <3>2. QED BY <1>9, <1>10, <2>1, <2>2, <3>1 DEF Open
    <2>3. ASSUME NEW x \in B \cup N, NEW d \in unlisted, Below(x, d) PROVE FALSE
      <3>1. d # h /\ d \in Places
        BY <1>9, <1>10 DEF WalkInv, WalkType
      <3>2. CASE d = Root
        <4>1. h # Root /\ Below(h, d)
          BY <3>1, <3>2 DEF Below
        <4>2. QED BY <1>9, <1>10, <4>1 DEF Open
      <3>3. CASE d # Root
        <4>1. h # Root /\ Below(h, d)
          BY <2>1, <2>3, <3>1, <3>3 DEF Below, Places
        <4>2. QED BY <1>9, <1>10, <4>1 DEF Open
      <3>4. QED BY <3>2, <3>3
    <2>4. QED BY <2>2, <2>3 DEF Open
  <1>18. \A p \in Paths, b \in B : Below(p, b) => Below(p, h)
    <2> SUFFICES ASSUME NEW p \in Paths, NEW b \in B, Under(p, b), h # Root PROVE Under(p, h)
      BY PathFacts DEF Below
    <2>1. h \in Paths /\ Under(b, h)
      BY <1>8, <1>9, <1>11 DEF Below, Places
    <2>2. QED BY <2>1, UnderTrans
  <1>19. /\ \A u \in unlisted : u \notin B \cup (D \ {h})
         /\ \A u \in unlisted \ {Root}, d \in B \cup (D \ {h}) : ~Below(u, d)
    <2>1. ASSUME NEW u \in unlisted \ {Root}, NEW b \in B, Below(u, b) PROVE FALSE
      <3>1. u \in Paths
        BY DEF WalkInv, WalkType, Places
      <3>2. Below(u, h)
        BY <1>18, <2>1, <3>1
      <3>3. QED BY <1>9, <1>10, <3>2
    <2>2. \A u \in unlisted : u \notin B
      BY <1>4, <1>9, <1>10, <1>11, PathFacts
    <2>3. QED BY <1>10, <2>1, <2>2
  <1>20. Frontier'
    <2>1. \A d, e \in Range(dirs') : d # e => ~Below(d, e)
      <3>1. \A d, e \in B \cup (D \ {h}) : d # e => ~Below(d, e)
        BY <1>7, <1>10, <1>12, Siblings
      <3>2. QED BY <1>13, <3>1
    <2>2. \A n \in Range(names') : ~Recorded(n)' /\ \A d \in Range(dirs') : ~Below(n, d)
      <3>1. \A n \in N : ~Recorded(n)
        BY <1>9, <1>10, <1>11
      <3>2. \A n \in N, d \in B \cup (D \ {h}) : ~Below(n, d)
        BY <1>7, <1>12, Siblings
      <3>3. QED BY <1>13, <1>16, <3>1, <3>2
    <2>3. \A p \in Paths : Recorded(p)' => Open(p)' /\ \A d \in Range(dirs') : ~Below(p, d)
      <3>1. \A p \in Paths : Recorded(p) => Open(p) /\ \A d \in B \cup (D \ {h}) : ~Below(p, d)
        BY <1>9, <1>10, <1>18
      <3>2. QED BY <1>13, <1>16, <3>1
    <2>4. \A n \in Range(names') : Open(n)'
      BY <1>13, <1>16, <1>17
    <2>5. \A d \in Range(dirs') \ {Root} : Open(d)' /\ trait'[d] # "ignored"
      <3>1. \A d \in (B \cup (D \ {h})) \ {Root} : Open(d) /\ trait[d] # "ignored"
        BY <1>4, <1>10, <1>17
      <3>2. QED BY <1>1, <1>13, <1>16, <3>1
    <2>6. /\ \A u \in unlisted' : u \notin Range(dirs')
          /\ \A u \in unlisted' \ {Root}, d \in Range(dirs') : ~Below(u, d)
      <3>1. unlisted' = unlisted /\ Range(dirs') = B \cup (D \ {h})
        BY <1>1, <1>13
      <3>2. QED BY <1>19, <3>1
    <2>7. \A p \in refused' : Recorded(p)'
      BY <1>1, <1>16 DEF WalkInv, Frontier
    <2>8. IsInjective(dirs') /\ IsInjective(names')
      BY <1>13
    <2>9. QED BY <2>1, <2>2, <2>3, <2>4, <2>5, <2>6, <2>7, <2>8 DEF Frontier
  <1>21. ASSUME NEW p \in Paths \ moved, Open(p), Owed(p) # "nothing", ~Settled(p)
         PROVE  p \in N \/ \E d \in B \cup (D \ {h}) : Below(p, d)
    <2>1. PICK d \in D : Below(p, d)
      BY <1>1, <1>3, <1>21, RangeOfTuples DEF WalkInv, Ledger
    <2>2. CASE d # h
      BY <2>1, <2>2
    <2>3. CASE d = h /\ DirOf(p) = h
      <3>1. Reachable(entry, p)
        BY NowStill
      <3>2. entry[p].type \in {"link", "file"}
        <4>1. p \notin refused
          BY <1>10, <2>1 DEF WalkInv, Frontier
        <4>2. QED BY <1>21, <4>1 DEF Owed, Verdict
      <3>3. QED BY <1>5, <2>3, <3>1, <3>2 DEF Present
    <2>4. CASE d = h /\ DirOf(p) # h
      <3>1. PICK c \in Paths : Under(p, c) /\ DirOf(c) = h
        BY <1>8, <2>1, <2>4, UnderThrough
      <3>2. c \notin moved /\ entry[c].type = "directory"
        BY <3>1 DEF WalkInv, StillTreeHolds
      <3>3. Reachable(entry, c)
        BY <3>2, NowStill
      <3>4. trait[c] # "ignored"
        BY <1>21, <3>1 DEF Open
      <3>5. c \in B
        BY <1>4, <3>1, <3>2, <3>3, <3>4 DEF Present
      <3>6. QED BY <3>1, <3>5 DEF Below
    <2>5. QED BY <2>2, <2>3, <2>4
  <1>22. Ledger'
    <2>1. \A p \in Paths \ moved : Owed(p) = "nothing" => ~Recorded(p)
      BY DEF WalkInv, Ledger
    <2>2. moved' = moved /\ at' = "walking"
      BY <1>1
    <2>3. QED BY <1>13, <1>16, <1>21, <2>1, <2>2 DEF Ledger
  <1>23. QED BY <1>14, <1>15, <1>20, <1>22 DEF WalkInv

LEMMA ListingFailsKeeps == WalkInv /\ ListingFails => WalkInv'
  <1> SUFFICES ASSUME WalkInv, ListingFails PROVE WalkInv'
    OBVIOUS
  <1>1. /\ UNCHANGED <<entry, trait, moved, refused, names, at, files, skipped>> /\ at = "walking"
        /\ names = <<>> /\ dirs # <<>> /\ dirs \in Seq(Places) /\ dirs' = Tail(dirs)
    BY DEF ListingFails, WalkInv, WalkType
  <1>2. PICK h : h = Head(dirs)
    OBVIOUS
  <1>3. PICK D : D = Range(dirs)
    OBVIOUS
  <1>4. D \subseteq Places /\ Lists(dirs, D)
    <2>1. Len(dirs) \in Nat /\ dirs \in [1..Len(dirs) -> Places]
      BY <1>1, LenProperties
    <2>2. D \subseteq Places /\ dirs \in [1..Len(dirs) -> D]
      BY <1>3, <2>1 DEF Range
    <2>3. \E k \in Nat : dirs \in [1..k -> D]
      BY <2>1, <2>2, Zenon
    <2>4. dirs \in Seq(D)
      BY <2>3, SeqDef, Zenon
    <2>5. QED BY <1>3, <2>2, <2>4 DEF Lists, WalkInv, Frontier
  <1>5. h \in D /\ h \in Places /\ Lists(Tail(dirs), D \ {h})
    BY <1>1, <1>2, <1>4, TailLists
  <1>6. /\ dirs' \in Seq(Places) /\ IsInjective(dirs') /\ Range(dirs') = D \ {h}
        /\ Range(names) = {} /\ unlisted' = unlisted \cup {h}
    <2>1. dirs' \in Seq(D \ {h}) /\ D \ {h} \subseteq Places
      BY <1>1, <1>4, <1>5 DEF Lists
    <2>2. dirs' \in Seq(Places)
      BY <2>1, SeqMonotonic
    <2>3. QED BY <1>1, <1>2, <1>5, <2>2, RangeOfTuples DEF Lists, ListingFails
  <1>7. /\ \A d, e \in D : d # e => ~Below(d, e)
        /\ \A p \in Paths : Recorded(p) => Open(p) /\ \A d \in D : ~Below(p, d)
        /\ \A d \in D \ {Root} : Open(d) /\ trait[d] # "ignored"
        /\ \A u \in unlisted : u \notin D
        /\ \A u \in unlisted \ {Root}, d \in D : ~Below(u, d)
        /\ \A p \in refused : Recorded(p)
    BY <1>3 DEF WalkInv, Frontier
  <1>8. WalkType'
    BY <1>1, <1>5, <1>6 DEF WalkInv, WalkType
  <1>9. StillTreeHolds' /\ OneRecord'
    BY <1>1 DEF WalkInv, StillTreeHolds, OneRecord
  <1>10. \A p : /\ (Recorded(p)' <=> Recorded(p)) /\ (Settled(p)' <=> Settled(p)) /\ Owed(p)' = Owed(p)
                /\ Open(p)' <=> Open(p) /\ ~Below(p, h)
    BY <1>1, <1>6 DEF Recorded, Open, Settled, Owed, Verdict
  <1>11. Frontier'
    <2>1. \A d, e \in D \ {h} : d # e => ~Below(d, e)
      BY <1>7
    <2>2. \A p \in Paths : Recorded(p)' => Open(p)' /\ \A d \in D \ {h} : ~Below(p, d)
      BY <1>5, <1>7, <1>10
    <2>3. \A d \in (D \ {h}) \ {Root} : Open(d)' /\ trait[d] # "ignored"
      BY <1>5, <1>7, <1>10
    <2>4. \A u \in unlisted' : u \notin D \ {h}
      BY <1>6, <1>7
    <2>5. \A u \in unlisted' \ {Root}, d \in D \ {h} : ~Below(u, d)
      BY <1>5, <1>6, <1>7
    <2>6. \A p \in refused' : Recorded(p)'
      BY <1>1, <1>7, <1>10
    <2>7. IsInjective(names') /\ Range(names') = {} /\ trait' = trait
      BY <1>1, <1>6 DEF WalkInv, Frontier
    <2>8. QED BY <1>6, <2>1, <2>2, <2>3, <2>4, <2>5, <2>6, <2>7 DEF Frontier
  <1>12. Ledger'
    <2>1. \A p \in Paths \ moved : Owed(p)' = "nothing" => ~Recorded(p)'
      BY <1>10 DEF WalkInv, Ledger
    <2>2. ASSUME NEW p \in Paths \ moved, Open(p)', Owed(p)' # "nothing"
          PROVE  Settled(p)' \/ \E d \in D \ {h} : Below(p, d)
      <3>1. Settled(p) \/ \E d \in D : Below(p, d)
        BY <1>3, <1>6, <1>10, <2>2 DEF WalkInv, Ledger
      <3>2. QED BY <1>10, <2>2, <3>1
    <2>3. moved' = moved /\ at' = "walking"
      BY <1>1
    <2>4. QED BY <1>6, <2>1, <2>2, <2>3 DEF Ledger
  <1>13. QED BY <1>8, <1>9, <1>11, <1>12 DEF WalkInv

LEMMA WalkInvStep == WalkInv /\ [IngestionNext]_ingestionVars => WalkInv'
  <1> SUFFICES ASSUME WalkInv, [IngestionNext]_ingestionVars PROVE WalkInv'
    OBVIOUS
  <1>1. CASE UNCHANGED ingestionVars
    <2> USE <1>1 DEF ingestionVars, walkVars
    <2>1. WalkType' /\ StillTreeHolds' /\ OneRecord'
      BY DEF WalkInv, WalkType, StillTreeHolds, OneRecord
    <2>2. Frontier'
      BY DEF WalkInv, Frontier, Recorded, Open
    <2>3. Ledger'
      BY DEF WalkInv, Ledger, Recorded, Open, Settled, Owed, Verdict
    <2>4. QED BY <2>1, <2>2, <2>3 DEF WalkInv
  <1>2. CASE ListDirectory
    BY <1>2, ListDirectoryKeeps
  <1>3. CASE CheckFile
    BY <1>3, CheckFileKeeps
  <1>4. CASE CheckLinks
    BY <1>4, CheckLinksKeeps
  <1>5. CASE LookFails
    BY <1>5, LookFailsKeeps
  <1>6. CASE ResolveFile
    BY <1>6, ResolveFileKeeps
  <1>7. CASE ReadSource
    BY <1>7, ReadSourceKeeps
  <1>8. CASE EndWalk
    BY <1>8, EndWalkKeeps
  <1>9. CASE ListingFails
    BY <1>9, ListingFailsKeeps
  <1>10. ASSUME NEW p \in Paths, TreeChanges(p) PROVE WalkInv'
    BY <1>10, TreeChangesKeeps
  <1>11. QED BY <1>1, <1>2, <1>3, <1>4, <1>5, <1>6, <1>7, <1>8, <1>9, <1>10 DEF IngestionNext

\* At the end nothing is to come, so the ledger is the snapshot.
LEMMA WalkInvEnds == WalkInv => SnapshotFaithful
  <1> SUFFICES ASSUME WalkInv, at = "done" PROVE SnapshotFaithful
    BY DEF SnapshotFaithful
  <1>1. Range(names) = {} /\ Range(dirs) = {}
    BY RangeOfTuples DEF WalkInv, WalkType
  <1>2. \A f \in files : f.size <= MaxSize /\ (f.path # f.walked => f.walked \in moved)
    BY DEF WalkInv, WalkType, OneRecord
  <1>3. ASSUME NEW p \in Paths \ moved
        PROVE  LET loaded  == {f \in files : f.walked = p}
                   reasons == {s.reason : s \in {t \in skipped : t.path = p}}
               IN IF ~Visited(p) \/ Owed(p) = "nothing" THEN loaded = {} /\ reasons = {}
                  ELSE IF Owed(p) = "loaded"
                    THEN loaded = {[walked |-> p, path |-> p, size |-> entry[p].size]} /\ reasons = {}
                    ELSE loaded = {} /\ reasons = {Owed(p)}
    <2> DEFINE loaded  == {f \in files : f.walked = p}
               reports == {t \in skipped : t.path = p}
               reasons == {s.reason : s \in reports}
    <2>1. Visited(p) <=> Open(p)
      BY NowStill DEF Visited, Open
    <2>2. CASE ~Visited(p) \/ Owed(p) = "nothing"
      <3>1. ~Recorded(p)
        BY <2>1, <2>2 DEF WalkInv, Frontier, Ledger
      <3>2. loaded = {} /\ reports = {}
        BY <3>1 DEF Recorded
      <3>3. QED BY <2>2, <3>2
    <2>3. CASE Visited(p) /\ Owed(p) # "nothing"
      <3>1. Settled(p)
        BY <1>1, <2>1, <2>3 DEF WalkInv, Ledger
      <3>2. CASE Owed(p) = "loaded"
        <4>1. [walked |-> p, path |-> p, size |-> entry[p].size] \in files
          BY <3>1, <3>2 DEF Settled
        <4>2. loaded = {[walked |-> p, path |-> p, size |-> entry[p].size]} /\ reports = {}
          BY <4>1 DEF WalkInv, OneRecord
        <4>3. QED BY <2>3, <3>2, <4>2
      <3>3. CASE Owed(p) # "loaded"
        <4> DEFINE report == [path |-> p, reason |-> Owed(p)]
        <4>1. report \in skipped /\ report.path = p /\ report.reason = Owed(p)
          BY <3>1, <3>3 DEF Settled
        <4> HIDE DEF report
        <4>2. loaded = {} /\ reports = {report}
          BY <4>1 DEF WalkInv, OneRecord
        <4>3. reasons = {Owed(p)}
          BY <4>1, <4>2
        <4>4. QED BY <2>3, <3>3, <4>2, <4>3
      <3>4. QED BY <3>2, <3>3
    <2>4. QED BY <2>2, <2>3
  <1>4. ASSUME NEW p \in Paths
        PROVE  Cardinality({f \in files : f.walked = p}) + Cardinality({s \in skipped : s.path = p}) <= 1
    <2> DEFINE F == {f \in files : f.walked = p}
               T == {s \in skipped : s.path = p}
    <2>1. F = {} \/ (T = {} /\ \E f : F = {f})
      BY DEF WalkInv, OneRecord
    <2>2. T = {} \/ \E s : T = {s}
      BY DEF WalkInv, OneRecord
    <2> HIDE DEF F, T
    <2>3. Cardinality({}) = 0 /\ \A x : Cardinality({x}) = 1
      BY FS_EmptySet, FS_Singleton
    <2>4. \/ Cardinality(F) = 0 /\ Cardinality(T) \in {0, 1}
          \/ Cardinality(F) = 1 /\ Cardinality(T) = 0
      BY <2>1, <2>2, <2>3
    <2>5. Cardinality(F) + Cardinality(T) <= 1
      BY <2>4
    <2>6. QED BY <2>5 DEF F, T
  <1>5. QED BY <1>2, <1>3, <1>4 DEF SnapshotFaithful

\* ingest_repository, for any tree and any number of changes, refused listings and refused
\* looks while it is walked: every path that nobody touched and that is below no directory
\* that could not be listed is loaded under its own name, or skipped for the true reason, as
\* if the rest of the tree had stood still; no file of the walk has two records, only one
\* that was touched is recorded under another path, and none above the limit is loaded.
THEOREM SnapshotIsFaithful == IngestionSpec => []SnapshotFaithful
  <1>1. IngestionSpec => []WalkInv
    BY WalkInvInit, WalkInvStep, PTL DEF IngestionSpec
  <1>2. QED BY <1>1, WalkInvEnds, PTL

-----------------------------------------------------------------------------
(* Keys are compared from left to right, and what has keys can be arranged. *)

\* A set of numbers that is not empty has a least one.
LEMMA LeastNumber ==
    ASSUME NEW T \in SUBSET Nat, T # {}
    PROVE  /\ \E x \in T : \A y \in T : x <= y
           /\ Min(T) \in T /\ \A y \in T : Min(T) <= y
  <1>1. PICK x \in T : \A y \in T : <<y, x>> \notin OpToRel(<, Nat)
    BY NatLessThanWellFounded, WFMin
  <1>2. \A y \in T : ~(y < x)
    BY <1>1 DEF OpToRel
  <1>3. \A y \in T : x <= y
    BY <1>2
  <1>4. QED BY <1>3 DEF Min

\* No key is before itself.
LEMMA BeforeNotSelf ==
    ASSUME NEW n \in Nat, NEW x \in [1..n -> Int]
    PROVE  ~Before(x, x)
  BY DEF Before

\* Of two keys that differ, one is before the other.
LEMMA BeforeTotal ==
    ASSUME NEW n \in Nat, NEW x \in [1..n -> Int], NEW y \in [1..n -> Int], x # y
    PROVE  Before(x, y) \/ Before(y, x)
  <1> DEFINE T == {i \in 1..n : x[i] # y[i]}
  <1>1. T \in SUBSET Nat /\ T # {}
    OBVIOUS
  <1>2. PICK i \in T : \A k \in T : i <= k
    BY <1>1, LeastNumber
  <1>3. i \in 1..n /\ x[i] # y[i] /\ x[i] \in Int /\ y[i] \in Int
    BY <1>2
  <1>4. \A k \in 1..(i - 1) : k \in 1..n /\ ~(i <= k)
    BY <1>3
  <1>5. \A k \in 1..(i - 1) : x[k] = y[k]
    BY <1>2, <1>4
  <1>6. x[i] < y[i] \/ y[i] < x[i]
    BY <1>3
  <1> HIDE DEF T
  <1>7. QED BY <1>3, <1>5, <1>6 DEF Before

\* The order of the keys is transitive.
LEMMA BeforeTrans ==
    ASSUME NEW n \in Nat, NEW x \in [1..n -> Int], NEW y \in [1..n -> Int],
           NEW z \in [1..n -> Int], Before(x, y), Before(y, z)
    PROVE  Before(x, z)
  <1>1. PICK i \in 1..n : x[i] < y[i] /\ \A k \in 1..(i - 1) : x[k] = y[k]
    BY DEF Before
  <1>2. PICK j \in 1..n : y[j] < z[j] /\ \A k \in 1..(j - 1) : y[k] = z[k]
    BY DEF Before
  <1>3. ASSUME NEW m \in 1..n, m <= i, m <= j, m = i \/ m = j PROVE Before(x, z)
    <2>1. \A k \in 1..(m - 1) : k \in 1..(i - 1) /\ k \in 1..(j - 1)
      BY <1>3
    <2>2. \A k \in 1..(m - 1) : x[k] = z[k]
      BY <1>1, <1>2, <2>1
    <2>3. x[m] <= y[m] /\ y[m] <= z[m] /\ (x[m] < y[m] \/ y[m] < z[m])
      <3>1. m # i => m \in 1..(i - 1)
        BY <1>3
      <3>2. m # j => m \in 1..(j - 1)
        BY <1>3
      <3>3. x[m] \in Int /\ y[m] \in Int /\ z[m] \in Int
        OBVIOUS
      <3>4. m = i => x[m] < y[m]
        BY <1>1
      <3>5. m # i => x[m] = y[m]
        BY <1>1, <3>1
      <3>6. m = j => y[m] < z[m]
        BY <1>2
      <3>7. m # j => y[m] = z[m]
        BY <1>2, <3>2
      <3>8. QED BY ONLY <1>3, <3>3, <3>4, <3>5, <3>6, <3>7
    <2>4. x[m] < z[m]
      <3>1. x[m] \in Int /\ y[m] \in Int /\ z[m] \in Int
        OBVIOUS
      <3>2. QED BY ONLY <2>3, <3>1
    <2>5. m \in DOMAIN x
      OBVIOUS
    <2>6. QED BY <2>2, <2>4, <2>5, Zenon DEF Before
  <1>4. i <= j \/ j <= i
    OBVIOUS
  <1>5. i <= i /\ j <= j
    OBVIOUS
  <1>6. QED BY <1>3, <1>4, <1>5

\* What arranges the members of S by their keys.
ArrangedBy(s, key, S) ==
    /\ s \in [1..Cardinality(S) -> S]
    /\ \A x \in S : \E i \in 1..Cardinality(S) : s[i] = x
    /\ \A i, k \in 1..Cardinality(S) : s[i] = s[k] => i = k
    /\ \A i, k \in 1..Cardinality(S) : i < k => Before(key[s[i]], key[s[k]])

\* Distinct keys arrange a finite set: every member once, the smaller keys first.
LEMMA ArrangedLists ==
    ASSUME NEW S, IsFiniteSet(S), NEW n \in Nat, NEW key \in [S -> [1..n -> Int]],
           \A x, y \in S : key[x] = key[y] => x = y
    PROVE  Cardinality(S) \in Nat /\ ArrangedBy(Arranged(key), key, S)
  <1> DEFINE size == Cardinality(S)
             Less(x) == {y \in S : Before(key[y], key[x])}
             rank == [x \in S |-> Cardinality(Less(x)) + 1]
  <1>1. size \in Nat /\ DOMAIN key = S /\ \A x \in S : key[x] \in [1..n -> Int]
    BY FS_CardinalityType
  <1> DEFINE pos == [i \in 1..size |-> CHOOSE y \in S : Cardinality(Less(y)) = i - 1]
  <1>0. Arranged(key) = pos
    <2>1. DOMAIN key = S
      OBVIOUS
    <2>2. Arranged(key) = [i \in 1..Cardinality(DOMAIN key) |->
             CHOOSE y \in DOMAIN key :
                Cardinality({z \in DOMAIN key : Before(key[z], key[y])}) = i - 1]
      BY DEF Arranged
    <2>3. QED BY ONLY <2>1, <2>2
  <1>2. ASSUME NEW x \in S PROVE Cardinality(Less(x)) \in Nat /\ Cardinality(Less(x)) < size
    <2>1. Less(x) \in SUBSET S /\ x \notin Less(x) /\ Less(x) # S
      BY <1>1, BeforeNotSelf
    <2> HIDE DEF Less
    <2>2. IsFiniteSet(Less(x)) /\ Cardinality(Less(x)) <= size /\ size # Cardinality(Less(x))
      BY <2>1, FS_Subset
    <2>3. Cardinality(Less(x)) \in Nat
      BY <2>2, FS_CardinalityType
    <2>4. QED BY <1>1, <2>2, <2>3
  <1>3. ASSUME NEW x \in S, NEW y \in S, Before(key[x], key[y]) PROVE rank[x] < rank[y]
    <2>1. Less(x) \in SUBSET Less(y) /\ x \in Less(y) /\ x \notin Less(x)
      <3>1. \A r \in S : Before(key[r], key[x]) => Before(key[r], key[y])
        BY <1>1, <1>3, BeforeTrans
      <3>2. ~Before(key[x], key[x])
        BY <1>1, BeforeNotSelf
      <3>3. QED BY <1>3, <3>1, <3>2, Zenon
    <2>2. IsFiniteSet(Less(y))
      <3>1. Less(y) \in SUBSET S
        OBVIOUS
      <3> HIDE DEF Less
      <3>2. QED BY <3>1, FS_Subset
    <2>3. Cardinality(Less(x)) <= Cardinality(Less(y)) /\ Cardinality(Less(y)) # Cardinality(Less(x))
      <3> HIDE DEF Less
      <3>1. QED BY <2>1, <2>2, FS_Subset
    <2>4. Cardinality(Less(x)) \in Nat /\ Cardinality(Less(y)) \in Nat
      BY <1>2
    <2> HIDE DEF Less
    <2>5. QED BY <2>3, <2>4
  <1>4. rank \in [S -> 1..size]
    <2> HIDE DEF Less
    <2>1. QED BY <1>1, <1>2
  <1>5. \A x, y \in S : rank[x] = rank[y] => x = y
    <2> SUFFICES ASSUME NEW x \in S, NEW y \in S, rank[x] = rank[y], x # y PROVE FALSE
      OBVIOUS
    <2> HIDE DEF rank
    <2>1. key[x] # key[y]
      OBVIOUS
    <2>2. Before(key[x], key[y]) \/ Before(key[y], key[x])
      BY <1>1, <2>1, BeforeTotal
    <2>3. rank[x] \in 1..size /\ rank[y] \in 1..size
      BY <1>4
    <2>4. QED BY <1>3, <2>2, <2>3
  <1>6. rank \in Surjection(S, 1..size)
    <2> HIDE DEF rank
    <2>1. IsFiniteSet(1..size) /\ Cardinality(1..size) = size
      BY <1>1, FS_Interval
    <2>2. rank \in Injection(S, 1..size)
      BY <1>4, <1>5 DEF Injection, IsInjective
    <2>3. QED BY <2>1, <2>2, FS_Injection
  <1>7. ASSUME NEW i \in 1..size PROVE Arranged(key)[i] \in S /\ rank[Arranged(key)[i]] = i
    <2>1. PICK x \in S : rank[x] = i
      BY <1>6 DEF Surjection
    <2>2. Cardinality(Less(x)) = i - 1
      BY <1>2, <2>1
    <2>3. Arranged(key)[i] = CHOOSE y \in S : Cardinality(Less(y)) = i - 1
      BY <1>0
    <2> HIDE DEF Less
    <2>4. Arranged(key)[i] \in S /\ Cardinality(Less(Arranged(key)[i])) = i - 1
      BY <2>2, <2>3
    <2>5. QED BY <2>4
  <1>8. Arranged(key) \in [1..size -> S]
    <2>1. DOMAIN Arranged(key) = 1..size /\ Arranged(key) = [i \in 1..size |-> Arranged(key)[i]]
      <3> HIDE DEF Less, size
      <3>1. QED BY <1>0
    <2> HIDE DEF size, pos
    <2>2. QED BY <1>7, <2>1
  <1> HIDE DEF rank, pos
  <1>9. ASSUME NEW x \in S PROVE \E i \in 1..size : Arranged(key)[i] = x
    <2>1. rank[x] \in 1..size
      BY <1>4
    <2>2. rank[Arranged(key)[rank[x]]] = rank[x] /\ Arranged(key)[rank[x]] \in S
      BY <1>7, <2>1
    <2>3. Arranged(key)[rank[x]] = x
      BY <1>5, <2>2
    <2>4. QED BY <2>1, <2>3
  <1>10. \A i, k \in 1..size : Arranged(key)[i] = Arranged(key)[k] => i = k
    BY <1>7
  <1>11. ASSUME NEW i \in 1..size, NEW k \in 1..size, i < k
         PROVE  Before(key[Arranged(key)[i]], key[Arranged(key)[k]])
    <2> DEFINE x == Arranged(key)[i]
               y == Arranged(key)[k]
    <2>1. x \in S /\ y \in S /\ rank[x] = i /\ rank[y] = k
      BY <1>7
    <2> HIDE DEF x, y
    <2>2. x # y /\ key[x] # key[y]
      BY <1>11, <2>1
    <2>3. Before(key[x], key[y]) \/ Before(key[y], key[x])
      BY <1>1, <2>1, <2>2, BeforeTotal
    <2>4. ~Before(key[y], key[x])
      BY <1>3, <1>11, <2>1
    <2>5. QED BY <2>3, <2>4 DEF x, y
  <1>12. QED BY <1>1, <1>8, <1>9, <1>10, <1>11 DEF ArrangedBy

-----------------------------------------------------------------------------
(* Sums of sequences, and their beginnings. *)

\* A function on 1..n is a sequence.
LEMMA IsSequence ==
    ASSUME NEW T, NEW n \in Nat, NEW s \in [1..n -> T]
    PROVE  s \in Seq(T) /\ Len(s) = n
  <1>1. s \in Seq(T)
    <2>1. \E k \in Nat : s \in [1..k -> T]
      OBVIOUS
    <2>2. QED BY ONLY <2>1, SeqDef, Zenon
  <1>2. DOMAIN s = 1..n /\ DOMAIN s = 1..Len(s) /\ Len(s) \in Nat
    BY <1>1
  <1>3. QED BY ONLY <1>1, <1>2, n \in Nat

\* The beginning of a list.
LEMMA TakeFacts ==
    ASSUME NEW T, NEW s \in Seq(T), NEW n \in Nat
    PROVE  /\ Take(s, n) \in Seq(T)
           /\ Len(Take(s, n)) = IF Len(s) < n THEN Len(s) ELSE n
           /\ \A i \in 1..Len(Take(s, n)) : i \in 1..Len(s) /\ Take(s, n)[i] = s[i]
           /\ Len(s) <= n => Take(s, n) = s
  <1> DEFINE k == IF Len(s) < n THEN Len(s) ELSE n
  <1>1. k \in Nat /\ k <= Len(s) /\ Len(s) \in Nat /\ (Len(s) <= n => k = Len(s))
    OBVIOUS
  <1>2. Take(s, n) = SubSeq(s, 1, k)
    BY DEF Take
  <1> HIDE DEF k
  <1>3. SubSeq(s, 1, k) = [i \in 1..k |-> s[i]]
    <2>1. (k - 1) + 1 = k /\ \A i \in 1..k : i + 1 - 1 = i
      BY <1>1
    <2>2. QED BY <1>1
  <1>4. [i \in 1..k |-> s[i]] \in [1..k -> T]
    BY <1>1
  <1>5. SubSeq(s, 1, k) \in Seq(T) /\ Len(SubSeq(s, 1, k)) = k
    BY <1>1, <1>3, <1>4, IsSequence
  <1>6. ASSUME k = Len(s) PROVE [i \in 1..k |-> s[i]] = s
    <2>1. s = [i \in 1..Len(s) |-> s[i]]
      OBVIOUS
    <2>2. QED BY <1>6, <2>1
  <1>7. Len(Take(s, n)) = k /\ \A i \in 1..k : i \in 1..Len(s) /\ Take(s, n)[i] = s[i]
    BY <1>1, <1>2, <1>3, <1>5
  <1>8. QED BY <1>1, <1>2, <1>3, <1>5, <1>6, <1>7 DEF k

\* The sums of the beginnings of a sequence.
Running(r, s, n) ==
    /\ r \in [0..n -> Nat] /\ r[0] = 0
    /\ \A m \in 1..n : r[m] = r[m - 1] + s[m]

\* A list of numbers has sums of its beginnings, and the last of them is its sum.
LEMMA SumRuns ==
    ASSUME NEW n \in Nat, NEW s \in [1..n -> Nat]
    PROVE  \E r : Running(r, s, n) /\ Sum(s) = r[n]
  <1> DEFINE add == [p \in Nat \X (1..n) |-> p[1] + s[p[2]]]
             Body(g) == [t \in SUBSET DOMAIN s |->
                          IF t = {} THEN 0 ELSE g[t \ {Max(t)}] + s[Max(t)]]
             It == CHOOSE g : g = Body(g)
  <1>1. Sum(s) = It[1..n]
    BY DEF Sum, FoldLeft, MapThenFoldSet
  <1>2. add \in [Nat \X (1..n) -> Nat]
    OBVIOUS
  <1>3. PICK f \in [SUBSET (1..n) -> Nat] : FoldOf(f, n, 0, add)
    <2> HIDE DEF add
    <2>1. 0 \in Nat
      OBVIOUS
    <2>2. QED BY <1>2, <2>1, FoldExists
  <1>4. f = Body(f)
    <2>1. \A t \in SUBSET (1..n) : t # {} =>
            t \ {Max(t)} \in SUBSET (1..n) /\ Max(t) \in 1..n
      BY MaxOfFinite
    <2>2. \A t \in SUBSET (1..n) : t # {} => f[t] = f[t \ {Max(t)}] + s[Max(t)]
      BY <1>3, <2>1 DEF FoldOf
    <2>3. f[{}] = 0
      BY <1>3 DEF FoldOf
    <2>4. QED BY <2>2, <2>3
  <1>5. It = Body(It)
    <2> HIDE DEF Body
    <2>1. QED BY <1>4
  <1>6. It[{}] = 0 /\ \A m \in 1..n : It[1..m] = It[1..(m - 1)] + s[m]
    <2>1. \A t \in SUBSET (1..n) :
            It[t] = IF t = {} THEN 0 ELSE It[t \ {Max(t)}] + s[Max(t)]
      BY <1>5
    <2>2. \A m \in 1..n : m \in Nat /\ m # 0 /\ 1..m \in SUBSET (1..n) /\ 1..m # {}
      OBVIOUS
    <2> HIDE DEF It
    <2>3. It[{}] = 0
      BY ONLY <2>1, Zenon
    <2>4. ASSUME NEW m \in 1..n PROVE It[1..m] = It[1..(m - 1)] + s[m]
      <3>1. 1..m # {} /\ Max(1..m) = m /\ (1..m) \ {Max(1..m)} = 1..(m - 1) /\ 1..m \in SUBSET (1..n)
        BY <2>2, <2>4, MaxOfInterval
      <3>2. It[1..m] = It[(1..m) \ {Max(1..m)}] + s[Max(1..m)]
        BY ONLY <2>1, <3>1, Zenon
      <3>3. QED BY ONLY <3>1, <3>2, Zenon
    <2>5. QED BY <2>3, <2>4
  <1>7. GoesOn(It, n, Nat, 0, add)
    <2> HIDE DEF It
    <2>1. QED BY <1>6 DEF GoesOn
  <1> DEFINE r == RunOf(It, n)
  <1>8. FoldRun(r, n, Nat, 0, add) /\ It[1..n] = r[n]
    <2> HIDE DEF It, add
    <2>1. 0 \in Nat
      OBVIOUS
    <2>2. FoldRun(r, n, Nat, 0, add)
      BY <1>2, <1>7, <2>1, FoldReached
    <2>3. QED BY <2>2 DEF RunOf
  <1> HIDE DEF r
  <1>9. Running(r, s, n)
    <2>1. \A m \in 1..n : m - 1 \in 0..n
      OBVIOUS
    <2>2. QED BY <1>8, <2>1 DEF FoldRun, Running
  <1>10. QED BY <1>1, <1>8, <1>9

\* The sums of one beginning are the same, whatever follows it.
LEMMA RunsAgree ==
    ASSUME NEW n \in Nat, NEW k \in Nat, NEW s, NEW t, NEW a, NEW b,
           Running(a, s, n), Running(b, t, k),
           NEW j \in Nat, j <= n, j <= k, \A i \in 1..j : s[i] = t[i]
    PROVE  a[j] = b[j]
  <1> DEFINE S == {m \in Nat : m <= j => a[m] = b[m]}
  <1>1. 0 \in S
    BY DEF Running
  <1>2. \A m \in Nat : m \in S => m + 1 \in S
    <2> SUFFICES ASSUME NEW m \in Nat, m \in S, m + 1 <= j PROVE a[m + 1] = b[m + 1]
      OBVIOUS
    <2>1. m + 1 \in 1..n /\ m + 1 \in 1..k /\ m + 1 \in 1..j /\ (m + 1) - 1 = m /\ m <= j
      OBVIOUS
    <2>2. a[m] = b[m]
      BY <2>1
    <2>3. a[m + 1] = a[(m + 1) - 1] + s[m + 1]
      BY <2>1, Zenon DEF Running
    <2>4. b[m + 1] = b[(m + 1) - 1] + t[m + 1]
      BY <2>1, Zenon DEF Running
    <2>5. s[m + 1] = t[m + 1]
      BY <2>1, Zenon
    <2>6. QED BY ONLY <2>1, <2>2, <2>3, <2>4, <2>5
  <1> HIDE DEF S
  <1>3. j \in S
    BY <1>1, <1>2, NumbersAllIn
  <1>4. QED BY <1>3 DEF S

\* The sum of a sequence, and of everything it begins with.
LEMMA SumTakes ==
    ASSUME NEW s \in Seq(Nat)
    PROVE  \E r : /\ Running(r, s, Len(s)) /\ Sum(s) = r[Len(s)]
                  /\ \A m \in 0..Len(s) : Sum(Take(s, m)) = r[m]
  <1> DEFINE n == Len(s)
  <1>1. n \in Nat /\ s \in [1..n -> Nat]
    OBVIOUS
  <1> HIDE DEF n
  <1>2. PICK r : Running(r, s, n) /\ Sum(s) = r[n]
    BY <1>1, SumRuns
  <1>3. ASSUME NEW m \in 0..n PROVE Sum(Take(s, m)) = r[m]
    <2> DEFINE t == Take(s, m)
    <2>1. m \in Nat /\ m <= n
      BY <1>1
    <2>2. t \in Seq(Nat) /\ Len(t) = m /\ \A i \in 1..m : t[i] = s[i]
      BY <2>1, TakeFacts DEF n
    <2> HIDE DEF t
    <2>3. t \in [1..m -> Nat]
      BY <2>2
    <2>4. PICK q : Running(q, t, m) /\ Sum(t) = q[m]
      BY <2>1, <2>3, SumRuns
    <2>5. q[m] = r[m]
      BY <1>1, <1>2, <2>1, <2>2, <2>4, RunsAgree
    <2>6. QED BY <2>4, <2>5 DEF t
  <1>4. QED BY <1>2, <1>3 DEF n

\* Numbers have a sum.
LEMMA SumNat ==
    ASSUME NEW s \in Seq(Nat)
    PROVE  Sum(s) \in Nat
  <1>1. PICK r : Running(r, s, Len(s)) /\ Sum(s) = r[Len(s)]
    BY SumTakes
  <1>2. QED BY <1>1 DEF Running

\* Nothing sums to zero.
LEMMA SumOfNone == Sum(<<>>) = 0
  <1>1. <<>> \in Seq(Nat) /\ Len(<<>>) = 0
    OBVIOUS
  <1>2. PICK r : Running(r, <<>>, 0) /\ Sum(<<>>) = r[0]
    BY <1>1, SumTakes
  <1>3. QED BY <1>2 DEF Running

\* One more number is added to the sum.
LEMMA SumOfMore ==
    ASSUME NEW s \in Seq(Nat), NEW x \in Nat
    PROVE  Sum(Append(s, x)) = Sum(s) + x
  <1> DEFINE n == Len(s)
             t == Append(s, x)
  <1>1. /\ n \in Nat /\ s \in [1..n -> Nat] /\ t \in [1..(n + 1) -> Nat]
        /\ t[n + 1] = x /\ n + 1 \in Nat
    <2>1. n \in Nat /\ s \in [1..n -> Nat] /\ n + 1 \in Nat
      OBVIOUS
    <2>2. t \in Seq(Nat) /\ Len(t) = n + 1 /\ t[n + 1] = x
      OBVIOUS
    <2> HIDE DEF t, n
    <2>3. QED BY <2>1, <2>2
  <1>2. \A i \in 1..n : s[i] = t[i]
    OBVIOUS
  <1> HIDE DEF n, t
  <1>3. PICK a : Running(a, s, n) /\ Sum(s) = a[n]
    BY <1>1, SumRuns
  <1>4. PICK b : Running(b, t, n + 1) /\ Sum(t) = b[n + 1]
    BY <1>1, SumRuns
  <1>5. a[n] = b[n]
    <2>1. n <= n /\ n <= n + 1
      BY <1>1
    <2>2. QED BY <1>1, <1>2, <1>3, <1>4, <2>1, RunsAgree
  <1>6. b[n + 1] = b[n] + x
    <2>1. n + 1 \in 1..(n + 1) /\ (n + 1) - 1 = n
      BY <1>1
    <2>2. b[n + 1] = b[(n + 1) - 1] + t[n + 1]
      BY <1>4, <2>1, Zenon DEF Running
    <2>3. QED BY <1>1, <2>1, <2>2
  <1>7. QED BY <1>3, <1>4, <1>5, <1>6 DEF t

\* Sums grow with the sequence, and with what is summed.
LEMMA RunsGrow ==
    ASSUME NEW n \in Nat, NEW s \in [1..n -> Nat], NEW r, Running(r, s, n),
           NEW i \in 0..n, NEW k \in 0..n, i <= k
    PROVE  r[i] <= r[k]
  <1> DEFINE S == {m \in Nat : m <= n /\ i <= m => r[i] <= r[m]}
  <1>1. 0 \in S
    <2>1. i <= 0 => i = 0
      OBVIOUS
    <2>2. r[0] = 0
      BY DEF Running
    <2>3. QED BY <2>1, <2>2
  <1>2. \A m \in Nat : m \in S => m + 1 \in S
    <2> SUFFICES ASSUME NEW m \in Nat, m \in S, m + 1 <= n, i <= m + 1 PROVE r[i] <= r[m + 1]
      OBVIOUS
    <2>1. m + 1 \in 1..n /\ (m + 1) - 1 = m /\ m \in 0..n /\ (i <= m \/ i = m + 1) /\ m <= n
      OBVIOUS
    <2>2. r[m + 1] = r[(m + 1) - 1] + s[m + 1]
      BY <2>1, Zenon DEF Running
    <2>3. r[m] \in Nat /\ r[m + 1] \in Nat /\ s[m + 1] \in Nat /\ r[i] \in Nat
      BY <2>1 DEF Running
    <2>4. i <= m => r[i] <= r[m]
      BY <2>1
    <2>5. QED BY ONLY <2>1, <2>2, <2>3, <2>4
  <1> HIDE DEF S
  <1>3. k \in S
    <2>1. k \in Nat
      OBVIOUS
    <2>2. QED BY <1>1, <1>2, <2>1, NumbersAllIn
  <1>4. QED BY <1>3 DEF S

\* What is smaller everywhere has no larger sum.
LEMMA SumsCompare ==
    ASSUME NEW n \in Nat, NEW s \in [1..n -> Nat], NEW t \in [1..n -> Nat],
           \A i \in 1..n : s[i] <= t[i]
    PROVE  Sum(s) <= Sum(t)
  <1>1. PICK a : Running(a, s, n) /\ Sum(s) = a[n]
    BY SumRuns
  <1>2. PICK b : Running(b, t, n) /\ Sum(t) = b[n]
    BY SumRuns
  <1> DEFINE S == {m \in Nat : m <= n => a[m] <= b[m]}
  <1>3. 0 \in S
    BY <1>1, <1>2 DEF Running
  <1>4. \A m \in Nat : m \in S => m + 1 \in S
    <2> SUFFICES ASSUME NEW m \in Nat, m \in S, m + 1 <= n PROVE a[m + 1] <= b[m + 1]
      OBVIOUS
    <2>1. m + 1 \in 1..n /\ (m + 1) - 1 = m /\ m \in 0..n /\ m <= n
      OBVIOUS
    <2>2. a[m + 1] = a[(m + 1) - 1] + s[m + 1]
      BY <1>1, <2>1, Zenon DEF Running
    <2>3. b[m + 1] = b[(m + 1) - 1] + t[m + 1]
      BY <1>2, <2>1, Zenon DEF Running
    <2>4. a[m] \in Nat /\ b[m] \in Nat
      BY <1>1, <1>2, <2>1 DEF Running
    <2>5. a[m] <= b[m]
      BY <2>1
    <2>6. s[m + 1] \in Nat /\ t[m + 1] \in Nat /\ s[m + 1] <= t[m + 1]
      BY <2>1
    <2>7. QED BY ONLY <2>1, <2>2, <2>3, <2>4, <2>5, <2>6
  <1> HIDE DEF S
  <1>5. n \in S
    BY <1>3, <1>4, NumbersAllIn
  <1>6. QED BY <1>1, <1>2, <1>5 DEF S

-----------------------------------------------------------------------------
(* Cutting a chunk. *)

\* Chunks, and what is cut from them.
Cuttings == [chunk : CodeChunks, truncated : BOOLEAN]

\* s shows c, or the beginning of c.
ShowsOf(s, c) ==
    /\ s.chunk = [c EXCEPT !.sizes = s.chunk.sizes]
    /\ s.truncated \/ s.chunk = c
    /\ Len(s.chunk.sizes) <= Len(c.sizes)
    /\ \A k \in 1..Len(s.chunk.sizes) :
         /\ s.chunk.sizes[k] > 0
         /\ s.chunk.sizes[k] = c.sizes[k] \/ (k = 1 /\ s.chunk.sizes[k] < c.sizes[k]
                                              /\ Len(s.chunk.sizes) = 1)
\* What may be shown of the chunks of S.
Shows(S) == {s \in Cuttings : \E c \in S : ShowsOf(s, c)}

\* A chunk has at least one character, and a beginning of its lines no more than all.
LEMMA SizeFacts ==
    ASSUME NEW z \in Seq(Nat \ {0}) \ {<<>>}
    PROVE  /\ z \in Seq(Nat) /\ Len(z) \in Nat \ {0}
           /\ Sum(z) \in Nat \ {0} /\ z[1] \in Nat \ {0} /\ z[1] <= Sum(z)
           /\ Sum(Take(z, 0)) = 0 /\ Sum(Take(z, 1)) = z[1]
           /\ \A i \in 0..Len(z) : Sum(Take(z, i)) \in Nat /\ Sum(Take(z, i)) <= Sum(z)
  <1>1. z \in Seq(Nat) /\ Len(z) \in Nat \ {0} /\ z[1] \in Nat \ {0}
    <2>1. \A i \in 1..Len(z) : z[i] \in Nat
      OBVIOUS
    <2>2. Len(z) \in Nat /\ Len(z) # 0 /\ z \in [1..Len(z) -> Nat]
      OBVIOUS
    <2>3. z \in Seq(Nat)
      BY <2>2, IsSequence
    <2>4. QED BY <2>2, <2>3
  <1> DEFINE n == Len(z)
  <1>2. PICK r : /\ Running(r, z, n) /\ Sum(z) = r[n]
                 /\ \A m \in 0..n : Sum(Take(z, m)) = r[m]
    BY <1>1, SumTakes
  <1>3. n \in Nat \ {0} /\ z \in [1..n -> Nat]
    BY <1>1
  <1> HIDE DEF n
  <1>4. r[0] = 0 /\ r[1] = r[1 - 1] + z[1] /\ \A m \in 0..n : r[m] \in Nat
    <2>1. 1 \in 1..n
      BY <1>3
    <2>2. QED BY <1>2, <2>1 DEF Running
  <1>5. \A i \in 0..n : r[i] <= r[n]
    <2> SUFFICES ASSUME NEW i \in 0..n PROVE r[i] <= r[n]
      OBVIOUS
    <2>1. n \in 0..n /\ n \in Nat /\ i <= n
      BY <1>3
    <2>2. QED BY <1>2, <1>3, <2>1, RunsGrow
  <1>6. 0 \in 0..n /\ 1 \in 0..n /\ n \in 0..n /\ 1 - 1 = 0
    BY <1>3
  <1>7. z[1] = r[1]
    BY <1>1, <1>4, <1>6
  <1>8. Sum(z) \in Nat \ {0} /\ z[1] <= Sum(z)
    <2>1. r[1] <= r[n] /\ r[n] \in Nat
      BY <1>4, <1>5, <1>6
    <2>2. Sum(z) = r[n] /\ z[1] = r[1] /\ z[1] \in Nat /\ z[1] # 0
      BY <1>1, <1>2, <1>7
    <2>3. QED BY ONLY <2>1, <2>2
  <1>9. \A i \in 0..n : Sum(Take(z, i)) \in Nat /\ Sum(Take(z, i)) <= Sum(z)
    BY <1>2, <1>4, <1>5
  <1>10. QED BY <1>1, <1>2, <1>4, <1>6, <1>7, <1>8, <1>9 DEF n

\* The larger of two numbers.
LEMMA LargerOfTwo ==
    ASSUME NEW a \in Int, NEW b \in Int
    PROVE  Max({a, b}) = IF a >= b THEN a ELSE b
  <1>1. CASE a >= b
    <2>1. \A x \in {a, b} : (\A y \in {a, b} : x >= y) => x = a
      BY <1>1
    <2>2. \A y \in {a, b} : a >= y
      BY <1>1
    <2>3. QED BY <1>1, <2>1, <2>2 DEF Max
  <1>2. CASE ~(a >= b)
    <2>1. \A x \in {a, b} : (\A y \in {a, b} : x >= y) => x = b
      BY <1>2
    <2>2. \A y \in {a, b} : b >= y
      BY <1>2
    <2>3. QED BY <1>2, <2>1, <2>2 DEF Max
  <1>3. QED BY <1>1, <1>2

\* A cut keeps whole lines, or a part of the first.
LEMMA CutFacts ==
    ASSUME NEW c \in CodeChunks, NEW keep \in Nat \ {0}
    PROVE  /\ Cut(c, keep) \in CodeChunks /\ Cut(c, keep) = [c EXCEPT !.sizes = Cut(c, keep).sizes]
           /\ Size(Cut(c, keep)) \in Nat \ {0}
           /\ Size(Cut(c, keep)) <= keep /\ Size(Cut(c, keep)) <= Size(c)
           /\ LET z == Cut(c, keep).sizes IN
              /\ Len(z) <= Len(c.sizes)
              /\ (Len(z) = 1 /\ z[1] < c.sizes[1]) \/ (\A k \in 1..Len(z) : z[k] = c.sizes[k])
  <1> DEFINE z == c.sizes
             n == Len(z)
             whole == {i \in 0..n : Sum(Take(z, i)) <= keep}
             w == Max(whole)
             y == IF w = 0 THEN <<keep>> ELSE Take(z, w)
  <1>1. z \in Seq(Nat \ {0}) \ {<<>>}
    BY DEF CodeChunks
  <1>2. /\ z \in Seq(Nat) /\ n \in Nat \ {0} /\ Sum(z) \in Nat \ {0} /\ z[1] \in Nat \ {0}
        /\ z[1] <= Sum(z) /\ Sum(Take(z, 0)) = 0 /\ Sum(Take(z, 1)) = z[1]
        /\ \A i \in 0..n : Sum(Take(z, i)) \in Nat /\ Sum(Take(z, i)) <= Sum(z)
    BY <1>1, SizeFacts
  <1>3. Cut(c, keep) = [c EXCEPT !.sizes = y]
    BY DEF Cut
  <1> HIDE DEF z, n
  <1>4. w \in whole /\ \A x \in whole : x <= w
    <2>1. 0 \in whole
      BY <1>2
    <2> DEFINE up == {x \in 0..n : \A i \in whole : i >= x}
    <2>2. whole \in SUBSET (0..n)
      OBVIOUS
    <2> HIDE DEF whole
    <2>3. \E x \in whole : \A i \in whole : x >= i
      <3> DEFINE T == {n - i : i \in whole}
      <3>1. T \in SUBSET Nat /\ T # {}
        BY <1>2, <2>1, <2>2
      <3>2. PICK x \in T : \A i \in T : x <= i
        BY <3>1, LeastNumber
      <3>3. PICK g \in whole : x = n - g
        OBVIOUS
      <3>4. \A i \in whole : n - i \in T /\ i \in 0..n /\ g \in 0..n
        BY <2>2
      <3>5. \A i \in whole : n - g <= n - i
        BY <3>2, <3>3, <3>4
      <3>6. \A i \in whole : g >= i
        BY <1>2, <3>4, <3>5
      <3>7. QED BY <3>6
    <2>4. Max(whole) \in whole /\ \A i \in whole : Max(whole) >= i
      BY <2>3 DEF Max
    <2>5. QED BY <2>2, <2>4
  <1>5. w \in 0..n /\ Sum(Take(z, w)) <= keep
    BY <1>4
  <1>6. y \in Seq(Nat \ {0}) \ {<<>>} /\ Sum(y) <= keep /\ Sum(y) <= Sum(z) /\ Len(y) <= n
        /\ ((Len(y) = 1 /\ y[1] < z[1]) \/ (\A k \in 1..Len(y) : y[k] = z[k]))
    <2>1. CASE w = 0
      <3>1. 1 \notin whole
        <4>1. 1 \in whole => 1 <= w
          BY <1>4
        <4> HIDE DEF w, whole
        <4>2. QED BY <2>1, <4>1
      <3>2. keep < z[1]
        <4>1. 1 \in 0..n
          BY <1>2
        <4>2. QED BY <1>2, <3>1, <4>1
      <3> HIDE DEF w
      <3>3. y = <<keep>> /\ Len(y) = 1 /\ y[1] = keep /\ y \in Seq(Nat \ {0}) \ {<<>>}
        BY <2>1
      <3> HIDE DEF y
      <3>4. Take(y, 1) = y
        <4>1. 1 \in Nat /\ Len(y) <= 1 /\ y \in Seq(Nat \ {0})
          BY <3>3
        <4>2. QED BY <4>1, TakeFacts
      <3>5. Sum(y) = keep
        BY <3>3, <3>4, SizeFacts
      <3>6. QED BY <1>2, <3>2, <3>3, <3>5
    <2>2. CASE w # 0
      <3> HIDE DEF w
      <3>1. y = Take(z, w) /\ w \in Nat /\ w <= n /\ w # 0
        BY <1>2, <1>5, <2>2
      <3> HIDE DEF y
      <3>2. z \in Seq(Nat \ {0})
        BY <1>1
      <3>3. /\ y \in Seq(Nat \ {0}) /\ Len(y) = (IF Len(z) < w THEN Len(z) ELSE w)
            /\ \A k \in 1..Len(y) : y[k] = z[k]
        <4>1. /\ Take(z, w) \in Seq(Nat \ {0}) /\ Len(Take(z, w)) = (IF Len(z) < w THEN Len(z) ELSE w)
              /\ \A k \in 1..Len(Take(z, w)) : Take(z, w)[k] = z[k]
          BY <3>1, <3>2, TakeFacts
        <4>2. QED BY ONLY <3>1, <4>1, Zenon
      <3>4. Len(y) = w
        BY <1>2, <3>1, <3>3 DEF n
      <3>5. y # <<>>
        BY <3>1, <3>4
      <3>6. Sum(y) <= keep /\ Sum(y) <= Sum(z)
        BY <1>2, <1>5, <3>1
      <3>7. QED BY <3>1, <3>3, <3>4, <3>5, <3>6
    <2>3. QED BY <2>1, <2>2
  <1> HIDE DEF y
  <1>7. Cut(c, keep) \in CodeChunks /\ Cut(c, keep).sizes = y
    <2>1. y \in Seq(Nat \ {0}) \ {<<>>}
      BY <1>6
    <2>2. QED BY <1>3, <2>1 DEF CodeChunks
  <1>8. Sum(y) \in Nat \ {0}
    BY <1>6, SizeFacts
  <1>9. Cut(c, keep) = [c EXCEPT !.sizes = Cut(c, keep).sizes]
    BY <1>3, <1>7
  <1>10. Size(Cut(c, keep)) = Sum(y) /\ Size(c) = Sum(z)
    BY <1>7 DEF Size, z
  <1>11. QED BY <1>6, <1>7, <1>8, <1>9, <1>10 DEF z, n

\* What every source takes of the prompt, in characters and in tokens.
Blocks(sources)  == [i \in 1..Len(sources) |-> BlockSize(sources[i])]
TokensOf(sources) == [i \in 1..Len(sources) |-> Tokens(BlockSize(sources[i]))]

\* The budgets are positive numbers.
LEMMA QuestionNumbers ==
    /\ BudgetTokens \in Nat \ {0} /\ MaxContextChars \in Nat \ {0} /\ Markup \in Nat \ {0}
    /\ TruncatedMark \in Nat \ {0} /\ Wrapper \in Nat \ {0} /\ Radius \in Nat /\ MaxCommits \in Nat
  BY QuestionAssumption

\* The sizes of what is shown are numbers.
LEMMA BlockType ==
    ASSUME NEW s \in Cuttings
    PROVE  /\ s.chunk \in CodeChunks /\ s.truncated \in BOOLEAN
           /\ Size(s.chunk) \in Nat \ {0} /\ BlockSize(s) \in Nat
           /\ BlockSize(s) = Markup + Size(s.chunk) + (IF s.truncated THEN TruncatedMark ELSE 0)
           /\ Tokens(BlockSize(s)) \in Nat
           /\ Tokens(BlockSize(s)) <= BudgetTokens <=> BlockSize(s) <= 4 * BudgetTokens
  <1>1. s.chunk \in CodeChunks /\ s.truncated \in BOOLEAN
    BY DEF Cuttings
  <1>2. s.chunk.sizes \in Seq(Nat \ {0}) \ {<<>>}
    BY <1>1 DEF CodeChunks
  <1>3. Size(s.chunk) \in Nat \ {0}
    BY <1>2, SizeFacts DEF Size
  <1>4. BlockSize(s) = Markup + Size(s.chunk) + (IF s.truncated THEN TruncatedMark ELSE 0)
    BY DEF BlockSize, Block
  <1>5. BlockSize(s) \in Nat
    BY <1>3, <1>4, QuestionNumbers
  <1>6. Tokens(BlockSize(s)) \in Nat
        /\ (Tokens(BlockSize(s)) <= BudgetTokens <=> BlockSize(s) <= 4 * BudgetTokens)
    BY <1>5, QuestionNumbers DEF Tokens
  <1>7. QED BY <1>1, <1>3, <1>4, <1>5, <1>6

\* What does not fit is cut until it does, or to one character.
LEMMA TruncateFacts ==
    ASSUME NEW S \in SUBSET CodeChunks, NEW s \in Shows(S), NEW room \in Int, BlockSize(s) > room
    PROVE  /\ Truncate(s, room) \in Shows(S)
           /\ Size(Truncate(s, room).chunk) <= Size(s.chunk)
           /\ \/ BlockSize(Truncate(s, room)) <= room
              \/ Size(Truncate(s, room).chunk) = 1 /\ BlockSize(Truncate(s, room)) > room
  <1> DEFINE c == s.chunk
             fit == room - Markup - TruncatedMark
             keep == Max({1, fit})
             cut == Cut(c, keep)
             t == [chunk |-> cut, truncated |-> TRUE]
  <1>1. s \in Cuttings
    BY DEF Shows
  <1>2. c \in CodeChunks /\ Size(c) \in Nat \ {0} /\ BlockSize(s) \in Nat
    BY <1>1, BlockType
  <1>3. Truncate(s, room) = t
    BY <1>2 DEF Truncate
  <1>4. fit \in Int /\ keep = IF 1 >= fit THEN 1 ELSE fit
    BY QuestionNumbers, LargerOfTwo
  <1>5. keep \in Nat \ {0}
    BY <1>4
  <1> HIDE DEF keep
  <1>6. /\ cut \in CodeChunks /\ cut = [c EXCEPT !.sizes = cut.sizes]
        /\ Size(cut) \in Nat \ {0} /\ Size(cut) <= keep /\ Size(cut) <= Size(c)
        /\ Len(cut.sizes) <= Len(c.sizes)
        /\ (Len(cut.sizes) = 1 /\ cut.sizes[1] < c.sizes[1])
           \/ (\A k \in 1..Len(cut.sizes) : cut.sizes[k] = c.sizes[k])
    BY <1>2, <1>5, CutFacts
  <1> HIDE DEF cut
  <1>7. t \in Cuttings /\ t.chunk = cut /\ t.truncated = TRUE
    BY <1>6 DEF Cuttings
  <1>8. PICK d \in S : ShowsOf(s, d)
    BY DEF Shows
  <1>9. /\ c = [d EXCEPT !.sizes = c.sizes] /\ Len(c.sizes) <= Len(d.sizes)
        /\ \A k \in 1..Len(c.sizes) :
             c.sizes[k] = d.sizes[k] \/ (k = 1 /\ c.sizes[k] < d.sizes[k] /\ Len(c.sizes) = 1)
    BY <1>8 DEF ShowsOf
  <1> HIDE DEF t, c
  <1>10. ShowsOf(t, d)
    <2>1. d \in CodeChunks
      OBVIOUS
    <2>2. cut = [d EXCEPT !.sizes = cut.sizes]
      <3>1. DOMAIN d = {"path", "index", "from", "sizes", "text", "symbol", "tier", "near", "score",
                        "fragment", "strategy"}
        BY <2>1 DEF CodeChunks
      <3>2. cut = [[d EXCEPT !.sizes = c.sizes] EXCEPT !.sizes = cut.sizes]
        BY <1>6, <1>9
      <3>3. QED BY <3>1, <3>2
    <2>3. /\ Len(cut.sizes) \in Nat /\ Len(c.sizes) \in Nat /\ Len(d.sizes) \in Nat
          /\ Len(cut.sizes) # 0
          /\ \A k \in 1..Len(cut.sizes) : cut.sizes[k] \in Nat /\ cut.sizes[k] > 0
          /\ \A k \in 1..Len(c.sizes) : c.sizes[k] \in Nat
          /\ \A k \in 1..Len(d.sizes) : d.sizes[k] \in Nat
      <3>1. /\ cut.sizes \in Seq(Nat \ {0}) \ {<<>>} /\ c.sizes \in Seq(Nat \ {0}) \ {<<>>}
            /\ d.sizes \in Seq(Nat \ {0}) \ {<<>>}
        BY <1>2, <1>6, <2>1 DEF CodeChunks
      <3>2. \A z \in Seq(Nat \ {0}) \ {<<>>} :
              Len(z) \in Nat /\ Len(z) # 0 /\ \A k \in 1..Len(z) : z[k] \in Nat /\ z[k] > 0
        OBVIOUS
      <3>3. QED BY ONLY <3>1, <3>2, Zenon
    <2>4. \A k \in 1..Len(cut.sizes) : k \in 1..Len(c.sizes) /\ k \in 1..Len(d.sizes)
      BY <1>6, <1>9, <2>3
    <2>5. ASSUME NEW k \in 1..Len(cut.sizes)
          PROVE  cut.sizes[k] = d.sizes[k] \/ (k = 1 /\ cut.sizes[k] < d.sizes[k]
                                               /\ Len(cut.sizes) = 1)
      <3>1. cut.sizes[k] \in Nat /\ c.sizes[k] \in Nat /\ d.sizes[k] \in Nat
        BY <2>3, <2>4
      <3>2. c.sizes[k] = d.sizes[k] \/ (k = 1 /\ c.sizes[k] < d.sizes[k] /\ Len(c.sizes) = 1)
        BY <1>9, <2>4
      <3>3. (Len(cut.sizes) = 1 /\ k = 1 /\ cut.sizes[k] < c.sizes[k]) \/ cut.sizes[k] = c.sizes[k]
        BY <1>6, <2>5
      <3>4. k = 1 /\ Len(c.sizes) = 1 => Len(cut.sizes) = 1
        <4>1. /\ Len(cut.sizes) <= Len(c.sizes) /\ Len(cut.sizes) \in Nat /\ Len(c.sizes) \in Nat
              /\ Len(cut.sizes) # 0
          BY <1>6, <2>3
        <4>2. Len(c.sizes) = 1 => Len(cut.sizes) = 1
          <5>1. \A a, b \in Nat : a # 0 /\ a <= b /\ b = 1 => a = 1
            OBVIOUS
          <5>2. QED BY ONLY <4>1, <5>1, Zenon
        <4>3. QED BY ONLY <4>2, Zenon
      <3>5. QED BY ONLY <3>1, <3>2, <3>3, <3>4
    <2>6. Len(cut.sizes) <= Len(d.sizes)
      BY <1>6, <1>9, <2>3
    <2>7. QED BY <1>7, <2>2, <2>3, <2>5, <2>6 DEF ShowsOf
  <1>11. t \in Shows(S)
    BY <1>7, <1>10 DEF Shows
  <1>12. BlockSize(t) = Markup + Size(cut) + TruncatedMark
    BY <1>7, BlockType
  <1>13. BlockSize(t) <= room \/ (Size(cut) = 1 /\ BlockSize(t) > room)
    <2>1. Size(cut) \in Nat \ {0} /\ Size(cut) <= keep /\ keep \in Nat
      BY <1>5, <1>6
    <2>2. fit = room - Markup - TruncatedMark /\ keep = (IF 1 >= fit THEN 1 ELSE fit)
      BY <1>4
    <2>3. Markup \in Nat /\ TruncatedMark \in Nat /\ room \in Int
      BY QuestionNumbers
    <2> HIDE DEF fit
    <2>4. QED BY ONLY <1>12, <2>1, <2>2, <2>3
  <1>14. QED BY <1>3, <1>6, <1>7, <1>11, <1>13 DEF c

-----------------------------------------------------------------------------
(* The sources of a prompt, one after the other. *)

\* The sums of a list that grows.
LEMMA MoreSources ==
    ASSUME NEW list \in Seq(Cuttings), NEW s \in Cuttings
    PROVE  /\ Append(list, s) \in Seq(Cuttings) /\ Len(Append(list, s)) = Len(list) + 1
           /\ Blocks(list) \in Seq(Nat) /\ TokensOf(list) \in Seq(Nat)
           /\ Sum(Blocks(list)) \in Nat /\ Sum(TokensOf(list)) \in Nat
           /\ ContextChars(list) = Wrapper + Sum(Blocks(list))
           /\ Sum(Blocks(Append(list, s))) = Sum(Blocks(list)) + BlockSize(s)
           /\ Sum(TokensOf(Append(list, s))) = Sum(TokensOf(list)) + Tokens(BlockSize(s))
  <1> DEFINE n == Len(list)
             more == Append(list, s)
  <1>1. n \in Nat /\ more \in Seq(Cuttings) /\ Len(more) = n + 1 /\ more[n + 1] = s
        /\ \A i \in 1..n : more[i] = list[i] /\ list[i] \in Cuttings
    OBVIOUS
  <1>2. \A i \in 1..n : BlockSize(list[i]) \in Nat /\ Tokens(BlockSize(list[i])) \in Nat
    BY <1>1, BlockType
  <1>3. BlockSize(s) \in Nat /\ Tokens(BlockSize(s)) \in Nat
    BY BlockType
  <1> HIDE DEF more
  <1>4. Blocks(list) \in Seq(Nat) /\ Len(Blocks(list)) = n
        /\ TokensOf(list) \in Seq(Nat) /\ Len(TokensOf(list)) = n
    <2>1. Blocks(list) \in [1..n -> Nat] /\ TokensOf(list) \in [1..n -> Nat]
      BY <1>2 DEF Blocks, TokensOf
    <2> HIDE DEF n
    <2>2. QED BY <1>1, <2>1, IsSequence
  <1>5. Blocks(more) = Append(Blocks(list), BlockSize(s))
    <2> DEFINE now == Append(Blocks(list), BlockSize(s))
    <2>1. now \in Seq(Nat) /\ Len(now) = n + 1 /\ now[n + 1] = BlockSize(s)
          /\ \A i \in 1..n : now[i] = Blocks(list)[i]
      BY <1>3, <1>4
    <2>2. Blocks(more) \in [1..(n + 1) -> Nat] /\ \A i \in 1..(n + 1) : Blocks(more)[i] = BlockSize(more[i])
      <3>1. \A i \in 1..(n + 1) : more[i] \in Cuttings
        BY <1>1
      <3>2. \A i \in 1..(n + 1) : BlockSize(more[i]) \in Nat
        BY <3>1, BlockType
      <3>3. QED BY <1>1, <3>2 DEF Blocks
    <2>3. \A i \in 1..n : Blocks(list)[i] = BlockSize(list[i])
      BY DEF Blocks
    <2> HIDE DEF now, n
    <2>4. n + 1 \in Nat /\ \A i \in 1..(n + 1) : i \in 1..n \/ i = n + 1
      BY <1>1
    <2>5. Blocks(more) \in Seq(Nat) /\ Len(Blocks(more)) = n + 1
      BY <2>2, <2>4, IsSequence
    <2>6. \A i \in 1..(n + 1) : Blocks(more)[i] = now[i]
      BY <1>1, <2>1, <2>2, <2>3, <2>4
    <2>7. Blocks(more) = now
      BY <2>1, <2>5, <2>6, SeqEqual
    <2>8. QED BY <2>7 DEF now
  <1>6. TokensOf(more) = Append(TokensOf(list), Tokens(BlockSize(s)))
    <2> DEFINE now == Append(TokensOf(list), Tokens(BlockSize(s)))
    <2>1. now \in Seq(Nat) /\ Len(now) = n + 1 /\ now[n + 1] = Tokens(BlockSize(s))
          /\ \A i \in 1..n : now[i] = TokensOf(list)[i]
      BY <1>3, <1>4
    <2>2. TokensOf(more) \in [1..(n + 1) -> Nat] /\ \A i \in 1..(n + 1) : TokensOf(more)[i] = Tokens(BlockSize(more[i]))
      <3>1. \A i \in 1..(n + 1) : more[i] \in Cuttings
        BY <1>1
      <3>2. \A i \in 1..(n + 1) : Tokens(BlockSize(more[i])) \in Nat
        BY <3>1, BlockType
      <3>3. QED BY <1>1, <3>2 DEF TokensOf
    <2>3. \A i \in 1..n : TokensOf(list)[i] = Tokens(BlockSize(list[i]))
      BY DEF TokensOf
    <2> HIDE DEF now, n
    <2>4. n + 1 \in Nat /\ \A i \in 1..(n + 1) : i \in 1..n \/ i = n + 1
      BY <1>1
    <2>5. TokensOf(more) \in Seq(Nat) /\ Len(TokensOf(more)) = n + 1
      BY <2>2, <2>4, IsSequence
    <2>6. \A i \in 1..(n + 1) : TokensOf(more)[i] = now[i]
      BY <1>1, <2>1, <2>2, <2>3, <2>4
    <2>7. TokensOf(more) = now
      BY <2>1, <2>5, <2>6, SeqEqual
    <2>8. QED BY <2>7 DEF now
  <1>7. Sum(Blocks(more)) = Sum(Blocks(list)) + BlockSize(s)
    BY <1>3, <1>4, <1>5, SumOfMore
  <1>8. Sum(TokensOf(more)) = Sum(TokensOf(list)) + Tokens(BlockSize(s))
    BY <1>3, <1>4, <1>6, SumOfMore
  <1>9. ContextChars(list) = Wrapper + Sum(Blocks(list))
    BY DEF ContextChars, Blocks
  <1>10. QED BY <1>1, <1>4, <1>7, <1>8, <1>9, SumNat DEF more, n

\* A prompt of one source.
LEMMA OneSource ==
    ASSUME NEW s \in Cuttings
    PROVE  /\ <<s>> \in Seq(Cuttings) /\ Len(<<s>>) = 1 /\ <<s>>[1] = s
           /\ Sum(Blocks(<<s>>)) = BlockSize(s)
           /\ ContextChars(<<s>>) = Wrapper + BlockSize(s)
           /\ Sum(TokensOf(<<s>>)) = Tokens(BlockSize(s))
  <1>1. <<>> \in Seq(Cuttings) /\ <<s>> = Append(<<>>, s) /\ <<s>> \in Seq(Cuttings)
    OBVIOUS
  <1>2. Blocks(<<>>) = <<>> /\ TokensOf(<<>>) = <<>>
    BY DEF Blocks, TokensOf
  <1>3. BlockSize(s) \in Nat /\ Tokens(BlockSize(s)) \in Nat
    BY BlockType
  <1>4. /\ Sum(Blocks(Append(<<>>, s))) = Sum(Blocks(<<>>)) + BlockSize(s)
        /\ Sum(TokensOf(Append(<<>>, s))) = Sum(TokensOf(<<>>)) + Tokens(BlockSize(s))
    BY <1>1, MoreSources
  <1>5. ContextChars(<<s>>) = Wrapper + Sum(Blocks(<<s>>))
    BY <1>1, MoreSources
  <1>6. Sum(Blocks(<<s>>)) = BlockSize(s) /\ Sum(TokensOf(<<s>>)) = Tokens(BlockSize(s))
    BY <1>1, <1>2, <1>3, <1>4, SumOfNone
  <1>7. QED BY <1>1, <1>5, <1>6

-----------------------------------------------------------------------------
(* build_repository_context. *)

\* The accumulator of BuildContext, and its step.
NoSources == [sources |-> <<>>, full |-> FALSE]
AddSource(acc, s) ==
    IF acc.full THEN acc
    ELSE IF ContextChars(Append(acc.sources, s)) <= MaxContextChars
      THEN [acc EXCEPT !.sources = Append(@, s)]
    ELSE IF acc.sources # <<>> THEN [acc EXCEPT !.full = TRUE]
    ELSE [acc EXCEPT !.sources = <<Truncate(s, MaxContextChars - Wrapper)>>]

\* What is built of the first m of the ranked sources.
Building(S) == [sources : Seq(Shows(S)), full : BOOLEAN]
\* The limit holds, and every source takes no more than when it was ranked; or only one
\* character is left.
FitsChars(list, ranked) ==
    \/ /\ ContextChars(list) <= MaxContextChars
       /\ \A i \in 1..Len(list) : BlockSize(list[i]) <= BlockSize(ranked[i])
    \/ /\ Len(list) = 1 /\ Size(list[1].chunk) = 1
       /\ ContextChars(list) > MaxContextChars
BuiltOf(list, full, ranked, m) ==
    /\ Len(list) <= m /\ (~full => Len(list) = m) /\ (m > 0 \/ full => Len(list) > 0)
    /\ \A i \in 1..Len(list) : Size(list[i].chunk) <= Size(ranked[i].chunk)
    /\ list # <<>> => FitsChars(list, ranked)

\* What is shown is a chunk or a cut one.
LEMMA ShowsType ==
    ASSUME NEW S
    PROVE  Shows(S) \subseteq Cuttings /\ Seq(Shows(S)) \subseteq Seq(Cuttings)
  <1>1. Shows(S) \subseteq Cuttings
    BY DEF Shows
  <1>2. QED BY <1>1, SeqMonotonic

\* One more source, or none, or the first one cut.
LEMMA AddSourceKeeps ==
    ASSUME NEW S \in SUBSET CodeChunks, NEW ranked \in Seq(Shows(S)), NEW m \in 1..Len(ranked),
           NEW acc \in Building(S), BuiltOf(acc.sources, acc.full, ranked, m - 1)
    PROVE  LET new == AddSource(acc, ranked[m])
           IN new \in Building(S) /\ BuiltOf(new.sources, new.full, ranked, m)
  <1> DEFINE s == ranked[m]
             list == acc.sources
             n == Len(list)
             more == Append(list, s)
             room == MaxContextChars - Wrapper
             new == AddSource(acc, s)
             Goal == new \in Building(S) /\ BuiltOf(new.sources, new.full, ranked, m)
  <1> SUFFICES Goal
    OBVIOUS
  <1> HIDE DEF Goal
  <1>1. s \in Shows(S) /\ s \in Cuttings /\ m \in Nat \ {0} /\ m - 1 \in Nat
    <2>1. s \in Shows(S) /\ m \in Nat \ {0} /\ m - 1 \in Nat
      OBVIOUS
    <2>2. QED BY <2>1, ShowsType
  <1>2. /\ acc = [sources |-> list, full |-> acc.full] /\ acc.full \in BOOLEAN
        /\ list \in Seq(Shows(S)) /\ list \in Seq(Cuttings) /\ n \in Nat
        /\ \A i \in 1..n : list[i] \in Cuttings
    <2>1. acc = [sources |-> list, full |-> acc.full] /\ acc.full \in BOOLEAN /\ list \in Seq(Shows(S))
      BY DEF Building
    <2>2. list \in Seq(Cuttings)
      BY <2>1, ShowsType
    <2>3. QED BY <2>1, <2>2
  <1>3. /\ n <= m - 1 /\ (~acc.full => n = m - 1) /\ (m - 1 > 0 \/ acc.full => n > 0)
        /\ \A i \in 1..n : Size(list[i].chunk) <= Size(ranked[i].chunk)
        /\ list # <<>> => FitsChars(list, ranked)
    BY DEF BuiltOf
  <1>4. /\ more \in Seq(Shows(S)) /\ Len(more) = n + 1 /\ more[n + 1] = s
        /\ \A i \in 1..n : more[i] = list[i]
    BY <1>1, <1>2
  <1>5. /\ ContextChars(list) = Wrapper + Sum(Blocks(list)) /\ Sum(Blocks(list)) \in Nat
        /\ ContextChars(more) = Wrapper + Sum(Blocks(list)) + BlockSize(s)
    <2>1. more \in Seq(Cuttings)
      BY <1>4, ShowsType
    <2> HIDE DEF more
    <2>2. ContextChars(more) = Wrapper + Sum(Blocks(more))
      BY <1>1, <2>1, MoreSources
    <2>3. ContextChars(list) = Wrapper + Sum(Blocks(list)) /\ Sum(Blocks(list)) \in Nat
          /\ Sum(Blocks(more)) = Sum(Blocks(list)) + BlockSize(s)
      BY <1>1, <1>2, MoreSources DEF more
    <2>4. BlockSize(s) \in Nat
      BY <1>1, BlockType
    <2>5. QED BY ONLY <2>2, <2>3, <2>4, QuestionNumbers
  <1>6. /\ BlockSize(s) \in Nat /\ ContextChars(list) \in Nat /\ MaxContextChars \in Nat
        /\ Wrapper \in Nat /\ Size(s.chunk) \in Nat
    <2>1. BlockSize(s) \in Nat /\ Size(s.chunk) \in Nat
      BY <1>1, BlockType
    <2>2. QED BY ONLY <1>5, <2>1, QuestionNumbers
  <1>7. ASSUME NEW all \in Seq(Shows(S)), NEW full \in BOOLEAN,
               new = [sources |-> all, full |-> full], BuiltOf(all, full, ranked, m)
        PROVE  Goal
    <2> HIDE DEF new
    <2>1. new \in Building(S) /\ new.sources = all /\ new.full = full
      BY <1>7 DEF Building
    <2>2. QED BY <1>7, <2>1 DEF Goal
  <1>8. new = IF acc.full THEN acc
              ELSE IF ContextChars(more) <= MaxContextChars THEN [sources |-> more, full |-> acc.full]
              ELSE IF list # <<>> THEN [sources |-> list, full |-> TRUE]
              ELSE [sources |-> <<Truncate(s, room)>>, full |-> acc.full]
    <2>1. new = IF acc.full THEN acc
              ELSE IF ContextChars(more) <= MaxContextChars THEN [acc EXCEPT !.sources = more]
              ELSE IF list # <<>> THEN [acc EXCEPT !.full = TRUE]
              ELSE [acc EXCEPT !.sources = <<Truncate(s, room)>>]
      BY DEF AddSource
    <2>2. /\ [acc EXCEPT !.sources = more] = [sources |-> more, full |-> acc.full]
          /\ [acc EXCEPT !.full = TRUE] = [sources |-> list, full |-> TRUE]
          /\ [acc EXCEPT !.sources = <<Truncate(s, room)>>] =
               [sources |-> <<Truncate(s, room)>>, full |-> acc.full]
      <3> HIDE DEF more, s, room
      <3>1. ASSUME NEW q PROVE [acc EXCEPT !.sources = q] = [sources |-> q, full |-> acc.full]
        BY DEF Building
      <3>2. [acc EXCEPT !.full = TRUE] = [sources |-> list, full |-> TRUE]
        <4>1. ASSUME NEW q PROVE [acc EXCEPT !.full = q] = [sources |-> list, full |-> q]
          BY DEF Building
        <4>2. QED BY <4>1
      <3>3. QED BY <3>1, <3>2
    <2> HIDE DEF new
    <2>3. QED BY <2>1, <2>2
  <1>9. n = 0 <=> list = <<>>
    BY <1>2
  <1> HIDE DEF new, more, list, n, room, s
  <1>10. CASE acc.full \/ (ContextChars(more) > MaxContextChars /\ list # <<>>)
    <2>1. new = [sources |-> list, full |-> TRUE]
      <3>1. CASE acc.full
        <4>1. new = acc /\ acc = [sources |-> list, full |-> acc.full] /\ acc.full = TRUE
          BY <1>2, <1>8, <3>1
        <4>2. QED BY ONLY <4>1
      <3>2. CASE ~acc.full /\ ContextChars(more) > MaxContextChars /\ list # <<>>
        <4>1. ~(ContextChars(more) <= MaxContextChars)
          <5>1. ContextChars(more) \in Nat
            BY ONLY <1>5, <1>6
          <5>2. QED BY ONLY <1>6, <3>2, <5>1
        <4>2. QED BY <1>8, <3>2, <4>1
      <3>3. QED BY <1>10, <3>1, <3>2
    <2>2. n > 0 /\ n <= m
      <3>1. n # 0
        BY <1>3, <1>9, <1>10
      <3>2. QED BY ONLY <1>1, <1>2, <1>3, <3>1
    <2>3. FitsChars(list, ranked)
      BY <1>3, <1>9, <2>2
    <2>4. BuiltOf(list, TRUE, ranked, m)
      BY <1>3, <2>2, <2>3 DEF BuiltOf, n
    <2>5. QED BY <1>2, <1>7, <2>1, <2>4
  <1>11. CASE ~acc.full /\ ContextChars(more) <= MaxContextChars
    <2>1. new = [sources |-> more, full |-> FALSE] /\ n = m - 1
      BY <1>2, <1>3, <1>8, <1>11
    <2>2. Len(more) = m /\ more[m] = s /\ \A i \in 1..m : (i \in 1..n /\ more[i] = list[i]) \/ i = m
      BY <1>1, <1>2, <1>4, <2>1
    <2>3. list # <<>> => \A i \in 1..n : BlockSize(list[i]) <= BlockSize(ranked[i])
      <3>1. ContextChars(list) <= MaxContextChars
        BY <1>5, <1>6, <1>11
      <3>2. QED BY <1>3, <1>6, <3>1 DEF FitsChars, n
    <2>4. \A i \in 1..m : BlockSize(more[i]) <= BlockSize(ranked[i])
      <3>1. \A i \in 1..n : list # <<>>
        BY <1>9
      <3>2. BlockSize(s) <= BlockSize(s) /\ s = ranked[m]
        BY <1>6 DEF s
      <3>3. QED BY ONLY <2>2, <2>3, <3>1, <3>2, Zenon
    <2>5. \A i \in 1..m : Size(more[i].chunk) <= Size(ranked[i].chunk)
      <3>1. Size(s.chunk) <= Size(s.chunk) /\ s = ranked[m]
        BY <1>6 DEF s
      <3>2. QED BY ONLY <1>3, <2>2, <3>1, Zenon
    <2>6. FitsChars(more, ranked)
      BY <1>11, <2>2, <2>4 DEF FitsChars
    <2>7. BuiltOf(more, FALSE, ranked, m)
      BY <1>1, <2>2, <2>5, <2>6 DEF BuiltOf
    <2>8. QED BY <1>4, <1>7, <2>1, <2>7
  <1>12. CASE ~acc.full /\ ContextChars(more) > MaxContextChars /\ list = <<>>
    <2> DEFINE t == Truncate(s, room)
    <2>1. n = 0 /\ m = 1
      BY <1>1, <1>3, <1>9, <1>12
    <2>2. BlockSize(s) > room /\ room \in Int
      <3>1. Blocks(list) = <<>>
        BY <1>12 DEF Blocks
      <3>2. Sum(Blocks(list)) = 0
        BY <3>1, SumOfNone
      <3>3. QED BY ONLY <1>5, <1>6, <1>12, <3>2 DEF room
    <2>3. /\ t \in Shows(S) /\ Size(t.chunk) <= Size(s.chunk)
          /\ \/ BlockSize(t) <= room
             \/ Size(t.chunk) = 1 /\ BlockSize(t) > room
      BY <1>1, <2>2, TruncateFacts
    <2>4. new = [sources |-> <<t>>, full |-> FALSE]
      <3>1. ~(ContextChars(more) <= MaxContextChars)
        <4>1. ContextChars(more) \in Nat
          BY ONLY <1>5, <1>6
        <4>2. QED BY ONLY <1>6, <1>12, <4>1
      <3>2. QED BY <1>2, <1>8, <1>12, <3>1
    <2> HIDE DEF t
    <2>5. t \in Cuttings
      BY <2>3, ShowsType
    <2>6. /\ <<t>> \in Seq(Shows(S)) /\ Len(<<t>>) = 1 /\ <<t>>[1] = t
          /\ ContextChars(<<t>>) = Wrapper + BlockSize(t) /\ BlockSize(t) \in Nat
      BY <2>3, <2>5, OneSource, BlockType
    <2>7. s = ranked[1] /\ \A i \in 1..1 : i = 1
      BY <2>1 DEF s
    <2>8. BlockSize(t) <= room => ContextChars(<<t>>) <= MaxContextChars /\ BlockSize(t) <= BlockSize(s)
      BY ONLY <1>6, <2>2, <2>6 DEF room
    <2>9. BlockSize(t) > room => ContextChars(<<t>>) > MaxContextChars
      BY ONLY <1>6, <2>2, <2>6 DEF room
    <2>10. FitsChars(<<t>>, ranked)
      <3>1. CASE BlockSize(t) <= room
        <4>1. \A i \in 1..1 : BlockSize(<<t>>[i]) <= BlockSize(ranked[i])
          BY <2>6, <2>7, <2>8, <3>1
        <4>2. QED BY <2>6, <2>8, <3>1, <4>1 DEF FitsChars
      <3>2. CASE Size(t.chunk) = 1 /\ BlockSize(t) > room
        BY <2>6, <2>9, <3>2 DEF FitsChars
      <3>3. QED BY <2>3, <3>1, <3>2
    <2>11. BuiltOf(<<t>>, FALSE, ranked, m)
      <3>1. \A i \in 1..1 : Size(<<t>>[i].chunk) <= Size(ranked[i].chunk)
        BY <2>3, <2>6, <2>7
      <3>2. QED BY <2>1, <2>6, <2>10, <3>1 DEF BuiltOf
    <2>12. QED BY <1>7, <2>4, <2>6, <2>11
  <1>13. ContextChars(more) <= MaxContextChars \/ ContextChars(more) > MaxContextChars
    BY ONLY <1>5, <1>6
  <1>14. QED BY <1>10, <1>11, <1>12, <1>13

\* What is cut from a shown chunk is shown of the same chunk.
LEMMA TruncateType ==
    ASSUME NEW S \in SUBSET CodeChunks, NEW s \in Shows(S), NEW room \in Int
    PROVE  Truncate(s, room) \in Shows(S)
  <1>1. s \in Cuttings
    BY ShowsType
  <1>2. BlockSize(s) \in Nat
    BY <1>1, BlockType
  <1>3. CASE BlockSize(s) <= room
    BY <1>3 DEF Truncate
  <1>4. CASE BlockSize(s) > room
    BY <1>4, TruncateFacts
  <1>5. QED BY <1>2, <1>3, <1>4

\* The context that is built holds nothing but what is shown.
LEMMA AddSourceType ==
    ASSUME NEW S \in SUBSET CodeChunks, NEW s \in Shows(S), NEW acc \in Building(S)
    PROVE  AddSource(acc, s) \in Building(S)
  <1> DEFINE t == Truncate(s, MaxContextChars - Wrapper)
  <1>1. t \in Shows(S)
    BY QuestionNumbers, TruncateType
  <1> HIDE DEF t
  <1>2. acc.sources \in Seq(Shows(S)) /\ Append(acc.sources, s) \in Seq(Shows(S)) /\ <<t>> \in Seq(Shows(S))
    BY <1>1 DEF Building
  <1>3. \A all \in Seq(Shows(S)) : [acc EXCEPT !.sources = all] \in Building(S)
    BY DEF Building
  <1>4. \A full \in BOOLEAN : [acc EXCEPT !.full = full] \in Building(S)
    BY DEF Building
  <1>5. AddSource(acc, s) = IF acc.full THEN acc
          ELSE IF ContextChars(Append(acc.sources, s)) <= MaxContextChars
            THEN [acc EXCEPT !.sources = Append(acc.sources, s)]
          ELSE IF acc.sources # <<>> THEN [acc EXCEPT !.full = TRUE]
          ELSE [acc EXCEPT !.sources = <<t>>]
    BY DEF AddSource, t
  <1>6. TRUE \in BOOLEAN
    OBVIOUS
  <1>7. QED BY ONLY <1>2, <1>3, <1>4, <1>5, <1>6, acc \in Building(S), Zenon

\* The accumulator after each of the sources.
BuildRun(run, ranked, S) ==
    /\ run \in [0..Len(ranked) -> Building(S)] /\ run[0] = NoSources
    /\ \A m \in 1..Len(ranked) : run[m] = AddSource(run[m - 1], ranked[m])

\* The context is what the accumulator holds after the last source.
LEMMA ContextIsFolded ==
    ASSUME NEW S \in SUBSET CodeChunks, NEW ranked \in Seq(Shows(S))
    PROVE  \E run : BuildRun(run, ranked, S) /\ BuildContext(ranked) = run[Len(ranked)].sources
  <1> DEFINE n == Len(ranked)
             Accs == Building(S)
             step0 == [p \in Accs \X (1..n) |-> AddSource(p[1], ranked[p[2]])]
             Body(g) == [s \in SUBSET DOMAIN ranked |->
                          IF s = {} THEN NoSources
                                    ELSE AddSource(g[s \ {Max(s)}], ranked[Max(s)])]
             It == CHOOSE g : g = Body(g)
  <1>1. n \in Nat /\ DOMAIN ranked = 1..n /\ \A i \in 1..n : ranked[i] \in Shows(S)
    OBVIOUS
  <1>2. BuildContext(ranked) = It[DOMAIN ranked].sources
    BY DEF BuildContext, FoldLeft, MapThenFoldSet, AddSource, NoSources
  <1> HIDE DEF n
  <1>3. step0 \in [Accs \X (1..n) -> Accs] /\ NoSources \in Accs
    <2>1. \A p \in Accs \X (1..n) : AddSource(p[1], ranked[p[2]]) \in Accs
      <3> SUFFICES ASSUME NEW acc \in Accs, NEW i \in 1..n PROVE AddSource(acc, ranked[i]) \in Accs
        OBVIOUS
      <3>1. QED BY <1>1, AddSourceType
    <2>2. NoSources \in Accs
      <3>1. <<>> \in Seq(Shows(S))
        OBVIOUS
      <3>2. QED BY <3>1 DEF NoSources, Building
    <2>3. QED BY ONLY <2>1, <2>2
  <1> HIDE DEF Accs
  <1>4. PICK f \in [SUBSET (1..n) -> Accs] : FoldOf(f, n, NoSources, step0)
    <2> HIDE DEF step0
    <2>1. QED BY <1>1, <1>3, FoldExists
  <1>5. f = Body(f)
    <2>1. \A s \in SUBSET (1..n) : s # {} =>
            s \ {Max(s)} \in SUBSET (1..n) /\ Max(s) \in 1..n
      BY <1>1, MaxOfFinite
    <2>2. \A s \in SUBSET (1..n) : s # {} =>
            f[s] = AddSource(f[s \ {Max(s)}], ranked[Max(s)])
      BY <1>4, <2>1 DEF FoldOf
    <2>3. f[{}] = NoSources
      BY <1>4 DEF FoldOf
    <2>4. QED BY <1>1, <2>2, <2>3
  <1>6. It = Body(It)
    <2> HIDE DEF Body
    <2>1. QED BY <1>5
  <1>7. It[{}] = NoSources /\ \A m \in 1..n : It[1..m] = AddSource(It[1..(m - 1)], ranked[m])
    <2>1. \A s \in SUBSET (1..n) :
            It[s] = IF s = {} THEN NoSources
                              ELSE AddSource(It[s \ {Max(s)}], ranked[Max(s)])
      BY <1>1, <1>6
    <2>2. \A m \in 1..n : m \in Nat /\ m # 0 /\ 1..m \subseteq 1..n /\ m \in 1..m
      BY <1>1
    <2> HIDE DEF It
    <2>3. It[{}] = NoSources
      BY ONLY <2>1, Zenon
    <2>4. ASSUME NEW m \in 1..n PROVE It[1..m] = AddSource(It[1..(m - 1)], ranked[m])
      <3>1. 1..m # {} /\ Max(1..m) = m /\ (1..m) \ {Max(1..m)} = 1..(m - 1) /\ 1..m \in SUBSET (1..n)
        BY <2>2, <2>4, MaxOfInterval
      <3>2. It[1..m] = AddSource(It[(1..m) \ {Max(1..m)}], ranked[Max(1..m)])
        BY ONLY <2>1, <3>1, Zenon
      <3>3. QED BY ONLY <3>1, <3>2, Zenon
    <2>5. QED BY <2>3, <2>4
  <1> HIDE DEF Body, It
  <1>8. GoesOn(It, n, Accs, NoSources, step0)
    BY <1>7 DEF GoesOn
  <1> DEFINE run == RunOf(It, n)
  <1>9. FoldRun(run, n, Accs, NoSources, step0) /\ It[1..n] = run[n]
    <2> HIDE DEF step0
    <2>1. FoldRun(run, n, Accs, NoSources, step0)
      BY <1>1, <1>3, <1>8, FoldReached
    <2>2. QED BY <1>1, <2>1 DEF RunOf
  <1> HIDE DEF run
  <1>10. BuildRun(run, ranked, S)
    <2>1. \A m \in 1..n : m - 1 \in 0..n
      BY <1>1
    <2>2. QED BY <1>9, <2>1 DEF FoldRun, BuildRun, n, Accs
  <1>11. QED BY <1>1, <1>2, <1>9, <1>10 DEF n

\* The context is a beginning of the ranked sources, within the limit or one character.
LEMMA ContextFacts ==
    ASSUME NEW S \in SUBSET CodeChunks, NEW ranked \in Seq(Shows(S)), ranked # <<>>
    PROVE  LET list == BuildContext(ranked) IN
           /\ list \in Seq(Shows(S)) /\ list # <<>> /\ Len(list) <= Len(ranked)
           /\ \A i \in 1..Len(list) : Size(list[i].chunk) <= Size(ranked[i].chunk)
           /\ FitsChars(list, ranked)
  <1> DEFINE n == Len(ranked)
  <1>1. n \in Nat /\ n > 0
    OBVIOUS
  <1>2. PICK run : BuildRun(run, ranked, S) /\ BuildContext(ranked) = run[n].sources
    BY ContextIsFolded
  <1> DEFINE Good(m) == run[m] \in Building(S) /\ BuiltOf(run[m].sources, run[m].full, ranked, m)
             T == {m \in Nat : m <= n => Good(m)}
  <1>3. 0 \in T
    <2>1. run[0].sources = <<>> /\ ~run[0].full /\ run[0] \in Building(S)
      <3>1. NoSources.sources = <<>> /\ ~NoSources.full
        BY DEF NoSources
      <3>2. run[0] = NoSources /\ run[0] \in Building(S)
        BY <1>1, <1>2 DEF BuildRun
      <3>3. QED BY ONLY <3>1, <3>2, Zenon
    <2>2. BuiltOf(run[0].sources, run[0].full, ranked, 0)
      BY <2>1 DEF BuiltOf
    <2>3. QED BY <2>1, <2>2
  <1>4. \A m \in Nat : m \in T => m + 1 \in T
    <2> SUFFICES ASSUME NEW m \in Nat, Good(m), m + 1 <= n PROVE Good(m + 1)
      <3>1. \A m \in Nat : m + 1 <= n => m <= n
        BY <1>1
      <3> HIDE DEF Good
      <3>2. QED BY <3>1
    <2>1. m + 1 \in 1..n /\ (m + 1) - 1 = m
      BY <1>1
    <2>2. run[m + 1] = AddSource(run[m], ranked[m + 1])
      BY <1>2, <2>1 DEF BuildRun
    <2>3. QED BY <2>1, <2>2, AddSourceKeeps
  <1> HIDE DEF T
  <1>5. n \in T
    BY <1>1, <1>3, <1>4, NumbersAllIn
  <1>6. Good(n)
    BY <1>1, <1>5 DEF T
  <1>7. run[n].sources \in Seq(Shows(S))
    BY <1>6 DEF Building
  <1>8. BuiltOf(run[n].sources, run[n].full, ranked, n)
    BY <1>6
  <1>9. run[n].sources # <<>>
    <2>1. Len(run[n].sources) > 0
      BY <1>1, <1>8 DEF BuiltOf
    <2>2. QED BY <1>7, <2>1
  <1>10. QED BY <1>2, <1>7, <1>8, <1>9 DEF BuiltOf

-----------------------------------------------------------------------------
(* assemble_context. *)

\* The accumulator of Pack, and its step.
NothingPacked == [sources |-> <<>>, tokens |-> 0]
PackSource(acc, s, seeds) ==
    LET fits == acc.tokens + Tokens(BlockSize(s)) <= BudgetTokens
        cut  == Truncate(s, 4 * BudgetTokens)
    IN IF ~(s.chunk \in ToSet(seeds))
            /\ \E k \in ToSet(acc.sources) : Contained(s.chunk, k.chunk) THEN acc
       ELSE IF fits THEN [sources |-> Append(acc.sources, s),
                          tokens |-> acc.tokens + Tokens(BlockSize(s))]
       ELSE IF acc.sources # <<>> THEN acc
       ELSE [sources |-> <<cut>>, tokens |-> Tokens(BlockSize(cut))]

\* What is packed, and what it takes.
Packing(S) == [sources : Seq(Shows(S)), tokens : Nat]
FitsTokens(list) ==
    \/ Sum(TokensOf(list)) <= BudgetTokens
    \/ Len(list) = 1 /\ Size(list[1].chunk) = 1 /\ Sum(TokensOf(list)) > BudgetTokens
PackedOf(acc, m) ==
    /\ m > 0 => acc.sources # <<>>
    /\ acc.tokens = Sum(TokensOf(acc.sources))
    /\ FitsTokens(acc.sources)

\* One more source is packed, or none, or the very first one cut.
LEMMA PackSourceKeeps ==
    ASSUME NEW S \in SUBSET CodeChunks, NEW s \in Shows(S), NEW seeds, NEW m \in Nat \ {0},
           NEW acc \in Packing(S)
    PROVE  /\ PackSource(acc, s, seeds) \in Packing(S)
           /\ PackedOf(acc, m - 1) => PackedOf(PackSource(acc, s, seeds), m)
  <1> DEFINE list == acc.sources
             more == Append(list, s)
             cut == Truncate(s, 4 * BudgetTokens)
             held == ~(s.chunk \in ToSet(seeds)) /\ \E k \in ToSet(list) : Contained(s.chunk, k.chunk)
             price == Tokens(BlockSize(s))
             new == PackSource(acc, s, seeds)
             more0 == [sources |-> more, tokens |-> acc.tokens + price]
             cut0 == [sources |-> <<cut>>, tokens |-> Tokens(BlockSize(cut))]
  <1>1. s \in Cuttings /\ list \in Seq(Shows(S)) /\ list \in Seq(Cuttings) /\ acc.tokens \in Nat
    <2>1. list \in Seq(Shows(S)) /\ acc.tokens \in Nat
      BY DEF Packing
    <2>2. QED BY <2>1, ShowsType
  <1>2. /\ cut \in Shows(S) /\ cut \in Cuttings
        /\ price \in Nat /\ Tokens(BlockSize(cut)) \in Nat
        /\ 4 * BudgetTokens \in Int /\ BudgetTokens \in Nat
    <2>1. 4 * BudgetTokens \in Int /\ BudgetTokens \in Nat
      BY QuestionNumbers
    <2>2. cut \in Shows(S)
      BY <2>1, TruncateType
    <2>3. cut \in Cuttings
      BY <2>2, ShowsType
    <2> HIDE DEF cut
    <2>4. price \in Nat /\ Tokens(BlockSize(cut)) \in Nat
      BY <1>1, <2>3, BlockType
    <2>5. QED BY <2>1, <2>2, <2>3, <2>4
  <1>3. new = IF held THEN acc
              ELSE IF acc.tokens + price <= BudgetTokens THEN more0
              ELSE IF list # <<>> THEN acc
              ELSE cut0
    BY DEF PackSource
  <1>4. more0 \in Packing(S) /\ more0.sources = more /\ more0.tokens = acc.tokens + price
        /\ more # <<>>
    <2>1. more \in Seq(Shows(S)) /\ acc.tokens + price \in Nat /\ more # <<>>
      BY <1>1, <1>2
    <2> HIDE DEF more, price
    <2>2. QED BY <2>1 DEF Packing
  <1>5. cut0 \in Packing(S) /\ cut0.sources = <<cut>> /\ cut0.tokens = Tokens(BlockSize(cut))
    <2>1. <<cut>> \in Seq(Shows(S))
      BY <1>2
    <2> HIDE DEF cut
    <2>2. QED BY <1>2, <2>1 DEF Packing
  <1>6. Sum(TokensOf(more)) = Sum(TokensOf(list)) + price /\ Sum(TokensOf(list)) \in Nat
    BY <1>1, MoreSources
  <1>7. Sum(TokensOf(<<cut>>)) = Tokens(BlockSize(cut)) /\ Len(<<cut>>) = 1 /\ <<cut>>[1] = cut
    BY <1>2, OneSource
  <1> HIDE DEF more0, cut0, new, more, held
  <1>8. new \in Packing(S)
    BY <1>3, <1>4, <1>5
  <1>9. ASSUME PackedOf(acc, m - 1) PROVE PackedOf(new, m)
    <2>1. /\ acc.tokens = Sum(TokensOf(list)) /\ FitsTokens(list)
          /\ m - 1 > 0 => list # <<>>
      BY <1>9 DEF PackedOf
    <2>2. CASE new = acc /\ list # <<>>
      BY <2>1, <2>2 DEF PackedOf
    <2>3. CASE new = more0 /\ acc.tokens + price <= BudgetTokens
      <3>1. Sum(TokensOf(more)) <= BudgetTokens
        BY <1>6, <2>1, <2>3
      <3>2. FitsTokens(more)
        BY <3>1 DEF FitsTokens
      <3>3. more0.tokens = Sum(TokensOf(more))
        BY <1>4, <1>6, <2>1
      <3>4. QED BY <1>4, <2>3, <3>2, <3>3 DEF PackedOf
    <2>4. CASE new = cut0 /\ list = <<>> /\ ~(acc.tokens + price <= BudgetTokens)
      <3>1. acc.tokens = 0
        <4>1. TokensOf(list) = <<>>
          BY <2>4 DEF TokensOf
        <4>2. QED BY <2>1, <4>1, SumOfNone
      <3>2. ~(price <= BudgetTokens)
        BY <1>2, <2>4, <3>1
      <3>3. BlockSize(s) > 4 * BudgetTokens
        <4>1. BlockSize(s) \in Nat /\ ~(BlockSize(s) <= 4 * BudgetTokens)
          BY <1>1, <3>2, BlockType
        <4>2. QED BY <1>2, <4>1
      <3>4. \/ BlockSize(cut) <= 4 * BudgetTokens
            \/ Size(cut.chunk) = 1 /\ BlockSize(cut) > 4 * BudgetTokens
        BY <1>2, <3>3, TruncateFacts
      <3> HIDE DEF cut
      <3>5. BlockSize(cut) \in Nat /\ (Tokens(BlockSize(cut)) <= BudgetTokens <=> BlockSize(cut) <= 4 * BudgetTokens)
        BY <1>2, BlockType
      <3>6. \/ Tokens(BlockSize(cut)) <= BudgetTokens
            \/ Size(cut.chunk) = 1 /\ Tokens(BlockSize(cut)) > BudgetTokens
        <4>1. CASE BlockSize(cut) <= 4 * BudgetTokens
          BY <3>5, <4>1
        <4>2. CASE Size(cut.chunk) = 1 /\ BlockSize(cut) > 4 * BudgetTokens
          <5>1. ~(BlockSize(cut) <= 4 * BudgetTokens)
            BY <1>2, <3>5, <4>2
          <5>2. ~(Tokens(BlockSize(cut)) <= BudgetTokens)
            BY <3>5, <5>1
          <5>3. QED BY <1>2, <4>2, <5>2
        <4>3. QED BY <3>4, <4>1, <4>2
      <3>7. FitsTokens(<<cut>>)
        BY <1>7, <3>6 DEF FitsTokens
      <3>8. <<cut>> # <<>>
        OBVIOUS
      <3>9. QED BY <1>5, <1>7, <2>4, <3>7, <3>8 DEF PackedOf
    <2>5. held => list # <<>>
      <3>1. list = <<>> => ToSet(list) = {}
        BY DEF ToSet
      <3>2. QED BY <3>1 DEF held
    <2>6. QED BY <1>3, <2>2, <2>3, <2>4, <2>5
  <1>10. QED BY <1>8, <1>9 DEF new

\* A whole chunk shows itself.
LEMMA WholeShows ==
    ASSUME NEW S \in SUBSET CodeChunks, NEW c \in S
    PROVE  Whole(c) \in Shows(S)
  <1> DEFINE s == Whole(c)
  <1>1. s.chunk = c /\ s \in Cuttings /\ c \in CodeChunks
    BY DEF Whole, Cuttings
  <1>2. c.sizes \in Seq(Nat \ {0}) \ {<<>>}
    BY <1>1 DEF CodeChunks
  <1>3. Len(c.sizes) <= Len(c.sizes) /\ \A k \in 1..Len(c.sizes) : c.sizes[k] > 0
    BY <1>2
  <1>4. c = [c EXCEPT !.sizes = c.sizes]
    BY <1>1 DEF CodeChunks
  <1> HIDE DEF s
  <1>5. ShowsOf(s, c)
    BY <1>1, <1>3, <1>4 DEF ShowsOf
  <1>6. s \in Shows(S)
    BY <1>1, <1>5 DEF Shows
  <1>7. QED BY <1>6 DEF s

\* Every chunk of a list, as a source.
Wholes(list) == [i \in 1..Len(list) |-> Whole(list[i])]

\* Every list of chunks can be shown.
LEMMA WholesShow ==
    ASSUME NEW S \in SUBSET CodeChunks, NEW list \in Seq(S)
    PROVE  Wholes(list) \in Seq(Shows(S)) /\ Len(Wholes(list)) = Len(list)
  <1>1. Len(list) \in Nat /\ \A i \in 1..Len(list) : list[i] \in S
    OBVIOUS
  <1>2. \A i \in 1..Len(list) : Whole(list[i]) \in Shows(S)
    BY <1>1, WholeShows
  <1>3. Wholes(list) \in [1..Len(list) -> Shows(S)]
    BY <1>2 DEF Wholes
  <1>4. QED BY <1>1, <1>3, IsSequence

\* The accumulator after each of the chunks.
PackRun(run, all, seeds, S) ==
    /\ run \in [0..Len(all) -> Packing(S)] /\ run[0] = NothingPacked
    /\ \A m \in 1..Len(all) : run[m] = PackSource(run[m - 1], all[m], seeds)

\* What is packed is what the accumulator holds after the last chunk.
LEMMA PackIsFolded ==
    ASSUME NEW S \in SUBSET CodeChunks, NEW seeds, NEW neighbours,
           NEW all \in Seq(Shows(S)), all = Wholes(seeds \o neighbours)
    PROVE  \E run : PackRun(run, all, seeds, S) /\ Pack(seeds, neighbours) = run[Len(all)].sources
  <1> DEFINE n == Len(all)
             Accs == Packing(S)
             step0 == [p \in Accs \X (1..n) |-> PackSource(p[1], all[p[2]], seeds)]
             Body(g) == [s \in SUBSET DOMAIN all |->
                          IF s = {} THEN NothingPacked
                                    ELSE PackSource(g[s \ {Max(s)}], all[Max(s)], seeds)]
             It == CHOOSE g : g = Body(g)
  <1>1. n \in Nat /\ DOMAIN all = 1..n /\ \A i \in 1..n : all[i] \in Shows(S)
    OBVIOUS
  <1>2. Pack(seeds, neighbours) = It[DOMAIN all].sources
    <2> DEFINE same == Wholes(seeds \o neighbours)
               AsIt == CHOOSE g : g = [s \in SUBSET DOMAIN same |->
                                        IF s = {} THEN NothingPacked
                                        ELSE PackSource(g[s \ {Max(s)}], same[Max(s)], seeds)]
    <2>1. Pack(seeds, neighbours) = AsIt[DOMAIN same].sources
      BY DEF Pack, FoldLeft, MapThenFoldSet, PackSource, NothingPacked, Wholes
    <2>2. same = all
      OBVIOUS
    <2> HIDE DEF same
    <2>3. AsIt = It
      BY <2>2
    <2> HIDE DEF AsIt, It
    <2>4. QED BY <2>1, <2>2, <2>3
  <1> HIDE DEF n
  <1>3. step0 \in [Accs \X (1..n) -> Accs] /\ NothingPacked \in Accs
    <2>1. \A p \in Accs \X (1..n) : PackSource(p[1], all[p[2]], seeds) \in Accs
      <3> SUFFICES ASSUME NEW acc \in Accs, NEW i \in 1..n PROVE PackSource(acc, all[i], seeds) \in Accs
        OBVIOUS
      <3>1. 1 \in Nat \ {0}
        OBVIOUS
      <3>2. QED BY <1>1, <3>1, PackSourceKeeps
    <2>2. NothingPacked \in Accs
      <3>1. <<>> \in Seq(Shows(S))
        OBVIOUS
      <3>2. QED BY <3>1 DEF NothingPacked, Packing
    <2>3. QED BY ONLY <2>1, <2>2
  <1> HIDE DEF Accs
  <1>4. PICK f \in [SUBSET (1..n) -> Accs] : FoldOf(f, n, NothingPacked, step0)
    <2> HIDE DEF step0
    <2>1. QED BY <1>1, <1>3, FoldExists
  <1>5. f = Body(f)
    <2>1. \A s \in SUBSET (1..n) : s # {} =>
            s \ {Max(s)} \in SUBSET (1..n) /\ Max(s) \in 1..n
      BY <1>1, MaxOfFinite
    <2>2. \A s \in SUBSET (1..n) : s # {} =>
            f[s] = PackSource(f[s \ {Max(s)}], all[Max(s)], seeds)
      BY <1>4, <2>1 DEF FoldOf
    <2>3. f[{}] = NothingPacked
      BY <1>4 DEF FoldOf
    <2>4. QED BY <1>1, <2>2, <2>3
  <1>6. It = Body(It)
    <2> HIDE DEF Body
    <2>1. QED BY <1>5
  <1>7. It[{}] = NothingPacked
        /\ \A m \in 1..n : It[1..m] = PackSource(It[1..(m - 1)], all[m], seeds)
    <2>1. \A s \in SUBSET (1..n) :
            It[s] = IF s = {} THEN NothingPacked
                              ELSE PackSource(It[s \ {Max(s)}], all[Max(s)], seeds)
      BY <1>1, <1>6
    <2>2. \A m \in 1..n : m \in Nat /\ m # 0 /\ 1..m \subseteq 1..n /\ m \in 1..m
      BY <1>1
    <2> HIDE DEF It
    <2>3. It[{}] = NothingPacked
      BY ONLY <2>1, Zenon
    <2>4. ASSUME NEW m \in 1..n PROVE It[1..m] = PackSource(It[1..(m - 1)], all[m], seeds)
      <3>1. 1..m # {} /\ Max(1..m) = m /\ (1..m) \ {Max(1..m)} = 1..(m - 1) /\ 1..m \in SUBSET (1..n)
        BY <2>2, <2>4, MaxOfInterval
      <3>2. It[1..m] = PackSource(It[(1..m) \ {Max(1..m)}], all[Max(1..m)], seeds)
        BY ONLY <2>1, <3>1, Zenon
      <3>3. QED BY ONLY <3>1, <3>2, Zenon
    <2>5. QED BY <2>3, <2>4
  <1> HIDE DEF Body, It
  <1>8. GoesOn(It, n, Accs, NothingPacked, step0)
    BY <1>7 DEF GoesOn
  <1> DEFINE run == RunOf(It, n)
  <1>9. FoldRun(run, n, Accs, NothingPacked, step0) /\ It[1..n] = run[n]
    <2> HIDE DEF step0
    <2>1. FoldRun(run, n, Accs, NothingPacked, step0)
      BY <1>1, <1>3, <1>8, FoldReached
    <2>2. QED BY <1>1, <2>1 DEF RunOf
  <1> HIDE DEF run
  <1>10. PackRun(run, all, seeds, S)
    <2>1. \A m \in 1..n : m - 1 \in 0..n
      BY <1>1
    <2>2. QED BY <1>9, <2>1 DEF FoldRun, PackRun, n, Accs
  <1>11. QED BY <1>1, <1>2, <1>9, <1>10 DEF n

\* What is packed is shown of the seeds and neighbours, not empty, and within the tokens.
LEMMA PackFacts ==
    ASSUME NEW S \in SUBSET CodeChunks, NEW seeds \in Seq(S), NEW neighbours \in Seq(S),
           seeds # <<>>
    PROVE  LET list == Pack(seeds, neighbours) IN
           list \in Seq(Shows(S)) /\ list # <<>> /\ FitsTokens(list)
  <1> DEFINE both == seeds \o neighbours
             all == Wholes(both)
             n == Len(all)
  <1>1. both \in Seq(S) /\ Len(both) > 0
    BY ConcatProperties
  <1> HIDE DEF both
  <1>2. all \in Seq(Shows(S)) /\ Len(all) = Len(both)
    BY <1>1, WholesShow
  <1>3. n \in Nat /\ n > 0 /\ \A i \in 1..n : all[i] \in Shows(S)
    BY <1>1, <1>2
  <1> HIDE DEF all
  <1>4. PICK run : PackRun(run, all, seeds, S) /\ Pack(seeds, neighbours) = run[n].sources
    <2>1. all = Wholes(seeds \o neighbours)
      BY DEF all, both
    <2>2. QED BY <1>2, <2>1, PackIsFolded
  <1> DEFINE Good(m) == run[m] \in Packing(S) /\ PackedOf(run[m], m)
             T == {m \in Nat : m <= n => Good(m)}
  <1>5. 0 \in T
    <2>1. run[0] \in Packing(S) /\ run[0].sources = <<>> /\ run[0].tokens = 0
      BY <1>3, <1>4 DEF PackRun, NothingPacked
    <2>2. TokensOf(<<>>) = <<>>
      BY DEF TokensOf
    <2>3. PackedOf(run[0], 0)
      <3>1. Sum(TokensOf(<<>>)) = 0 /\ 0 <= BudgetTokens
        BY <2>2, SumOfNone, QuestionNumbers
      <3>2. QED BY <2>1, <3>1 DEF PackedOf, FitsTokens
    <2>4. QED BY <2>1, <2>3
  <1>6. \A m \in Nat : m \in T => m + 1 \in T
    <2> SUFFICES ASSUME NEW m \in Nat, Good(m), m + 1 <= n PROVE Good(m + 1)
      <3>1. \A m \in Nat : m + 1 <= n => m <= n
        BY <1>3
      <3> HIDE DEF Good
      <3>2. QED BY <3>1
    <2>1. m + 1 \in 1..n /\ (m + 1) - 1 = m /\ m + 1 \in Nat \ {0}
      BY <1>3
    <2>2. run[m + 1] = PackSource(run[m], all[m + 1], seeds)
      BY <1>4, <2>1 DEF PackRun
    <2>3. QED BY <1>3, <2>1, <2>2, PackSourceKeeps
  <1> HIDE DEF T
  <1>7. n \in T
    BY <1>3, <1>5, <1>6, NumbersAllIn
  <1>8. Good(n)
    BY <1>3, <1>7 DEF T
  <1>9. run[n].sources \in Seq(Shows(S))
    BY <1>8 DEF Packing
  <1>10. QED BY <1>3, <1>4, <1>8, <1>9 DEF PackedOf

-----------------------------------------------------------------------------
(* What the searches list. *)

\* A list has finitely many members.
LEMMA MembersFinite ==
    ASSUME NEW T, NEW s \in Seq(T)
    PROVE  /\ IsFiniteSet(ToSet(s)) /\ ToSet(s) \in SUBSET T
           /\ \A x : x \in ToSet(s) <=> \E i \in 1..Len(s) : s[i] = x
  <1>1. Len(s) \in Nat /\ DOMAIN s = 1..Len(s) /\ \A i \in 1..Len(s) : s[i] \in T
    OBVIOUS
  <1>2. \A x : x \in ToSet(s) <=> \E i \in 1..Len(s) : s[i] = x
    BY <1>1 DEF ToSet
  <1>3. s \in Surjection(1..Len(s), ToSet(s))
    <2>1. s \in [1..Len(s) -> ToSet(s)]
      BY <1>1, <1>2
    <2>2. QED BY <1>2, <2>1 DEF Surjection
  <1>4. IsFiniteSet(1..Len(s))
    BY <1>1, FS_Interval
  <1>5. QED BY <1>1, <1>2, <1>3, <1>4, FS_Surjection

\* A list of what a corpus holds at some of its positions, no position twice.
DrawnFrom(list, corpus, D) ==
    \E pos \in [1..Len(list) -> D] :
        /\ \A i \in 1..Len(list) : list[i] = corpus[pos[i]]
        /\ \A i, k \in 1..Len(list) : pos[i] = pos[k] => i = k

\* A ranking lists members of the corpus that have a key, none twice, up to the limit.
LEMMA RankedFacts ==
    ASSUME NEW T, NEW corpus \in Seq(T), NEW D \in SUBSET (1..Len(corpus)),
           NEW key \in [D -> Int], NEW limit \in Nat
    PROVE  /\ Ranked(corpus, key, limit) \in Seq(T) /\ Len(Ranked(corpus, key, limit)) <= limit
           /\ DrawnFrom(Ranked(corpus, key, limit), corpus, D)
  <1> DEFINE pair == [i \in D |-> <<key[i], i>>]
             order == Arranged(pair)
             size == Cardinality(D)
             list == [i \in 1..Len(order) |-> corpus[order[i]]]
  <1>1. IsFiniteSet(D)
    <2>1. IsFiniteSet(1..Len(corpus))
      BY FS_Interval
    <2>2. QED BY <2>1, FS_Subset
  <1>2. pair \in [D -> [1..2 -> Int]]
    OBVIOUS
  <1>3. \A x, y \in D : pair[x] = pair[y] => x = y
    OBVIOUS
  <1>4. Ranked(corpus, key, limit) = Take(list, limit)
    <2>1. DOMAIN key = D
      OBVIOUS
    <2>2. Ranked(corpus, key, limit) =
            Take([m \in 1..Len(Arranged([i \in DOMAIN key |-> <<key[i], i>>])) |->
                    corpus[Arranged([i \in DOMAIN key |-> <<key[i], i>>])[m]]], limit)
      BY DEF Ranked
    <2>3. QED BY ONLY <2>1, <2>2
  <1> HIDE DEF pair
  <1>5. size \in Nat /\ ArrangedBy(order, pair, D)
    BY <1>1, <1>2, <1>3, ArrangedLists
  <1>6. order \in [1..size -> D] /\ \A i, k \in 1..size : order[i] = order[k] => i = k
    BY <1>5 DEF ArrangedBy
  <1> HIDE DEF order, size
  <1>7. Len(order) = size
    BY <1>5, <1>6, IsSequence
  <1>8. list \in [1..size -> T]
    BY <1>6, <1>7
  <1> HIDE DEF list
  <1>9. list \in Seq(T) /\ Len(list) = size
    BY <1>5, <1>8, IsSequence
  <1> DEFINE short == Take(list, limit)
  <1>10. /\ short \in Seq(T) /\ Len(short) = (IF Len(list) < limit THEN Len(list) ELSE limit)
         /\ \A i \in 1..Len(short) : i \in 1..Len(list) /\ short[i] = list[i]
    BY <1>9, TakeFacts
  <1> HIDE DEF short
  <1>11. Len(short) <= limit
    BY <1>5, <1>9, <1>10
  <1> DEFINE pos == [i \in 1..Len(short) |-> order[i]]
  <1>12. /\ pos \in [1..Len(short) -> D]
         /\ \A i \in 1..Len(short) : short[i] = corpus[pos[i]]
         /\ \A i, k \in 1..Len(short) : pos[i] = pos[k] => i = k
    BY <1>6, <1>7, <1>9, <1>10 DEF list
  <1> HIDE DEF pos
  <1>13. DrawnFrom(short, corpus, D)
    BY <1>12 DEF DrawnFrom
  <1>14. Ranked(corpus, key, limit) = short
    BY <1>4 DEF short
  <1>15. QED BY ONLY <1>10, <1>11, <1>13, <1>14

\* What a chunk is, field by field.
LEMMA ChunkType ==
    ASSUME NEW c \in CodeChunks
    PROVE  /\ c.path \in Nat /\ c.index \in Nat /\ c.from \in Nat /\ c.near \in Int /\ c.score \in Int
           /\ c.tier \in 0..3 /\ c.tier \in Int
           /\ Identity(c) \in [1..4 -> Int]
           /\ Identity(c) = <<c.path, c.index, c.from, EndLine(c)>>
  <1>1. /\ c.path \in Nat /\ c.index \in Nat /\ c.from \in Nat /\ c.near \in Int /\ c.score \in Int
        /\ c.tier \in 0..3 /\ c.sizes \in Seq(Nat \ {0})
    BY DEF CodeChunks
  <1>2. EndLine(c) \in Int
    <2>1. Len(c.sizes) \in Nat
      BY <1>1
    <2>2. QED BY <1>1, <2>1 DEF EndLine
  <1>3. QED BY <1>1, <1>2 DEF Identity

\* The positions SymbolSearch ranks.
Named(corpus) ==
    {i \in 1..Len(corpus) : /\ corpus[i].tier < 3
                            /\ \A d \in ToSet(corpus) :
                                 SameSymbol(corpus[i], d) => corpus[i].index <= d.index}

\* Lists that are drawn from a corpus.
LEMMA SearchesList ==
    ASSUME NEW S \in SUBSET CodeChunks, NEW corpus \in Seq(S), NEW depth \in Nat
    PROVE  /\ SemanticSearch(corpus, depth) \in Seq(S) /\ LexicalSearch(corpus, depth) \in Seq(S)
           /\ SymbolSearch(corpus) \in Seq(S)
           /\ Len(SemanticSearch(corpus, depth)) <= depth
           /\ DrawnFrom(SemanticSearch(corpus, depth), corpus, 1..Len(corpus))
           /\ DrawnFrom(LexicalSearch(corpus, depth), corpus, 1..Len(corpus))
           /\ DrawnFrom(SymbolSearch(corpus), corpus, Named(corpus))
  <1> DEFINE D == 1..Len(corpus)
  <1>1. DOMAIN corpus = D /\ \A i \in D : corpus[i] \in S /\ corpus[i] \in CodeChunks
    OBVIOUS
  <1>2. \A i \in D : corpus[i].near \in Int /\ -corpus[i].score \in Int /\ corpus[i].tier \in Int
    <2> SUFFICES ASSUME NEW i \in D
                 PROVE  corpus[i].near \in Int /\ -corpus[i].score \in Int /\ corpus[i].tier \in Int
      OBVIOUS
    <2>1. corpus[i].near \in Int /\ corpus[i].score \in Int /\ corpus[i].tier \in Int
      BY <1>1, ChunkType
    <2>2. QED BY <2>1
  <1>3. ASSUME NEW some \in SUBSET D, NEW key \in [some -> Int], NEW limit \in Nat
        PROVE  LET list == Ranked(corpus, key, limit) IN
               list \in Seq(S) /\ Len(list) <= limit /\ DrawnFrom(list, corpus, some)
    BY RankedFacts
  <1> HIDE DEF D
  <1>4. LET list == SemanticSearch(corpus, depth) IN
        list \in Seq(S) /\ Len(list) <= depth /\ DrawnFrom(list, corpus, D)
    <2> DEFINE key == [i \in D |-> corpus[i].near]
    <2>1. key \in [D -> Int] /\ D \in SUBSET D
      BY <1>2
    <2>2. SemanticSearch(corpus, depth) = Ranked(corpus, key, depth)
      BY <1>1 DEF SemanticSearch
    <2> HIDE DEF key
    <2>3. QED BY <1>3, <2>1, <2>2
  <1>5. LET list == LexicalSearch(corpus, depth) IN list \in Seq(S) /\ DrawnFrom(list, corpus, D)
    <2> DEFINE some == {i \in D : corpus[i].score > 0}
               key == [i \in some |-> -corpus[i].score]
    <2>1. key \in [some -> Int] /\ some \in SUBSET D
      BY <1>2
    <2>2. LexicalSearch(corpus, depth) = Ranked(corpus, key, depth)
      BY <1>1 DEF LexicalSearch
    <2>3. ASSUME NEW list, DrawnFrom(list, corpus, some) PROVE DrawnFrom(list, corpus, D)
      BY <2>3 DEF DrawnFrom
    <2> HIDE DEF key, some
    <2>4. QED BY <1>3, <2>1, <2>2, <2>3
  <1>6. LET list == SymbolSearch(corpus) IN list \in Seq(S) /\ DrawnFrom(list, corpus, Named(corpus))
    <2> DEFINE some == Named(corpus)
               key == [i \in some |-> corpus[i].tier]
    <2>1. key \in [some -> Int] /\ some \in SUBSET D
      BY <1>2 DEF Named, D
    <2>2. SymbolSearch(corpus) = Ranked(corpus, key, SymbolLimit)
      BY <1>1 DEF SymbolSearch, Named, D
    <2>3. SymbolLimit \in Nat
      BY FusionAssumption
    <2> HIDE DEF key, some
    <2>4. QED BY <1>3, <2>1, <2>2, <2>3 DEF some
  <1>7. QED BY <1>4, <1>5, <1>6 DEF D

\* Every symbol has one vote, for itself or for a piece of evidence of the same symbol.
LEMMA ProjectLists ==
    ASSUME NEW S, NEW symbols \in Seq(S), NEW evidence \in Seq(S)
    PROVE  /\ Project(symbols, evidence) \in Seq(S)
           /\ Len(Project(symbols, evidence)) = Len(symbols)
           /\ \A i \in 1..Len(symbols) :
                \/ Project(symbols, evidence)[i] = symbols[i]
                \/ \E k \in 1..Len(evidence) :
                     /\ Project(symbols, evidence)[i] = evidence[k]
                     /\ SameSymbol(evidence[k], symbols[i])
  <1> DEFINE n == Len(symbols)
             backed(i) == {k \in 1..Len(evidence) :
                             evidence[k].symbol # "none" /\ SameSymbol(evidence[k], symbols[i])}
             vote(i) == IF backed(i) = {} THEN symbols[i] ELSE evidence[Min(backed(i))]
  <1>1. n \in Nat /\ \A i \in 1..n : symbols[i] \in S
    OBVIOUS
  <1>2. Len(evidence) \in Nat /\ \A k \in 1..Len(evidence) : evidence[k] \in S
    OBVIOUS
  <1>3. Project(symbols, evidence) = [i \in 1..n |-> vote(i)]
    BY DEF Project
  <1>4. ASSUME NEW i \in 1..n, backed(i) # {} PROVE Min(backed(i)) \in backed(i)
    <2>1. backed(i) \in SUBSET Nat
      OBVIOUS
    <2> HIDE DEF backed
    <2>2. QED BY <1>4, <2>1, LeastNumber
  <1>5. ASSUME NEW i \in 1..n
        PROVE  /\ vote(i) \in S
               /\ vote(i) = symbols[i] \/ \E k \in 1..Len(evidence) :
                     vote(i) = evidence[k] /\ SameSymbol(evidence[k], symbols[i])
    <2>1. CASE backed(i) = {}
      BY <1>1, <2>1
    <2>2. CASE backed(i) # {}
      <3> DEFINE k == Min(backed(i))
      <3>1. k \in backed(i) /\ vote(i) = evidence[k]
        BY <1>4, <2>2
      <3> HIDE DEF k, vote
      <3>2. k \in 1..Len(evidence) /\ SameSymbol(evidence[k], symbols[i])
        BY <3>1
      <3>3. QED BY <1>2, <3>1, <3>2
    <2>3. QED BY <2>1, <2>2
  <1> HIDE DEF vote, n
  <1>6. Project(symbols, evidence) \in [1..n -> S]
    BY <1>3, <1>5
  <1>7. Project(symbols, evidence) \in Seq(S) /\ Len(Project(symbols, evidence)) = n
    BY <1>1, <1>6, IsSequence
  <1>8. \A i \in 1..n : Project(symbols, evidence)[i] = vote(i)
    BY <1>3
  <1>9. QED BY <1>5, <1>7, <1>8 DEF n

\* Keys that are made of two parts.
LEMMA JoinedKeys ==
    ASSUME NEW p \in Nat, NEW q \in Nat, NEW x \in [1..p -> Int], NEW y \in [1..q -> Int]
    PROVE  /\ x \o y \in [1..(p + q) -> Int]
           /\ \A i \in 1..p : (x \o y)[i] = x[i]
           /\ \A i \in 1..q : (x \o y)[p + i] = y[i]
  <1>1. x \in Seq(Int) /\ Len(x) = p /\ y \in Seq(Int) /\ Len(y) = q
    BY IsSequence
  <1>2. /\ x \o y \in Seq(Int) /\ Len(x \o y) = p + q
        /\ \A i \in 1..(p + q) : (x \o y)[i] = IF i <= p THEN x[i] ELSE y[i - p]
    BY <1>1, ConcatProperties
  <1>3. x \o y \in [1..(p + q) -> Int]
    <2> DEFINE z == x \o y
    <2>1. z \in Seq(Int) /\ Len(z) = p + q
      BY <1>2
    <2> HIDE DEF z
    <2>2. z \in [1..(p + q) -> Int]
      BY <2>1
    <2>3. QED BY <2>2 DEF z
  <1>4. \A i \in 1..p : i \in 1..(p + q) /\ i <= p
    OBVIOUS
  <1>5. \A i \in 1..q : p + i \in 1..(p + q) /\ ~(p + i <= p) /\ (p + i) - p = i
    OBVIOUS
  <1>6. QED BY <1>2, <1>3, <1>4, <1>5

\* Keys that agree everywhere are one.
LEMMA SameKeys ==
    ASSUME NEW n \in Nat, NEW x \in [1..n -> Int], NEW y \in [1..n -> Int],
           \A i \in 1..n : x[i] = y[i]
    PROVE  x = y
  OBVIOUS

-----------------------------------------------------------------------------
(* fuse_ranked_sources. *)

\* What is fused.
Together(sources) == UNION {ToSet(sources[s]) : s \in DOMAIN sources}

\* What the sources hold together.
LEMMA TogetherFacts ==
    ASSUME NEW T, NEW sources \in Seq(Seq(T))
    PROVE  /\ Together(sources) \in SUBSET T
           /\ \A c : c \in Together(sources) <=>
                \E s \in 1..Len(sources) : \E i \in 1..Len(sources[s]) : sources[s][i] = c
  <1>1. DOMAIN sources = 1..Len(sources) /\ \A s \in 1..Len(sources) : sources[s] \in Seq(T)
    OBVIOUS
  <1>2. \A s \in 1..Len(sources) : /\ ToSet(sources[s]) \in SUBSET T
           /\ \A c : c \in ToSet(sources[s]) <=> \E i \in 1..Len(sources[s]) : sources[s][i] = c
    BY <1>1, MembersFinite
  <1>3. \A c : c \in Together(sources) <=> \E s \in 1..Len(sources) : c \in ToSet(sources[s])
    BY <1>1 DEF Together
  <1>4. QED BY ONLY <1>2, <1>3

\* Where a chunk stands in a source.
LEMMA RankFacts ==
    ASSUME NEW T, NEW list \in Seq(T), NEW c
    PROVE  /\ RankIn(list, c) \in 0..Len(list) /\ RankIn(list, c) \in Nat
           /\ RankIn(list, c) # 0 <=> \E i \in 1..Len(list) : list[i] = c
           /\ RankIn(list, c) # 0 =>
                /\ RankIn(list, c) \in 1..Len(list) /\ list[RankIn(list, c)] = c
                /\ \A i \in 1..Len(list) : list[i] = c => RankIn(list, c) <= i
  <1> DEFINE I == {i \in 1..Len(list) : list[i] = c}
  <1>1. RankIn(list, c) = IF I # {} THEN Min(I) ELSE 0
    BY DEF RankIn, SelectInSeq
  <1>2. Len(list) \in Nat /\ I \in SUBSET Nat /\ \A i \in I : i \in 1..Len(list) /\ i # 0
    OBVIOUS
  <1>3. CASE I # {}
    <2>1. Min(I) \in I /\ \A y \in I : Min(I) <= y
      <3> HIDE DEF I
      <3>1. QED BY <1>2, <1>3, LeastNumber
    <2>2. RankIn(list, c) = Min(I)
      BY <1>1, <1>3
    <2>3. RankIn(list, c) \in I /\ \A y \in I : RankIn(list, c) <= y
      BY <2>1, <2>2
    <2>4. QED BY <1>2, <2>3
  <1>4. CASE I = {}
    <2>1. RankIn(list, c) = 0
      BY <1>1, <1>4
    <2>2. ~\E i \in 1..Len(list) : list[i] = c
      BY <1>4
    <2>3. QED BY <1>2, <2>1, <2>2
  <1>5. QED BY <1>3, <1>4

\* What a source gives to a chunk at a rank.
Vote(r) == IF r = 0 THEN 0 ELSE UNIT \div (RRF_K + r)
VotesFor(sources, c) == [s \in 1..Len(sources) |-> Vote(RankIn(sources[s], c))]

\* A better rank never gives less.
LEMMA VoteFacts ==
    /\ \A r \in Nat : Vote(r) \in Nat
    /\ \A q, r \in Nat : r # 0 /\ r <= q => Vote(q) <= Vote(r)
    /\ \A q \in Nat : Vote(0) = 0 /\ 0 <= Vote(q)
  <1>1. \A r \in Nat : Vote(r) \in Nat
    <2> SUFFICES ASSUME NEW r \in Nat PROVE Vote(r) \in Nat
      OBVIOUS
    <2>1. 1000000 \div (60 + r) \in Nat
      OBVIOUS
    <2>2. QED BY <2>1 DEF Vote, UNIT, RRF_K
  <1>2. ASSUME NEW q \in Nat, NEW r \in Nat, r # 0, r <= q PROVE Vote(q) <= Vote(r)
    <2> DEFINE a == 1000000 \div (60 + q)
               b == 1000000 \div (60 + r)
    <2>1. Vote(q) = a /\ Vote(r) = b
      BY <1>2 DEF Vote, UNIT, RRF_K
    <2>2. a \in Nat /\ b \in Nat /\ (60 + q) * a <= 1000000 /\ 1000000 < (60 + r) * (b + 1)
      OBVIOUS
    <2> HIDE DEF a, b
    <2>3. (60 + r) * a <= (60 + q) * a
      BY <1>2, <2>2
    <2>4. (60 + r) * a < (60 + r) * (b + 1)
      BY <2>2, <2>3
    <2>5. a < b + 1
      BY <2>2, <2>4
    <2>6. QED BY <2>1, <2>2, <2>5
  <1>3. QED BY <1>1, <1>2 DEF Vote

\* The key of a chunk: what its score and best rank are, and that it ends in its identity.
LEMMA FusionKeyFacts ==
    ASSUME NEW S \in SUBSET CodeChunks, NEW sources \in Seq(Seq(S)), NEW c \in Together(sources)
    PROVE  /\ c \in S /\ c \in CodeChunks
           /\ VotesFor(sources, c) \in [1..Len(sources) -> Nat] /\ FusionScore(sources, c) \in Nat
           /\ FusionScore(sources, c) = Sum(VotesFor(sources, c))
           /\ Min(Ranks(sources, c)) \in Ranks(sources, c)
           /\ \A r \in Ranks(sources, c) : r \in Nat /\ Min(Ranks(sources, c)) <= r
           /\ FusionKey(sources, c) \in [1..6 -> Int]
           /\ FusionKey(sources, c)[1] = -FusionScore(sources, c)
           /\ FusionKey(sources, c)[2] = Min(Ranks(sources, c))
           /\ \A d \in Together(sources) :
                FusionKey(sources, c) = FusionKey(sources, d) => Identity(c) = Identity(d)
  <1>1. Len(sources) \in Nat /\ DOMAIN sources = 1..Len(sources)
        /\ \A s \in 1..Len(sources) : sources[s] \in Seq(S)
    OBVIOUS
  <1>2. Together(sources) \in SUBSET S
    BY TogetherFacts
  <1>3. ASSUME NEW d \in Together(sources)
        PROVE  /\ d \in CodeChunks
               /\ VotesFor(sources, d) \in [1..Len(sources) -> Nat] /\ FusionScore(sources, d) \in Nat
               /\ FusionScore(sources, d) = Sum(VotesFor(sources, d))
               /\ Ranks(sources, d) \in SUBSET Nat /\ Ranks(sources, d) # {}
               /\ FusionKey(sources, d) = <<-FusionScore(sources, d), Min(Ranks(sources, d))>> \o Identity(d)
               /\ <<-FusionScore(sources, d), Min(Ranks(sources, d))>> \in [1..2 -> Int]
               /\ Min(Ranks(sources, d)) \in Ranks(sources, d)
               /\ \A r \in Ranks(sources, d) : Min(Ranks(sources, d)) <= r
    <2>1. d \in CodeChunks
      BY <1>2
    <2>2. \A s \in 1..Len(sources) : RankIn(sources[s], d) \in Nat
      BY <1>1, RankFacts
    <2>3. VotesFor(sources, d) \in [1..Len(sources) -> Nat]
      BY <2>2, VoteFacts DEF VotesFor
    <2>4. FusionScore(sources, d) = Sum(VotesFor(sources, d))
      BY DEF FusionScore, VotesFor, Vote
    <2>5. VotesFor(sources, d) \in Seq(Nat)
      BY <1>1, <2>3, IsSequence
    <2>6. FusionScore(sources, d) \in Nat
      BY <2>4, <2>5, SumNat
    <2>7. Ranks(sources, d) \in SUBSET Nat
      BY <1>1, <2>2 DEF Ranks
    <2>8. Ranks(sources, d) # {}
      <3>1. PICK s \in 1..Len(sources) : \E i \in 1..Len(sources[s]) : sources[s][i] = d
        BY TogetherFacts
      <3>2. RankIn(sources[s], d) # 0
        BY <1>1, <3>1, RankFacts
      <3>3. QED BY <1>1, <3>1, <3>2 DEF Ranks
    <2>9. /\ Min(Ranks(sources, d)) \in Ranks(sources, d)
          /\ \A r \in Ranks(sources, d) : Min(Ranks(sources, d)) <= r
      BY <2>7, <2>8, LeastNumber
    <2>10. <<-FusionScore(sources, d), Min(Ranks(sources, d))>> \in [1..2 -> Int]
      <3>1. -FusionScore(sources, d) \in Int /\ Min(Ranks(sources, d)) \in Int
        BY <2>6, <2>7, <2>9
      <3>2. \A a, b \in Int : <<a, b>> \in [1..2 -> Int]
        OBVIOUS
      <3>3. QED BY ONLY <3>1, <3>2, Zenon
    <2>11. QED BY <2>1, <2>3, <2>4, <2>6, <2>7, <2>8, <2>9, <2>10 DEF FusionKey
  <1> DEFINE head(d) == <<-FusionScore(sources, d), Min(Ranks(sources, d))>>
  <1>4. ASSUME NEW d \in Together(sources)
        PROVE  head(d) \in [1..2 -> Int] /\ Identity(d) \in [1..4 -> Int]
               /\ FusionKey(sources, d) = head(d) \o Identity(d)
    BY <1>3, ChunkType
  <1>5. head(c)[1] = -FusionScore(sources, c) /\ head(c)[2] = Min(Ranks(sources, c))
    OBVIOUS
  <1> HIDE DEF head
  <1>6. FusionKey(sources, c) \in [1..6 -> Int] /\ \A i \in 1..2 : FusionKey(sources, c)[i] = head(c)[i]
    <2>1. 2 \in Nat /\ 4 \in Nat /\ 2 + 4 = 6
      OBVIOUS
    <2>2. /\ head(c) \o Identity(c) \in [1..(2 + 4) -> Int]
          /\ \A i \in 1..2 : (head(c) \o Identity(c))[i] = head(c)[i]
      BY <1>4, <2>1, JoinedKeys
    <2>3. QED BY <1>4, <2>1, <2>2
  <1>7. ASSUME NEW d \in Together(sources), FusionKey(sources, c) = FusionKey(sources, d)
        PROVE  Identity(c) = Identity(d)
    <2>1. 2 \in Nat /\ 4 \in Nat
      OBVIOUS
    <2>2. head(c) \o Identity(c) = head(d) \o Identity(d)
      BY <1>4, <1>7
    <2>3. /\ head(c) \in [1..2 -> Int] /\ Identity(c) \in [1..4 -> Int]
          /\ head(d) \in [1..2 -> Int] /\ Identity(d) \in [1..4 -> Int]
      BY <1>4
    <2>4. \A i \in 1..4 : (head(c) \o Identity(c))[2 + i] = Identity(c)[i]
      BY <2>1, <2>3, JoinedKeys
    <2>5. \A i \in 1..4 : (head(d) \o Identity(d))[2 + i] = Identity(d)[i]
      BY <2>1, <2>3, JoinedKeys
    <2>6. \A i \in 1..4 : Identity(c)[i] = Identity(d)[i]
      BY ONLY <2>2, <2>4, <2>5
    <2>7. QED BY ONLY <2>1, <2>3, <2>6, SameKeys
  <1>8. 1 \in 1..2 /\ 2 \in 1..2
    OBVIOUS
  <1>9. QED
    <2>1. c \in S
      BY <1>2
    <2>2. \A r \in Ranks(sources, c) : r \in Nat /\ Min(Ranks(sources, c)) <= r
      BY <1>3
    <2>3. FusionKey(sources, c)[1] = -FusionScore(sources, c)
          /\ FusionKey(sources, c)[2] = Min(Ranks(sources, c))
      BY <1>5, <1>6, <1>8
    <2>4. QED BY <1>3, <1>6, <1>7, <2>1, <2>2, <2>3

\* Where no two results of one identity differ, the fusion lists every chunk by its key.
LEMMA FuseFacts ==
    ASSUME NEW S \in SUBSET CodeChunks, NEW sources \in Seq(Seq(S)), NEW limit \in Nat,
           ~Conflict(sources)
    PROVE  LET list == Fuse(sources, limit) IN
           /\ list \in Seq(Together(sources)) /\ list \in Seq(S) /\ Len(list) <= limit
           /\ \A i, k \in 1..Len(list) : Identity(list[i]) = Identity(list[k]) => i = k
           /\ \A i, k \in 1..Len(list) :
                i < k => Before(FusionKey(sources, list[i]), FusionKey(sources, list[k]))
  <1> DEFINE U == Together(sources)
             key == [c \in U |-> FusionKey(sources, c)]
             order == Arranged(key)
             size == Cardinality(U)
             list == Take(order, limit)
  <1>1. Len(sources) \in Nat /\ DOMAIN sources = 1..Len(sources)
        /\ \A s \in 1..Len(sources) : sources[s] \in Seq(S)
    OBVIOUS
  <1>2. Fuse(sources, limit) = list
    BY DEF Fuse, Together
  <1>3. U \in SUBSET S
    BY TogetherFacts
  <1>4. IsFiniteSet(U)
    <2> DEFINE parts == {ToSet(sources[s]) : s \in DOMAIN sources}
    <2>1. IsFiniteSet(1..Len(sources))
      BY <1>1, FS_Interval
    <2>2. IsFiniteSet(parts)
      <3> DEFINE f == [s \in 1..Len(sources) |-> ToSet(sources[s])]
      <3>1. f \in Surjection(1..Len(sources), parts)
        BY <1>1 DEF Surjection
      <3> HIDE DEF f, parts
      <3>2. QED BY <2>1, <3>1, FS_Surjection
    <2>3. \A x \in parts : IsFiniteSet(x)
      BY <1>1, MembersFinite
    <2> HIDE DEF parts
    <2>4. IsFiniteSet(UNION parts)
      BY <2>2, <2>3, FS_UNION
    <2>5. QED BY <2>4 DEF Together, parts
  <1>5. \A x, y \in U : Identity(x) = Identity(y) => x = y
    <2> SUFFICES ASSUME NEW x \in U, NEW y \in U, Identity(x) = Identity(y), x # y PROVE FALSE
      OBVIOUS
    <2>1. PICK s \in 1..Len(sources) : \E i \in 1..Len(sources[s]) : sources[s][i] = x
      BY TogetherFacts
    <2>2. PICK t \in 1..Len(sources) : \E i \in 1..Len(sources[t]) : sources[t][i] = y
      BY TogetherFacts
    <2>3. PICK i \in 1..Len(sources[s]) : sources[s][i] = x
      BY <2>1
    <2>4. PICK k \in 1..Len(sources[t]) : sources[t][k] = y
      BY <2>2
    <2>5. Identity(sources[s][i]) = Identity(sources[t][k]) /\ sources[s][i] # sources[t][k]
      BY <2>3, <2>4
    <2>6. s \in DOMAIN sources /\ t \in DOMAIN sources
      BY <1>1
    <2> HIDE DEF U
    <2>7. \E m \in 1..Len(sources[s]), n \in 1..Len(sources[t]) :
            /\ Identity(sources[s][m]) = Identity(sources[t][n])
            /\ sources[s][m] # sources[t][n] \/ (s = t /\ m # n)
      BY <2>5
    <2>8. Conflict(sources)
      BY <2>6, <2>7, Zenon DEF Conflict
    <2>9. QED BY <2>8
  <1>6. key \in [U -> [1..6 -> Int]]
    BY FusionKeyFacts
  <1>7. \A x, y \in U : key[x] = key[y] => x = y
    <2> SUFFICES ASSUME NEW x \in U, NEW y \in U, key[x] = key[y] PROVE x = y
      OBVIOUS
    <2>1. FusionKey(sources, x) = FusionKey(sources, y)
      OBVIOUS
    <2>2. Identity(x) = Identity(y)
      BY <2>1, FusionKeyFacts
    <2>3. QED BY <1>5, <2>2
  <1>8. \A x \in U : key[x] = FusionKey(sources, x)
    OBVIOUS
  <1> HIDE DEF key, U
  <1>9. size \in Nat /\ ArrangedBy(order, key, U)
    <2>1. 6 \in Nat
      OBVIOUS
    <2>2. QED BY <1>4, <1>6, <1>7, <2>1, ArrangedLists
  <1>10. /\ order \in [1..size -> U] /\ \A i, k \in 1..size : order[i] = order[k] => i = k
         /\ \A i, k \in 1..size : i < k => Before(key[order[i]], key[order[k]])
    BY <1>9 DEF ArrangedBy
  <1> HIDE DEF order, size
  <1>11. order \in Seq(U) /\ Len(order) = size
    BY <1>9, <1>10, IsSequence
  <1>12. /\ list \in Seq(U) /\ Len(list) = (IF Len(order) < limit THEN Len(order) ELSE limit)
         /\ \A i \in 1..Len(list) : i \in 1..Len(order) /\ list[i] = order[i]
    BY <1>11, TakeFacts
  <1> HIDE DEF list
  <1>13. Len(list) <= limit
    BY <1>9, <1>11, <1>12
  <1>14. \A i \in 1..Len(list) : i \in 1..size /\ list[i] = order[i] /\ list[i] \in U
    BY <1>10, <1>11, <1>12
  <1>15. ASSUME NEW i \in 1..Len(list), NEW k \in 1..Len(list), Identity(list[i]) = Identity(list[k])
         PROVE  i = k
    <2>1. order[i] = order[k]
      BY <1>5, <1>14, <1>15
    <2>2. QED BY <1>10, <1>14, <2>1
  <1>16. ASSUME NEW i \in 1..Len(list), NEW k \in 1..Len(list), i < k
         PROVE  Before(FusionKey(sources, list[i]), FusionKey(sources, list[k]))
    <2>1. Before(key[list[i]], key[list[k]])
      BY <1>10, <1>14, <1>16
    <2>2. QED BY <1>8, <1>14, <2>1
  <1>17. list \in Seq(S)
    BY <1>3, <1>12, SeqMonotonic
  <1>18. QED BY <1>2, <1>12, <1>13, <1>15, <1>16, <1>17 DEF U

-----------------------------------------------------------------------------
(* The candidates of a reranking, and the neighbours of the seeds. *)

\* The candidates are the first results, and at least one.
LEMMA BoundedFacts ==
    ASSUME NEW T, NEW list \in Seq(T), list # <<>>, NEW block
    PROVE  LET some == Bounded(list, block) IN
           /\ some \in Seq(T) /\ Len(some) <= Len(list) /\ Len(some) \in Nat
           /\ \A i \in 1..Len(some) : i \in 1..Len(list) /\ some[i] = list[i]
  <1> DEFINE few == Take(list, MaxCandidates)
             Fitting(n) == Sum([i \in 1..n |-> block[few[i]]]) <= MaxRerankChars
             ok == {n \in 1..Len(few) : n = 1 \/ \A m \in 2..n : Fitting(m)}
  <1>1. MaxCandidates \in Nat /\ MaxCandidates # 0
    BY FusionAssumption
  <1>2. /\ few \in Seq(T) /\ Len(few) = (IF Len(list) < MaxCandidates THEN Len(list) ELSE MaxCandidates)
        /\ \A i \in 1..Len(few) : i \in 1..Len(list) /\ few[i] = list[i]
    BY <1>1, TakeFacts
  <1>3. Bounded(list, block) = Take(few, Max(ok))
    BY DEF Bounded
  <1> HIDE DEF few, Fitting
  <1>4. Len(few) \in Nat /\ Len(few) # 0 /\ Len(list) \in Nat
    <2>1. Len(list) \in Nat /\ Len(list) # 0
      OBVIOUS
    <2>2. QED BY <1>1, <1>2, <2>1
  <1>5. Max(ok) \in ok
    <2>1. ok \in SUBSET (1..Len(few)) /\ 1 \in ok
      BY <1>4
    <2> HIDE DEF ok
    <2>2. QED BY <1>4, <2>1, MaxOfFinite
  <1>6. Max(ok) \in Nat
    BY <1>5
  <1> HIDE DEF ok
  <1> DEFINE some == Take(few, Max(ok))
  <1>7. /\ some \in Seq(T) /\ Len(some) = (IF Len(few) < Max(ok) THEN Len(few) ELSE Max(ok))
        /\ \A i \in 1..Len(some) : i \in 1..Len(few) /\ some[i] = few[i]
    BY <1>2, <1>6, TakeFacts
  <1> HIDE DEF some
  <1>8. Len(some) \in Nat /\ Len(some) <= Len(list)
    BY <1>1, <1>2, <1>4, <1>6, <1>7
  <1>9. \A i \in 1..Len(some) : i \in 1..Len(list) /\ some[i] = list[i]
    BY <1>2, <1>7
  <1>10. QED BY <1>3, <1>7, <1>8, <1>9 DEF some

\* In one index a place names a chunk.
Distinct(S) == \A c, d \in S : Identity(c) = Identity(d) => c = d

\* The neighbours are chunks of the loaded ones.
LEMMA NeighboursListed ==
    ASSUME NEW S \in SUBSET CodeChunks, IsFiniteSet(S), Distinct(S),
           NEW seeds \in Seq(CodeChunks)
    PROVE  Neighbours(seeds, S) \in Seq(S)
  <1> DEFINE Key(i, c) == <<IF seeds[i].fragment /\ c.fragment /\ seeds[i].symbol = c.symbol THEN 0 ELSE 1,
                       i, IF c.index < seeds[i].index THEN seeds[i].index - c.index
                                                      ELSE c.index - seeds[i].index>>
             Near(i, c) == /\ c.path = seeds[i].path /\ c.strategy = seeds[i].strategy
                           /\ Key(i, c)[3] \in 1..Radius
             pool == {c \in S : /\ \E i \in 1..Len(seeds) : Near(i, c)
                                /\ \A i \in 1..Len(seeds) : Identity(seeds[i]) # Identity(c)}
             Keys(c) == {Key(i, c) : i \in {k \in 1..Len(seeds) : Near(k, c)}}
             Best(c) == Arranged([x \in Keys(c) |-> x])[1]
             key == [c \in pool |-> Best(c) \o Identity(c)]
  <1>1. Neighbours(seeds, S) = Arranged(key)
    BY DEF Neighbours
  <1>2. Len(seeds) \in Nat /\ \A i \in 1..Len(seeds) : seeds[i] \in CodeChunks
    OBVIOUS
  <1>3. ASSUME NEW c \in S, NEW i \in 1..Len(seeds) PROVE Key(i, c) \in [1..3 -> Int]
    <2>1. c.index \in Nat /\ seeds[i].index \in Nat
      BY <1>2, ChunkType
    <2>2. (IF seeds[i].fragment /\ c.fragment /\ seeds[i].symbol = c.symbol THEN 0 ELSE 1) \in Int
      OBVIOUS
    <2>3. (IF c.index < seeds[i].index THEN seeds[i].index - c.index ELSE c.index - seeds[i].index) \in Int
      BY <2>1
    <2>4. i \in Int
      OBVIOUS
    <2>5. \A x, y, z \in Int : <<x, y, z>> \in [1..3 -> Int]
      OBVIOUS
    <2>6. QED BY ONLY <2>2, <2>3, <2>4, <2>5, Zenon
  <1> HIDE DEF Key
  <1>4. pool \in SUBSET S /\ IsFiniteSet(pool)
    <2>1. pool \in SUBSET S
      OBVIOUS
    <2> HIDE DEF pool
    <2>2. QED BY <2>1, FS_Subset
  <1>5. \A c \in pool : \E i \in 1..Len(seeds) : Near(i, c)
    OBVIOUS
  <1> HIDE DEF pool, Near
  <1>6. ASSUME NEW c \in pool PROVE Best(c) \in [1..3 -> Int]
    <2> DEFINE some == {k \in 1..Len(seeds) : Near(k, c)}
               self == [x \in Keys(c) |-> x]
    <2>1. IsFiniteSet(some) /\ some \in SUBSET (1..Len(seeds)) /\ some # {}
      <3>1. some \in SUBSET (1..Len(seeds)) /\ some # {}
        BY <1>5
      <3>2. IsFiniteSet(1..Len(seeds))
        BY <1>2, FS_Interval
      <3> HIDE DEF some
      <3>3. QED BY <3>1, <3>2, FS_Subset
    <2> HIDE DEF some
    <2>2. Keys(c) = {Key(i, c) : i \in some}
      BY DEF some
    <2> HIDE DEF Keys
    <2>3. IsFiniteSet(Keys(c))
      <3> DEFINE f == [i \in some |-> Key(i, c)]
      <3>1. f \in Surjection(some, Keys(c))
        BY <2>2 DEF Surjection
      <3> HIDE DEF f
      <3>2. QED BY <2>1, <3>1, FS_Surjection
    <2>4. Keys(c) # {} /\ Keys(c) \in SUBSET [1..3 -> Int]
      BY <1>3, <1>4, <2>1, <2>2
    <2>5. self \in [Keys(c) -> [1..3 -> Int]] /\ \A x, y \in Keys(c) : self[x] = self[y] => x = y
      BY <2>4
    <2> HIDE DEF self
    <2>6. Cardinality(Keys(c)) \in Nat /\ ArrangedBy(Arranged(self), self, Keys(c))
      BY <2>3, <2>5, ArrangedLists
    <2>7. 1 \in 1..Cardinality(Keys(c))
      <3>1. PICK i \in 1..Cardinality(Keys(c)) : TRUE
        BY <2>4, <2>6 DEF ArrangedBy
      <3>2. QED BY <2>6, <3>1
    <2>8. Arranged(self)[1] \in Keys(c)
      BY <2>6, <2>7 DEF ArrangedBy
    <2>9. Best(c) = Arranged(self)[1]
      BY DEF self
    <2>10. QED BY <2>4, <2>8, <2>9
  <1> HIDE DEF Best
  <1>7. ASSUME NEW c \in pool
        PROVE  Best(c) \o Identity(c) \in [1..7 -> Int] /\ Identity(c) \in [1..4 -> Int]
               /\ \A i \in 1..4 : (Best(c) \o Identity(c))[3 + i] = Identity(c)[i]
    <2>1. Identity(c) \in [1..4 -> Int]
      BY <1>4, ChunkType
    <2>2. 3 \in Nat /\ 4 \in Nat /\ 3 + 4 = 7
      OBVIOUS
    <2>3. Best(c) \o Identity(c) \in [1..(3 + 4) -> Int]
          /\ \A i \in 1..4 : (Best(c) \o Identity(c))[3 + i] = Identity(c)[i]
      BY <1>6, <2>1, <2>2, JoinedKeys
    <2>4. QED BY <2>1, <2>2, <2>3
  <1>8. key \in [pool -> [1..7 -> Int]] /\ \A x \in pool : key[x] = Best(x) \o Identity(x)
    BY <1>7
  <1>9. \A x, y \in pool : key[x] = key[y] => x = y
    <2> SUFFICES ASSUME NEW x \in pool, NEW y \in pool, key[x] = key[y] PROVE x = y
      OBVIOUS
    <2> HIDE DEF key
    <2>1. Best(x) \o Identity(x) = Best(y) \o Identity(y)
      BY <1>8
    <2>2. /\ \A i \in 1..4 : (Best(x) \o Identity(x))[3 + i] = Identity(x)[i]
          /\ \A i \in 1..4 : (Best(y) \o Identity(y))[3 + i] = Identity(y)[i]
          /\ Identity(x) \in [1..4 -> Int] /\ Identity(y) \in [1..4 -> Int]
      BY <1>7
    <2>3. \A i \in 1..4 : Identity(x)[i] = Identity(y)[i]
      BY ONLY <2>1, <2>2
    <2>4. 4 \in Nat
      OBVIOUS
    <2>5. Identity(x) = Identity(y)
      BY ONLY <2>2, <2>3, <2>4, SameKeys
    <2>6. QED BY <1>4, <2>5 DEF Distinct
  <1> HIDE DEF key
  <1>10. Cardinality(pool) \in Nat /\ ArrangedBy(Arranged(key), key, pool)
    <2>1. 7 \in Nat
      OBVIOUS
    <2>2. QED BY <1>4, <1>8, <1>9, <2>1, ArrangedLists
  <1>11. Arranged(key) \in [1..Cardinality(pool) -> S]
    BY <1>4, <1>10 DEF ArrangedBy
  <1>12. Arranged(key) \in Seq(S)
    BY <1>10, <1>11, IsSequence
  <1>13. QED BY <1>1, <1>12

\* In one index no two chunks have one identity.
LEMMA IndexDistinct ==
    ASSUME NEW x \in Indexes
    PROVE  /\ x.chunks \in Seq(CodeChunks) /\ ToSet(x.chunks) \in SUBSET CodeChunks
           /\ IsFiniteSet(ToSet(x.chunks)) /\ Distinct(ToSet(x.chunks))
           /\ \A i, k \in 1..Len(x.chunks) : Identity(x.chunks[i]) = Identity(x.chunks[k]) => i = k
  <1>1. x.chunks \in Seq(CodeChunks)
    BY QuestionAssumption
  <1>2. DOMAIN x.chunks = 1..Len(x.chunks) /\ \A i \in 1..Len(x.chunks) : x.chunks[i] \in CodeChunks
    BY <1>1
  <1>3. /\ ToSet(x.chunks) \in SUBSET CodeChunks /\ IsFiniteSet(ToSet(x.chunks))
        /\ \A c : c \in ToSet(x.chunks) <=> \E i \in 1..Len(x.chunks) : x.chunks[i] = c
    BY <1>1, MembersFinite
  <1>4. ASSUME NEW i \in 1..Len(x.chunks), NEW k \in 1..Len(x.chunks),
               Identity(x.chunks[i]) = Identity(x.chunks[k])
        PROVE  i = k
    <2> DEFINE c == x.chunks[i]
               d == x.chunks[k]
    <2>1. <<c.path, c.index, c.from, EndLine(c)>> = <<d.path, d.index, d.from, EndLine(d)>>
      BY <1>4 DEF Identity
    <2>2. c.path = d.path /\ c.index = d.index
      <3> HIDE DEF c, d
      <3>1. QED BY ONLY <2>1
    <2>3. QED BY <1>2, <2>2, QuestionAssumption
  <1>5. Distinct(ToSet(x.chunks))
    <2> SUFFICES ASSUME NEW c \in ToSet(x.chunks), NEW d \in ToSet(x.chunks), Identity(c) = Identity(d)
                 PROVE  c = d
      BY DEF Distinct
    <2>1. PICK i \in 1..Len(x.chunks) : x.chunks[i] = c
      BY <1>3
    <2>2. PICK k \in 1..Len(x.chunks) : x.chunks[k] = d
      BY <1>3
    <2>3. QED BY <1>4, <2>1, <2>2
  <1>6. QED BY <1>1, <1>3, <1>4, <1>5

-----------------------------------------------------------------------------
(* A question. *)

\* What the model is shown is within the budgets.
SourcesFit ==
    /\ context # <<>>
    /\ \/ ContextChars(context) <= MaxContextChars
       \/ Len(context) = 1 /\ Size(context[1].chunk) = 1
    /\ asked.expanded =>
         \/ Sum(TokensOf(context)) <= BudgetTokens
         \/ Len(context) = 1 /\ Size(context[1].chunk) = 1

\* What is ranked, shown and cited was committed at some moment of the question.
QuestionInv ==
    /\ index \in Indexes /\ seen \in SUBSET CodeChunks /\ ToSet(index.chunks) \subseteq seen
    /\ asked \in [strategy : {"semantic", "hybrid", "hybrid_symbol", "hybrid_rerank"},
                  expanded : BOOLEAN, exact : BOOLEAN]
    /\ searched \in [corpus : Seq(seen), semantic : Seq(seen), symbols : Seq(seen)]
    /\ results \in Seq(seen) /\ (step = "fused" => results # <<>>)
    /\ context \in Seq(Shows(seen))
    /\ step \in {"built", "generated", "answered"} => SourcesFit
    /\ step \notin {"answered", "insufficient"} => citations = <<>>
    /\ step = "answered" => citations # <<>>
    /\ \A i \in 1..Len(citations) : \E s \in ToSet(context) : citations[i] = Cited(s)

\* How many results are asked for is a number, no less than what is returned.
LEMMA QuestionNumbersOf == Wanted \in Nat /\ Depth \in Nat /\ TopK \in Nat /\ TopK # 0 /\ TopK <= Wanted
  <1>1. {TopK, Multiplier, RerankPool} \subseteq Nat \ {0}
    BY FusionAssumption
  <1>2. Wanted \in Nat /\ TopK <= Wanted
    <2>1. /\ TopK \in Int /\ RerankPool \in Int
          /\ Max({RerankPool, TopK}) = IF RerankPool >= TopK THEN RerankPool ELSE TopK
      BY <1>1, LargerOfTwo
    <2>2. QED BY <1>1, <2>1 DEF Wanted
  <1>3. Depth \in Nat
    BY <1>1, <1>2 DEF Depth
  <1>4. TopK \in Nat /\ TopK # 0
    BY <1>1
  <1>5. QED BY <1>2, <1>3, <1>4

\* A question begins with nothing searched.
LEMMA QuestionInvInit == QuestionInit => QuestionInv
  <1> SUFFICES ASSUME QuestionInit PROVE QuestionInv
    OBVIOUS
  <1>1. ToSet(index.chunks) \in SUBSET CodeChunks
    BY IndexDistinct DEF QuestionInit
  <1>2. \A T : <<>> \in Seq(T)
    OBVIOUS
  <1>3. searched \in [corpus : Seq(seen), semantic : Seq(seen), symbols : Seq(seen)]
    BY <1>2 DEF QuestionInit, NothingSearched
  <1>4. results \in Seq(seen) /\ context \in Seq(Shows(seen)) /\ citations = <<>>
    BY <1>2 DEF QuestionInit
  <1>5. \A i \in 1..Len(citations) : FALSE
    BY <1>4
  <1>6. QED BY <1>1, <1>3, <1>4, <1>5 DEF QuestionInit, QuestionInv

\* What may be shown of some chunks may be shown of more.
LEMMA ShowsMore ==
    ASSUME NEW S, NEW T, S \subseteq T
    PROVE  Shows(S) \subseteq Shows(T) /\ Seq(S) \subseteq Seq(T) /\ Seq(Shows(S)) \subseteq Seq(Shows(T))
  <1>1. Shows(S) \subseteq Shows(T)
    BY DEF Shows
  <1>2. QED BY <1>1, SeqMonotonic

\* A commit of another process adds to what was seen, and takes nothing away.
LEMMA IndexCommitsKeeps == QuestionInv /\ IndexCommits => QuestionInv'
  <1> SUFFICES ASSUME QuestionInv, IndexCommits PROVE QuestionInv'
    OBVIOUS
  <1>1. /\ index' \in Indexes /\ seen' = seen \cup ToSet(index'.chunks)
        /\ UNCHANGED <<asked, step, searched, results, context, citations>>
    BY DEF IndexCommits
  <1>2. ToSet(index'.chunks) \in SUBSET CodeChunks
    BY <1>1, IndexDistinct
  <1>3. seen' \in SUBSET CodeChunks /\ ToSet(index'.chunks) \subseteq seen' /\ seen \subseteq seen'
    BY <1>1, <1>2 DEF QuestionInv
  <1>4. Seq(seen) \subseteq Seq(seen') /\ Seq(Shows(seen)) \subseteq Seq(Shows(seen'))
    BY <1>3, ShowsMore
  <1>5. /\ searched' \in [corpus : Seq(seen'), semantic : Seq(seen'), symbols : Seq(seen')]
        /\ results' \in Seq(seen') /\ context' \in Seq(Shows(seen'))
    <2>1. searched \in [corpus : Seq(seen), semantic : Seq(seen), symbols : Seq(seen)]
          /\ results \in Seq(seen) /\ context \in Seq(Shows(seen))
      BY DEF QuestionInv
    <2>2. QED BY <1>1, <1>4, <2>1
  <1>6. SourcesFit' <=> SourcesFit
    BY <1>1 DEF SourcesFit
  <1>7. QED BY <1>1, <1>3, <1>5, <1>6 DEF QuestionInv

\* A step of the search that stays within what was seen.
LEMMA SearchStepKeeps ==
    ASSUME QuestionInv, UNCHANGED <<index, commits, asked, results, context, citations, seen, torn>>,
           step \notin {"answered", "insufficient"},
           searched' \in [corpus : Seq(seen), semantic : Seq(seen), symbols : Seq(seen)],
           step' \notin {"fused", "built", "generated", "answered", "insufficient"}
    PROVE  QuestionInv'
  <1>1. citations = <<>> /\ citations' = <<>>
    BY DEF QuestionInv
  <1>2. \A i \in 1..Len(citations') : FALSE
    BY <1>1
  <1>3. QED BY <1>1, <1>2 DEF QuestionInv

\* The statements return chunks of the committed index.
LEMMA SearchKeeps ==
    ASSUME QuestionInv,
           EmbedQuery \/ LoadChunks \/ ReadDimensions \/ RankBySimilarity \/ FindSymbols
    PROVE  QuestionInv'
  <1>1. searched \in [corpus : Seq(seen), semantic : Seq(seen), symbols : Seq(seen)]
    BY DEF QuestionInv
  <1>2. index.chunks \in Seq(CodeChunks) /\ ToSet(index.chunks) \subseteq seen /\ seen \in SUBSET CodeChunks
    BY IndexDistinct DEF QuestionInv
  <1>3. index.chunks \in Seq(seen)
    <2>1. \A i \in 1..Len(index.chunks) : index.chunks[i] \in ToSet(index.chunks)
      BY <1>2 DEF ToSet
    <2>2. Len(index.chunks) \in Nat /\ index.chunks \in [1..Len(index.chunks) -> seen]
      BY <1>2, <2>1
    <2>3. QED BY <2>2, IsSequence
  <1>4. Depth \in Nat
    BY QuestionNumbersOf
  <1>5. SemanticSearch(index.chunks, Depth) \in Seq(seen) /\ SymbolSearch(index.chunks) \in Seq(seen)
    BY <1>2, <1>3, <1>4, SearchesList
  <1>6. \A T : <<>> \in Seq(T)
    OBVIOUS
  <1>7. AfterRanking \in {"naming", "fusing"}
    BY DEF AfterRanking
  <1>8. CASE EmbedQuery
    BY <1>1, <1>8, SearchStepKeeps DEF EmbedQuery, Search
  <1>9. CASE LoadChunks
    <2>1. searched' \in [corpus : Seq(seen), semantic : Seq(seen), symbols : Seq(seen)]
      BY <1>1, <1>3, <1>9 DEF LoadChunks
    <2>2. QED BY <1>9, <2>1, SearchStepKeeps DEF LoadChunks, Search
  <1>10. CASE ReadDimensions
    BY <1>1, <1>7, <1>10, SearchStepKeeps DEF ReadDimensions, Search
  <1>11. CASE RankBySimilarity
    <2>1. searched' \in [corpus : Seq(seen), semantic : Seq(seen), symbols : Seq(seen)]
      BY <1>1, <1>5, <1>6, <1>11 DEF RankBySimilarity
    <2>2. QED BY <1>7, <1>11, <2>1, SearchStepKeeps DEF RankBySimilarity, Search
  <1>12. CASE FindSymbols
    <2>1. searched' \in [corpus : Seq(seen), semantic : Seq(seen), symbols : Seq(seen)]
      BY <1>1, <1>5, <1>12 DEF FindSymbols
    <2>2. QED BY <1>12, <2>1, SearchStepKeeps DEF FindSymbols, Search
  <1>13. QED BY <1>8, <1>9, <1>10, <1>11, <1>12

\* The sources of a fusion list chunks of what was searched.
LEMMA RankingLists ==
    ASSUME NEW S \in SUBSET CodeChunks,
           searched.corpus \in Seq(S), searched.semantic \in Seq(S), searched.symbols \in Seq(S)
    PROVE  /\ Evidence \in Seq(Seq(S)) /\ Len(Evidence) = 2
           /\ Evidence[1] = searched.semantic /\ Evidence[2] = LexicalSearch(searched.corpus, Depth)
           /\ (~asked.exact => ~Conflict(Evidence)) =>
                /\ Votes \in Seq(S) /\ Rankings \in Seq(Seq(S)) /\ Len(Rankings) = 3
                /\ Rankings[1] = Evidence[1] /\ Rankings[2] = Evidence[2] /\ Rankings[3] = Votes
  <1>1. /\ searched.corpus \in Seq(S) /\ searched.semantic \in Seq(S)
        /\ searched.symbols \in Seq(S) /\ S \in SUBSET CodeChunks
    OBVIOUS
  <1>2. Depth \in Nat
    BY QuestionNumbersOf
  <1>3. LexicalSearch(searched.corpus, Depth) \in Seq(S)
    BY <1>1, <1>2, SearchesList
  <1>4. \A x, y \in Seq(S) : <<x, y>> \in Seq(Seq(S)) /\ Len(<<x, y>>) = 2
    OBVIOUS
  <1>5. /\ Evidence \in Seq(Seq(S)) /\ Len(Evidence) = 2
        /\ Evidence[1] = searched.semantic /\ Evidence[2] = LexicalSearch(searched.corpus, Depth)
    BY <1>1, <1>3, <1>4 DEF Evidence
  <1>6. ASSUME ~asked.exact => ~Conflict(Evidence)
        PROVE  /\ Votes \in Seq(S) /\ Rankings \in Seq(Seq(S)) /\ Len(Rankings) = 3
               /\ Rankings[1] = Evidence[1] /\ Rankings[2] = Evidence[2] /\ Rankings[3] = Votes
    <2> DEFINE limit == Len(Evidence[1]) + Len(Evidence[2])
    <2>1. limit \in Nat
      <3>1. \A x \in Seq(S) : Len(x) \in Nat
        OBVIOUS
      <3>2. Evidence[1] \in Seq(S) /\ Evidence[2] \in Seq(S)
        BY <1>1, <1>3, <1>5
      <3>3. Len(Evidence[1]) \in Nat /\ Len(Evidence[2]) \in Nat
        BY ONLY <3>1, <3>2, Zenon
      <3>4. \A a, b \in Nat : a + b \in Nat
        OBVIOUS
      <3>5. QED BY ONLY <3>3, <3>4, Zenon DEF limit
    <2> HIDE DEF limit
    <2>2. ~asked.exact => Fuse(Evidence, limit) \in Seq(S)
      BY <1>1, <1>5, <1>6, <2>1, FuseFacts
    <2>3. ~asked.exact => Project(searched.symbols, Fuse(Evidence, limit)) \in Seq(S)
      BY <1>1, <2>2, ProjectLists
    <2>4. Votes \in Seq(S)
      BY <1>1, <2>3 DEF Votes, limit
    <2>5. Rankings \in Seq(Seq(S)) /\ Len(Rankings) = 3 /\ Rankings[3] = Votes
          /\ \A i \in 1..2 : Rankings[i] = Evidence[i]
      <3>1. \A e \in Seq(Seq(S)), v \in Seq(S) :
              /\ Append(e, v) \in Seq(Seq(S)) /\ Len(Append(e, v)) = Len(e) + 1
              /\ Append(e, v)[Len(e) + 1] = v /\ \A i \in 1..Len(e) : Append(e, v)[i] = e[i]
        OBVIOUS
      <3>2. /\ Append(Evidence, Votes) \in Seq(Seq(S)) /\ Len(Append(Evidence, Votes)) = Len(Evidence) + 1
            /\ Append(Evidence, Votes)[Len(Evidence) + 1] = Votes
            /\ \A i \in 1..Len(Evidence) : Append(Evidence, Votes)[i] = Evidence[i]
        BY ONLY <1>5, <2>4, <3>1
      <3>3. Len(Evidence) = 2 /\ 2 + 1 = 3
        BY <1>5
      <3>4. QED BY ONLY <3>2, <3>3 DEF Rankings
    <2>6. QED BY <2>4, <2>5
  <1>7. QED BY <1>5, <1>6

\* The fusion ranks what was searched.
LEMMA FuseRankingsKeeps ==
    ASSUME QuestionInv, FuseRankings
    PROVE  QuestionInv'
  <1>1. /\ step = "fusing" /\ step' \in {"conflict", "fused", "retrieved"}
        /\ UNCHANGED <<index, asked, searched, context, citations, seen>>
    BY DEF FuseRankings
  <1>2. Wanted \in Nat /\ seen \in SUBSET CodeChunks /\ searched.semantic \in Seq(seen)
    BY QuestionNumbersOf DEF QuestionInv
  <1>3. results' \in Seq(seen) /\ (step' = "fused" => results' # <<>>)
    <2>1. CASE Hybrid /\ (Conflict(Evidence) \/ Conflict(Rankings))
      BY <2>1 DEF FuseRankings, QuestionInv
    <2>2. CASE ~(Hybrid /\ (Conflict(Evidence) \/ Conflict(Rankings)))
      <3>1. /\ results' = IF Hybrid THEN Fuse(Rankings, Wanted) ELSE searched.semantic
            /\ step' = IF Reranking /\ results' # <<>> THEN "fused" ELSE "retrieved"
        BY <2>2 DEF FuseRankings
      <3>2. Hybrid => Fuse(Rankings, Wanted) \in Seq(seen)
        <4> SUFFICES ASSUME Hybrid PROVE Fuse(Rankings, Wanted) \in Seq(seen)
          OBVIOUS
        <4>1. searched.corpus \in Seq(seen) /\ searched.semantic \in Seq(seen)
              /\ searched.symbols \in Seq(seen)
          BY DEF QuestionInv
        <4>2. Rankings \in Seq(Seq(seen)) /\ ~Conflict(Rankings)
          BY <1>2, <2>2, <4>1, RankingLists
        <4>3. QED BY <1>2, <4>2, FuseFacts
      <3>3. QED BY <1>2, <3>1, <3>2
    <2>3. QED BY <2>1, <2>2
  <1>4. citations = <<>> /\ citations' = <<>>
    BY <1>1 DEF QuestionInv
  <1>5. \A i \in 1..Len(citations') : FALSE
    BY <1>4
  <1>6. QED BY <1>1, <1>3, <1>4, <1>5 DEF QuestionInv

\* A reranking keeps candidates, and its answer decides nothing but their order.
LEMMA RerankKeeps ==
    ASSUME QuestionInv, Rerank
    PROVE  QuestionInv'
  <1> DEFINE candidates == Bounded(results, [c \in ToSet(results) |-> Block(c)])
  <1>1. /\ step = "fused" /\ UNCHANGED <<index, commits, asked, searched, context, citations, seen, torn>>
    BY DEF Rerank
  <1>2. /\ candidates \in Seq(seen) /\ Len(candidates) \in Nat
    <2>1. results \in Seq(seen) /\ results # <<>>
      BY <1>1 DEF QuestionInv
    <2>2. QED BY <2>1, BoundedFacts
  <1>3. TopK \in Nat
    BY QuestionNumbersOf
  <1>4. \E n \in 0..(Len(candidates) + 1) : \E answer \in [1..n -> 0..Len(candidates)] :
           IF Orders(answer, Len(candidates))
             THEN /\ results' = Take([i \in 1..n |-> candidates[answer[i]]], TopK)
                  /\ step' = "retrieved"
             ELSE step' = "failed" /\ UNCHANGED results
    BY DEF Rerank
  <1> HIDE DEF candidates
  <1>5. PICK n \in 0..(Len(candidates) + 1) : \E answer \in [1..n -> 0..Len(candidates)] :
           IF Orders(answer, Len(candidates))
             THEN /\ results' = Take([i \in 1..n |-> candidates[answer[i]]], TopK)
                  /\ step' = "retrieved"
             ELSE step' = "failed" /\ UNCHANGED results
    BY <1>4
  <1>6. PICK answer \in [1..n -> 0..Len(candidates)] :
           IF Orders(answer, Len(candidates))
             THEN /\ results' = Take([i \in 1..n |-> candidates[answer[i]]], TopK)
                  /\ step' = "retrieved"
             ELSE step' = "failed" /\ UNCHANGED results
    BY <1>5
  <1>7. results' \in Seq(seen)
    <2>1. CASE ~Orders(answer, Len(candidates))
      BY <1>6, <2>1 DEF QuestionInv
    <2>2. CASE Orders(answer, Len(candidates))
      <3> DEFINE list == [i \in 1..n |-> candidates[answer[i]]]
      <3>1. \A i \in 1..n : answer[i] \in ToSet(answer)
        BY DEF ToSet
      <3>2. \A i \in 1..n : answer[i] \in 1..Len(candidates)
        BY <2>2, <3>1 DEF Orders
      <3>3. list \in [1..n -> seen] /\ n \in Nat
        BY <1>2, <3>2
      <3> HIDE DEF list
      <3>4. list \in Seq(seen)
        BY <3>3, IsSequence
      <3>5. Take(list, TopK) \in Seq(seen)
        BY <1>3, <3>4, TakeFacts
      <3>6. QED BY <1>6, <2>2, <3>5 DEF list
    <2>3. QED BY <2>1, <2>2
  <1>8. step' \in {"retrieved", "failed"}
    BY <1>6
  <1>9. citations = <<>> /\ citations' = <<>>
    BY <1>1 DEF QuestionInv
  <1>10. \A i \in 1..Len(citations') : FALSE
    BY <1>9
  <1>11. QED BY <1>1, <1>7, <1>8, <1>9, <1>10 DEF QuestionInv

\* The budgets hold of what is shown, whatever was ranked.
LEMMA AssembleFits ==
    ASSUME NEW S \in SUBSET CodeChunks, NEW ranked \in Seq(Shows(S)), ranked # <<>>
    PROVE  LET list == BuildContext(ranked) IN
           /\ list \in Seq(Shows(S)) /\ list # <<>>
           /\ ContextChars(list) <= MaxContextChars \/ (Len(list) = 1 /\ Size(list[1].chunk) = 1)
           /\ FitsTokens(ranked) =>
                \/ Sum(TokensOf(list)) <= BudgetTokens
                \/ Len(list) = 1 /\ Size(list[1].chunk) = 1
  <1> DEFINE list == BuildContext(ranked)
             n == Len(list)
  <1>1. /\ list \in Seq(Shows(S)) /\ list # <<>> /\ n <= Len(ranked)
        /\ \A i \in 1..n : Size(list[i].chunk) <= Size(ranked[i].chunk)
        /\ FitsChars(list, ranked)
    BY ContextFacts
  <1> HIDE DEF list
  <1>2. n \in Nat /\ n # 0 /\ Len(ranked) \in Nat /\ 1 \in 1..n
    BY <1>1
  <1>3. /\ list \in Seq(Cuttings) /\ ranked \in Seq(Cuttings)
        /\ \A i \in 1..n : list[i] \in Cuttings /\ i \in 1..Len(ranked)
        /\ \A i \in 1..Len(ranked) : ranked[i] \in Cuttings
    <2>1. list \in Seq(Cuttings) /\ ranked \in Seq(Cuttings)
      BY <1>1, ShowsType
    <2>2. QED BY <1>1, <1>2, <2>1
  <1>4. ContextChars(list) <= MaxContextChars \/ (n = 1 /\ Size(list[1].chunk) = 1)
    BY <1>1 DEF FitsChars
  <1>5. ASSUME FitsTokens(ranked), ~(n = 1 /\ Size(list[1].chunk) = 1)
        PROVE  Sum(TokensOf(list)) <= BudgetTokens
    <2>1. \A i \in 1..n : BlockSize(list[i]) <= BlockSize(ranked[i])
      BY <1>1, <1>5 DEF FitsChars
    <2>2. ~(Len(ranked) = 1 /\ Size(ranked[1].chunk) = 1)
      <3> SUFFICES ASSUME Len(ranked) = 1, Size(ranked[1].chunk) = 1 PROVE FALSE
        OBVIOUS
      <3>1. n = 1
        BY <1>1, <1>2
      <3>2. Size(list[1].chunk) \in Nat \ {0} /\ Size(list[1].chunk) <= 1
        BY <1>1, <1>2, <1>3, BlockType
      <3>3. QED BY <1>5, <3>1, <3>2
    <2>3. Sum(TokensOf(ranked)) <= BudgetTokens
      BY <1>5, <2>2 DEF FitsTokens
    <2> DEFINE short == Take(TokensOf(ranked), n)
    <2>4. TokensOf(ranked) \in Seq(Nat) /\ Len(TokensOf(ranked)) = Len(ranked)
      <3>1. \A i \in 1..Len(ranked) : Tokens(BlockSize(ranked[i])) \in Nat
        BY <1>3, BlockType
      <3>2. TokensOf(ranked) \in [1..Len(ranked) -> Nat]
        BY <3>1 DEF TokensOf
      <3>3. QED BY <1>2, <3>2, IsSequence
    <2>5. Sum(short) \in Nat /\ Sum(short) <= Sum(TokensOf(ranked)) /\ Sum(TokensOf(ranked)) \in Nat
      <3>1. PICK r : /\ Running(r, TokensOf(ranked), Len(ranked)) /\ Sum(TokensOf(ranked)) = r[Len(ranked)]
                     /\ \A m \in 0..Len(ranked) : Sum(Take(TokensOf(ranked), m)) = r[m]
        BY <2>4, SumTakes
      <3>2. n \in 0..Len(ranked) /\ Len(ranked) \in 0..Len(ranked)
        BY <1>1, <1>2
      <3>3. TokensOf(ranked) \in [1..Len(ranked) -> Nat]
        BY <2>4
      <3>4. r[n] <= r[Len(ranked)]
        BY <1>1, <1>2, <3>1, <3>2, <3>3, RunsGrow
      <3>5. r[n] \in Nat /\ r[Len(ranked)] \in Nat
        BY <3>1, <3>2 DEF Running
      <3>6. QED BY <3>1, <3>2, <3>4, <3>5
    <2>6. /\ short \in [1..n -> Nat] /\ \A i \in 1..n : short[i] = TokensOf(ranked)[i]
      <3>1. /\ short \in Seq(Nat)
            /\ Len(short) = (IF Len(TokensOf(ranked)) < n THEN Len(TokensOf(ranked)) ELSE n)
            /\ \A i \in 1..Len(short) : short[i] = TokensOf(ranked)[i]
        BY <1>2, <2>4, TakeFacts
      <3> HIDE DEF short
      <3>2. Len(short) = n
        BY <1>1, <1>2, <2>4, <3>1
      <3>3. QED BY <3>1, <3>2
    <2> HIDE DEF short
    <2>7. TokensOf(list) \in [1..n -> Nat] /\ \A i \in 1..n : TokensOf(list)[i] <= short[i]
      <3>1. ASSUME NEW i \in 1..n
            PROVE  /\ Tokens(BlockSize(list[i])) \in Nat
                   /\ Tokens(BlockSize(list[i])) <= Tokens(BlockSize(ranked[i]))
        <4>1. BlockSize(list[i]) \in Nat /\ BlockSize(ranked[i]) \in Nat
              /\ BlockSize(list[i]) <= BlockSize(ranked[i])
          BY <1>3, <2>1, BlockType
        <4>2. \A a, b \in Nat : a <= b => (a + 3) \div 4 \in Nat /\ (a + 3) \div 4 <= (b + 3) \div 4
          OBVIOUS
        <4>3. QED BY <4>1, <4>2 DEF Tokens
      <3>2. \A i \in 1..n : TokensOf(list)[i] = Tokens(BlockSize(list[i]))
                            /\ TokensOf(ranked)[i] = Tokens(BlockSize(ranked[i]))
        BY <1>3 DEF TokensOf
      <3>3. TokensOf(list) \in [1..n -> Nat]
        BY <3>1 DEF TokensOf
      <3>4. QED BY <2>6, <3>1, <3>2, <3>3
    <2>8. Sum(TokensOf(list)) <= Sum(short)
      BY <1>2, <2>6, <2>7, SumsCompare
    <2>9. Sum(TokensOf(list)) \in Nat
      <3>1. TokensOf(list) \in Seq(Nat)
        BY <1>2, <2>7, IsSequence
      <3>2. QED BY <3>1, SumNat
    <2>10. BudgetTokens \in Nat
      BY QuestionNumbers
    <2>11. QED BY ONLY <2>3, <2>5, <2>8, <2>9, <2>10
  <1>6. QED BY <1>1, <1>4, <1>5 DEF list

\* The context is built of the results and of neighbours in the index of now.
LEMMA AssembleKeeps ==
    ASSUME QuestionInv, Assemble
    PROVE  QuestionInv'
  <1>1. /\ step = "retrieved" /\ UNCHANGED <<index, commits, asked, searched, results, citations, seen, torn>>
    BY DEF Assemble
  <1>2. citations = <<>> /\ citations' = <<>>
    BY <1>1 DEF QuestionInv
  <1>3. \A i \in 1..Len(citations') : FALSE
    BY <1>2
  <1>4. /\ index \in Indexes /\ seen \in SUBSET CodeChunks /\ ToSet(index.chunks) \subseteq seen
        /\ results \in Seq(seen)
    BY DEF QuestionInv
  <1>5. CASE results = <<>>
    <2>1. step' = "insufficient" /\ context' = context
      BY <1>5 DEF Assemble
    <2>2. QED BY <1>1, <1>2, <1>3, <2>1 DEF QuestionInv
  <1>6. CASE results # <<>>
    <2> DEFINE near == Neighbours(results, ToSet(index.chunks))
               ranked == IF asked.expanded THEN Pack(results, near)
                         ELSE [i \in 1..Len(results) |-> Whole(results[i])]
    <2>1. step' = "built" /\ context' = BuildContext(ranked)
      BY <1>6 DEF Assemble
    <2>2. near \in Seq(seen)
      <3>1. /\ ToSet(index.chunks) \in SUBSET CodeChunks /\ IsFiniteSet(ToSet(index.chunks))
            /\ Distinct(ToSet(index.chunks))
        BY <1>4, IndexDistinct
      <3>2. results \in Seq(CodeChunks)
        BY <1>4, SeqMonotonic
      <3>3. near \in Seq(ToSet(index.chunks))
        BY <3>1, <3>2, NeighboursListed
      <3>4. QED BY <1>4, <3>3, SeqMonotonic
    <2> HIDE DEF near
    <2>3. ranked \in Seq(Shows(seen)) /\ ranked # <<>> /\ (asked.expanded => FitsTokens(ranked))
      <3>1. CASE asked.expanded
        <4>1. ranked = Pack(results, near)
          BY <3>1
        <4>2. QED BY <1>4, <1>6, <2>2, <4>1, PackFacts
      <3>2. CASE ~asked.expanded
        <4>1. ranked = Wholes(results)
          BY <3>2 DEF Wholes
        <4>2. Wholes(results) \in Seq(Shows(seen)) /\ Len(Wholes(results)) = Len(results)
          BY <1>4, WholesShow
        <4>3. Len(results) # 0
          BY <1>4, <1>6
        <4>4. Wholes(results) # <<>>
          BY <4>2, <4>3
        <4>5. QED BY <3>2, <4>1, <4>2, <4>4
      <3>3. QED BY <3>1, <3>2
    <2> HIDE DEF ranked
    <2> DEFINE list == BuildContext(ranked)
    <2>4. /\ list \in Seq(Shows(seen)) /\ list # <<>>
          /\ ContextChars(list) <= MaxContextChars \/ (Len(list) = 1 /\ Size(list[1].chunk) = 1)
          /\ FitsTokens(ranked) =>
               \/ Sum(TokensOf(list)) <= BudgetTokens
               \/ Len(list) = 1 /\ Size(list[1].chunk) = 1
      BY <1>4, <2>3, AssembleFits
    <2>5. context' = list /\ asked' = asked
      BY <1>1, <2>1
    <2> HIDE DEF list
    <2>6. SourcesFit'
      <3>1. /\ context' # <<>>
            /\ ContextChars(context') <= MaxContextChars
               \/ (Len(context') = 1 /\ Size(context'[1].chunk) = 1)
            /\ asked'.expanded =>
                 \/ Sum(TokensOf(context')) <= BudgetTokens
                 \/ Len(context') = 1 /\ Size(context'[1].chunk) = 1
        BY <2>3, <2>4, <2>5
      <3>2. QED BY <3>1 DEF SourcesFit
    <2>7. context' \in Seq(Shows(seen))
      BY <2>4, <2>5
    <2>8. QED BY <1>1, <1>2, <1>3, <2>1, <2>6, <2>7 DEF QuestionInv
  <1>7. QED BY <1>5, <1>6

\* An answer cites sources of the context.
LEMMA MapAnswerKeeps ==
    ASSUME QuestionInv, MapAnswer
    PROVE  QuestionInv'
  <1>1. /\ step = "generated" /\ UNCHANGED <<index, commits, asked, searched, results, context, seen, torn>>
    BY DEF MapAnswer
  <1>2. citations = <<>> /\ context \in Seq(Shows(seen)) /\ SourcesFit
    BY <1>1 DEF QuestionInv
  <1>3. PICK n \in 0..2 : \E ids \in [1..n -> 0..Len(context)], insufficient \in BOOLEAN :
         IF 0 \in ToSet(ids) \/ (ids = <<>> /\ ~insufficient)
           THEN step' = "failed" /\ UNCHANGED citations
           ELSE LET kept == IF n = 2 /\ ids[1] = ids[n] THEN <<ids[1]>> ELSE ids IN
                /\ citations' = [i \in 1..Len(kept) |-> Cited(context[kept[i]])]
                /\ step' = IF insufficient THEN "insufficient" ELSE "answered"
    BY DEF MapAnswer
  <1>4. PICK ids \in [1..n -> 0..Len(context)], insufficient \in BOOLEAN :
         IF 0 \in ToSet(ids) \/ (ids = <<>> /\ ~insufficient)
           THEN step' = "failed" /\ UNCHANGED citations
           ELSE LET kept == IF n = 2 /\ ids[1] = ids[n] THEN <<ids[1]>> ELSE ids IN
                /\ citations' = [i \in 1..Len(kept) |-> Cited(context[kept[i]])]
                /\ step' = IF insufficient THEN "insufficient" ELSE "answered"
    BY <1>3
  <1>5. CASE 0 \in ToSet(ids) \/ (ids = <<>> /\ ~insufficient)
    <2>1. step' = "failed" /\ citations' = <<>>
      BY <1>2, <1>4, <1>5
    <2>2. \A i \in 1..Len(citations') : FALSE
      BY <2>1
    <2>3. QED BY <1>1, <2>1, <2>2 DEF QuestionInv
  <1>6. CASE ~(0 \in ToSet(ids) \/ (ids = <<>> /\ ~insufficient))
    <2> DEFINE kept == IF n = 2 /\ ids[1] = ids[n] THEN <<ids[1]>> ELSE ids
    <2>1. /\ citations' = [i \in 1..Len(kept) |-> Cited(context[kept[i]])]
          /\ step' = IF insufficient THEN "insufficient" ELSE "answered"
      BY <1>4, <1>6
    <2>2. Len(context) \in Nat /\ ids \in Seq(0..Len(context)) /\ Len(ids) = n
      <3>1. n \in Nat /\ Len(context) \in Nat
        BY <1>2
      <3>2. QED BY <3>1, IsSequence
    <2>3. \A i \in 1..n : ids[i] \in 1..Len(context)
      <3>1. \A i \in 1..n : ids[i] \in ToSet(ids)
        BY DEF ToSet
      <3>2. QED BY <1>6, <2>2, <3>1
    <2>4. /\ Len(kept) \in Nat /\ (ids # <<>> => Len(kept) # 0)
          /\ \A i \in 1..Len(kept) : kept[i] \in 1..Len(context)
      <3>1. CASE n = 2 /\ ids[1] = ids[n]
        <4>1. kept = <<ids[1]>> /\ Len(kept) = 1 /\ kept[1] = ids[1] /\ 1 \in 1..n
          BY <3>1
        <4> HIDE DEF kept
        <4>2. QED BY <2>3, <4>1
      <3>2. CASE ~(n = 2 /\ ids[1] = ids[n])
        <4>1. kept = ids /\ (ids # <<>> => Len(ids) # 0)
          BY <2>2, <3>2
        <4> HIDE DEF kept
        <4>2. QED BY <2>2, <2>3, <4>1
      <3>3. QED BY <3>1, <3>2
    <2> HIDE DEF kept
    <2>5. Len(citations') = Len(kept) /\ \A i \in 1..Len(kept) : citations'[i] = Cited(context[kept[i]])
      BY <2>1, <2>4
    <2>6. \A i \in 1..Len(citations') : \E s \in ToSet(context) : citations'[i] = Cited(s)
      <3>1. \A k \in 1..Len(context) : context[k] \in ToSet(context)
        BY <1>2 DEF ToSet
      <3>2. QED BY <2>4, <2>5, <3>1
    <2>7. step' = "answered" => citations' # <<>>
      <3> SUFFICES ASSUME step' = "answered" PROVE citations' # <<>>
        OBVIOUS
      <3>1. ~insufficient
        BY <2>1
      <3>2. Len(kept) # 0
        BY <1>6, <2>4, <3>1
      <3>3. Len(citations') # 0
        BY <2>5, <3>2
      <3>4. QED BY <3>3
    <2>8. step' \in {"answered", "insufficient"}
      BY <2>1
    <2>9. SourcesFit' <=> SourcesFit
      BY <1>1 DEF SourcesFit
    <2>10. QED BY <1>1, <1>2, <2>6, <2>7, <2>8, <2>9 DEF QuestionInv
  <1>7. QED BY <1>5, <1>6

\* No step of a question leaves the invariant.
LEMMA QuestionInvStep == QuestionInv /\ [QuestionNext]_questionVars => QuestionInv'
  <1> SUFFICES ASSUME QuestionInv, [QuestionNext]_questionVars PROVE QuestionInv'
    OBVIOUS
  <1>1. CASE IndexCommits
    BY <1>1, IndexCommitsKeeps
  <1>2. CASE CancelQuestion \/ RequestFails
    <2>1. /\ step \notin {"answered", "insufficient"} /\ step' \in {"cancelled", "failed"}
          /\ UNCHANGED <<index, commits, asked, searched, results, context, citations, seen, torn>>
      BY <1>2 DEF CancelQuestion, RequestFails
    <2>2. QED BY <2>1 DEF QuestionInv
  <1>3. CASE EmbedQuery \/ LoadChunks \/ ReadDimensions \/ RankBySimilarity \/ FindSymbols
    BY <1>3, SearchKeeps
  <1>4. CASE FuseRankings
    BY <1>4, FuseRankingsKeeps
  <1>5. CASE Rerank
    BY <1>5, RerankKeeps
  <1>6. CASE Assemble
    BY <1>6, AssembleKeeps
  <1>7. CASE Generate
    <2>1. SourcesFit' <=> SourcesFit
      BY <1>7 DEF Generate, SourcesFit
    <2>2. QED BY <1>7, <2>1 DEF Generate, QuestionInv
  <1>8. CASE MapAnswer
    BY <1>8, MapAnswerKeeps
  <1>9. CASE UNCHANGED questionVars
    <2>1. SourcesFit' <=> SourcesFit
      BY <1>9 DEF questionVars, SourcesFit
    <2>2. QED BY <1>9, <2>1 DEF questionVars, QuestionInv
  <1>10. QED BY <1>1, <1>2, <1>3, <1>4, <1>5, <1>6, <1>7, <1>8, <1>9 DEF QuestionNext

\* The invariant is what the citations need.
LEMMA QuestionInvShows == QuestionInv => CitationsWereShown
  <1> SUFFICES ASSUME QuestionInv PROVE CitationsWereShown
    OBVIOUS
  <1>1. step \in {"built", "generated", "answered"} =>
         /\ context # <<>>
         /\ \/ ContextChars(context) <= MaxContextChars
            \/ Len(context) = 1 /\ Size(context[1].chunk) = 1
         /\ asked.expanded =>
              \/ Sum([i \in 1..Len(context) |-> Tokens(BlockSize(context[i]))]) <= BudgetTokens
              \/ Len(context) = 1 /\ Size(context[1].chunk) = 1
    BY DEF QuestionInv, SourcesFit, TokensOf
  <1>2. ASSUME NEW i \in 1..Len(citations)
        PROVE  \E s \in ToSet(context) : \E c \in seen : citations[i] = Cited(s) /\ ShowsOf(s, c)
    <2>1. PICK s \in ToSet(context) : citations[i] = Cited(s)
      BY DEF QuestionInv
    <2>2. s \in Shows(seen)
      BY MembersFinite DEF QuestionInv
    <2>3. PICK c \in seen : ShowsOf(s, c)
      BY <2>2 DEF Shows
    <2>4. QED BY <2>1, <2>3
  <1>3. step = "answered" => citations # <<>>
    BY DEF QuestionInv
  <1>4. QED BY <1>1, <1>2, <1>3 DEF CitationsWereShown, ShowsOf

\* A RAG question, whatever the index, the request, the order the model answers in and the
\* number of index runs that commit meanwhile: the prompt is within both budgets or holds
\* the one character that is always kept, an answer cites something, and every citation
\* names lines that the model was shown of a chunk that was committed during the question.
THEOREM CitationsAreShown == QuestionSpec => []CitationsWereShown
  <1>1. QuestionSpec => []QuestionInv
    BY QuestionInvInit, QuestionInvStep, PTL DEF QuestionSpec
  <1>2. QED BY <1>1, QuestionInvShows, PTL

-----------------------------------------------------------------------------
(* What a search returns is one ranking. *)

\* No member twice.
NoRepeat(list) == \A i, k \in 1..Len(list) : list[i] = list[k] => i = k

\* What is drawn from a list without repetition has none.
LEMMA DrawnOnce ==
    ASSUME NEW T, NEW corpus \in Seq(T), NoRepeat(corpus), NEW D \in SUBSET (1..Len(corpus)),
           NEW list, DrawnFrom(list, corpus, D)
    PROVE  NoRepeat(list)
  <1>1. PICK pos \in [1..Len(list) -> D] :
            /\ \A i \in 1..Len(list) : list[i] = corpus[pos[i]]
            /\ \A i, k \in 1..Len(list) : pos[i] = pos[k] => i = k
    BY DEF DrawnFrom
  <1>2. \A i \in 1..Len(list) : pos[i] \in 1..Len(corpus)
    BY <1>1
  <1>3. QED BY <1>1, <1>2 DEF NoRepeat

\* Of one index, the searches list no chunk twice, and no symbol twice.
LEMMA SearchesOnce ==
    ASSUME NEW x \in Indexes, NEW depth \in Nat
    PROVE  LET S == ToSet(x.chunks) IN
           /\ x.chunks \in Seq(S)
           /\ SemanticSearch(x.chunks, depth) \in Seq(S) /\ NoRepeat(SemanticSearch(x.chunks, depth))
           /\ Len(SemanticSearch(x.chunks, depth)) <= depth
           /\ LexicalSearch(x.chunks, depth) \in Seq(S) /\ NoRepeat(LexicalSearch(x.chunks, depth))
           /\ SymbolSearch(x.chunks) \in Seq(S)
           /\ \A i, k \in 1..Len(SymbolSearch(x.chunks)) :
                SameSymbol(SymbolSearch(x.chunks)[i], SymbolSearch(x.chunks)[k]) => i = k
  <1> DEFINE S == ToSet(x.chunks)
             L == x.chunks
             list == SymbolSearch(L)
  <1>1. /\ L \in Seq(CodeChunks) /\ S \in SUBSET CodeChunks
        /\ \A i, k \in 1..Len(L) : Identity(L[i]) = Identity(L[k]) => i = k
    BY IndexDistinct
  <1>2. \A c : c \in S <=> \E i \in 1..Len(L) : L[i] = c
    BY <1>1, MembersFinite
  <1>3. L \in Seq(S)
    <2>1. Len(L) \in Nat /\ L \in [1..Len(L) -> CodeChunks]
      BY <1>1
    <2>2. \A i \in 1..Len(L) : L[i] \in S
      BY <1>2
    <2> HIDE DEF S, L
    <2>3. L \in [1..Len(L) -> S]
      BY <2>1, <2>2
    <2>4. QED BY <2>1, <2>3, IsSequence
  <1>4. NoRepeat(L)
    BY <1>1 DEF NoRepeat
  <1> HIDE DEF L, S
  <1>5. /\ SemanticSearch(L, depth) \in Seq(S) /\ LexicalSearch(L, depth) \in Seq(S)
        /\ list \in Seq(S) /\ Len(SemanticSearch(L, depth)) <= depth
        /\ DrawnFrom(SemanticSearch(L, depth), L, 1..Len(L))
        /\ DrawnFrom(LexicalSearch(L, depth), L, 1..Len(L))
        /\ DrawnFrom(list, L, Named(L))
    BY <1>1, <1>3, SearchesList
  <1>6. NoRepeat(SemanticSearch(L, depth)) /\ NoRepeat(LexicalSearch(L, depth))
    BY <1>3, <1>4, <1>5, DrawnOnce
  <1> HIDE DEF list
  <1>7. ASSUME NEW i \in 1..Len(list), NEW k \in 1..Len(list), SameSymbol(list[i], list[k])
        PROVE  i = k
    <2>1. PICK pos \in [1..Len(list) -> Named(L)] :
              /\ \A j \in 1..Len(list) : list[j] = L[pos[j]]
              /\ \A j, m \in 1..Len(list) : pos[j] = pos[m] => j = m
      BY <1>5 DEF DrawnFrom
    <2>2. pos[i] \in Named(L) /\ pos[k] \in Named(L) /\ list[i] = L[pos[i]] /\ list[k] = L[pos[k]]
      BY <2>1
    <2> DEFINE c == list[i]
               d == list[k]
               p == pos[i]
               q == pos[k]
    <2>3. p \in 1..Len(L) /\ q \in 1..Len(L)
      BY <2>2 DEF Named
    <2>4. c \in S /\ d \in S /\ c = L[p] /\ d = L[q]
      BY <1>2, <2>2, <2>3
    <2>5. \A e \in S : SameSymbol(c, e) => c.index <= e.index
      BY <2>2 DEF Named, S, L
    <2>6. \A e \in S : SameSymbol(d, e) => d.index <= e.index
      BY <2>2 DEF Named, S, L
    <2>7. SameSymbol(c, d) /\ SameSymbol(d, c)
      BY <1>7 DEF SameSymbol
    <2> HIDE DEF c, d, p, q
    <2>8. c \in CodeChunks /\ d \in CodeChunks
      BY <1>1, <2>4
    <2>9. c.index \in Nat /\ d.index \in Nat /\ c.path = d.path
      BY <2>7, <2>8, ChunkType DEF SameSymbol
    <2>10. c.index = d.index
      <3>1. c.index <= d.index /\ d.index <= c.index
        BY <2>4, <2>5, <2>6, <2>7
      <3>2. QED BY ONLY <2>9, <3>1
    <2>11. p = q
      <3>1. DOMAIN L = 1..Len(L)
        BY <1>1
      <3>2. \A j, m \in DOMAIN L : L[j].path = L[m].path /\ L[j].index = L[m].index => j = m
        BY QuestionAssumption DEF L
      <3>3. QED BY <2>3, <2>4, <2>9, <2>10, <3>1, <3>2
    <2>12. QED BY <2>1, <2>11 DEF p, q
  <1>8. QED BY <1>3, <1>5, <1>6, <1>7 DEF S, L, list

\* Lists of one index, none with a repetition, do not conflict.
LEMMA OneIndexAgrees ==
    ASSUME NEW S, Distinct(S), NEW sources \in Seq(Seq(S)),
           \A s \in 1..Len(sources) : NoRepeat(sources[s])
    PROVE  ~Conflict(sources)
  <1> SUFFICES ASSUME Conflict(sources) PROVE FALSE
    OBVIOUS
  <1>1. DOMAIN sources = 1..Len(sources) /\ \A s \in 1..Len(sources) : sources[s] \in Seq(S)
    OBVIOUS
  <1>2. PICK s \in DOMAIN sources, t \in DOMAIN sources :
          \E i \in 1..Len(sources[s]), k \in 1..Len(sources[t]) :
            /\ Identity(sources[s][i]) = Identity(sources[t][k])
            /\ sources[s][i] # sources[t][k] \/ (s = t /\ i # k)
    BY Zenon DEF Conflict
  <1>3. PICK i \in 1..Len(sources[s]), k \in 1..Len(sources[t]) :
            /\ Identity(sources[s][i]) = Identity(sources[t][k])
            /\ sources[s][i] # sources[t][k] \/ (s = t /\ i # k)
    BY <1>2
  <1>4. sources[s][i] \in S /\ sources[t][k] \in S
    BY <1>1
  <1>5. sources[s][i] = sources[t][k]
    BY <1>3, <1>4 DEF Distinct
  <1>6. s = t /\ i # k
    BY <1>3, <1>5
  <1>7. NoRepeat(sources[s]) /\ sources[s][i] = sources[s][k] /\ k \in 1..Len(sources[s])
    BY <1>1, <1>5, <1>6
  <1>8. QED BY <1>6, <1>7 DEF NoRepeat

\* The votes of different symbols go to different chunks.
LEMMA VotesOnce ==
    ASSUME NEW S, NEW symbols \in Seq(S), NEW evidence \in Seq(S),
           \A i, k \in 1..Len(symbols) : SameSymbol(symbols[i], symbols[k]) => i = k
    PROVE  NoRepeat(Project(symbols, evidence)) /\ NoRepeat(symbols)
  <1> DEFINE list == Project(symbols, evidence)
  <1>1. /\ Len(list) = Len(symbols)
        /\ \A i \in 1..Len(symbols) :
                \/ list[i] = symbols[i]
                \/ \E k \in 1..Len(evidence) :
                     /\ list[i] = evidence[k]
                     /\ SameSymbol(evidence[k], symbols[i])
    BY ProjectLists
  <1> HIDE DEF list
  <1>2. \A i \in 1..Len(symbols) : SameSymbol(list[i], symbols[i])
    <2> SUFFICES ASSUME NEW i \in 1..Len(symbols) PROVE SameSymbol(list[i], symbols[i])
      OBVIOUS
    <2>1. CASE list[i] = symbols[i]
      BY <2>1 DEF SameSymbol
    <2>2. CASE \E k \in 1..Len(evidence) : list[i] = evidence[k] /\ SameSymbol(evidence[k], symbols[i])
      BY <2>2
    <2>3. QED BY <1>1, <2>1, <2>2
  <1>3. ASSUME NEW i \in 1..Len(symbols), NEW k \in 1..Len(symbols), list[i] = list[k] PROVE i = k
    <2>1. SameSymbol(list[i], symbols[i]) /\ SameSymbol(list[k], symbols[k])
      BY <1>2
    <2>2. SameSymbol(symbols[i], symbols[k])
      BY <1>3, <2>1 DEF SameSymbol
    <2>3. QED BY <2>2
  <1>4. NoRepeat(symbols)
    BY DEF NoRepeat, SameSymbol
  <1>5. NoRepeat(list)
    BY <1>1, <1>3 DEF NoRepeat
  <1>6. QED BY <1>4, <1>5 DEF list

\* What every source prefers comes first.
LEMMA Dominance ==
    ASSUME NEW S \in SUBSET CodeChunks, NEW sources \in Seq(Seq(S)),
           NEW c \in Together(sources), NEW d \in Together(sources), c # d,
           \A s \in 1..Len(sources) :
               RankIn(sources[s], c) # 0 => RankIn(sources[s], d) \in 1..RankIn(sources[s], c)
    PROVE  ~Before(FusionKey(sources, c), FusionKey(sources, d))
  <1> DEFINE n == Len(sources)
  <1>1. n \in Nat /\ DOMAIN sources = 1..n /\ \A s \in 1..n : sources[s] \in Seq(S)
    OBVIOUS
  <1>2. \A s \in 1..n : RankIn(sources[s], c) \in Nat /\ RankIn(sources[s], d) \in Nat
    BY <1>1, RankFacts
  <1>3. \A s \in 1..n : Vote(RankIn(sources[s], c)) <= Vote(RankIn(sources[s], d))
    <2> SUFFICES ASSUME NEW s \in 1..n
                 PROVE  Vote(RankIn(sources[s], c)) <= Vote(RankIn(sources[s], d))
      OBVIOUS
    <2>1. ASSUME NEW q \in Nat, NEW r \in Nat, q # 0 => r \in 1..q PROVE Vote(q) <= Vote(r)
      <3>1. q # 0 => r # 0 /\ r <= q
        BY <2>1
      <3>2. CASE q = 0
        BY <3>2, VoteFacts
      <3>3. CASE q # 0
        <4>1. \A m, k \in Nat : k # 0 /\ k <= m => Vote(m) <= Vote(k)
          BY VoteFacts
        <4>2. QED BY ONLY <3>1, <3>3, <4>1
      <3>4. QED BY <3>2, <3>3
    <2>2. QED BY <1>2, <2>1
  <1>4. FusionScore(sources, c) <= FusionScore(sources, d)
    <2>1. /\ VotesFor(sources, c) \in [1..n -> Nat] /\ VotesFor(sources, d) \in [1..n -> Nat]
          /\ FusionScore(sources, c) = Sum(VotesFor(sources, c))
          /\ FusionScore(sources, d) = Sum(VotesFor(sources, d))
      BY FusionKeyFacts
    <2>2. \A s \in 1..n : VotesFor(sources, c)[s] <= VotesFor(sources, d)[s]
      BY <1>3 DEF VotesFor
    <2>3. QED BY <1>1, <2>1, <2>2, SumsCompare
  <1>5. Min(Ranks(sources, d)) < Min(Ranks(sources, c))
    <2> DEFINE m == Min(Ranks(sources, c))
    <2>1. m \in Ranks(sources, c)
      BY FusionKeyFacts
    <2>2. PICK s \in 1..n : m = RankIn(sources[s], c) /\ m # 0
      BY <1>1, <2>1 DEF Ranks
    <2> HIDE DEF m
    <2> DEFINE r == RankIn(sources[s], d)
    <2>3. r \in 1..m /\ r # 0 /\ m \in Nat
      BY <1>2, <2>2
    <2>4. sources[s][m] = c /\ sources[s][r] = d
      BY <1>1, <2>2, <2>3, RankFacts
    <2>5. r < m
      BY <2>3, <2>4
    <2>6. r \in Ranks(sources, d)
      BY <1>1, <2>3 DEF Ranks
    <2>7. Min(Ranks(sources, d)) <= r /\ r \in Nat /\ Min(Ranks(sources, d)) \in Nat
      BY <2>6, FusionKeyFacts
    <2> HIDE DEF r
    <2>8. Min(Ranks(sources, d)) < m
      BY ONLY <2>3, <2>5, <2>7
    <2>9. QED BY <2>8 DEF m
  <1> DEFINE x == FusionKey(sources, c)
             y == FusionKey(sources, d)
  <1>6. /\ x \in [1..6 -> Int] /\ y \in [1..6 -> Int]
        /\ x[1] = -FusionScore(sources, c) /\ x[2] = Min(Ranks(sources, c))
        /\ y[1] = -FusionScore(sources, d) /\ y[2] = Min(Ranks(sources, d))
        /\ FusionScore(sources, c) \in Nat /\ FusionScore(sources, d) \in Nat
    BY FusionKeyFacts
  <1> HIDE DEF x, y
  <1>7. ~(x[1] < y[1]) /\ y[2] < x[2]
    <2>1. ~(x[1] < y[1])
      <3>1. \A a, b \in Nat : a <= b => ~(-a < -b)
        OBVIOUS
      <3>2. ~(-FusionScore(sources, c) < -FusionScore(sources, d))
        BY ONLY <1>4, <1>6, <3>1, Zenon
      <3>3. QED BY ONLY <1>6, <3>2, Zenon
    <2>2. QED BY <1>5, <1>6, <2>1
  <1>8. ~Before(x, y)
    <2> SUFFICES ASSUME NEW p \in 1..6, x[p] < y[p], \A k \in 1..(p - 1) : x[k] = y[k] PROVE FALSE
      BY <1>6 DEF Before
    <2>1. x[1] \in Int /\ x[2] \in Int /\ y[2] \in Int
      BY <1>6
    <2>2. p # 1 /\ p # 2
      BY <1>7, <2>1
    <2>3. 2 \in 1..(p - 1)
      BY <2>2
    <2>4. x[2] = y[2]
      BY <2>3
    <2>5. QED BY <1>7, <2>1, <2>4
  <1>9. QED BY <1>8 DEF x, y

-----------------------------------------------------------------------------
(* A search that no index run interrupts sees one index. *)

\* No place in a file twice.
OnePlaceEach(list) == \A i, k \in 1..Len(list) : Identity(list[i]) = Identity(list[k]) => i = k

\* What the statements found is of index x.
OfIndex(found, x) ==
    /\ found.corpus \in {<<>>, x.chunks}
    /\ found.semantic \in Seq(ToSet(x.chunks)) /\ NoRepeat(found.semantic)
    /\ found.symbols \in Seq(ToSet(x.chunks))
    /\ \A i, k \in 1..Len(found.symbols) :
         SameSymbol(found.symbols[i], found.symbols[k]) => i = k

\* The ranking of SearchSound.
FoundSound ==
    /\ Len(results) <= Wanted /\ OnePlaceEach(results)
    /\ Hybrid => ToSet(results) \subseteq UNION {ToSet(Rankings[s]) : s \in 1..3}
    /\ Hybrid /\ ~Reranking =>
         \A i, k \in 1..Len(results) :
             (\A s \in 1..3 :
                 RankIn(Rankings[s], results[i]) # 0 =>
                     RankIn(Rankings[s], results[k]) \in 1..(RankIn(Rankings[s], results[i])))
             => k <= i

\* Until an index run commits between two statements, all of them saw one index.
SearchInv ==
    /\ step \in {"asked", "loading"} => searched = NothingSearched
    /\ ~torn => \E x \in Indexes : OfIndex(searched, x) /\ (step \in Searching => index = x)
    /\ Len(searched.semantic) <= Depth /\ OnePlaceEach(searched.semantic)
    /\ step = "fused" => Reranking
    /\ step = "conflict" => torn
    /\ step \in {"fused", "retrieved"} => FoundSound

\* Where nothing was searched, nothing was found.
LEMMA NothingFound ==
    /\ \A x : NothingSearched.semantic = <<>> /\ NothingSearched.corpus = <<>> /\ NothingSearched.symbols = <<>>
    /\ OnePlaceEach(<<>>) /\ NoRepeat(<<>>) /\ Len(<<>>) = 0
    /\ \A T : <<>> \in Seq(T)
    /\ \A i, k \in 1..Len(<<>>) : FALSE
  BY DEF NothingSearched, OnePlaceEach, NoRepeat

\* Nothing is of any index.
LEMMA NothingOfIndex == \A x : OfIndex(NothingSearched, x)
  BY NothingFound DEF OfIndex

\* A question begins before its search.
LEMMA SearchInvInit == QuestionInit => SearchInv
  <1> SUFFICES ASSUME QuestionInit PROVE SearchInv
    OBVIOUS
  <1>1. searched = NothingSearched /\ step = "asked" /\ index \in Indexes
    BY DEF QuestionInit
  <1>2. searched.semantic = <<>>
    BY <1>1, NothingFound
  <1>3. OfIndex(searched, index)
    BY <1>1, NothingOfIndex
  <1>4. Len(searched.semantic) <= Depth /\ OnePlaceEach(searched.semantic)
    BY <1>2, NothingFound, QuestionNumbersOf
  <1>5. QED BY <1>1, <1>3, <1>4 DEF SearchInv

\* The rankings depend on the request and on what the statements returned.
LEMMA SearchStays ==
    ASSUME UNCHANGED <<asked, searched>>
    PROVE  /\ Depth' = Depth /\ Wanted' = Wanted /\ Hybrid' = Hybrid /\ Reranking' = Reranking
           /\ Rankings' = Rankings
           /\ results' = results => (FoundSound' <=> FoundSound)
  <1>1. Hybrid' = Hybrid /\ Reranking' = Reranking
    BY DEF Hybrid, Reranking
  <1>2. Wanted' = Wanted
    BY <1>1 DEF Wanted
  <1>3. Depth' = Depth
    BY <1>1, <1>2 DEF Depth
  <1>4. Evidence' = Evidence
    BY <1>3 DEF Evidence
  <1>5. Rankings' = Rankings
    BY <1>4 DEF Rankings, Votes
  <1>6. results' = results => (FoundSound' <=> FoundSound)
    BY <1>1, <1>2, <1>5 DEF FoundSound
  <1>7. QED BY <1>1, <1>2, <1>3, <1>5, <1>6

\* A step that is not the search's, and that reaches neither its end nor an error of it.
LEMMA OtherStepKeepsSearch ==
    ASSUME SearchInv, UNCHANGED <<asked, searched>>, torn => torn',
           step' \notin {"asked", "loading", "fused", "conflict", "retrieved"} \cup Searching
    PROVE  SearchInv'
  <1>1. Depth' = Depth
    BY SearchStays
  <1>2. QED BY <1>1 DEF SearchInv, Searching

\* A commit between two statements is recorded, and one elsewhere changes no result.
LEMMA IndexCommitsKeepsSearch == SearchInv /\ IndexCommits => SearchInv'
  <1> SUFFICES ASSUME SearchInv, IndexCommits PROVE SearchInv'
    OBVIOUS
  <1>1. torn' = (torn \/ step \in Searching) /\ UNCHANGED <<asked, step, searched, results>>
    BY DEF IndexCommits
  <1>2. Depth' = Depth
        /\ Reranking' = Reranking /\ (FoundSound' <=> FoundSound)
    BY <1>1, SearchStays
  <1>3. QED BY <1>1, <1>2 DEF SearchInv

\* A statement of the search.
LEMMA StatementKeeps ==
    ASSUME SearchInv, index \in Indexes, UNCHANGED <<index, asked, torn>>,
           step' \in {"loading", "sizing", "ranking", "naming", "fusing", "failed"},
           step' = "loading" => searched' = NothingSearched,
           ~torn => OfIndex(searched', index),
           Len(searched'.semantic) <= Depth, OnePlaceEach(searched'.semantic)
    PROVE  SearchInv'
  <1>1. Depth' = Depth
    BY DEF Depth, Wanted, Hybrid, Reranking
  <1>2. ~torn' => OfIndex(searched', index') /\ index' \in Indexes
    OBVIOUS
  <1>3. QED BY <1>1, <1>2 DEF SearchInv

\* Every statement reads the index of its moment.
LEMMA StatementsKeepSearch ==
    ASSUME QuestionInv, SearchInv,
           EmbedQuery \/ LoadChunks \/ ReadDimensions \/ RankBySimilarity \/ FindSymbols
    PROVE  SearchInv'
  <1>1. index \in Indexes /\ searched \in [corpus : Seq(seen), semantic : Seq(seen), symbols : Seq(seen)]
    BY DEF QuestionInv
  <1>2. Len(searched.semantic) <= Depth /\ OnePlaceEach(searched.semantic)
    BY DEF SearchInv
  <1>3. ~torn /\ step \in Searching => OfIndex(searched, index)
    BY DEF SearchInv
  <1>4. AfterRanking \in {"naming", "fusing"}
    BY DEF AfterRanking
  <1> DEFINE S == ToSet(index.chunks)
             ranked == SemanticSearch(index.chunks, Depth)
             named == SymbolSearch(index.chunks)
  <1>5. /\ index.chunks \in Seq(S) /\ ranked \in Seq(S) /\ NoRepeat(ranked) /\ Len(ranked) <= Depth
        /\ named \in Seq(S)
        /\ \A i, k \in 1..Len(named) : SameSymbol(named[i], named[k]) => i = k
    BY <1>1, QuestionNumbersOf, SearchesOnce
  <1>6. Distinct(S)
    BY <1>1, IndexDistinct
  <1> HIDE DEF S, ranked, named
  <1>7. OnePlaceEach(ranked)
    <2>1. \A i \in 1..Len(ranked) : ranked[i] \in S
      BY <1>5
    <2>2. QED BY <1>5, <1>6, <2>1 DEF OnePlaceEach, NoRepeat, Distinct
  <1>8. CASE EmbedQuery
    <2>1. searched' = searched /\ searched = NothingSearched /\ step' \in {"loading", "sizing"}
          /\ UNCHANGED <<index, asked, torn>>
      BY <1>8 DEF EmbedQuery, Search, SearchInv
    <2>2. OfIndex(searched', index)
      BY <2>1, NothingOfIndex
    <2>3. QED BY <1>1, <1>2, <2>1, <2>2, StatementKeeps
  <1>9. CASE LoadChunks
    <2>1. /\ searched = NothingSearched /\ step' = "sizing" /\ UNCHANGED <<index, asked, torn>>
          /\ searched' = [searched EXCEPT !.corpus = index.chunks]
      BY <1>9 DEF LoadChunks, Search, SearchInv
    <2>2. searched'.corpus = index.chunks /\ searched'.semantic = <<>> /\ searched'.symbols = <<>>
      BY <2>1 DEF NothingSearched
    <2>3. OfIndex(searched', index)
      BY <2>2, NothingFound DEF OfIndex
    <2>4. Len(searched'.semantic) <= Depth /\ OnePlaceEach(searched'.semantic)
      BY <2>2, NothingFound, QuestionNumbersOf
    <2>5. QED BY <1>1, <2>1, <2>3, <2>4, StatementKeeps
  <1>10. CASE ReadDimensions
    <2>1. /\ step = "sizing" /\ searched' = searched /\ UNCHANGED <<index, asked, torn>>
          /\ step' \in {"ranking", "naming", "fusing", "failed"}
      BY <1>4, <1>10 DEF ReadDimensions, Search
    <2>2. ~torn => OfIndex(searched', index)
      BY <1>3, <2>1 DEF Searching
    <2>3. QED BY <1>1, <1>2, <2>1, <2>2, StatementKeeps
  <1>11. CASE RankBySimilarity
    <2> DEFINE list == IF index.model = QueryModel /\ index.dimensions = QueryDimensions
                       THEN ranked ELSE <<>>
    <2>1. /\ step = "ranking" /\ step' \in {"naming", "fusing"} /\ UNCHANGED <<index, asked, torn>>
          /\ searched' = [searched EXCEPT !.semantic = list]
      BY <1>4, <1>11 DEF RankBySimilarity, Search, ranked
    <2>2. /\ list \in Seq(S) /\ NoRepeat(list) /\ Len(list) <= Depth /\ OnePlaceEach(list)
      <3>1. list = ranked \/ list = <<>>
        OBVIOUS
      <3> HIDE DEF list
      <3>2. CASE list = ranked
        BY <1>5, <1>7, <3>2
      <3>3. CASE list = <<>>
        BY <3>3, NothingFound, QuestionNumbersOf
      <3>4. QED BY <3>1, <3>2, <3>3
    <2> HIDE DEF list
    <2>3. /\ searched'.corpus = searched.corpus /\ searched'.semantic = list
          /\ searched'.symbols = searched.symbols
      BY <1>1, <2>1
    <2>4. ~torn => OfIndex(searched', index)
      BY <1>3, <2>1, <2>2, <2>3 DEF Searching, OfIndex, S
    <2>5. QED BY <1>1, <2>1, <2>2, <2>3, <2>4, StatementKeeps
  <1>12. CASE FindSymbols
    <2>1. /\ step = "naming" /\ step' = "fusing" /\ UNCHANGED <<index, asked, torn>>
          /\ searched' = [searched EXCEPT !.symbols = named]
      BY <1>12 DEF FindSymbols, Search, named
    <2>2. /\ searched'.corpus = searched.corpus /\ searched'.semantic = searched.semantic
          /\ searched'.symbols = named
      BY <1>1, <2>1
    <2>3. ~torn => OfIndex(searched', index)
      BY <1>3, <1>5, <2>1, <2>2 DEF Searching, OfIndex, S
    <2>4. QED BY <1>1, <1>2, <2>1, <2>2, <2>3, StatementKeeps
  <1>13. QED BY <1>8, <1>9, <1>10, <1>11, <1>12

\* What the searches return of one index does not conflict.
LEMMA UntornAgrees ==
    ASSUME NEW x \in Indexes, OfIndex(searched, x)
    PROVE  ~Conflict(Evidence) /\ ~Conflict(Rankings)
  <1> DEFINE S == ToSet(x.chunks)
             limit == Len(Evidence[1]) + Len(Evidence[2])
  <1>1. /\ x.chunks \in Seq(S) /\ S \in SUBSET CodeChunks /\ Distinct(S)
        /\ \A i, k \in 1..Len(x.chunks) : Identity(x.chunks[i]) = Identity(x.chunks[k]) => i = k
    BY IndexDistinct, SearchesOnce, QuestionNumbersOf
  <1>2. NoRepeat(x.chunks)
    BY <1>1 DEF NoRepeat
  <1> HIDE DEF S
  <1>3. /\ searched.corpus \in Seq(S) /\ NoRepeat(searched.corpus)
        /\ searched.semantic \in Seq(S) /\ NoRepeat(searched.semantic)
        /\ searched.symbols \in Seq(S)
        /\ \A i, k \in 1..Len(searched.symbols) :
             SameSymbol(searched.symbols[i], searched.symbols[k]) => i = k
    BY <1>1, <1>2, NothingFound DEF OfIndex, S
  <1>4. /\ Evidence \in Seq(Seq(S)) /\ Len(Evidence) = 2
        /\ Evidence[1] = searched.semantic /\ Evidence[2] = LexicalSearch(searched.corpus, Depth)
        /\ (~asked.exact => ~Conflict(Evidence)) =>
             /\ Votes \in Seq(S) /\ Rankings \in Seq(Seq(S)) /\ Len(Rankings) = 3
             /\ Rankings[1] = Evidence[1] /\ Rankings[2] = Evidence[2] /\ Rankings[3] = Votes
    BY <1>1, <1>3, RankingLists
  <1>5. NoRepeat(Evidence[2])
    <2> DEFINE list == LexicalSearch(searched.corpus, Depth)
    <2>1. DrawnFrom(list, searched.corpus, 1..Len(searched.corpus))
      BY <1>1, <1>3, QuestionNumbersOf, SearchesList
    <2> HIDE DEF list
    <2>2. NoRepeat(list)
      BY <1>3, <2>1, DrawnOnce
    <2>3. QED BY <1>4, <2>2 DEF list
  <1>6. ~Conflict(Evidence)
    <2>1. \A s \in 1..2 : NoRepeat(Evidence[s])
      BY <1>3, <1>4, <1>5
    <2>2. \A s \in 1..Len(Evidence) : NoRepeat(Evidence[s])
      BY <1>4, <2>1
    <2>3. QED BY <1>1, <1>4, <2>2, OneIndexAgrees
  <1>7. NoRepeat(Votes)
    <2>1. CASE asked.exact
      <3>1. <<>> \in Seq(S)
        BY NothingFound
      <3>2. NoRepeat(searched.symbols)
        BY <1>3, <3>1, VotesOnce
      <3>3. QED BY <2>1, <3>2 DEF Votes
    <2>2. CASE ~asked.exact
      <3>1. limit \in Nat
        <4>1. \A l \in Seq(S) : Len(l) \in Nat
          OBVIOUS
        <4>2. Evidence[1] \in Seq(S) /\ Evidence[2] \in Seq(S)
          BY <1>1, <1>3, <1>4, SearchesList, QuestionNumbersOf
        <4>3. Len(Evidence[1]) \in Nat /\ Len(Evidence[2]) \in Nat
          BY ONLY <4>1, <4>2, Zenon
        <4>4. \A a, b \in Nat : a + b \in Nat
          OBVIOUS
        <4>5. QED BY ONLY <4>3, <4>4, Zenon DEF limit
      <3> HIDE DEF limit
      <3>2. Fuse(Evidence, limit) \in Seq(S)
        BY <1>1, <1>4, <1>6, <3>1, FuseFacts
      <3>3. NoRepeat(Project(searched.symbols, Fuse(Evidence, limit)))
        BY <1>3, <3>2, VotesOnce
      <3>4. Votes = Project(searched.symbols, Fuse(Evidence, limit))
        BY <2>2 DEF Votes, limit
      <3>5. QED BY <3>3, <3>4
    <2>3. QED BY <2>1, <2>2
  <1>8. ~Conflict(Rankings)
    <2>1. \A s \in 1..3 : NoRepeat(Rankings[s])
      BY <1>3, <1>4, <1>5, <1>6, <1>7
    <2>2. Rankings \in Seq(Seq(S)) /\ \A s \in 1..Len(Rankings) : NoRepeat(Rankings[s])
      BY <1>4, <1>6, <2>1
    <2>3. QED BY <1>1, <2>2, OneIndexAgrees
  <1>9. QED BY <1>6, <1>8

\* The fusion of rankings that agree.
LEMMA FusedSound ==
    ASSUME NEW S \in SUBSET CodeChunks, Rankings \in Seq(Seq(S)), Len(Rankings) = 3,
           ~Conflict(Rankings), NEW list, list = Fuse(Rankings, Wanted)
    PROVE  /\ Len(list) <= Wanted /\ OnePlaceEach(list)
           /\ ToSet(list) \subseteq UNION {ToSet(Rankings[s]) : s \in 1..3}
           /\ \A i, k \in 1..Len(list) :
                 (\A s \in 1..3 :
                     RankIn(Rankings[s], list[i]) # 0 =>
                         RankIn(Rankings[s], list[k]) \in 1..(RankIn(Rankings[s], list[i])))
                 => k <= i
  <1>1. /\ list \in Seq(Together(Rankings)) /\ Len(list) <= Wanted
        /\ \A i, k \in 1..Len(list) : Identity(list[i]) = Identity(list[k]) => i = k
        /\ \A i, k \in 1..Len(list) :
             i < k => Before(FusionKey(Rankings, list[i]), FusionKey(Rankings, list[k]))
    BY QuestionNumbersOf, FuseFacts
  <1>2. Together(Rankings) = UNION {ToSet(Rankings[s]) : s \in 1..3}
    BY DEF Together
  <1>3. ToSet(list) \subseteq Together(Rankings)
    BY <1>1, MembersFinite
  <1>4. ASSUME NEW i \in 1..Len(list), NEW k \in 1..Len(list),
               \A s \in 1..3 : RankIn(Rankings[s], list[i]) # 0 =>
                                   RankIn(Rankings[s], list[k]) \in 1..(RankIn(Rankings[s], list[i]))
        PROVE  k <= i
    <2> SUFFICES ASSUME i < k PROVE FALSE
      OBVIOUS
    <2>1. list[i] \in Together(Rankings) /\ list[k] \in Together(Rankings)
      BY <1>1
    <2>2. list[i] # list[k]
      BY <1>1
    <2>3. ~Before(FusionKey(Rankings, list[i]), FusionKey(Rankings, list[k]))
      BY <1>4, <2>1, <2>2, Dominance
    <2>4. QED BY <1>1, <2>3
  <1>5. QED BY <1>1, <1>2, <1>3, <1>4 DEF OnePlaceEach

\* The fusion fails only over a torn search, and otherwise ranks soundly.
LEMMA FuseRankingsKeepsSearch ==
    ASSUME QuestionInv, SearchInv, FuseRankings
    PROVE  SearchInv'
  <1>1. step = "fusing" /\ UNCHANGED <<index, asked, searched, torn>>
    BY DEF FuseRankings
  <1>2. /\ Depth' = Depth /\ Wanted' = Wanted /\ Hybrid' = Hybrid /\ Reranking' = Reranking
        /\ Rankings' = Rankings
    BY <1>1, SearchStays
  <1>3. Len(searched.semantic) <= Depth /\ OnePlaceEach(searched.semantic)
        /\ (~torn => \E x \in Indexes : OfIndex(searched, x))
    BY DEF SearchInv
  <1>4. CASE Hybrid /\ (Conflict(Evidence) \/ Conflict(Rankings))
    <2>1. step' = "conflict"
      BY <1>4 DEF FuseRankings
    <2>2. torn
      BY <1>3, <1>4, UntornAgrees
    <2>3. QED BY <1>1, <1>2, <1>3, <2>1, <2>2 DEF SearchInv, Searching
  <1>5. CASE ~(Hybrid /\ (Conflict(Evidence) \/ Conflict(Rankings)))
    <2>1. /\ results' = IF Hybrid THEN Fuse(Rankings, Wanted) ELSE searched.semantic
          /\ step' \in {"fused", "retrieved"} /\ (step' = "fused" => Reranking)
      BY <1>5 DEF FuseRankings
    <2>2. CASE Hybrid
      <3>1. /\ searched.corpus \in Seq(seen) /\ searched.semantic \in Seq(seen)
            /\ searched.symbols \in Seq(seen) /\ seen \in SUBSET CodeChunks
        BY DEF QuestionInv
      <3>2. Rankings \in Seq(Seq(seen)) /\ Len(Rankings) = 3 /\ ~Conflict(Rankings)
        BY <1>5, <2>2, <3>1, RankingLists
      <3>3. results' = Fuse(Rankings, Wanted)
        BY <2>1, <2>2
      <3>4. /\ Len(results') <= Wanted /\ OnePlaceEach(results')
            /\ ToSet(results') \subseteq UNION {ToSet(Rankings[s]) : s \in 1..3}
            /\ \A i, k \in 1..Len(results') :
                  (\A s \in 1..3 :
                      RankIn(Rankings[s], results'[i]) # 0 =>
                          RankIn(Rankings[s], results'[k]) \in 1..(RankIn(Rankings[s], results'[i])))
                  => k <= i
        BY <3>1, <3>2, <3>3, FusedSound
      <3>5. FoundSound'
        BY <1>2, <3>4 DEF FoundSound
      <3>6. QED BY <1>1, <1>2, <1>3, <2>1, <3>5 DEF SearchInv, Searching
    <2>3. CASE ~Hybrid
      <3>1. results' = searched.semantic /\ Depth = Wanted
        BY <2>1, <2>3 DEF Depth
      <3>2. FoundSound'
        BY <1>2, <1>3, <2>3, <3>1 DEF FoundSound
      <3>3. QED BY <1>1, <1>2, <1>3, <2>1, <3>2 DEF SearchInv, Searching
    <2>4. QED BY <2>2, <2>3
  <1>6. QED BY <1>4, <1>5

\* An answer that orders the candidates names each of them once.
LEMMA OrdersOnce ==
    ASSUME NEW n \in Nat, NEW m \in Nat, NEW answer \in [1..n -> 0..m], Orders(answer, m)
    PROVE  /\ n = m /\ answer \in [1..n -> 1..m]
           /\ \A i, k \in 1..n : answer[i] = answer[k] => i = k
  <1>1. n = m
    <2>1. answer \in Seq(0..m) /\ Len(answer) = n
      BY IsSequence
    <2>2. QED BY <2>1 DEF Orders
  <1>2. \A y : y \in ToSet(answer) <=> \E i \in 1..n : answer[i] = y
    BY DEF ToSet
  <1>3. ToSet(answer) = 1..n
    BY <1>1 DEF Orders
  <1>4. answer \in [1..n -> 1..n] /\ \A y \in 1..n : \E i \in 1..n : answer[i] = y
    BY <1>2, <1>3
  <1>5. answer \in Surjection(1..n, 1..n)
    BY <1>4 DEF Surjection
  <1>6. IsFiniteSet(1..n)
    BY FS_Interval
  <1>7. answer \in Injection(1..n, 1..n)
    BY <1>5, <1>6, FS_SurjSameCardinalityImpliesInj
  <1>8. \A i, k \in 1..n : answer[i] = answer[k] => i = k
    BY <1>7 DEF Injection, IsInjective
  <1>9. QED BY <1>1, <1>4, <1>8

\* A validated order of the candidates is a ranking of them.
LEMMA RerankKeepsSearch ==
    ASSUME QuestionInv, SearchInv, Rerank
    PROVE  SearchInv'
  <1> DEFINE candidates == Bounded(results, [c \in ToSet(results) |-> Block(c)])
             m == Len(candidates)
  <1>1. /\ step = "fused" /\ UNCHANGED <<index, commits, asked, searched, context, citations, seen, torn>>
    BY DEF Rerank
  <1>2. /\ Depth' = Depth /\ Wanted' = Wanted /\ Hybrid' = Hybrid /\ Reranking' = Reranking
        /\ Rankings' = Rankings
    BY <1>1, SearchStays
  <1>3. Reranking /\ Hybrid /\ FoundSound
    BY <1>1 DEF SearchInv, Reranking, Hybrid
  <1>4. results \in Seq(seen) /\ results # <<>>
    BY <1>1 DEF QuestionInv
  <1>5. /\ candidates \in Seq(seen) /\ m \in Nat
        /\ \A i \in 1..m : i \in 1..Len(results) /\ candidates[i] = results[i]
    BY <1>4, BoundedFacts
  <1>6. \E n \in 0..(m + 1) : \E answer \in [1..n -> 0..m] :
           IF Orders(answer, m)
             THEN /\ results' = Take([i \in 1..n |-> candidates[answer[i]]], TopK)
                  /\ step' = "retrieved"
             ELSE step' = "failed" /\ UNCHANGED results
    BY DEF Rerank
  <1> HIDE DEF candidates, m
  <1>7. PICK n \in 0..(m + 1) : \E answer \in [1..n -> 0..m] :
           IF Orders(answer, m)
             THEN /\ results' = Take([i \in 1..n |-> candidates[answer[i]]], TopK)
                  /\ step' = "retrieved"
             ELSE step' = "failed" /\ UNCHANGED results
    BY <1>6
  <1>8. PICK answer \in [1..n -> 0..m] :
           IF Orders(answer, m)
             THEN /\ results' = Take([i \in 1..n |-> candidates[answer[i]]], TopK)
                  /\ step' = "retrieved"
             ELSE step' = "failed" /\ UNCHANGED results
    BY <1>7
  <1>9. CASE ~Orders(answer, m)
    <2>1. step' = "failed"
      BY <1>8, <1>9
    <2>2. QED BY <1>1, <2>1, OtherStepKeepsSearch DEF Searching
  <1>10. CASE Orders(answer, m)
    <2> DEFINE list == [i \in 1..n |-> candidates[answer[i]]]
               short == Take(list, TopK)
    <2>1. results' = short /\ step' = "retrieved"
      BY <1>8, <1>10
    <2>2. n \in Nat /\ n = m /\ answer \in [1..n -> 1..m]
          /\ \A i, k \in 1..n : answer[i] = answer[k] => i = k
      <3>1. n \in Nat /\ m \in Nat
        BY <1>5
      <3>2. QED BY ONLY <1>10, <3>1, answer \in [1..n -> 0..m], OrdersOnce
    <2>3. \A i \in 1..n : /\ answer[i] \in 1..Len(results) /\ list[i] = results[answer[i]]
      BY <1>5, <2>2
    <2>4. list \in [1..n -> seen]
      BY <1>4, <2>3
    <2> HIDE DEF list
    <2>5. list \in Seq(seen) /\ Len(list) = n
      BY <2>2, <2>4, IsSequence
    <2>6. /\ short \in Seq(seen) /\ Len(short) = (IF Len(list) < TopK THEN Len(list) ELSE TopK)
          /\ \A i \in 1..Len(short) : i \in 1..Len(list) /\ short[i] = list[i]
      BY <2>5, QuestionNumbersOf, TakeFacts
    <2> HIDE DEF short
    <2>7. Len(short) <= Wanted
      BY <2>2, <2>5, <2>6, QuestionNumbersOf
    <2>8. \A i \in 1..Len(short) : /\ i \in 1..n /\ answer[i] \in 1..Len(results)
                                   /\ short[i] = results[answer[i]]
      BY <2>3, <2>5, <2>6
    <2>9. OnePlaceEach(short)
      <3>1. OnePlaceEach(results)
        BY <1>3 DEF FoundSound
      <3>2. ASSUME NEW i \in 1..Len(short), NEW k \in 1..Len(short),
                   Identity(short[i]) = Identity(short[k])
            PROVE  i = k
        <4>1. Identity(results[answer[i]]) = Identity(results[answer[k]])
          BY <2>8, <3>2
        <4>2. answer[i] \in 1..Len(results) /\ answer[k] \in 1..Len(results)
          BY <2>8
        <4>3. answer[i] = answer[k]
          BY ONLY <3>1, <4>1, <4>2, Zenon DEF OnePlaceEach
        <4>4. QED BY <2>2, <2>8, <4>3
      <3>3. QED BY <3>2 DEF OnePlaceEach
    <2>10. ToSet(short) \subseteq ToSet(results)
      <3>1. \A i \in 1..Len(short) : short[i] \in ToSet(results)
        BY <1>4, <2>8, MembersFinite
      <3>2. QED BY <2>6, <3>1, MembersFinite
    <2>11. FoundSound'
      <3>1. ToSet(results) \subseteq UNION {ToSet(Rankings[s]) : s \in 1..3}
        BY <1>3 DEF FoundSound
      <3>2. ToSet(results') \subseteq UNION {ToSet(Rankings[s]) : s \in 1..3}
        BY <2>1, <2>10, <3>1
      <3>3. QED BY <1>2, <1>3, <2>1, <2>7, <2>9, <3>2 DEF FoundSound
    <2>12. QED BY <1>1, <1>2, <2>1, <2>11 DEF SearchInv, Searching
  <1>11. QED BY <1>9, <1>10

\* No step of a question leaves the invariant of its search.
LEMMA SearchInvStep == QuestionInv /\ SearchInv /\ [QuestionNext]_questionVars => SearchInv'
  <1> SUFFICES ASSUME QuestionInv, SearchInv, [QuestionNext]_questionVars PROVE SearchInv'
    OBVIOUS
  <1>1. CASE IndexCommits
    BY <1>1, IndexCommitsKeepsSearch
  <1>2. CASE CancelQuestion \/ RequestFails \/ Assemble \/ Generate \/ MapAnswer
    <2>1. /\ UNCHANGED <<asked, searched, torn>>
          /\ step' \in {"cancelled", "failed", "insufficient", "built", "generated", "answered"}
      BY <1>2 DEF CancelQuestion, RequestFails, Assemble, Generate, MapAnswer
    <2>2. QED BY <2>1, OtherStepKeepsSearch DEF Searching
  <1>3. CASE EmbedQuery \/ LoadChunks \/ ReadDimensions \/ RankBySimilarity \/ FindSymbols
    BY <1>3, StatementsKeepSearch
  <1>4. CASE FuseRankings
    BY <1>4, FuseRankingsKeepsSearch
  <1>5. CASE Rerank
    BY <1>5, RerankKeepsSearch
  <1>6. CASE UNCHANGED questionVars
    <2>1. UNCHANGED <<index, asked, step, searched, results, torn>>
      BY <1>6 DEF questionVars
    <2>2. Depth' = Depth /\ Reranking' = Reranking /\ (FoundSound' <=> FoundSound)
      BY <2>1, SearchStays
    <2>3. QED BY <2>1, <2>2 DEF SearchInv
  <1>7. QED BY <1>1, <1>2, <1>3, <1>4, <1>5, <1>6 DEF QuestionNext

\* A search of the index while other processes commit to it: it fails over two chunks of one
\* place only if a commit really fell between its statements, and otherwise returns no more
\* than was asked for, no place twice, nothing that no statement returned, and no chunk
\* before one that every source prefers.
THEOREM SearchesAreSound == QuestionSpec => []SearchSound
  <1>1. SearchInv => SearchSound
    BY DEF SearchInv, FoundSound, OnePlaceEach, SearchSound
  <1>2. QuestionSpec => [](QuestionInv /\ SearchInv)
    BY QuestionInvInit, SearchInvInit, QuestionInvStep, SearchInvStep, PTL DEF QuestionSpec
  <1>3. QED BY <1>1, <1>2, PTL
-----------------------------------------------------------------------------
(* Where the parts of a list stand in the list. *)

\* The lengths of the lists of s.
LengthsOf(s) == [i \in 1..Len(s) |-> Len(s[i])]

\* Two lists, one behind the other.
LEMMA JoinedParts ==
    ASSUME NEW T, NEW x \in Seq(T), NEW y \in Seq(T)
    PROVE  /\ x \o y \in Seq(T) /\ Len(x \o y) = Len(x) + Len(y)
           /\ \A p \in 1..Len(x) : (x \o y)[p] = x[p]
           /\ \A j \in 1..Len(y) : (x \o y)[Len(x) + j] = y[j]
  <1>1. x \o y \in Seq(T) /\ Len(x \o y) = Len(x) + Len(y)
    OBVIOUS
  <1>2. \A p \in 1..Len(x) : (x \o y)[p] = x[p]
    OBVIOUS
  <1>3. ASSUME NEW j \in 1..Len(y) PROVE (x \o y)[Len(x) + j] = y[j]
    <2>1. Len(x) \in Nat /\ Len(y) \in Nat
      OBVIOUS
    <2>2. /\ Len(x) + j \in 1..(Len(x) + Len(y)) /\ ~(Len(x) + j <= Len(x))
          /\ (Len(x) + j) - Len(x) = j
      BY <2>1
    <2>3. QED BY <2>2
  <1>4. QED BY <1>1, <1>2, <1>3

\* Each element of a joined list stands behind the lists before its own.
LEMMA FlattenPlaces ==
    ASSUME NEW T, NEW s \in Seq(Seq(T)), NEW r, Running(r, LengthsOf(s), Len(s))
    PROVE  /\ FlattenSeq(s) \in Seq(T) /\ Len(FlattenSeq(s)) = r[Len(s)]
           /\ \A i \in 1..Len(s) : \A j \in 1..Len(s[i]) :
                /\ r[i - 1] + j \in 1..r[Len(s)]
                /\ FlattenSeq(s)[r[i - 1] + j] = s[i][j]
  <1> DEFINE n == Len(s)
  <1>1. n \in Nat /\ \A i \in 1..n : s[i] \in Seq(T) /\ Len(s[i]) \in Nat
    OBVIOUS
  <1>2. r \in [0..n -> Nat] /\ r[0] = 0 /\ \A i \in 1..n : r[i] = r[i - 1] + Len(s[i])
    BY DEF Running, LengthsOf
  <1>3. CASE n = 0
    <2>1. FlattenSeq(s) = <<>> /\ 1..n = {}
      BY <1>3 DEF FlattenSeq
    <2>2. QED BY <1>2, <1>3, <2>1
  <1>4. CASE n # 0
    <2>1. PICK f : Flattens(f, n, T, s) /\ FlattenSeq(s) = f[n]
      BY <1>4, FlattenRuns
    <2> DEFINE Placed(k) == /\ f[k] \in Seq(T) /\ Len(f[k]) = r[k]
                            /\ \A i \in 1..k : \A j \in 1..Len(s[i]) :
                                 /\ r[i - 1] + j \in 1..r[k]
                                 /\ f[k][r[i - 1] + j] = s[i][j]
               S == {k \in Nat : k + 1 <= n => Placed(k + 1)}
    <2> HIDE DEF n
    <2>2. Placed(1)
      <3>0. 1 \in 1..n /\ 1 - 1 = 0
        BY <1>1, <1>4
      <3>1. 1 \in 1..n /\ f[1] = s[1] /\ s[1] \in Seq(T) /\ r[1] = 0 + Len(s[1]) /\ Len(s[1]) \in Nat
        <4>1. \A i \in 1..n : f[i] = IF i = 1 THEN s[i] ELSE f[i - 1] \o s[i]
          BY <2>1 DEF Flattens
        <4>2. f[1] = s[1]
          BY <3>0, <4>1
        <4>3. r[1] = r[1 - 1] + Len(s[1]) /\ s[1] \in Seq(T) /\ Len(s[1]) \in Nat
          BY <1>1, <1>2, <3>0
        <4>4. QED BY <1>2, <3>0, <4>2, <4>3
      <3>2. \A i \in 1..1 : i = 1 /\ i - 1 = 0
        OBVIOUS
      <3>3. \A j \in 1..Len(s[1]) : 0 + j = j /\ j \in 1..r[1]
        BY <3>1
      <3>4. r[1] = Len(s[1])
        BY <3>1
      <3>5. QED BY <1>2, <3>1, <3>2, <3>3, <3>4
    <2>3. ASSUME NEW k \in Nat, k + 1 <= n, (k + 1) + 1 <= n, Placed(k + 1) PROVE Placed((k + 1) + 1)
      <3> DEFINE m == k + 1
                 x == f[m]
                 y == s[m + 1]
      <3>1. m + 1 \in 1..n /\ m + 1 # 1 /\ (m + 1) - 1 = m /\ m \in 0..n /\ m + 1 \in 0..n
        BY <1>1, <2>3
      <3>2. f[m + 1] = x \o y /\ x \in Seq(T) /\ y \in Seq(T) /\ Len(x) = r[m] /\ r[m] \in Nat
        BY <1>1, <1>2, <2>1, <2>3, <3>1 DEF Flattens
      <3>3. r[m + 1] = r[m] + Len(y) /\ Len(y) \in Nat
        BY <1>1, <1>2, <3>1
      <3> HIDE DEF x, y
      <3>4. /\ x \o y \in Seq(T) /\ Len(x \o y) = Len(x) + Len(y)
            /\ \A p \in 1..Len(x) : (x \o y)[p] = x[p]
            /\ \A j \in 1..Len(y) : (x \o y)[Len(x) + j] = y[j]
        <4>1. x \in Seq(T) /\ y \in Seq(T)
          BY <3>2
        <4>2. QED BY <4>1, JoinedParts
      <3>5. ASSUME NEW i \in 1..(m + 1), NEW j \in 1..Len(s[i])
            PROVE  r[i - 1] + j \in 1..r[m + 1] /\ f[m + 1][r[i - 1] + j] = s[i][j]
        <4>1. CASE i \in 1..m
          <5>1. r[i - 1] + j \in 1..r[m] /\ f[m][r[i - 1] + j] = s[i][j]
            BY <2>3, <4>1
          <5>2. x[r[i - 1] + j] = s[i][j] /\ r[i - 1] + j \in 1..Len(x)
            BY <3>2, <5>1 DEF x
          <5>3. (x \o y)[r[i - 1] + j] = s[i][j]
            BY ONLY <3>4, <5>2
          <5>4. r[i - 1] + j \in 1..r[m + 1]
            BY <3>2, <3>3, <5>1
          <5>5. QED BY <3>2, <5>3, <5>4
        <4>2. CASE i \notin 1..m
          <5>1. i = m + 1 /\ i - 1 = m
            BY <4>2
          <5>2. j \in 1..Len(y) /\ s[i][j] = y[j]
            BY <5>1 DEF y
          <5>3. (x \o y)[r[m] + j] = y[j]
            BY <3>2, <3>4, <5>2
          <5>4. r[m] + j \in 1..r[m + 1]
            <6> DEFINE u == r[m]
                       v == r[m + 1]
                       l == Len(y)
            <6>1. u \in Nat /\ l \in Nat /\ v = u + l /\ j \in 1..l
              BY <3>2, <3>3, <5>2
            <6> HIDE DEF u, v, l
            <6>2. u + j \in 1..v
              BY ONLY <6>1
            <6>3. QED BY <6>2 DEF u, v
          <5>5. QED BY <3>2, <5>1, <5>2, <5>3, <5>4
        <4>3. QED BY <4>1, <4>2
      <3>6. f[m + 1] \in Seq(T) /\ Len(f[m + 1]) = r[m + 1]
        BY <3>2, <3>3, <3>4
      <3>7. QED BY <3>5, <3>6
    <2> HIDE DEF Placed
    <2>4. 0 \in S
      BY <2>2
    <2>5. \A k \in Nat : k \in S => k + 1 \in S
      <3> SUFFICES ASSUME NEW k \in Nat, k \in S, (k + 1) + 1 <= n PROVE Placed((k + 1) + 1)
        OBVIOUS
      <3>1. k + 1 <= n
        BY <1>1
      <3>2. QED BY <2>3, <3>1
    <2> HIDE DEF S
    <2>6. Placed(n)
      <3>1. n - 1 \in Nat /\ (n - 1) + 1 = n
        BY <1>1, <1>4
      <3>2. n - 1 \in S
        BY <2>4, <2>5, <3>1, NumbersAllIn
      <3>3. (n - 1) + 1 <= n => Placed((n - 1) + 1)
        BY <3>2 DEF S
      <3>4. QED BY <1>1, <3>1, <3>3
    <2>7. QED BY <2>1, <2>6 DEF Placed, n
  <1>5. QED BY <1>3, <1>4

\* Each place of the whole is in one of the parts.
LEMMA Located ==
    ASSUME NEW n \in Nat, NEW s \in [1..n -> Nat], NEW r, Running(r, s, n), NEW p \in 1..r[n]
    PROVE  \E i \in 1..n : \E j \in 1..s[i] : p = r[i - 1] + j
  <1> DEFINE T == {m \in 1..n : p <= r[m]}
  <1>1. r \in [0..n -> Nat] /\ r[0] = 0 /\ \A i \in 1..n : r[i] = r[i - 1] + s[i] /\ s[i] \in Nat
    BY DEF Running
  <1>2. n \in 0..n /\ r[n] \in Nat /\ n # 0 /\ p \in Nat /\ p # 0 /\ p <= r[n]
    BY <1>1
  <1>3. n \in T
    BY <1>2
  <1>4. T \in SUBSET Nat /\ T # {}
    BY <1>3
  <1>5. PICK i \in T : \A y \in T : i <= y
    BY <1>4, LeastNumber
  <1>6. i \in 1..n /\ p <= r[i] /\ i - 1 \in 0..n
    BY <1>5
  <1>7. r[i - 1] < p
    <2>1. CASE i = 1
      BY <1>1, <1>2, <2>1
    <2>2. CASE i # 1
      <3>1. i - 1 \in 1..n /\ ~(i <= i - 1) /\ r[i - 1] \in Nat
        BY <1>1, <1>6, <2>2
      <3>2. i - 1 \notin T
        BY <1>5, <3>1
      <3>3. QED BY <1>2, <3>1, <3>2
    <2>3. QED BY <2>1, <2>2
  <1>8. r[i] = r[i - 1] + s[i] /\ r[i - 1] \in Nat /\ s[i] \in Nat
    BY <1>1, <1>6
  <1>9. p - r[i - 1] \in 1..s[i] /\ p = r[i - 1] + (p - r[i - 1])
    BY <1>2, <1>6, <1>7, <1>8
  <1>10. QED BY <1>6, <1>9

-----------------------------------------------------------------------------
(* The text of a file, and the pieces of a line that is too long. *)

\* A place in a file: a line and a character of it.
Spots == Nat \X Nat
\* Files: the lengths of their lines, none of them empty.
Files == Seq(Nat \ {0})

\* The text from one line to another, given where every line ends (off): as long as its
\* lines together, and every character where it belongs.
LEMMA TextFacts ==
    ASSUME NEW file \in Files, NEW off, Running(off, file, Len(file)),
           NEW from \in 1..Len(file), NEW to \in (from - 1)..Len(file)
    PROVE  /\ TextOf(file, from, to) \in Seq(Spots)
           /\ Len(TextOf(file, from, to)) = off[to] - off[from - 1]
           /\ \A n \in from..to : \A k \in 1..file[n] :
                /\ (off[n - 1] - off[from - 1]) + k \in 1..(off[to] - off[from - 1])
                /\ TextOf(file, from, to)[(off[n - 1] - off[from - 1]) + k] = <<n, k>>
  <1> DEFINE m == to - from + 1
             s == [i \in 1..m |-> [k \in 1..file[from + i - 1] |-> <<from + i - 1, k>>]]
             r == [i \in 0..m |-> off[from + i - 1] - off[from - 1]]
  <1>1. /\ Len(file) \in Nat /\ from \in Nat /\ to \in Nat /\ m \in Nat /\ from - 1 \in 0..Len(file)
        /\ from - 1 <= to /\ to <= Len(file) /\ from # 0
    OBVIOUS
  <1>2. \A i \in 1..m : /\ from + i - 1 \in 1..Len(file) /\ from + (i - 1) - 1 = from + i - 1 - 1
                        /\ from + i - 1 - 1 \in 0..Len(file) /\ i \in 0..m /\ i - 1 \in 0..m
    BY <1>1
  <1>3. \A i \in 0..m : from + i - 1 \in 0..Len(file) /\ from - 1 <= from + i - 1
    BY <1>1
  <1>4. /\ off \in [0..Len(file) -> Nat]
        /\ \A n \in 1..Len(file) : off[n] = off[n - 1] + file[n] /\ file[n] \in Nat /\ file[n] # 0
    BY DEF Running, Files
  <1>5. file \in [1..Len(file) -> Nat]
    BY <1>4 DEF Files
  <1> HIDE DEF m
  <1>6. s \in Seq(Seq(Spots)) /\ Len(s) = m
    <2>1. \A i \in 1..m : [k \in 1..file[from + i - 1] |-> <<from + i - 1, k>>] \in Seq(Spots)
      <3> SUFFICES ASSUME NEW i \in 1..m
                   PROVE  [k \in 1..file[from + i - 1] |-> <<from + i - 1, k>>] \in Seq(Spots)
        OBVIOUS
      <3>1. file[from + i - 1] \in Nat /\ from + i - 1 \in Nat
        BY <1>2, <1>4
      <3> DEFINE l == file[from + i - 1]
                 b == from + i - 1
      <3> HIDE DEF l, b
      <3>2. l \in Nat /\ b \in Nat
        BY <3>1 DEF l, b
      <3>3. \A k \in 1..l : <<b, k>> \in Spots
        BY <3>2 DEF Spots
      <3>4. [k \in 1..l |-> <<b, k>>] \in Seq(Spots)
        BY <3>2, <3>3, IsSequence
      <3>5. QED BY <3>4 DEF l, b
    <2> DEFINE g == [i \in 1..m |-> [k \in 1..file[from + i - 1] |-> <<from + i - 1, k>>]]
    <2>2. \A i \in 1..m : g[i] \in Seq(Spots)
      BY <2>1
    <2>3. s = [i \in 1..m |-> g[i]]
      OBVIOUS
    <2> HIDE DEF g, s
    <2>4. [i \in 1..m |-> g[i]] \in Seq(Seq(Spots)) /\ Len([i \in 1..m |-> g[i]]) = m
      BY <1>1, <2>2, IsSequence
    <2>5. QED BY <2>3, <2>4
  <1>7. \A i \in 1..m : /\ Len(s[i]) = file[from + i - 1]
                        /\ \A k \in 1..file[from + i - 1] : s[i][k] = <<from + i - 1, k>>
    BY <1>2, <1>4
  <1>8. r \in [0..m -> Nat]
    <2>1. \A i \in 0..m : off[from - 1] <= off[from + i - 1]
      BY <1>1, <1>3, <1>5, RunsGrow
    <2>2. \A i \in 0..m : off[from - 1] \in Nat /\ off[from + i - 1] \in Nat
      BY <1>1, <1>3, <1>4
    <2>3. QED BY <2>1, <2>2
  <1>9. Running(r, LengthsOf(s), Len(s))
    <2>1. 0 \in 0..m /\ r[0] = off[from + 0 - 1] - off[from - 1] /\ from + 0 - 1 = from - 1
      BY <1>1
    <2>2. r[0] = 0
      <3>1. off[from + 0 - 1] = off[from - 1] /\ off[from - 1] \in Nat
        BY <1>1, <1>4, <2>1
      <3> HIDE DEF r
      <3>2. QED BY <2>1, <3>1
    <2>3. ASSUME NEW i \in 1..m PROVE r[i] = r[i - 1] + Len(s[i])
      <3>1. r[i] = off[from + i - 1] - off[from - 1] /\ r[i - 1] = off[from + i - 1 - 1] - off[from - 1]
        BY <1>2
      <3>2. off[from + i - 1] = off[from + i - 1 - 1] + file[from + i - 1]
        BY <1>2, <1>4
      <3>3. off[from - 1] \in Nat /\ off[from + i - 1 - 1] \in Nat /\ file[from + i - 1] \in Nat
        BY <1>1, <1>2, <1>4
      <3>4. Len(s[i]) = file[from + i - 1]
        BY <1>7
      <3> HIDE DEF r, s
      <3>5. QED BY <3>1, <3>2, <3>3, <3>4
    <2> HIDE DEF r, s
    <2>4. LengthsOf(s) = [i \in 1..m |-> Len(s[i])]
      BY <1>6 DEF LengthsOf
    <2>5. QED BY <1>6, <1>8, <2>2, <2>3, <2>4 DEF Running
  <1>10. TextOf(file, from, to) = FlattenSeq(s)
    BY DEF TextOf, m
  <1>11. r[m] = off[to] - off[from - 1]
    <2>1. m \in 0..m /\ from + m - 1 = to
      BY <1>1 DEF m
    <2>2. QED BY <2>1
  <1>12. ASSUME NEW n \in from..to, NEW k \in 1..file[n]
         PROVE  /\ (off[n - 1] - off[from - 1]) + k \in 1..(off[to] - off[from - 1])
                /\ FlattenSeq(s)[(off[n - 1] - off[from - 1]) + k] = <<n, k>>
    <2> DEFINE i == n - from + 1
    <2>1. i \in 1..m /\ from + i - 1 = n /\ i - 1 \in 0..m /\ from + (i - 1) - 1 = n - 1
      BY <1>1 DEF m
    <2>2. k \in 1..Len(s[i]) /\ s[i][k] = <<n, k>> /\ r[i - 1] = off[n - 1] - off[from - 1]
      BY <1>7, <2>1
    <2> HIDE DEF i, s, r
    <2>3. r[i - 1] + k \in 1..r[m] /\ FlattenSeq(s)[r[i - 1] + k] = s[i][k]
      <3>1. \A a \in 1..Len(s) : \A b \in 1..Len(s[a]) :
              r[a - 1] + b \in 1..r[Len(s)] /\ FlattenSeq(s)[r[a - 1] + b] = s[a][b]
        BY SMTT(30), <1>6, <1>9, FlattenPlaces
      <3>2. QED BY <1>6, <2>1, <2>2, <3>1
    <2>4. QED BY <1>11, <2>2, <2>3
  <1> HIDE DEF s, r
  <1>13. FlattenSeq(s) \in Seq(Spots) /\ Len(FlattenSeq(s)) = r[m]
    BY <1>6, <1>9, FlattenPlaces
  <1>14. QED BY <1>10, <1>11, <1>12, <1>13

\* A number is what division says.
LEMMA DivisionFacts ==
    ASSUME NEW a \in Nat, NEW b \in Nat, b # 0
    PROVE  /\ a \div b \in Nat /\ a % b \in Nat /\ a % b < b
           /\ a = b * (a \div b) + (a % b)
  OBVIOUS

\* Factors are compared like the products.
LEMMA FactorsCompare ==
    ASSUME NEW a \in Nat, NEW b \in Nat, NEW x \in Nat, a # 0
    PROVE  /\ a * x <= a * b => x <= b
           /\ a * x < a * b => x < b
           /\ x < b => a * x + a <= a * b
  <1>1. ASSUME b < x PROVE a * b + a <= a * x
    <2>1. b + 1 <= x /\ x - (b + 1) \in Nat
      BY <1>1
    <2>2. a * x = a * (b + 1) + a * (x - (b + 1)) /\ a * (x - (b + 1)) \in Nat
      BY <2>1
    <2>3. a * (b + 1) = a * b + a
      OBVIOUS
    <2>4. QED BY <2>2, <2>3
  <1>2. ASSUME x < b PROVE a * x + a <= a * b
    <2>1. x + 1 <= b /\ b - (x + 1) \in Nat
      BY <1>2
    <2>2. a * b = a * (x + 1) + a * (b - (x + 1)) /\ a * (b - (x + 1)) \in Nat
      BY <2>1
    <2>3. a * (x + 1) = a * x + a
      OBVIOUS
    <2>4. QED BY <2>2, <2>3
  <1>3. a * b \in Nat /\ a * x \in Nat
    OBVIOUS
  <1>4. x = b => a * x = a * b
    OBVIOUS
  <1>5. x < b \/ x = b \/ b < x
    OBVIOUS
  <1>6. QED BY <1>1, <1>2, <1>3, <1>4, <1>5

\* A line of l characters, cut into the fewest pieces of at most max: where they end.
PieceCount(l, max) == (l + max - 1) \div max
PieceEnd(l, max, i) ==
    LET count == PieceCount(l, max) IN
    i * (l \div count) + (IF i < l % count THEN i ELSE l % count)

\* Pieces end one behind the other, none longer than the limit, and the last with the line.
LEMMA PieceNumbers ==
    ASSUME NEW l \in Nat, l # 0, NEW max \in Nat, max # 0
    PROVE  /\ PieceCount(l, max) \in Nat /\ PieceCount(l, max) # 0
           /\ \A i \in 0..PieceCount(l, max) : PieceEnd(l, max, i) \in Nat
           /\ PieceEnd(l, max, 0) = 0 /\ PieceEnd(l, max, PieceCount(l, max)) = l
           /\ \A i \in 1..PieceCount(l, max) :
                /\ PieceEnd(l, max, i - 1) < PieceEnd(l, max, i)
                /\ PieceEnd(l, max, i) - PieceEnd(l, max, i - 1) <= max
  <1> DEFINE count == PieceCount(l, max)
             size  == l \div count
             rest  == l % count
  <1>1. /\ count \in Nat /\ (l + max - 1) % max \in Nat /\ (l + max - 1) % max < max
        /\ l + max - 1 = max * count + ((l + max - 1) % max) /\ l + max - 1 \in Nat
    <2>1. l + max - 1 \in Nat
      OBVIOUS
    <2>2. QED BY <2>1, DivisionFacts DEF PieceCount
  <1> HIDE DEF count
  <1>2. max * count \in Nat /\ l <= max * count /\ max * count < l + max
    BY <1>1
  <1>3. count # 0
    <2>1. count = 0 => max * count = 0
      OBVIOUS
    <2>2. QED BY <1>2, <2>1
  <1>4. count <= l
    <2>1. CASE count = 1
      BY <2>1
    <2>2. CASE count # 1
      <3> DEFINE d == count - 1
      <3>1. d \in Nat /\ count = d + 1
        BY <1>1, <1>3
      <3> HIDE DEF d
      <3>2. max * count = max * d + max /\ max * d \in Nat
        BY <3>1
      <3>3. d <= max * d
        <4>1. max - 1 \in Nat
          OBVIOUS
        <4>2. max * d = d + (max - 1) * d /\ (max - 1) * d \in Nat
          BY <3>1, <4>1
        <4>3. QED BY <3>1, <4>2
      <3>4. max * d < l
        BY <1>2, <3>2
      <3>5. QED BY <3>1, <3>2, <3>3, <3>4
    <2>3. QED BY <2>1, <2>2
  <1>5. size \in Nat /\ rest \in Nat /\ rest < count /\ l = count * size + rest
    BY <1>1, <1>3, DivisionFacts
  <1> HIDE DEF size, rest
  <1>6. count * size \in Nat /\ count * max \in Nat /\ count * max = max * count
    BY <1>1, <1>5
  <1>7. size # 0
    <2>1. size = 0 => count * size = 0
      BY <1>1
    <2>2. QED BY <1>1, <1>4, <1>5, <2>1
  <1>8. size <= max /\ (rest # 0 => size < max)
    <2>1. count * size + rest <= count * max
      BY <1>2, <1>5, <1>6
    <2>2. count * size <= count * max /\ (rest # 0 => count * size < count * max)
      BY <1>5, <1>6, <2>1
    <2>3. QED BY <1>1, <1>3, <1>5, <2>2, FactorsCompare
  <1> DEFINE more(i) == IF i < rest THEN i ELSE rest
  <1>9. \A i : PieceEnd(l, max, i) = i * size + more(i)
    BY DEF PieceEnd, count, size, rest
  <1>10. \A i \in 0..count : more(i) \in Nat /\ i * size \in Nat /\ i \in Nat
    BY <1>1, <1>5
  <1>11. PieceEnd(l, max, 0) = 0
    <2>1. more(0) = 0 /\ 0 * size = 0
      BY <1>5
    <2>2. QED BY <1>9, <2>1
  <1>12. PieceEnd(l, max, count) = l
    <2>1. more(count) = rest
      BY <1>1, <1>5
    <2>2. QED BY <1>5, <1>9, <2>1
  <1>13. ASSUME NEW i \in 1..count
         PROVE  /\ PieceEnd(l, max, i - 1) < PieceEnd(l, max, i)
                /\ PieceEnd(l, max, i) - PieceEnd(l, max, i - 1) <= max
    <2>1. i \in Nat /\ i - 1 \in Nat /\ i \in 0..count /\ i - 1 \in 0..count
      BY <1>1
    <2>2. i * size = (i - 1) * size + size /\ (i - 1) * size \in Nat
      BY <1>5, <2>1
    <2>3. IF i <= rest THEN more(i) = more(i - 1) + 1 ELSE more(i) = more(i - 1)
      BY <1>5, <2>1
    <2>4. i <= rest => rest # 0
      BY <1>5, <2>1
    <2>5. more(i - 1) \in Nat
      BY <1>10, <2>1
    <2> HIDE DEF more
    <2>6. /\ PieceEnd(l, max, i) = i * size + more(i)
          /\ PieceEnd(l, max, i - 1) = (i - 1) * size + more(i - 1)
      BY <1>9
    <2> DEFINE u == (i - 1) * size
    <2> HIDE DEF u
    <2>7. u \in Nat /\ i * size = u + size /\ PieceEnd(l, max, i - 1) = u + more(i - 1)
      BY <2>2, <2>6 DEF u
    <2>8. CASE i <= rest
      BY <1>5, <1>7, <1>8, <2>3, <2>4, <2>5, <2>6, <2>7, <2>8
    <2>9. CASE ~(i <= rest)
      BY <1>5, <1>7, <1>8, <2>3, <2>5, <2>6, <2>7, <2>9
    <2>10. QED BY <2>8, <2>9
  <1>14. \A i \in 0..count : PieceEnd(l, max, i) \in Nat
    BY <1>9, <1>10
  <1>15. QED BY <1>1, <1>3, <1>11, <1>12, <1>13, <1>14 DEF count

\* A part of a list.
LEMMA PartFacts ==
    ASSUME NEW T, NEW s \in Seq(T), NEW a \in 1..Len(s), NEW b \in a..Len(s)
    PROVE  /\ SubSeq(s, a, b) \in Seq(T) /\ Len(SubSeq(s, a, b)) = b - a + 1
           /\ \A i \in 1..(b - a + 1) : SubSeq(s, a, b)[i] = s[a + i - 1]
  <1>1. a \in Int /\ b \in Int /\ a <= b /\ \A i \in a..b : s[i] \in T
    OBVIOUS
  <1>2. QED BY <1>1, SubSeqProperties

\* Lists of the same elements are the same.
LEMMA SameLists ==
    ASSUME NEW T, NEW s \in Seq(T), NEW t \in Seq(T), Len(s) = Len(t),
           \A i \in 1..Len(s) : s[i] = t[i]
    PROVE  s = t
  <1>1. s = [i \in 1..Len(s) |-> s[i]] /\ t = [i \in 1..Len(t) |-> t[i]]
    OBVIOUS
  <1>2. QED BY <1>1

\* All of a file.
FileText(file) == TextOf(file, 1, Len(file))

\* Every place of the text is a character of a line, and no two are the same.
LEMMA WholeFacts ==
    ASSUME NEW file \in Files, NEW off, Running(off, file, Len(file)), file # <<>>
    PROVE  /\ FileText(file) \in Seq(Spots) /\ Len(FileText(file)) = off[Len(file)]
           /\ \A n \in 1..Len(file) : \A k \in 1..file[n] :
                off[n - 1] + k \in 1..off[Len(file)] /\ FileText(file)[off[n - 1] + k] = <<n, k>>
           /\ \A p \in 1..off[Len(file)] : \E n \in 1..Len(file) : \E k \in 1..file[n] :
                p = off[n - 1] + k /\ FileText(file)[p] = <<n, k>>
           /\ \A p, q \in 1..off[Len(file)] : FileText(file)[p] = FileText(file)[q] => p = q
  <1> DEFINE N == Len(file)
             w == FileText(file)
  <1>1. N \in Nat /\ N # 0 /\ 1 \in 1..N /\ N \in (1 - 1)..N /\ 1 - 1 = 0 /\ file \in [1..N -> Nat]
    BY DEF Files
  <1>2. off[0] = 0 /\ off \in [0..N -> Nat]
    BY DEF Running
  <1>3. /\ w \in Seq(Spots) /\ Len(w) = off[N] - off[1 - 1]
        /\ \A n \in 1..N : \A k \in 1..file[n] :
             /\ (off[n - 1] - off[1 - 1]) + k \in 1..(off[N] - off[1 - 1])
             /\ w[(off[n - 1] - off[1 - 1]) + k] = <<n, k>>
    <2> DEFINE x == TextOf(file, 1, N)
    <2>1. /\ x \in Seq(Spots) /\ Len(x) = off[N] - off[1 - 1]
          /\ \A n \in 1..N : \A k \in 1..file[n] :
               /\ (off[n - 1] - off[1 - 1]) + k \in 1..(off[N] - off[1 - 1])
               /\ x[(off[n - 1] - off[1 - 1]) + k] = <<n, k>>
      <3> HIDE DEF N
      <3> DEFINE a == 1
      <3>1. Running(off, file, N) /\ N = Len(file) /\ file \in Files
        BY DEF N
      <3>2. a \in 1..N /\ N \in (a - 1)..N
        BY <1>1
      <3> HIDE DEF a
      <3>3. /\ TextOf(file, a, N) \in Seq(Spots) /\ Len(TextOf(file, a, N)) = off[N] - off[a - 1]
            /\ \A n \in a..N : \A k \in 1..file[n] :
                 /\ (off[n - 1] - off[a - 1]) + k \in 1..(off[N] - off[a - 1])
                 /\ TextOf(file, a, N)[(off[n - 1] - off[a - 1]) + k] = <<n, k>>
        BY ONLY <3>1, <3>2, TextFacts
      <3>4. QED BY <3>3 DEF a
    <2>2. w = x
      BY DEF FileText
    <2> HIDE DEF w, x
    <2>3. QED BY <2>1, <2>2
  <1> HIDE DEF w
  <1>4. \A n \in 1..N : off[n - 1] \in Nat /\ off[n - 1] - off[1 - 1] = off[n - 1]
    BY <1>1, <1>2
  <1>5. off[N] \in Nat /\ off[N] - off[1 - 1] = off[N]
    BY <1>1, <1>2
  <1>6. /\ Len(w) = off[N]
        /\ \A n \in 1..N : \A k \in 1..file[n] : off[n - 1] + k \in 1..off[N] /\ w[off[n - 1] + k] = <<n, k>>
    BY <1>3, <1>4, <1>5
  <1>7. \A p \in 1..off[N] : \E n \in 1..N : \E k \in 1..file[n] : p = off[n - 1] + k /\ w[p] = <<n, k>>
    <2> SUFFICES ASSUME NEW p \in 1..off[N]
                 PROVE  \E n \in 1..N : \E k \in 1..file[n] : p = off[n - 1] + k /\ w[p] = <<n, k>>
      OBVIOUS
    <2>1. \E n \in 1..N : \E k \in 1..file[n] : p = off[n - 1] + k
      BY <1>1, Located
    <2>2. QED BY <1>6, <2>1
  <1>8. \A p, q \in 1..off[N] : w[p] = w[q] => p = q
    BY <1>7
  <1>9. QED BY <1>3, <1>6, <1>7, <1>8 DEF w

\* The text of some lines is the part of the whole between their ends.
LEMMA TextIsPart ==
    ASSUME NEW file \in Files, NEW off, Running(off, file, Len(file)),
           NEW from \in 1..Len(file), NEW to \in from..Len(file)
    PROVE  /\ TextOf(file, from, to) = SubSeq(FileText(file), off[from - 1] + 1, off[to])
           /\ Chars(file, from, to) = off[to] - off[from - 1]
           /\ off[from - 1] + 1 \in 1..off[to] /\ off[to] \in 1..off[Len(file)]
           /\ FileText(file)[off[from - 1] + 1] = <<from, 1>>
           /\ FileText(file)[off[to]] = <<to, file[to]>>
  <1> DEFINE N == Len(file)
             w == FileText(file)
             x == TextOf(file, from, to)
             l == off[to] - off[from - 1]
  <1>1. /\ N \in Nat /\ N # 0 /\ file # <<>> /\ file \in [1..N -> Nat] /\ to \in (from - 1)..N
        /\ from \in Nat /\ to \in Nat /\ from <= to /\ to \in 1..N /\ from - 1 \in 0..N /\ to - 1 \in 0..N /\ to \in 0..N
        /\ \A n \in 1..N : file[n] \in Nat /\ file[n] # 0
    BY DEF Files
  <1>2. /\ off \in [0..N -> Nat] /\ off[0] = 0 /\ \A n \in 1..N : off[n] = off[n - 1] + file[n]
    BY DEF Running
  <1>3. /\ w \in Seq(Spots) /\ Len(w) = off[N]
        /\ \A n \in 1..N : \A k \in 1..file[n] : off[n - 1] + k \in 1..off[N] /\ w[off[n - 1] + k] = <<n, k>>
        /\ \A p \in 1..off[N] : \E n \in 1..N : \E k \in 1..file[n] : p = off[n - 1] + k /\ w[p] = <<n, k>>
    BY <1>1, WholeFacts
  <1>4. /\ x \in Seq(Spots) /\ Len(x) = l
        /\ \A n \in from..to : \A k \in 1..file[n] :
             (off[n - 1] - off[from - 1]) + k \in 1..l /\ x[(off[n - 1] - off[from - 1]) + k] = <<n, k>>
    BY <1>1, TextFacts
  <1>5. Chars(file, from, to) = l
    BY <1>4 DEF Chars
  <1> DEFINE b == off[from - 1]
  <1> HIDE DEF w, x
  <1>6. b \in Nat /\ off[to] \in Nat /\ off[N] \in Nat /\ off[to - 1] \in Nat /\ off[to] <= off[N] /\ b <= off[to - 1]
        /\ off[to] = off[to - 1] + file[to] /\ off[from] = b + file[from]
    <2>1. off[to] <= off[N]
      BY <1>1, RunsGrow
    <2>2. b <= off[to - 1]
      <3>1. from - 1 <= to - 1
        BY <1>1
      <3>2. QED BY <1>1, <3>1, RunsGrow
    <2>3. b \in Nat /\ off[to] \in Nat /\ off[N] \in Nat /\ off[to - 1] \in Nat
      <3>1. N \in 0..N
        BY <1>1
      <3>2. QED BY <1>1, <1>2, <3>1
    <2>4. off[to] = off[to - 1] + file[to] /\ off[from] = b + file[from]
      BY <1>1, <1>2
    <2>5. QED BY <2>1, <2>2, <2>3, <2>4
  <1>7. b < off[to]
    BY <1>1, <1>6
  <1>8. w[b + 1] = <<from, 1>>
    <2>1. 1 \in 1..file[from]
      BY <1>1
    <2>2. QED BY <1>3, <2>1
  <1>9. w[off[to]] = <<to, file[to]>>
    <2>1. file[to] \in 1..file[to]
      BY <1>1
    <2>2. w[off[to - 1] + file[to]] = <<to, file[to]>>
      BY <1>1, <1>3, <2>1
    <2>3. QED BY <1>6, <2>2
  <1>10. ASSUME NEW q \in 1..l PROVE x[q] = w[b + q]
    <2>1. q \in Nat /\ b + q \in 1..off[N] /\ b < b + q /\ b + q <= off[to]
      BY <1>6
    <2>2. PICK n \in 1..N : \E k \in 1..file[n] : b + q = off[n - 1] + k /\ w[b + q] = <<n, k>>
      BY <1>3, <2>1
    <2>3. PICK k \in 1..file[n] : b + q = off[n - 1] + k /\ w[b + q] = <<n, k>>
      BY <2>2
    <2>4. n \in Nat /\ n - 1 \in 0..N /\ n \in 0..N /\ off[n - 1] \in Nat /\ off[n] = off[n - 1] + file[n]
          /\ k \in Nat /\ k # 0 /\ k <= file[n] /\ file[n] \in Nat
      <3>1. n \in Nat /\ n - 1 \in 0..N /\ n \in 0..N /\ file[n] \in Nat
        BY <1>1
      <3>2. off[n - 1] \in Nat /\ off[n] = off[n - 1] + file[n]
        BY <1>2, <3>1
      <3>3. k \in Nat /\ k # 0 /\ k <= file[n]
        BY <3>1
      <3>4. QED BY <3>1, <3>2, <3>3
    <2>5. from <= n
      <3>1. SUFFICES ASSUME n <= from - 1 PROVE FALSE
        BY <1>1, <2>4
      <3>2. off[n] <= b
        BY <1>1, <2>4, <3>1, RunsGrow
      <3> DEFINE u == off[n - 1]
                 m == file[n]
      <3>3. /\ b \in Nat /\ u \in Nat /\ m \in Nat /\ k \in Nat /\ q \in Nat /\ k <= m
            /\ u + m <= b /\ b < b + q /\ b + q = u + k
        BY <1>6, <2>1, <2>3, <2>4, <3>2
      <3> HIDE DEF b, l, u, m
      <3>4. QED BY ONLY <3>3
    <2>6. n <= to
      <3>1. SUFFICES ASSUME to <= n - 1 PROVE FALSE
        BY <1>1, <2>4
      <3>2. off[to] <= off[n - 1]
        BY <1>1, <2>4, <3>1, RunsGrow
      <3> DEFINE u == off[n - 1]
                 v == off[to]
      <3>3. /\ b \in Nat /\ u \in Nat /\ v \in Nat /\ k \in Nat /\ q \in Nat /\ k # 0
            /\ v <= u /\ b + q <= v /\ b + q = u + k
        BY <1>6, <2>1, <2>3, <2>4, <3>2
      <3> HIDE DEF b, l, u, v
      <3>4. QED BY ONLY <3>3
    <2>7. n \in from..to
      BY <1>1, <2>5, <2>6
    <2>8. x[(off[n - 1] - b) + k] = <<n, k>>
      BY <1>4, <2>7
    <2>9. (off[n - 1] - b) + k = q
      <3> DEFINE u == off[n - 1]
      <3>1. b \in Nat /\ u \in Nat /\ k \in Nat /\ q \in Nat /\ b + q = u + k
        BY <1>6, <2>1, <2>3, <2>4
      <3> HIDE DEF b, l, u
      <3>2. (u - b) + k = q
        BY ONLY <3>1
      <3>3. QED BY <3>2 DEF u
    <2>10. QED BY <2>3, <2>8, <2>9
  <1>11. x = SubSeq(w, b + 1, off[to])
    <2> DEFINE y == SubSeq(w, b + 1, off[to])
    <2> HIDE DEF b
    <2>1. /\ b + 1 \in 1..Len(w) /\ off[to] \in (b + 1)..Len(w) /\ off[to] - (b + 1) + 1 = off[to] - b
          /\ \A q \in 1..(off[to] - b) : b + 1 + q - 1 = b + q
      <3> DEFINE hi == off[to]
                 m == Len(w)
      <3>1. b \in Nat /\ hi \in Nat /\ m \in Nat /\ b < hi /\ hi <= m
        BY <1>3, <1>6, <1>7
      <3> HIDE DEF hi, m
      <3>2. /\ b + 1 \in 1..m /\ hi \in (b + 1)..m /\ hi - (b + 1) + 1 = hi - b
            /\ \A q \in 1..(hi - b) : b + 1 + q - 1 = b + q
        BY ONLY <3>1
      <3>3. QED BY <3>2 DEF hi, m
    <2>2. /\ y \in Seq(Spots) /\ Len(y) = off[to] - (b + 1) + 1
          /\ \A q \in 1..(off[to] - (b + 1) + 1) : y[q] = w[b + 1 + q - 1]
      <3> DEFINE lo == b + 1
                 hi == off[to]
      <3>1. w \in Seq(Spots) /\ lo \in 1..Len(w) /\ hi \in lo..Len(w)
        BY <1>3, <2>1
      <3> HIDE DEF lo, hi
      <3>2. /\ SubSeq(w, lo, hi) \in Seq(Spots) /\ Len(SubSeq(w, lo, hi)) = hi - lo + 1
            /\ \A q \in 1..(hi - lo + 1) : SubSeq(w, lo, hi)[q] = w[lo + q - 1]
        BY ONLY <3>1, PartFacts
      <3>3. QED BY <3>2 DEF lo, hi
    <2> HIDE DEF y
    <2>3. Len(y) = off[to] - b /\ \A q \in 1..(off[to] - b) : y[q] = w[b + q]
      BY <2>1, <2>2
    <2>4. Len(x) = off[to] - b /\ \A q \in 1..(off[to] - b) : x[q] = w[b + q]
      BY <1>4, <1>10 DEF b
    <2>5. x = y
      BY <1>4, <2>2, <2>3, <2>4, SameLists
    <2>6. QED BY <2>5 DEF y
  <1>12. b + 1 \in 1..off[to] /\ off[to] \in 1..off[N]
    BY <1>6, <1>7
  <1>13. QED BY <1>5, <1>8, <1>9, <1>11, <1>12 DEF w, x

-----------------------------------------------------------------------------
(* The windows of lines. *)

\* The limits of a configuration.
Limited(c) == c.lines \in Nat \ {0} /\ c.chars \in Nat \ {0} /\ c.overlap \in 0..(c.lines - 1)

\* A set of small numbers has a largest one.
LEMMA MaxFromZero ==
    ASSUME NEW n \in Nat, NEW s \in SUBSET (0..n), s # {}
    PROVE  Max(s) \in s /\ \A y \in s : y <= Max(s)
  <1>1. \E x \in s : \A y \in s : x >= y
    <2>1. CASE s \cap (1..n) = {}
      <3>1. \A x \in s : x = 0
        BY <2>1
      <3>2. PICK x \in s : TRUE
        OBVIOUS
      <3>3. x = 0 /\ \A y \in s : x >= y
        BY <3>1
      <3>4. QED BY <3>3
    <2>2. CASE s \cap (1..n) # {}
      <3> DEFINE t == s \cap (1..n)
      <3>1. t \in SUBSET (1..n) /\ t # {}
        BY <2>2
      <3>2. \A y \in s : y \in t \/ y = 0
        OBVIOUS
      <3>3. t \subseteq s
        OBVIOUS
      <3> HIDE DEF t
      <3>4. Max(t) \in t /\ \A y \in t : y <= Max(t)
        BY <3>1, MaxOfFinite
      <3>5. Max(t) \in Nat
        <4>1. Max(t) \in 1..n
          BY <3>1, <3>4
        <4>2. QED BY <4>1
      <3>6. \A y \in s : Max(t) >= y
        BY <3>1, <3>2, <3>4, <3>5
      <3>7. QED BY <3>3, <3>4, <3>6
    <2>3. QED BY <2>1, <2>2
  <1>2. Max(s) \in s /\ \A y \in s : Max(s) >= y
    BY <1>1 DEF Max
  <1>3. \A x, y \in 0..n : x >= y => y <= x
    OBVIOUS
  <1>4. QED BY <1>2, <1>3

\* A window is within both limits and no longer one is.
LEMMA WindowFacts ==
    ASSUME NEW file \in Files, NEW c, Limited(c), NEW start \in 1..Len(file)
    PROVE  LET end == WindowEnd(file, c, start) IN
           /\ end \in (start - 1)..Len(file)
           /\ end >= start => end - start < c.lines /\ Chars(file, start, end) <= c.chars
           /\ \A e \in start..Len(file) :
                e - start < c.lines /\ Chars(file, start, e) <= c.chars => e <= end
  <1> DEFINE N == Len(file)
             s == {start - 1} \cup {e \in start..N : e - start < c.lines /\ Chars(file, start, e) <= c.chars}
  <1>1. N \in Nat /\ start \in Nat /\ start - 1 \in 0..N /\ start <= N /\ start # 0
    BY DEF Files
  <1>2. WindowEnd(file, c, start) = Max(s)
    BY DEF WindowEnd
  <1>3. s \in SUBSET (0..N) /\ s # {}
    BY <1>1
  <1> DEFINE end == Max(s)
  <1>4. end \in s /\ \A y \in s : y <= end
    <2> HIDE DEF s, N
    <2>1. QED BY <1>1, <1>3, MaxFromZero
  <1> HIDE DEF end
  <1>5. end \in (start - 1)..N
    BY <1>1, <1>4
  <1>6. end >= start => end - start < c.lines /\ Chars(file, start, end) <= c.chars
    <2>1. end >= start => end # start - 1
      BY <1>1
    <2>2. QED BY <1>4, <2>1
  <1>7. \A e \in start..N : e - start < c.lines /\ Chars(file, start, e) <= c.chars => e <= end
    BY <1>4
  <1>8. QED BY <1>2, <1>5, <1>6, <1>7 DEF end

\* The next window repeats fewer lines than a window has, and leaves room for a new one.
LEMMA OverlapFacts ==
    ASSUME NEW file \in Files, NEW c, Limited(c), NEW start \in 1..Len(file),
           NEW end \in start..Len(file), end - start < c.lines
    PROVE  LET o == Overlap(file, c, start, end) IN
           /\ o \in 0..(end - start) /\ o < c.lines
           /\ o # 0 => Chars(file, end - o + 1, end + 1) <= c.chars
  <1> DEFINE m == end - start + 1
             share == (m * c.overlap) \div c.lines
             s == {0} \cup {o \in 1..share : Chars(file, end - o + 1, end + 1) <= c.chars}
  <1>1. m \in Nat /\ m # 0 /\ m <= c.lines /\ c.lines \in Nat /\ c.lines # 0 /\ c.overlap \in Nat /\ c.overlap < c.lines
    BY DEF Limited, Files
  <1>2. Overlap(file, c, start, end) = Max(s)
    BY DEF Overlap
  <1> DEFINE t == m * c.overlap
  <1> HIDE DEF m
  <1>3. t \in Nat
    BY <1>1
  <1>4. share \in Nat /\ t % c.lines \in Nat /\ t = c.lines * share + (t % c.lines)
    BY <1>1, <1>3, DivisionFacts
  <1>5. share < m
    <2>1. c.lines * share \in Nat /\ c.lines * share <= t
      <3> HIDE DEF share, t
      <3>1. c.lines * share \in Nat
        <4>1. c.lines \in Nat /\ share \in Nat
          BY <1>1, <1>4
        <4>2. \A u, v \in Nat : u * v \in Nat
          OBVIOUS
        <4>3. QED BY <4>1, <4>2
      <3>2. QED BY <1>3, <1>4, <3>1
    <2>2. t < m * c.lines
      <3>1. m * c.overlap + m <= m * c.lines
        <4> DEFINE u == c.overlap
                   v == c.lines
        <4>1. m \in Nat /\ m # 0 /\ u \in Nat /\ v \in Nat /\ u < v
          BY <1>1
        <4> HIDE DEF u, v
        <4>2. m * u + m <= m * v
          BY ONLY <4>1, FactorsCompare
        <4>3. QED BY <4>2 DEF u, v
      <3>2. m * c.lines \in Nat /\ t + m <= m * c.lines
        BY <1>1, <3>1
      <3> HIDE DEF t
      <3>3. QED BY <1>1, <1>3, <3>2
    <2>3. m * c.lines = c.lines * m /\ c.lines * m \in Nat
      BY <1>1
    <2> HIDE DEF share, t
    <2>4. c.lines * share < c.lines * m
      BY <1>3, <2>1, <2>2, <2>3
    <2>5. QED BY <1>1, <1>4, <2>4, FactorsCompare
  <1> DEFINE o == Max(s)
  <1>6. o \in s
    <2>1. s \in SUBSET (0..share) /\ s # {}
      BY <1>4
    <2> HIDE DEF s, share
    <2>2. QED BY <1>4, <2>1, MaxFromZero
  <1> HIDE DEF o
  <1>7. o \in 0..share
    BY <1>4, <1>6
  <1>8. o # 0 => Chars(file, end - o + 1, end + 1) <= c.chars
    BY <1>6
  <1> HIDE DEF share, s
  <1>9. o \in 0..(end - start) /\ o < c.lines
    <2>1. end - start = m - 1 /\ end - start \in Nat
      BY DEF m
    <2>2. m \in Nat /\ m <= c.lines /\ c.lines \in Nat /\ share \in Nat
      BY <1>1, <1>4
    <2>3. QED BY ONLY <1>5, <1>7, <2>1, <2>2
  <1>10. QED BY <1>2, <1>8, <1>9 DEF o

\* The last line that the window at start has something of.
Reach(file, c, start) == IF WindowEnd(file, c, start) < start THEN start ELSE WindowEnd(file, c, start)
\* The window at second goes on where the window at first ends, or holds what follows it.
GoesFurther(file, c, first, second) ==
    \/ Reach(file, c, first) < second
    \/ second <= WindowEnd(file, c, second) /\ Reach(file, c, first) < WindowEnd(file, c, second)

\* The scan of a file for windows advances: the next window begins behind the start of this
\* one and leaves no line out, and whatever it repeats, it holds a line that this one did not
\* reach, or begins with it a line that is too long for any window.
THEOREM WindowsAdvance ==
    ASSUME NEW file \in Files, NEW c, Limited(c), NEW start \in 1..Len(file)
    PROVE  LET next == NextStart(file, c, start) IN
           /\ Reach(file, c, start) \in start..Len(file)
           /\ next \in (start + 1)..(Len(file) + 1) /\ next <= Reach(file, c, start) + 1
           /\ next <= Len(file) => GoesFurther(file, c, start, next)
  <1> DEFINE N == Len(file)
             end == WindowEnd(file, c, start)
             next == NextStart(file, c, start)
  <1>1. N \in Nat /\ start \in Nat /\ start # 0 /\ start <= N
    BY DEF Files
  <1>2. /\ end \in (start - 1)..N
        /\ end >= start => end - start < c.lines /\ Chars(file, start, end) <= c.chars
    BY WindowFacts
  <1>3. next = IF end < start THEN start + 1
               ELSE IF end = N THEN N + 1 ELSE end + 1 - Overlap(file, c, start, end)
    BY DEF NextStart
  <1>4. Reach(file, c, start) = IF end < start THEN start ELSE end
    BY DEF Reach
  <1> HIDE DEF end, next
  <1>5. CASE end < start \/ end = N
    <2>1. /\ Reach(file, c, start) \in start..N /\ next \in (start + 1)..(N + 1)
          /\ next = Reach(file, c, start) + 1
      BY <1>1, <1>2, <1>3, <1>4, <1>5
    <2>2. Reach(file, c, start) < next
      BY <2>1
    <2>3. QED BY <2>1, <2>2 DEF GoesFurther, next
  <1>6. CASE ~(end < start \/ end = N)
    <2> DEFINE o == Overlap(file, c, start, end)
    <2>1. end \in start..N /\ end < N /\ end - start < c.lines /\ end >= start
      BY <1>1, <1>2, <1>6
    <2>2. o \in 0..(end - start) /\ o < c.lines /\ (o # 0 => Chars(file, end - o + 1, end + 1) <= c.chars)
      BY <2>1, OverlapFacts
    <2>3. next = end + 1 - o /\ Reach(file, c, start) = end
      BY <1>1, <1>2, <1>3, <1>4, <1>6
    <2> HIDE DEF o
    <2>4. next \in (start + 1)..(N + 1) /\ next <= end + 1 /\ Reach(file, c, start) \in start..N
      BY <1>1, <2>1, <2>2, <2>3
    <2>5. GoesFurther(file, c, start, next)
      <3>1. CASE o = 0
        <4>1. Reach(file, c, start) < next
          BY <1>1, <2>1, <2>3, <3>1
        <4>2. QED BY <4>1 DEF GoesFurther
      <3>2. CASE o # 0
        <4>1. next \in 1..N /\ end + 1 \in next..N /\ (end + 1) - next = o /\ end - o + 1 = next
          BY <1>1, <2>1, <2>2, <2>3, <3>2
        <4>2. (end + 1) - next < c.lines /\ Chars(file, next, end + 1) <= c.chars
          BY <2>2, <3>2, <4>1
        <4>3. end + 1 <= WindowEnd(file, c, next) /\ WindowEnd(file, c, next) \in (next - 1)..N
          BY <4>1, <4>2, WindowFacts
        <4>4. next <= WindowEnd(file, c, next) /\ end < WindowEnd(file, c, next)
          BY <1>1, <2>1, <2>4, <4>1, <4>3
        <4>5. QED BY <2>3, <4>4 DEF GoesFurther
      <3>3. QED BY <3>1, <3>2
    <2>6. QED BY <2>3, <2>4, <2>5 DEF next
  <1>7. QED BY <1>5, <1>6

\* What is so of the windows' starts by their definition.
LEMMA StartsFacts ==
    ASSUME NEW file \in Files, file # <<>>, NEW c, Limited(c)
    PROVE  LET s == Starts(file, c) IN
           /\ s \in SUBSET (1..Len(file)) /\ 1 \in s
           /\ \A x \in s : NextStart(file, c, x) <= Len(file) => NextStart(file, c, x) \in s
           /\ \A x \in s : x # 1 => \E p \in s : NextStart(file, c, p) = x
  <1> DEFINE N == Len(file)
             s == Starts(file, c)
             Next(x) == NextStart(file, c, x)
             Closed(S) == 1 \in S /\ \A x \in S : Next(x) \in S \cup {N + 1}
  <1>1. N \in Nat /\ N # 0 /\ 1 \in 1..N
    BY DEF Files
  <1>2. s = {x \in 1..N : \A S \in SUBSET (1..N) : Closed(S) => x \in S}
    BY DEF Starts
  <1>3. \A x \in 1..N : Next(x) \in (x + 1)..(N + 1)
    BY WindowsAdvance
  <1> HIDE DEF s, Next
  <1>4. s \in SUBSET (1..N) /\ 1 \in s
    BY <1>1, <1>2
  <1>5. ASSUME NEW x \in s, Next(x) <= N PROVE Next(x) \in s
    <2>1. x \in 1..N /\ Next(x) \in 1..N /\ Next(x) # N + 1
      BY <1>1, <1>3, <1>4, <1>5
    <2>2. ASSUME NEW S \in SUBSET (1..N), Closed(S) PROVE Next(x) \in S
      BY <1>2, <1>5, <2>1, <2>2
    <2>3. QED BY <1>2, <2>1, <2>2
  <1>6. ASSUME NEW x \in s, x # 1 PROVE \E p \in s : Next(p) = x
    <2>1. SUFFICES ASSUME \A p \in s : Next(p) # x PROVE FALSE
      OBVIOUS
    <2> DEFINE S == s \ {x}
    <2>2. S \in SUBSET (1..N) /\ 1 \in S
      BY <1>4, <1>6
    <2>3. ASSUME NEW p \in S PROVE Next(p) \in S \cup {N + 1}
      <3>1. p \in s /\ p \in 1..N /\ Next(p) # x
        BY <1>4, <2>1
      <3>2. Next(p) \in (p + 1)..(N + 1)
        BY <1>3, <3>1
      <3>3. Next(p) <= N \/ Next(p) = N + 1
        BY <1>1, <3>1, <3>2
      <3>4. QED BY <1>5, <3>1, <3>3
    <2>4. Closed(S)
      BY <2>2, <2>3
    <2>5. x \in S
      <3> HIDE DEF S, Closed
      <3>1. QED BY <1>2, <2>2, <2>4
    <2>6. QED BY <2>5
  <1>7. QED BY <1>4, <1>5, <1>6 DEF s, Next

\* No window begins between the start of one and the start of the next.
LEMMA StartsFollow ==
    ASSUME NEW file \in Files, file # <<>>, NEW c, Limited(c),
           NEW p \in Starts(file, c), NEW x \in Starts(file, c), p < x
    PROVE  NextStart(file, c, p) <= x
  <1> DEFINE N == Len(file)
             s == Starts(file, c)
             Next(z) == NextStart(file, c, z)
             V == {z \in s : \E q \in s : q < z /\ z < Next(q)}
  <1>1. N \in Nat /\ s \in SUBSET (1..N)
    BY StartsFacts DEF Files
  <1>2. \A z \in s : z \in Nat /\ z # 0 /\ Next(z) \in Nat /\ z < Next(z)
    <2>1. \A z \in 1..N : Next(z) \in (z + 1)..(N + 1)
      BY WindowsAdvance
    <2>2. \A z \in s : z \in 1..N /\ Next(z) \in (z + 1)..(N + 1)
      BY <1>1, <2>1
    <2> HIDE DEF s, Next
    <2>3. QED BY <1>1, <2>2
  <1>3. \A z \in s : z # 1 => \E q \in s : Next(q) = z
    BY StartsFacts
  <1> HIDE DEF s, Next
  <1>4. V = {}
    <2>1. SUFFICES ASSUME V # {} PROVE FALSE
      OBVIOUS
    <2>2. V \in SUBSET Nat
      BY <1>2
    <2>3. PICK z \in V : \A y \in V : z <= y
      <3> HIDE DEF V
      <3>1. QED BY <2>1, <2>2, LeastNumber
    <2>4. PICK a \in s : a < z /\ z < Next(a)
      BY <2>3
    <2>5. z \in s /\ z \in Nat /\ a \in Nat /\ a # 0 /\ z # 1
      BY <1>2, <2>3, <2>4
    <2>6. PICK q \in s : Next(q) = z
      BY <1>3, <2>5
    <2>7. q \in Nat /\ q < z
      BY <1>2, <2>6
    <2>8. a # q
      BY <1>2, <2>4, <2>5, <2>6
    <2>9. CASE a < q
      <3>1. q < Next(a)
        BY <1>2, <2>4, <2>5, <2>7
      <3>2. q \in V
        BY <2>9, <3>1
      <3>3. QED BY <2>3, <2>5, <2>7, <3>2
    <2>10. CASE q < a
      <3>1. a \in V
        BY <2>4, <2>6, <2>10
      <3>2. QED BY <2>3, <2>4, <2>5, <3>1
    <2>11. QED BY <2>5, <2>7, <2>8, <2>9, <2>10
  <1>5. p \in s /\ x \in s
    BY DEF s
  <1>6. ~(x < Next(p))
    BY <1>4, <1>5
  <1>7. QED BY <1>2, <1>5, <1>6 DEF Next

\* Of two windows the later one always goes further.
LEMMA StartsGoFurther ==
    ASSUME NEW file \in Files, file # <<>>, NEW c, Limited(c),
           NEW p \in Starts(file, c), NEW x \in Starts(file, c), p < x
    PROVE  GoesFurther(file, c, p, x)
  <1> DEFINE N == Len(file)
             s == Starts(file, c)
             Next(z) == NextStart(file, c, z)
             V == {z \in s : p < z /\ ~GoesFurther(file, c, p, z)}
  <1>1. N \in Nat /\ s \in SUBSET (1..N) /\ p \in s /\ x \in s
    BY StartsFacts DEF Files
  <1>2. \A z \in s : z \in 1..N /\ z \in Nat
    BY <1>1
  <1>3. \A z \in s : z # 1 => \E q \in s : Next(q) = z
    BY StartsFacts
  <1>4. \A z \in s : Reach(file, c, z) \in z..N /\ Next(z) \in (z + 1)..(N + 1)
                     /\ (Next(z) <= N => GoesFurther(file, c, z, Next(z)))
    BY <1>1, WindowsAdvance
  <1>5. \A z \in s : WindowEnd(file, c, z) \in (z - 1)..N /\ Reach(file, c, z) \in Nat
    <2>1. \A z \in 1..N : WindowEnd(file, c, z) \in (z - 1)..N
      BY WindowFacts
    <2>2. \A z \in 1..N : \A y \in z..N : y \in Nat
      BY <1>1
    <2>3. QED BY <1>1, <1>4, <2>1, <2>2
  <1>6. \A a, b \in s : a < b => Next(a) <= b
    BY StartsFollow
  <1> HIDE DEF s, Next
  <1>7. V = {}
    <2>1. SUFFICES ASSUME V # {} PROVE FALSE
      OBVIOUS
    <2>2. V \in SUBSET Nat
      BY <1>2
    <2>3. PICK z \in V : \A y \in V : z <= y
      <3> HIDE DEF V
      <3>1. QED BY <2>1, <2>2, LeastNumber
    <2>4. z \in s /\ p < z /\ ~GoesFurther(file, c, p, z) /\ z \in Nat /\ z <= N /\ z # 1 /\ p \in Nat
      BY <1>1, <1>2, <2>3
    <2>5. PICK q \in s : Next(q) = z
      BY <1>3, <2>4
    <2>6. q \in Nat /\ q < z /\ GoesFurther(file, c, q, z) /\ Reach(file, c, q) \in Nat /\ q <= Reach(file, c, q)
      BY <1>1, <1>2, <1>4, <2>4, <2>5
    <2>7. q # p
      BY <2>4, <2>6
    <2>8. ~(q < p)
      <3>1. SUFFICES ASSUME q < p PROVE FALSE
        OBVIOUS
      <3>2. z <= p
        BY <1>1, <1>6, <2>5, <3>1
      <3>3. QED BY <2>4, <3>2
    <2>9. GoesFurther(file, c, p, q)
      <3>1. p < q /\ q \notin V
        BY <2>3, <2>4, <2>6, <2>7, <2>8
      <3>2. QED BY <3>1
    <2>10. Reach(file, c, p) < Reach(file, c, q)
      <3>1. Reach(file, c, p) \in Nat /\ WindowEnd(file, c, q) \in (q - 1)..N
        BY <1>1, <1>5
      <3>2. CASE Reach(file, c, p) < q
        BY <2>6, <3>1, <3>2
      <3>3. CASE q <= WindowEnd(file, c, q) /\ Reach(file, c, p) < WindowEnd(file, c, q)
        <4>1. Reach(file, c, q) = WindowEnd(file, c, q)
          BY <1>1, <2>6, <3>1, <3>3 DEF Reach
        <4>2. QED BY <3>3, <4>1
      <3>4. QED BY <2>9, <3>2, <3>3 DEF GoesFurther
    <2>11. GoesFurther(file, c, p, z)
      <3> DEFINE a == Reach(file, c, p)
                 b == Reach(file, c, q)
                 e == WindowEnd(file, c, z)
      <3>1. a \in Nat /\ b \in Nat /\ e \in (z - 1)..N
        BY <1>1, <1>5, <2>4
      <3>2. a < b /\ (b < z \/ (z <= e /\ b < e))
        BY <2>6, <2>10 DEF GoesFurther
      <3> HIDE DEF a, b, e
      <3>3. a < z \/ (z <= e /\ a < e)
        BY <1>1, <2>4, <3>1, <3>2
      <3>4. QED BY <3>3 DEF GoesFurther, a, e
    <2>12. QED BY <2>4, <2>11
  <1>8. QED BY <1>1, <1>7

\* Every line is in a window.
LEMMA LinesReached ==
    ASSUME NEW file \in Files, file # <<>>, NEW c, Limited(c), NEW n \in 1..Len(file)
    PROVE  \E s \in Starts(file, c) : s <= n /\ n <= Reach(file, c, s)
  <1> DEFINE N == Len(file)
             s == Starts(file, c)
             T == {x \in s : x <= n}
  <1>1. N \in Nat /\ s \in SUBSET (1..N) /\ 1 \in s /\ n \in Nat /\ n # 0 /\ n <= N
    BY StartsFacts DEF Files
  <1>2. \A x \in s : NextStart(file, c, x) <= N => NextStart(file, c, x) \in s
    BY StartsFacts
  <1>3. \A x \in s : /\ Reach(file, c, x) \in x..N /\ NextStart(file, c, x) \in (x + 1)..(N + 1)
                     /\ NextStart(file, c, x) <= Reach(file, c, x) + 1
    BY <1>1, WindowsAdvance
  <1> HIDE DEF s
  <1>4. T \in SUBSET (1..N) /\ T # {}
    <2>1. 1 \in T
      BY <1>1
    <2>2. QED BY <1>1, <2>1
  <1>5. Max(T) \in T /\ \A y \in T : y <= Max(T)
    <2> HIDE DEF T
    <2>1. QED BY <1>1, <1>4, MaxOfFinite
  <1> DEFINE x == Max(T)
  <1> HIDE DEF x
  <1>6. x \in s /\ x <= n /\ x \in Nat /\ \A y \in s : y <= n => y <= x
    BY <1>1, <1>4, <1>5 DEF x
  <1>7. n <= Reach(file, c, x)
    <2>1. SUFFICES ASSUME Reach(file, c, x) < n PROVE FALSE
      BY <1>1, <1>3, <1>6
    <2> DEFINE y == NextStart(file, c, x)
    <2>2. y \in (x + 1)..(N + 1) /\ y <= Reach(file, c, x) + 1 /\ Reach(file, c, x) \in x..N
      BY <1>3, <1>6
    <2> HIDE DEF y
    <2>3. y <= n /\ x < y /\ y <= N
      BY <1>1, <1>6, <2>1, <2>2
    <2>4. y \in s
      BY <1>2, <1>6, <2>3 DEF y
    <2>5. QED BY <1>1, <1>6, <2>2, <2>3, <2>4
  <1>8. QED BY <1>6, <1>7 DEF s

\* Chunks of lines, and the part of the file that one of them holds.
Lined == [from : Nat, to : Nat, text : Seq(Spots), kind : {"line", "line_fallback"}, symbol : {NoSymbol}]
IsPiece(file, c, k, a, b) ==
    /\ a \in 1..b /\ b \in 1..Len(FileText(file)) /\ k.text = SubSeq(FileText(file), a, b)
    /\ b - a < c.chars
    /\ k.from = FileText(file)[a][1] /\ k.to = FileText(file)[b][1] /\ k.to - k.from < c.lines

\* Where the chunks of a window begin and end in the text of the file.
PieceLo(file, off, c, start, j) ==
    IF WindowEnd(file, c, start) < start
      THEN off[start - 1] + PieceEnd(file[start], c.chars, j - 1) + 1 ELSE off[start - 1] + 1
PieceHi(file, off, c, start, j) ==
    IF WindowEnd(file, c, start) < start
      THEN off[start - 1] + PieceEnd(file[start], c.chars, j) ELSE off[WindowEnd(file, c, start)]

\* The pieces of a line that is too long.
LEMMA CutPieces ==
    ASSUME NEW file \in Files, NEW off, Running(off, file, Len(file)), NEW c, Limited(c),
           NEW n \in 1..Len(file)
    PROVE  LET pieces == Split(TextOf(file, n, n), c.chars)
               l      == file[n]
           IN /\ Len(pieces) = PieceCount(l, c.chars)
              /\ \A j \in 1..PieceCount(l, c.chars) :
                   LET a == off[n - 1] + PieceEnd(l, c.chars, j - 1) + 1
                       b == off[n - 1] + PieceEnd(l, c.chars, j)
                   IN /\ a \in 1..b /\ b \in 1..Len(FileText(file)) /\ b - a < c.chars
                      /\ pieces[j] = SubSeq(FileText(file), a, b) /\ pieces[j] \in Seq(Spots)
                      /\ FileText(file)[a][1] = n /\ FileText(file)[b][1] = n
  <1> DEFINE N == Len(file)
             w == FileText(file)
             l == file[n]
             max == c.chars
             x == TextOf(file, n, n)
             pieces == Split(x, max)
             count == PieceCount(l, max)
             o == off[n - 1]
  <1>1. /\ N \in Nat /\ file # <<>> /\ n \in n..N /\ l \in Nat /\ l # 0 /\ max \in Nat /\ max # 0 /\ n \in Nat
        /\ n - 1 \in 0..N /\ n \in 0..N /\ N \in 0..N /\ file \in [1..N -> Nat] /\ n <= N
    BY DEF Files, Limited
  <1>2. o \in Nat /\ off[n] = o + l /\ off[n] \in Nat /\ off[N] \in Nat
    BY <1>1 DEF Running
  <1>3. off[n] <= off[N]
    BY <1>1, RunsGrow
  <1>4. w \in Seq(Spots) /\ Len(w) = off[N] /\ \A k \in 1..l : w[o + k] = <<n, k>>
    BY <1>1, WholeFacts
  <1>5. x = SubSeq(w, o + 1, o + l) /\ Len(x) = l
    <2>1. x = SubSeq(w, o + 1, off[n]) /\ Chars(file, n, n) = off[n] - o
      BY <1>1, TextIsPart
    <2>2. Len(x) = off[n] - o
      BY <2>1 DEF Chars
    <2> HIDE DEF o, l, x, w
    <2>3. QED BY <1>1, <1>2, <2>1, <2>2
  <1>6. /\ count \in Nat /\ count # 0
        /\ \A i \in 0..count : PieceEnd(l, max, i) \in Nat
        /\ PieceEnd(l, max, 0) = 0 /\ PieceEnd(l, max, count) = l
        /\ \A i \in 1..count : /\ PieceEnd(l, max, i - 1) < PieceEnd(l, max, i)
                               /\ PieceEnd(l, max, i) - PieceEnd(l, max, i - 1) <= max
    <2> HIDE DEF l, max
    <2>1. QED BY <1>1, PieceNumbers
  <1>7. \A i \in 0..count : PieceEnd(l, max, i) <= l
    <2> DEFINE e == [i \in 0..count |-> PieceEnd(l, max, i)]
               d == [i \in 1..count |-> PieceEnd(l, max, i) - PieceEnd(l, max, i - 1)]
    <2>1. \A i \in 1..count : i \in 0..count /\ i - 1 \in 0..count
      BY <1>6
    <2> HIDE DEF l, max, count
    <2>2. e \in [0..count -> Nat] /\ e[0] = 0 /\ e[count] = l
      BY <1>6
    <2>3. d \in [1..count -> Nat]
      BY <1>6, <2>1
    <2>4. \A i \in 1..count : e[i] = e[i - 1] + d[i]
      BY <1>6, <2>1
    <2>5. Running(e, d, count)
      <3> HIDE DEF e, d
      <3>1. QED BY <2>2, <2>4 DEF Running
    <2>6. \A i \in 0..count : e[i] <= e[count]
      <3> HIDE DEF e, d
      <3>1. \A i \in 0..count : i <= count /\ count \in 0..count
        BY <1>6
      <3>2. QED BY <1>6, <2>3, <2>5, <3>1, RunsGrow
    <2>7. QED BY <2>2, <2>6
  <1>8. pieces = [i \in 1..count |-> SubSeq(x, PieceEnd(l, max, i - 1) + 1, PieceEnd(l, max, i))]
    <2>1. Len(x) = l
      BY <1>5
    <2> HIDE DEF x
    <2>2. QED BY <2>1 DEF Split, PieceEnd, PieceCount
  <1> HIDE DEF w, l, max, x, pieces, count, o
  <1>9. Len(pieces) = count
    BY <1>6, <1>8
  <1>10. ASSUME NEW j \in 1..count
         PROVE  LET a == o + PieceEnd(l, max, j - 1) + 1
                    b == o + PieceEnd(l, max, j)
                IN /\ a \in 1..b /\ b \in 1..Len(w) /\ b - a < max
                   /\ pieces[j] = SubSeq(w, a, b) /\ pieces[j] \in Seq(Spots)
                   /\ w[a][1] = n /\ w[b][1] = n
    <2> DEFINE u == PieceEnd(l, max, j - 1)
               v == PieceEnd(l, max, j)
    <2>1. u \in Nat /\ v \in Nat /\ u < v /\ v - u <= max /\ v <= l
      <3>1. j \in 0..count /\ j - 1 \in 0..count
        BY <1>6
      <3>2. QED BY <1>6, <1>7, <3>1
    <2>2. pieces[j] = SubSeq(x, u + 1, v)
      BY <1>8
    <2> HIDE DEF u, v
    <2>3. u + 1 \in 1..l /\ v \in 1..l
      BY <1>1, <2>1
    <2>4. /\ o + u + 1 \in 1..(o + v) /\ o + v \in 1..Len(w) /\ (o + v) - (o + u + 1) < max
          /\ o + (u + 1) = o + u + 1 /\ o + u + 1 \in 1..Len(w) /\ o + v \in (o + u + 1)..Len(w)
      BY <1>1, <1>2, <1>3, <1>4, <2>1
    <2>5. w[o + (u + 1)] = <<n, u + 1>> /\ w[o + v] = <<n, v>>
      BY <1>4, <2>3
    <2>6. w[o + u + 1][1] = n /\ w[o + v][1] = n
      BY <2>4, <2>5
    <2>7. SubSeq(x, u + 1, v) = SubSeq(w, o + u + 1, o + v)
      <3>1. /\ o + 1 \in 1..Len(w) /\ o + l \in 1..Len(w) /\ u + 1 \in 1..((o + l) - (o + 1) + 1)
            /\ v \in 1..((o + l) - (o + 1) + 1) /\ (o + 1) + (u + 1) - 1 = o + u + 1 /\ (o + 1) + v - 1 = o + v
        <4>1. (o + l) - (o + 1) + 1 = l /\ (o + 1) + (u + 1) - 1 = o + u + 1 /\ (o + 1) + v - 1 = o + v
          BY <1>1, <1>2, <2>1
        <4>2. o + 1 \in 1..Len(w) /\ o + l \in 1..Len(w)
          BY <1>1, <1>2, <1>3, <1>4
        <4>3. QED BY <2>3, <4>1, <4>2
      <3>2. SubSeq(SubSeq(w, o + 1, o + l), u + 1, v) = SubSeq(w, (o + 1) + (u + 1) - 1, (o + 1) + v - 1)
        <4> DEFINE i == o + 1
                   k == o + l
                   m == u + 1
        <4>1. i \in 1..Len(w) /\ k \in 1..Len(w) /\ m \in 1..(k - i + 1) /\ v \in 1..(k - i + 1) /\ w \in Seq(Spots)
          BY <1>4, <3>1
        <4> HIDE DEF i, k, m
        <4>2. SubSeq(SubSeq(w, i, k), m, v) = SubSeq(w, i + m - 1, i + v - 1)
          BY ONLY <4>1, SubSeqOfSubSeq
        <4>3. QED BY <4>2 DEF i, k, m
      <3>3. QED BY <1>5, <3>1, <3>2
    <2>8. SubSeq(w, o + u + 1, o + v) \in Seq(Spots)
      <3> DEFINE i == o + u + 1
                 k == o + v
      <3>1. i \in 1..Len(w) /\ k \in i..Len(w) /\ w \in Seq(Spots)
        BY <1>4, <2>4
      <3> HIDE DEF i, k
      <3>2. SubSeq(w, i, k) \in Seq(Spots)
        BY ONLY <3>1, PartFacts
      <3>3. QED BY <3>2 DEF i, k
    <2>9. QED BY <2>2, <2>4, <2>6, <2>7, <2>8 DEF u, v
  <1>11. QED BY <1>9, <1>10 DEF w, l, max, x, pieces, count, o

\* Parts that follow each other end in their order and leave nothing out.
LEMMA TilesFollow ==
    ASSUME NEW n \in Nat, n # 0, NEW lo \in [1..n -> Nat], NEW hi \in [1..n -> Nat],
           \A j \in 1..n : lo[j] <= hi[j] /\ (j # 1 => lo[j] = hi[j - 1] + 1)
    PROVE  /\ \A j, k \in 1..n : j < k => hi[j] < hi[k]
           /\ \A p \in lo[1]..hi[n] : \E j \in 1..n : lo[j] <= p /\ p <= hi[j]
  <1>1. \A j \in 1..n : j # 1 => j - 1 \in 1..n /\ hi[j - 1] < hi[j]
    <2> SUFFICES ASSUME NEW j \in 1..n, j # 1 PROVE j - 1 \in 1..n /\ hi[j - 1] < hi[j]
      OBVIOUS
    <2>1. j - 1 \in 1..n /\ lo[j] = hi[j - 1] + 1 /\ lo[j] <= hi[j]
      OBVIOUS
    <2>2. hi[j - 1] \in Nat /\ hi[j] \in Nat /\ lo[j] \in Nat
      BY <2>1
    <2>3. QED BY <2>1, <2>2
  <1>2. \A j, k \in 1..n : j < k => hi[j] < hi[k]
    <2> SUFFICES ASSUME NEW j \in 1..n, NEW k \in 1..n, j < k PROVE hi[j] < hi[k]
      OBVIOUS
    <2> DEFINE S == {d \in Nat : j + 1 + d <= n => hi[j] < hi[j + 1 + d]}
    <2>1. 0 \in S
      <3> SUFFICES ASSUME j + 1 + 0 <= n PROVE hi[j] < hi[j + 1 + 0]
        OBVIOUS
      <3>1. j + 1 \in 1..n /\ j + 1 # 1 /\ (j + 1) - 1 = j /\ j + 1 + 0 = j + 1
        OBVIOUS
      <3>2. hi[(j + 1) - 1] < hi[j + 1]
        BY <1>1, <3>1
      <3>3. QED BY <3>1, <3>2
    <2>2. \A d \in Nat : d \in S => d + 1 \in S
      <3> SUFFICES ASSUME NEW d \in Nat, d \in S, j + 1 + (d + 1) <= n
                   PROVE  hi[j] < hi[j + 1 + (d + 1)]
        OBVIOUS
      <3> DEFINE m == j + 1 + d
      <3>1. m \in 1..n /\ m + 1 \in 1..n /\ m + 1 # 1 /\ (m + 1) - 1 = m /\ j + 1 + (d + 1) = m + 1 /\ m <= n
        OBVIOUS
      <3>2. hi[j] < hi[m]
        BY <3>1
      <3> HIDE DEF m
      <3>3. hi[(m + 1) - 1] < hi[m + 1]
        BY <1>1, <3>1
      <3>4. hi[j] \in Nat /\ hi[m] \in Nat /\ hi[m + 1] \in Nat
        BY <3>1
      <3>5. hi[j] < hi[m + 1]
        BY <3>1, <3>2, <3>3, <3>4
      <3>6. QED BY <3>1, <3>5
    <2> HIDE DEF S
    <2>3. k - (j + 1) \in Nat /\ j + 1 + (k - (j + 1)) = k /\ k <= n
      OBVIOUS
    <2>4. k - (j + 1) \in S
      BY <2>1, <2>2, <2>3, NumbersAllIn
    <2>5. QED BY <2>3, <2>4 DEF S
  <1>3. ASSUME NEW p \in lo[1]..hi[n] PROVE \E j \in 1..n : lo[j] <= p /\ p <= hi[j]
    <2> DEFINE T == {j \in 1..n : p <= hi[j]}
    <2>1. n \in 1..n /\ 1 \in 1..n /\ p \in Int /\ p <= hi[n] /\ lo[1] <= p
      <3>1. n \in 1..n /\ 1 \in 1..n
        OBVIOUS
      <3>2. lo[1] \in Nat /\ hi[n] \in Nat
        BY <3>1
      <3>3. QED BY <3>1, <3>2
    <2>2. T \in SUBSET Nat /\ T # {}
      <3>1. n \in T
        BY <2>1
      <3>2. T \in SUBSET (1..n)
        OBVIOUS
      <3> HIDE DEF T
      <3>3. QED BY <3>1, <3>2
    <2>3. PICK j \in T : \A y \in T : j <= y
      BY <2>2, LeastNumber
    <2>4. j \in 1..n /\ p <= hi[j]
      BY <2>3
    <2>5. CASE j = 1
      BY <2>1, <2>4, <2>5
    <2>6. CASE j # 1
      <3>1. j - 1 \in 1..n /\ ~(j <= j - 1) /\ lo[j] = hi[j - 1] + 1
        BY <1>1, <2>4, <2>6
      <3>2. ~(p <= hi[j - 1])
        BY <2>3, <3>1
      <3>3. hi[j - 1] \in Nat
        BY <3>1
      <3>4. lo[j] <= p
        BY <2>1, <3>1, <3>2, <3>3
      <3>5. QED BY <2>4, <3>4
    <2>7. QED BY <2>5, <2>6
  <1>4. QED BY <1>2, <1>3

\* The list holds parts of the file that follow each other from the first line of a window to
\* the last that the window reaches.
FollowOn(file, off, c, list, start, kind) ==
    /\ list \in Seq(Lined) /\ Len(list) \in Nat /\ Len(list) # 0
    /\ \A j \in 1..Len(list) :
         /\ IsPiece(file, c, list[j], PieceLo(file, off, c, start, j), PieceHi(file, off, c, start, j))
         /\ list[j].kind = kind
         /\ j # 1 => PieceLo(file, off, c, start, j) = PieceHi(file, off, c, start, j - 1) + 1
    /\ PieceLo(file, off, c, start, 1) = off[start - 1] + 1
    /\ PieceHi(file, off, c, start, Len(list)) = off[Reach(file, c, start)]

\* The chunks of a window do so.
LEMMA WindowPieces ==
    ASSUME NEW file \in Files, NEW off, Running(off, file, Len(file)), NEW c, Limited(c),
           NEW start \in 1..Len(file), NEW kind \in {"line", "line_fallback"}
    PROVE  FollowOn(file, off, c, Window(file, c, kind, start), start, kind)
  <1> DEFINE N == Len(file)
             end == WindowEnd(file, c, start)
             w == Window(file, c, kind, start)
             lo(j) == PieceLo(file, off, c, start, j)
             hi(j) == PieceHi(file, off, c, start, j)
             o == off[start - 1]
             l == file[start]
  <1> SUFFICES /\ w \in Seq(Lined) /\ Len(w) \in Nat /\ Len(w) # 0
               /\ \A j \in 1..Len(w) : /\ IsPiece(file, c, w[j], lo(j), hi(j))
                                       /\ w[j].kind = kind
                                       /\ j # 1 => lo(j) = hi(j - 1) + 1
               /\ lo(1) = off[start - 1] + 1 /\ hi(Len(w)) = off[Reach(file, c, start)]
    BY DEF FollowOn
  <1>1. /\ N \in Nat /\ start \in Nat /\ start # 0 /\ start <= N /\ start - 1 \in 0..N
        /\ l \in Nat /\ l # 0 /\ c.chars \in Nat /\ c.chars # 0 /\ c.lines \in Nat /\ file \in [1..N -> Nat]
    BY DEF Files, Limited
  <1>2. /\ end \in (start - 1)..N
        /\ end >= start => end - start < c.lines /\ Chars(file, start, end) <= c.chars
    BY WindowFacts
  <1>3. off \in [0..N -> Nat] /\ off[start] = o + l /\ o \in Nat
    BY <1>1 DEF Running
  <1>4. CASE end < start
    <2> DEFINE pieces == Split(TextOf(file, start, start), c.chars)
               count == PieceCount(l, c.chars)
               a(j) == o + PieceEnd(l, c.chars, j - 1) + 1
               b(j) == o + PieceEnd(l, c.chars, j)
    <2>1. /\ Len(pieces) = count
          /\ \A j \in 1..count :
               /\ a(j) \in 1..b(j) /\ b(j) \in 1..Len(FileText(file)) /\ b(j) - a(j) < c.chars
               /\ pieces[j] = SubSeq(FileText(file), a(j), b(j)) /\ pieces[j] \in Seq(Spots)
               /\ FileText(file)[a(j)][1] = start /\ FileText(file)[b(j)][1] = start
      BY CutPieces
    <2>2. /\ count \in Nat /\ count # 0 /\ PieceEnd(l, c.chars, 0) = 0 /\ PieceEnd(l, c.chars, count) = l
          /\ \A i \in 0..count : PieceEnd(l, c.chars, i) \in Nat
      <3> DEFINE x == c.chars
      <3>1. x \in Nat /\ x # 0 /\ l \in Nat /\ l # 0
        BY <1>1
      <3> HIDE DEF x, l
      <3>2. /\ PieceCount(l, x) \in Nat /\ PieceCount(l, x) # 0
            /\ PieceEnd(l, x, 0) = 0 /\ PieceEnd(l, x, PieceCount(l, x)) = l
            /\ \A i \in 0..PieceCount(l, x) : PieceEnd(l, x, i) \in Nat
        BY <3>1, PieceNumbers
      <3>3. QED BY <3>2 DEF x, l
    <2>3. w = [j \in 1..Len(pieces) |-> Chunk(start, start, pieces[j], kind, NoSymbol)]
      BY <1>4 DEF Window
    <2>4. \A j : lo(j) = a(j) /\ hi(j) = b(j)
      BY <1>4 DEF PieceLo, PieceHi
    <2>5. Reach(file, c, start) = start
      BY <1>4 DEF Reach
    <2> HIDE DEF pieces, count, a, b, w, lo, hi
    <2>6. \A j \in 1..count : Chunk(start, start, pieces[j], kind, NoSymbol) \in Lined
      BY <1>1, <2>1 DEF Chunk, Lined
    <2>7. w \in Seq(Lined) /\ Len(w) = count
      <3> DEFINE g == [j \in 1..count |-> Chunk(start, start, pieces[j], kind, NoSymbol)]
      <3>1. g \in [1..count -> Lined] /\ w = g
        BY <2>1, <2>3, <2>6
      <3> HIDE DEF g
      <3>2. g \in Seq(Lined) /\ Len(g) = count
        BY <2>2, <3>1, IsSequence
      <3>3. QED BY <3>1, <3>2
    <2>8. ASSUME NEW j \in 1..count
          PROVE  IsPiece(file, c, w[j], lo(j), hi(j)) /\ w[j].kind = kind
      <3>1. w[j] = Chunk(start, start, pieces[j], kind, NoSymbol)
        BY <2>1, <2>3
      <3>2. w[j].from = start /\ w[j].to = start /\ w[j].text = pieces[j] /\ w[j].kind = kind
        BY <3>1 DEF Chunk
      <3>3. start - start < c.lines
        BY <1>1 DEF Limited
      <3>4. QED BY <2>1, <2>4, <3>2, <3>3 DEF IsPiece
    <2>9. ASSUME NEW j \in 1..count, j # 1 PROVE lo(j) = hi(j - 1) + 1
      BY <2>4 DEF a, b
    <2>10. lo(1) = o + 1 /\ hi(count) = off[start]
      <3>1. 1 - 1 = 0 /\ o + 0 + 1 = o + 1
        BY <1>3
      <3>2. lo(1) = o + PieceEnd(l, c.chars, 1 - 1) + 1 /\ hi(count) = o + PieceEnd(l, c.chars, count)
        BY <2>4 DEF a, b
      <3>3. QED BY <1>3, <2>2, <3>1, <3>2
    <2>11. QED BY <2>2, <2>5, <2>7, <2>8, <2>9, <2>10 DEF w, lo, hi
  <1>5. CASE ~(end < start)
    <2> DEFINE x == TextOf(file, start, end)
               k == Chunk(start, end, x, kind, NoSymbol)
    <2>1. end \in start..N /\ end \in Nat /\ end >= start
      BY <1>1, <1>2, <1>5
    <2>2. /\ x = SubSeq(FileText(file), o + 1, off[end]) /\ Chars(file, start, end) = off[end] - o
          /\ o + 1 \in 1..off[end] /\ off[end] \in 1..off[N]
          /\ FileText(file)[o + 1] = <<start, 1>> /\ FileText(file)[off[end]] = <<end, file[end]>>
      BY <2>1, TextIsPart
    <2>3. x \in Seq(Spots)
      <3>1. end \in (start - 1)..N
        BY <1>2
      <3>2. QED BY <3>1, TextFacts
    <2>4. Len(FileText(file)) = off[N]
      <3>1. file # <<>>
        BY <1>1
      <3>2. QED BY <3>1, WholeFacts
    <2>5. w = <<k>>
      BY <1>5 DEF Window
    <2>6. Reach(file, c, start) = end /\ \A j : lo(j) = o + 1 /\ hi(j) = off[end]
      BY <1>5 DEF Reach, PieceLo, PieceHi
    <2>7. off[end] - (o + 1) < c.chars
      <3>1. off[end] - o <= c.chars /\ off[end] \in Nat
        BY <1>1, <1>2, <2>1, <2>2
      <3> HIDE DEF o, end
      <3>2. QED BY <1>1, <1>3, <3>1
    <2> HIDE DEF w, lo, hi, x, o, end
    <2>8. k.from = start /\ k.to = end /\ k.text = x /\ k.kind = kind /\ k \in Lined
      BY <1>1, <2>1, <2>3 DEF Chunk, Lined
    <2>9. IsPiece(file, c, k, o + 1, off[end])
      <3>1. k.from = FileText(file)[o + 1][1] /\ k.to = FileText(file)[off[end]][1]
        BY <2>2, <2>8
      <3>2. k.to - k.from < c.lines
        BY <1>2, <2>1, <2>8
      <3> HIDE DEF k
      <3>3. QED BY <2>2, <2>4, <2>7, <2>8, <3>1, <3>2 DEF IsPiece
    <2> HIDE DEF k
    <2>10. w \in Seq(Lined) /\ Len(w) = 1 /\ w[1] = k
      BY <2>5, <2>8
    <2>11. \A j \in 1..Len(w) : j = 1
      BY <2>10
    <2>12. \A j \in 1..Len(w) : IsPiece(file, c, w[j], lo(j), hi(j)) /\ w[j].kind = kind
      BY <2>6, <2>8, <2>9, <2>10, <2>11
    <2>13. QED BY <2>6, <2>10, <2>11, <2>12 DEF w, lo, hi, o, end
  <1>6. QED BY <1>4, <1>5

\* The parts of a file that chunks hold: each ends behind those before it, and together they
\* are the whole file.
Tiling(file, c, list, lo, hi) ==
    /\ lo \in [1..Len(list) -> Nat] /\ hi \in [1..Len(list) -> Nat]
    /\ \A i \in 1..Len(list) : IsPiece(file, c, list[i], lo[i], hi[i])
    /\ \A i, k \in 1..Len(list) : i < k => hi[i] < hi[k]
    /\ \A p \in 1..Len(FileText(file)) : \E i \in 1..Len(list) : lo[i] <= p /\ p <= hi[i]

\* The ends of a piece are numbers, in their order.
LEMMA PieceNumbersKnown ==
    ASSUME NEW file, NEW c, NEW k, NEW a, NEW b, IsPiece(file, c, k, a, b), Len(FileText(file)) \in Nat
    PROVE  a \in Nat /\ b \in Nat /\ a <= b
  <1>1. b \in Nat
    BY DEF IsPiece
  <1>2. QED BY <1>1 DEF IsPiece

\* The chunks of a window are parts that follow each other.
LEMMA WindowTiles ==
    ASSUME NEW file \in Files, NEW off, Running(off, file, Len(file)), NEW c, Limited(c),
           NEW start \in 1..Len(file), NEW kind \in {"line", "line_fallback"}
    PROVE  LET w     == Window(file, c, kind, start)
               lo(j) == PieceLo(file, off, c, start, j)
               hi(j) == PieceHi(file, off, c, start, j)
           IN /\ \A j \in 1..Len(w) : lo(j) \in Nat /\ hi(j) \in Nat
              /\ \A j, k \in 1..Len(w) : j < k => hi(j) < hi(k)
              /\ \A j \in 1..Len(w) : off[start - 1] < hi(j) /\ hi(j) <= off[Reach(file, c, start)]
              /\ WindowEnd(file, c, start) >= start =>
                   \A j \in 1..Len(w) : hi(j) = off[WindowEnd(file, c, start)]
              /\ \A p \in (off[start - 1] + 1)..off[Reach(file, c, start)] :
                   \E j \in 1..Len(w) : lo(j) <= p /\ p <= hi(j)
  <1> DEFINE w == Window(file, c, kind, start)
             lo(j) == PieceLo(file, off, c, start, j)
             hi(j) == PieceHi(file, off, c, start, j)
             n == Len(w)
             reach == off[Reach(file, c, start)]
             f == [j \in 1..n |-> lo(j)]
             g == [j \in 1..n |-> hi(j)]
             o == off[start - 1]
  <1>1. /\ n \in Nat /\ n # 0
        /\ \A j \in 1..n : IsPiece(file, c, w[j], lo(j), hi(j)) /\ (j # 1 => lo(j) = hi(j - 1) + 1)
        /\ lo(1) = o + 1 /\ hi(n) = reach
    <2>1. FollowOn(file, off, c, w, start, kind)
      BY WindowPieces
    <2> HIDE DEF w
    <2>2. QED BY <2>1 DEF FollowOn
  <1>2. o \in Nat
    <2>1. start - 1 \in 0..Len(file)
      BY DEF Files
    <2>2. QED BY <2>1 DEF Running
  <1>3. \A j \in 1..n : lo(j) \in Nat /\ hi(j) \in Nat /\ lo(j) <= hi(j)
    <2>1. file # <<>> /\ FileText(file) \in Seq(Spots)
      <3>1. file # <<>>
        BY DEF Files
      <3>2. QED BY <3>1, WholeFacts
    <2>2. Len(FileText(file)) \in Nat
      BY <2>1
    <2> HIDE DEF n, w, lo, hi
    <2>3. QED BY <1>1, <2>2, PieceNumbersKnown
  <1>4. WindowEnd(file, c, start) >= start => \A j \in 1..n : hi(j) = off[WindowEnd(file, c, start)]
    <2>1. ASSUME WindowEnd(file, c, start) >= start
          PROVE  \A j : hi(j) = off[WindowEnd(file, c, start)]
      <3>1. WindowEnd(file, c, start) \in (start - 1)..Len(file)
        BY WindowFacts
      <3>2. ~(WindowEnd(file, c, start) < start)
        BY <2>1, <3>1 DEF Files
      <3>3. QED BY <3>2 DEF PieceHi
    <2>2. QED BY <2>1
  <1> HIDE DEF n, w, lo, hi, reach, o
  <1>5. f \in [1..n -> Nat] /\ g \in [1..n -> Nat] /\ 1 \in 1..n /\ n \in 1..n
    BY <1>1, <1>3
  <1>6. \A j \in 1..n : f[j] <= g[j] /\ (j # 1 => f[j] = g[j - 1] + 1)
    <2>1. \A j \in 1..n : j # 1 => j - 1 \in 1..n
      BY <1>1
    <2>2. QED BY <1>1, <1>3, <2>1
  <1>7. f[1] = o + 1 /\ g[n] = reach /\ \A j \in 1..n : f[j] = lo(j) /\ g[j] = hi(j)
    BY <1>1, <1>5
  <1> HIDE DEF f, g
  <1>8. /\ \A j, k \in 1..n : j < k => g[j] < g[k]
        /\ \A p \in f[1]..g[n] : \E j \in 1..n : f[j] <= p /\ p <= g[j]
    BY <1>1, <1>5, <1>6, TilesFollow
  <1>9. ASSUME NEW j \in 1..n PROVE o < hi(j) /\ hi(j) <= reach
    <2>1. g[1] \in Nat /\ g[n] \in Nat /\ g[j] \in Nat /\ f[1] <= g[1] /\ j \in Nat /\ f[1] \in Nat
      BY <1>1, <1>5, <1>6
    <2>2. j = 1 \/ g[1] < g[j]
      BY <1>5, <1>8
    <2>3. j = n \/ g[j] < g[n]
      BY <1>5, <1>8
    <2>4. QED BY <1>2, <1>7, <2>1, <2>2, <2>3
  <1>10. /\ \A j \in 1..n : lo(j) \in Nat /\ hi(j) \in Nat
         /\ \A j, k \in 1..n : j < k => hi(j) < hi(k)
         /\ \A j \in 1..n : o < hi(j) /\ hi(j) <= reach
    BY <1>3, <1>7, <1>8, <1>9
  <1>11. \A p \in (o + 1)..reach : \E j \in 1..n : lo(j) <= p /\ p <= hi(j)
    <2> SUFFICES ASSUME NEW p \in (o + 1)..reach PROVE \E j \in 1..n : lo(j) <= p /\ p <= hi(j)
      OBVIOUS
    <2>1. PICK j \in 1..n : f[j] <= p /\ p <= g[j]
      BY <1>7, <1>8
    <2>2. QED BY <1>7, <2>1
  <1>12. QED BY <1>4, <1>10, <1>11 DEF n, w, lo, hi, reach, o

\* Whatever a window of one start holds ends before what a later window holds ends.
LEMMA WindowsOrdered ==
    ASSUME NEW file \in Files, file # <<>>, NEW off, Running(off, file, Len(file)), NEW c, Limited(c),
           NEW kind \in {"line", "line_fallback"},
           NEW p \in Starts(file, c), NEW x \in Starts(file, c), p < x,
           NEW i \in 1..Len(Window(file, c, kind, p)), NEW j \in 1..Len(Window(file, c, kind, x))
    PROVE  PieceHi(file, off, c, p, i) < PieceHi(file, off, c, x, j)
  <1> DEFINE N == Len(file)
             a == PieceHi(file, off, c, p, i)
             b == PieceHi(file, off, c, x, j)
             r == Reach(file, c, p)
             e == WindowEnd(file, c, x)
  <1>1. N \in Nat /\ p \in 1..N /\ x \in 1..N /\ file \in [1..N -> Nat] /\ \A n \in 1..N : file[n] # 0
    BY StartsFacts DEF Files
  <1>2. a \in Nat /\ a <= off[r]
    BY <1>1, WindowTiles
  <1>3. b \in Nat /\ off[x - 1] < b /\ (e >= x => b = off[e])
    BY <1>1, WindowTiles
  <1>4. r \in p..N
    BY <1>1, WindowsAdvance
  <1>5. e \in (x - 1)..N
    BY <1>1, WindowFacts
  <1>6. r < x \/ (x <= e /\ r < e)
    BY StartsGoFurther DEF GoesFurther
  <1> HIDE DEF a, b, r, e
  <1>7. off \in [0..N -> Nat] /\ r \in 0..N /\ x - 1 \in 0..N /\ r \in Nat
    BY <1>1, <1>4 DEF Running
  <1>8. CASE r < x
    <2>1. r <= x - 1
      BY <1>1, <1>7, <1>8
    <2>2. off[r] <= off[x - 1]
      BY <1>1, <1>7, <2>1, RunsGrow
    <2>3. off[r] \in Nat /\ off[x - 1] \in Nat
      BY <1>7
    <2>4. a < b
      <3> DEFINE u == off[r]
                 v == off[x - 1]
      <3>1. a \in Nat /\ b \in Nat /\ u \in Nat /\ v \in Nat /\ a <= u /\ u <= v /\ v < b
        BY <1>2, <1>3, <2>2, <2>3
      <3> HIDE DEF u, v
      <3>2. QED BY ONLY <3>1
    <2>5. QED BY <2>4 DEF a, b
  <1>9. CASE x <= e /\ r < e
    <2>1. e \in 1..N /\ e - 1 \in 0..N /\ r <= e - 1 /\ e >= x
      BY <1>1, <1>5, <1>7, <1>9
    <2>2. off[r] <= off[e - 1]
      BY <1>1, <1>7, <2>1, RunsGrow
    <2>3. off[e] = off[e - 1] + file[e]
      BY <2>1 DEF Running
    <2>4. off[r] \in Nat /\ off[e - 1] \in Nat /\ file[e] \in Nat /\ file[e] # 0
      BY <1>1, <1>7, <2>1
    <2>5. b = off[e]
      BY <1>3, <2>1
    <2>6. a < b
      <3> DEFINE u == off[r]
                 v == off[e - 1]
                 l == file[e]
      <3>1. a \in Nat /\ u \in Nat /\ v \in Nat /\ l \in Nat /\ l # 0 /\ a <= u /\ u <= v /\ b = v + l
        BY <1>2, <2>2, <2>3, <2>4, <2>5
      <3> HIDE DEF u, v, l
      <3>2. QED BY ONLY <3>1
    <2>7. QED BY <2>6 DEF a, b
  <1>10. QED BY <1>6, <1>8, <1>9

\* Places in the joined parts are ordered as the parts, and in a part as its elements.
LEMMA PlacesOrdered ==
    ASSUME NEW n \in Nat, NEW s \in [1..n -> Nat], NEW r, Running(r, s, n),
           NEW x \in 1..n, NEW y \in 1..n, NEW i \in 1..s[x], NEW j \in 1..s[y],
           r[x - 1] + i <= r[y - 1] + j
    PROVE  x < y \/ (x = y /\ i <= j)
  <1>1. /\ x - 1 \in 0..n /\ y - 1 \in 0..n /\ x \in 0..n /\ y \in 0..n /\ s[x] \in Nat /\ s[y] \in Nat
        /\ i \in Nat /\ j \in Nat /\ j # 0 /\ i # 0 /\ i <= s[x] /\ j <= s[y]
    OBVIOUS
  <1>2. /\ r[x - 1] \in Nat /\ r[y - 1] \in Nat /\ r[y] = r[y - 1] + s[y] /\ r[x] = r[x - 1] + s[x]
    BY <1>1 DEF Running
  <1>3. ~(y < x)
    <2>1. SUFFICES ASSUME y < x PROVE FALSE
      OBVIOUS
    <2>2. y <= x - 1
      BY <2>1
    <2>3. r[y] <= r[x - 1]
      BY <1>1, <2>2, RunsGrow
    <2> DEFINE u == r[x - 1]
               v == r[y - 1]
               l == s[y]
    <2>4. /\ u \in Nat /\ v \in Nat /\ l \in Nat /\ i \in Nat /\ j \in Nat /\ i # 0 /\ j <= l
          /\ v + l <= u /\ u + i <= v + j
      BY <1>1, <1>2, <2>3
    <2> HIDE DEF u, v, l
    <2>5. QED BY ONLY <2>4
  <1>4. x = y => i <= j
    BY <1>1, <1>2
  <1>5. QED BY <1>1, <1>3, <1>4

\* The chunks of lines, one window behind the other, are such parts.
LEMMA LineChunksTile ==
    ASSUME NEW file \in Files, file # <<>>, NEW c, Limited(c), NEW kind \in {"line", "line_fallback"}
    PROVE  LET list == LineChunks(file, c, kind) IN
           list \in Seq(Lined) /\ \E lo, hi : Tiling(file, c, list, lo, hi)
  <1> DEFINE N == Len(file)
             starts == Starts(file, c)
             W(x) == Window(file, c, kind, x)
             ws == [x \in 1..N |-> IF x \in starts THEN W(x) ELSE <<>>]
             lens == LengthsOf(ws)
             list == FlattenSeq(ws)
  <1>1. N \in Nat /\ N # 0 /\ starts \in SUBSET (1..N) /\ file \in [1..N -> Nat]
    BY StartsFacts DEF Files
  <1>2. PICK off : Running(off, file, N)
    BY <1>1, SumRuns
  <1>3. /\ \A x \in 1..N : FollowOn(file, off, c, W(x), x, kind)
        /\ \A x \in 1..N : W(x) \in Seq(Lined) /\ Len(W(x)) \in Nat
    <2>1. \A x \in 1..N : FollowOn(file, off, c, W(x), x, kind)
      BY <1>2, WindowPieces
    <2> HIDE DEF W
    <2>2. QED BY <2>1 DEF FollowOn
  <1>4. LineChunks(file, c, kind) = list
    BY DEF LineChunks
  <1> HIDE DEF W, starts
  <1>5. ws \in Seq(Seq(Lined)) /\ Len(ws) = N
    <2>1. \A x \in 1..N : (IF x \in starts THEN W(x) ELSE <<>>) \in Seq(Lined)
      BY <1>3
    <2>2. ws \in [1..N -> Seq(Lined)]
      BY <2>1
    <2> HIDE DEF ws, N
    <2>3. QED BY <1>1, <2>2, IsSequence
  <1>6. \A x \in 1..N : ws[x] = IF x \in starts THEN W(x) ELSE <<>>
    OBVIOUS
  <1> HIDE DEF ws
  <1>7. lens \in [1..N -> Nat] /\ \A x \in 1..N : lens[x] = Len(ws[x])
    <2>1. \A x \in 1..N : ws[x] \in Seq(Lined)
      BY <1>5
    <2>2. \A x \in 1..N : Len(ws[x]) \in Nat
      BY <2>1
    <2>3. QED BY <1>5, <2>2 DEF LengthsOf
  <1> HIDE DEF lens
  <1>8. PICK r : Running(r, lens, N)
    BY <1>1, <1>7, SumRuns
  <1>9. /\ list \in Seq(Lined) /\ Len(list) = r[N]
        /\ \A x \in 1..N : \A j \in 1..lens[x] : r[x - 1] + j \in 1..r[N] /\ list[r[x - 1] + j] = ws[x][j]
    <2>1. Running(r, LengthsOf(ws), Len(ws))
      BY <1>5, <1>8 DEF lens
    <2>2. /\ list \in Seq(Lined) /\ Len(list) = r[Len(ws)]
          /\ \A x \in 1..Len(ws) : \A j \in 1..Len(ws[x]) :
               r[x - 1] + j \in 1..r[Len(ws)] /\ list[r[x - 1] + j] = ws[x][j]
      BY <1>5, <2>1, FlattenPlaces
    <2>3. QED BY <1>5, <1>7, <2>2
  <1> HIDE DEF list
  <1> DEFINE M == r[N]
             Holds(i, x) == x \in 1..N /\ \E j \in 1..lens[x] : i = r[x - 1] + j
             L == [i \in 1..M |-> CHOOSE x : Holds(i, x)]
             J == [i \in 1..M |-> i - r[L[i] - 1]]
  <1>10. ASSUME NEW i \in 1..M
         PROVE  /\ L[i] \in 1..N /\ L[i] \in starts /\ J[i] \in 1..lens[L[i]] /\ i = r[L[i] - 1] + J[i]
                /\ lens[L[i]] = Len(W(L[i])) /\ list[i] = W(L[i])[J[i]]
    <2>1. \E x : Holds(i, x)
      <3>1. \E x \in 1..N : \E j \in 1..lens[x] : i = r[x - 1] + j
        BY SMTT(30), <1>1, <1>7, <1>8, Located
      <3>2. QED BY <3>1
    <2>2. Holds(i, L[i])
      <3> HIDE DEF Holds
      <3>1. QED BY <2>1
    <2> DEFINE x == L[i]
    <2>3. J[i] = i - r[x - 1]
      OBVIOUS
    <2> HIDE DEF x, L, J
    <2>4. x \in 1..N /\ \E j \in 1..lens[x] : i = r[x - 1] + j
      BY <2>2 DEF x
    <2>5. PICK j \in 1..lens[x] : i = r[x - 1] + j
      BY <2>4
    <2>6. r[x - 1] \in Nat /\ lens[x] \in Nat
      <3>1. x - 1 \in 0..N
        BY <1>1, <2>4
      <3>2. QED BY <1>7, <1>8, <2>4, <3>1 DEF Running
    <2>7. J[i] = j
      BY <2>3, <2>5, <2>6
    <2>8. x \in starts
      <3>1. SUFFICES ASSUME x \notin starts PROVE FALSE
        OBVIOUS
      <3>2. ws[x] = <<>> /\ lens[x] = Len(ws[x])
        BY <1>6, <1>7, <2>4, <3>1
      <3>3. lens[x] = 0
        BY <3>2
      <3>4. QED BY <2>5, <3>3
    <2>9. ws[x] = W(x) /\ lens[x] = Len(W(x)) /\ list[i] = ws[x][j]
      BY <1>6, <1>7, <1>9, <2>4, <2>5, <2>8
    <2>10. QED BY <2>4, <2>5, <2>7, <2>8, <2>9 DEF x
  <1> HIDE DEF L, J
  <1> DEFINE Lo(x, j) == PieceLo(file, off, c, x, j)
             Hi(x, j) == PieceHi(file, off, c, x, j)
             lo == [i \in 1..M |-> Lo(L[i], J[i])]
             hi == [i \in 1..M |-> Hi(L[i], J[i])]
  <1>11. \A x \in 1..N : /\ \A j \in 1..Len(W(x)) : Lo(x, j) \in Nat /\ Hi(x, j) \in Nat
                         /\ \A j \in 1..Len(W(x)) : IsPiece(file, c, W(x)[j], Lo(x, j), Hi(x, j))
                         /\ \A j, k \in 1..Len(W(x)) : j < k => Hi(x, j) < Hi(x, k)
                         /\ \A p \in (off[x - 1] + 1)..off[Reach(file, c, x)] :
                              \E j \in 1..Len(W(x)) : Lo(x, j) <= p /\ p <= Hi(x, j)
    <2>1. \A x \in 1..N : /\ \A j \in 1..Len(W(x)) : Lo(x, j) \in Nat /\ Hi(x, j) \in Nat
                          /\ \A j, k \in 1..Len(W(x)) : j < k => Hi(x, j) < Hi(x, k)
                          /\ \A p \in (off[x - 1] + 1)..off[Reach(file, c, x)] :
                               \E j \in 1..Len(W(x)) : Lo(x, j) <= p /\ p <= Hi(x, j)
      BY <1>2, WindowTiles DEF W
    <2>2. \A x \in 1..N : \A j \in 1..Len(W(x)) : IsPiece(file, c, W(x)[j], Lo(x, j), Hi(x, j))
      BY <1>3 DEF FollowOn
    <2> HIDE DEF Lo, Hi
    <2>3. QED BY <2>1, <2>2
  <1>12. \A x, y \in starts : x < y =>
           \A j \in 1..Len(W(x)) : \A k \in 1..Len(W(y)) : Hi(x, j) < Hi(y, k)
    BY <1>2, WindowsOrdered DEF W, starts
  <1> HIDE DEF Lo, Hi
  <1>13. M \in Nat /\ Len(list) = M
    BY <1>1, <1>8, <1>9 DEF Running
  <1>14. lo \in [1..M -> Nat] /\ hi \in [1..M -> Nat]
    BY <1>10, <1>11
  <1>15. \A i \in 1..M : lo[i] = Lo(L[i], J[i]) /\ hi[i] = Hi(L[i], J[i])
    OBVIOUS
  <1> HIDE DEF lo, hi, M
  <1>16. \A i \in 1..M : IsPiece(file, c, list[i], lo[i], hi[i])
    BY <1>10, <1>11, <1>15
  <1>17. ASSUME NEW i \in 1..M, NEW k \in 1..M, i < k PROVE hi[i] < hi[k]
    <2> DEFINE x == L[i]
               y == L[k]
               a == J[i]
               b == J[k]
    <2>1. /\ x \in 1..N /\ y \in 1..N /\ x \in starts /\ y \in starts
          /\ a \in 1..lens[x] /\ b \in 1..lens[y] /\ i = r[x - 1] + a /\ k = r[y - 1] + b
          /\ lens[x] = Len(W(x)) /\ lens[y] = Len(W(y))
      BY <1>10
    <2> HIDE DEF x, y, a, b
    <2>2. i <= k /\ i # k
      BY <1>13, <1>17
    <2>3. x < y \/ (x = y /\ a <= b)
      BY <1>1, <1>7, <1>8, <2>1, <2>2, PlacesOrdered
    <2>4. x = y => a # b
      BY <2>1, <2>2
    <2>5. CASE x < y
      <3>1. Hi(x, a) < Hi(y, b)
        BY <1>12, <2>1, <2>5
      <3>2. QED BY <1>15, <3>1 DEF x, y, a, b
    <2>6. CASE x = y /\ a <= b
      <3>1. a < b
        <4>1. lens[x] \in Nat /\ lens[y] \in Nat
          BY <1>7, <2>1
        <4>2. a \in Nat /\ b \in Nat
          BY <2>1, <4>1
        <4>3. QED BY <2>4, <2>6, <4>2
      <3>2. Hi(x, a) < Hi(y, b)
        BY <1>11, <2>1, <2>6, <3>1
      <3>3. QED BY <1>15, <3>2 DEF x, y, a, b
    <2>7. QED BY <2>3, <2>5, <2>6
  <1>18. ASSUME NEW p \in 1..Len(FileText(file))
         PROVE  \E i \in 1..M : lo[i] <= p /\ p <= hi[i]
    <2>1. Len(FileText(file)) = off[N]
      BY <1>2, WholeFacts
    <2>2. PICK n \in 1..N : \E k \in 1..file[n] : p = off[n - 1] + k
      BY SMTT(30), <1>1, <1>2, <2>1, Located
    <2>3. PICK k \in 1..file[n] : p = off[n - 1] + k
      BY <2>2
    <2>4. PICK x \in starts : x <= n /\ n <= Reach(file, c, x)
      BY LinesReached DEF starts
    <2>5. x \in 1..N /\ Reach(file, c, x) \in x..N
      BY <1>1, WindowsAdvance
    <2> DEFINE e == Reach(file, c, x)
    <2> HIDE DEF e
    <2>6. /\ x - 1 \in 0..N /\ n - 1 \in 0..N /\ n \in 0..N /\ e \in 0..N /\ x - 1 <= n - 1 /\ n <= e
      BY <1>1, <2>4, <2>5 DEF e
    <2>7. off[x - 1] <= off[n - 1] /\ off[n] <= off[e]
      BY <1>1, <1>2, <2>6, RunsGrow
    <2>8. /\ off[x - 1] \in Nat /\ off[n - 1] \in Nat /\ off[e] \in Nat /\ off[n] = off[n - 1] + file[n]
          /\ file[n] \in Nat
      BY <1>1, <1>2, <2>6 DEF Running
    <2>9. p \in (off[x - 1] + 1)..off[e]
      <3> DEFINE u == off[x - 1]
                 v == off[n - 1]
                 l == file[n]
                 z == off[e]
      <3>1. /\ u \in Nat /\ v \in Nat /\ l \in Nat /\ z \in Nat /\ k \in 1..l /\ p = v + k
            /\ u <= v /\ v + l <= z
        BY <2>3, <2>7, <2>8
      <3> HIDE DEF u, v, l, z
      <3>2. p \in (u + 1)..z
        BY ONLY <3>1
      <3>3. QED BY <3>2 DEF u, z
    <2>10. PICK j \in 1..Len(W(x)) : Lo(x, j) <= p /\ p <= Hi(x, j)
      BY <1>11, <2>5, <2>9 DEF e
    <2>11. lens[x] = Len(W(x)) /\ lens[x] \in Nat
      BY <1>6, <1>7, <2>5
    <2> DEFINE i == r[x - 1] + j
    <2>12. i \in 1..M
      BY <1>9, <2>5, <2>11 DEF M
    <2>13. L[i] = x /\ J[i] = j
      <3> DEFINE y == L[i]
                 b == J[i]
      <3>1. y \in 1..N /\ b \in 1..lens[y] /\ i = r[y - 1] + b
        BY <1>10, <2>12
      <3> HIDE DEF y, b
      <3>2. r[x - 1] + j <= r[y - 1] + b /\ r[y - 1] + b <= r[x - 1] + j
        BY <1>13, <2>12, <3>1
      <3>3. x < y \/ (x = y /\ j <= b)
        BY <1>1, <1>7, <1>8, <2>5, <2>11, <3>1, <3>2, PlacesOrdered
      <3>4. y < x \/ (y = x /\ b <= j)
        BY <1>1, <1>7, <1>8, <2>5, <2>11, <3>1, <3>2, PlacesOrdered
      <3>5. lens[y] \in Nat
        BY <1>7, <3>1
      <3>6. x \in Nat /\ y \in Nat /\ j \in Nat /\ b \in Nat
        BY <1>1, <2>5, <2>11, <3>1, <3>5
      <3>7. QED BY <3>3, <3>4, <3>6 DEF y, b
    <2>14. lo[i] <= p /\ p <= hi[i]
      BY <1>15, <2>10, <2>12, <2>13
    <2>15. QED BY <2>12, <2>14
  <1>19. Tiling(file, c, list, lo, hi)
    BY <1>13, <1>14, <1>16, <1>17, <1>18 DEF Tiling
  <1>20. QED BY <1>4, <1>9, <1>19

\* The letter is one of those from the a-th to the b-th of the file.
LetterIn(file, a, b, letter) == \E p \in a..b : FileText(file)[p] = letter

\* A part of a file that a chunk holds, seen from the chunk.
LEMMA PieceFacts ==
    ASSUME NEW file \in Files, file # <<>>, NEW c, Limited(c), NEW k \in Lined, NEW a, NEW b,
           IsPiece(file, c, k, a, b)
    PROVE  /\ Len(k.text) \in 1..c.chars /\ k.to - k.from < c.lines
           /\ k.text = SubSeq(FileText(file), a, b)
           /\ Head(k.text) = FileText(file)[a] /\ Last(k.text) = FileText(file)[b]
           /\ FileText(file)[a][1] = k.from /\ FileText(file)[b][1] = k.to
           /\ a \in 1..Len(FileText(file)) /\ b \in 1..Len(FileText(file)) /\ a <= b
           /\ \A p \in a..b : FileText(file)[p] \in ToSet(k.text)
           /\ \A z \in ToSet(k.text) : LetterIn(file, a, b, z)
  <1> DEFINE w == FileText(file)
             n == b - a + 1
             x == k.text
  <1>1. PICK off : Running(off, file, Len(file))
    <2>1. Len(file) \in Nat /\ file \in [1..Len(file) -> Nat]
      BY DEF Files
    <2>2. QED BY <2>1, SumRuns
  <1>2. w \in Seq(Spots) /\ Len(w) \in Nat
    <2>1. w \in Seq(Spots)
      BY <1>1, WholeFacts
    <2> HIDE DEF w
    <2>2. Len(w) \in Nat
      BY <2>1
    <2>3. QED BY <2>1, <2>2
  <1>3. /\ a \in 1..b /\ b \in 1..Len(w) /\ x = SubSeq(w, a, b) /\ b - a < c.chars
        /\ k.from = w[a][1] /\ k.to = w[b][1] /\ k.to - k.from < c.lines
    BY DEF IsPiece
  <1>4. c.chars \in Nat
    BY DEF Limited
  <1> HIDE DEF w, x
  <1>5. /\ a \in Nat /\ b \in Nat /\ a <= b /\ a # 0 /\ a \in 1..Len(w) /\ b \in a..Len(w)
        /\ n \in 1..c.chars
    BY <1>2, <1>3, <1>4
  <1>6. x \in Seq(Spots) /\ Len(x) = n /\ \A i \in 1..n : x[i] = w[a + i - 1]
    BY <1>2, <1>3, <1>5, PartFacts
  <1>7. 1 \in 1..n /\ n \in 1..n /\ a + 1 - 1 = a /\ a + n - 1 = b
    BY <1>5
  <1>8. x[1] = w[a] /\ x[n] = w[b] /\ Head(x) = x[1] /\ Last(x) = x[n]
    <2>1. x # <<>>
      BY <1>5, <1>6
    <2>2. Head(x) = x[1]
      BY <1>6, <2>1
    <2>3. Last(x) = x[n]
      BY <1>6 DEF Last
    <2>4. x[1] = w[a] /\ x[n] = w[b]
      BY <1>6, <1>7
    <2>5. QED BY <2>2, <2>3, <2>4
  <1>9. \A z : z \in ToSet(x) <=> \E i \in 1..n : x[i] = z
    BY <1>6, MembersFinite
  <1>10. /\ \A p \in a..b : w[p] \in ToSet(x)
         /\ \A z \in ToSet(x) : \E p \in a..b : w[p] = z
    <2>1. \A i \in 1..n : a + i - 1 \in a..b
      BY <1>5
    <2>2. \A p \in a..b : p - a + 1 \in 1..n /\ a + (p - a + 1) - 1 = p
      BY <1>5
    <2>3. ASSUME NEW z, z \in ToSet(x) PROVE \E p \in a..b : w[p] = z
      <3>1. PICK i \in 1..n : x[i] = z
        BY <1>9, <2>3
      <3>2. z = w[a + i - 1]
        BY <1>6, <3>1
      <3>3. QED BY <2>1, <3>2
    <2>4. ASSUME NEW p \in a..b PROVE w[p] \in ToSet(x)
      <3>1. x[p - a + 1] = w[p]
        BY <1>6, <2>2
      <3>2. QED BY <1>9, <2>2, <3>1
    <2>5. QED BY <2>3, <2>4
  <1>11. QED BY <1>3, <1>5, <1>6, <1>8, <1>10 DEF x, w, LetterIn

\* Chunks that hold such parts are an honest index of the file.
LEMMA TilingCovers ==
    ASSUME source.lines \in Files, source.lines # <<>>, Limited(config), chunks \in Seq(Lined),
           \A d \in source.definitions : d # NoSymbol,
           NEW lo, NEW hi, Tiling(source.lines, config, chunks, lo, hi)
    PROVE  ChunksCover
  <1> DEFINE file == source.lines
             w == FileText(file)
             M == Len(chunks)
             Text(i) == ToSet(chunks[i].text)
  <1>1. /\ \A i \in 1..M : IsPiece(file, config, chunks[i], lo[i], hi[i])
        /\ \A i, k \in 1..M : i < k => hi[i] < hi[k]
        /\ \A p \in 1..Len(w) : \E i \in 1..M : lo[i] <= p /\ p <= hi[i]
    BY DEF Tiling
  <1>2. \A i \in 1..M : chunks[i] \in Lined
    OBVIOUS
  <1>3. \A i \in 1..M :
           /\ lo[i] \in 1..Len(w) /\ hi[i] \in 1..Len(w) /\ lo[i] <= hi[i]
           /\ \A x : x \in Text(i) <=> \E p \in lo[i]..hi[i] : x = w[p]
    <2> SUFFICES ASSUME NEW i \in 1..M
                 PROVE  /\ lo[i] \in 1..Len(w) /\ hi[i] \in 1..Len(w) /\ lo[i] <= hi[i]
                        /\ \A x : x \in Text(i) <=> \E p \in lo[i]..hi[i] : x = w[p]
      OBVIOUS
    <2> DEFINE k == chunks[i]
               a == lo[i]
               b == hi[i]
    <2>1. k \in Lined /\ IsPiece(file, config, k, a, b) /\ file \in Files /\ file # <<>> /\ Limited(config)
      BY <1>1, <1>2
    <2> HIDE DEF k, a, b, file
    <2>2. a \in 1..Len(w) /\ b \in 1..Len(w) /\ a <= b
      BY <2>1, PieceFacts
    <2>3. \A p \in a..b : FileText(file)[p] \in ToSet(k.text)
      BY <2>1, PieceFacts
    <2>4. \A x \in ToSet(k.text) : LetterIn(file, a, b, x)
      BY <2>1, PieceFacts
    <2>5. QED BY <2>2, <2>3, <2>4 DEF k, a, b, file, LetterIn
  <1>4. PICK off : Running(off, file, Len(file))
    <2>1. Len(file) \in Nat /\ file \in [1..Len(file) -> Nat]
      BY DEF Files
    <2>2. QED BY <2>1, SumRuns
  <1>5. /\ Len(w) = off[Len(file)] /\ w \in Seq(Spots)
        /\ \A n \in 1..Len(file) : \A k \in 1..file[n] :
             off[n - 1] + k \in 1..off[Len(file)] /\ w[off[n - 1] + k] = <<n, k>>
        /\ \A p, q \in 1..off[Len(file)] : w[p] = w[q] => p = q
    BY <1>4, WholeFacts
  <1>6. Len(w) \in Nat /\ M \in Nat
    BY <1>5
  <1>7. ASSUME NEW i \in 1..M PROVE HonestChunk(i)
    <2> DEFINE k == chunks[i]
               At(p) == CHOOSE x \in 1..Len(w) : w[x] = p
    <2>1. /\ Len(k.text) \in 1..config.chars /\ k.to - k.from < config.lines
          /\ k.text = SubSeq(w, At(Head(k.text)), At(Last(k.text)))
          /\ Head(k.text)[1] = k.from /\ Last(k.text)[1] = k.to
      <3> DEFINE a == lo[i]
                 b == hi[i]
      <3>1. k \in Lined /\ IsPiece(file, config, k, a, b) /\ file \in Files /\ file # <<>> /\ Limited(config)
        BY <1>1, <1>2
      <3> HIDE DEF k, a, b, file
      <3>2. /\ Len(k.text) \in 1..config.chars /\ k.to - k.from < config.lines
            /\ k.text = SubSeq(w, a, b) /\ Head(k.text) = w[a] /\ Last(k.text) = w[b]
            /\ w[a][1] = k.from /\ w[b][1] = k.to
            /\ a \in 1..Len(w) /\ b \in 1..Len(w)
        BY <3>1, PieceFacts
      <3>3. \A q \in 1..Len(w) : At(w[q]) = q
        BY <1>5
      <3> HIDE DEF At
      <3>4. At(Head(k.text)) = a /\ At(Last(k.text)) = b
        BY <3>2, <3>3
      <3>5. QED BY <3>2, <3>4
    <2>2. ~(Text(i) \subseteq UNION {Text(m) : m \in 1..(i - 1)})
      <3> DEFINE x == w[hi[i]]
      <3>1. hi[i] \in lo[i]..hi[i]
        BY <1>3, <1>6
      <3>2. x \in Text(i)
        BY <1>3, <3>1
      <3>3. ASSUME NEW m \in 1..(i - 1), x \in Text(m) PROVE FALSE
        <4>1. m \in 1..M /\ m < i
          BY <1>6
        <4>2. PICK p \in lo[m]..hi[m] : x = w[p]
          BY <1>3, <3>3, <4>1
        <4>3. lo[m] \in 1..Len(w) /\ hi[m] \in 1..Len(w) /\ hi[i] \in 1..Len(w) /\ hi[m] < hi[i]
          BY <1>1, <1>3, <4>1
        <4>4. p \in 1..Len(w) /\ p # hi[i]
          BY <1>6, <4>2, <4>3
        <4>5. QED BY <1>5, <4>2, <4>3, <4>4
      <3> HIDE DEF x, Text
      <3>4. QED BY <3>2, <3>3
    <2>3. QED BY <2>1, <2>2 DEF HonestChunk, FileText
  <1>8. ASSUME NEW n \in 1..Len(file) PROVE LineKept(n)
    <2> DEFINE all == {<<n, k>> : k \in 1..file[n]}
    <2>1. ASSUME NEW x \in all PROVE \E i \in 1..M : x \in Text(i)
      <3>1. PICK k \in 1..file[n] : x = <<n, k>>
        OBVIOUS
      <3> DEFINE p == off[n - 1] + k
      <3>2. p \in 1..Len(w) /\ w[p] = x
        BY <1>5, <3>1
      <3> HIDE DEF p
      <3>3. PICK i \in 1..M : lo[i] <= p /\ p <= hi[i]
        BY <1>1, <3>2
      <3>4. p \in lo[i]..hi[i]
        BY <1>3, <1>6, <3>2, <3>3
      <3>5. QED BY <1>3, <3>2, <3>4
    <2>2. \A i \in 1..M : InChunk(chunks[i], n) = Text(i) \cap all
      BY DEF InChunk
    <2>3. UNION {InChunk(chunks[i], n) : i \in 1..M} = all
      <3> HIDE DEF all, Text
      <3>1. QED BY <2>1, <2>2
    <2>4. QED BY <2>3 DEF LineKept
  <1>9. ASSUME NEW d \in source.definitions PROVE FunctionWhole(d)
    <2>1. \A i \in 1..M : chunks[i].symbol = NoSymbol
      BY <1>2 DEF Lined
    <2>2. ~\E i \in 1..M : chunks[i].symbol = d
      BY <2>1
    <2>3. QED BY <2>2 DEF FunctionWhole
  <1>10. QED BY <1>7, <1>8, <1>9 DEF ChunksCover

\* A file is chunked once, from a configuration that the code accepts.
ChunkingInv ==
    /\ source \in Sources /\ config \in Configs
    /\ chunks # <<>> => source.lines # <<>> /\ chunks = Chunks(source, config)

\* What the chunks of a file are is settled by the one step there is.
LEMMA ChunkingInvHolds == ChunkingSpec => []ChunkingInv
  <1>1. ChunkingInit => ChunkingInv
    BY DEF ChunkingInit, ChunkingInv
  <1>2. ChunkingInv /\ [ChunkSourceFile]_chunkingVars => ChunkingInv'
    BY DEF ChunkingInv, ChunkSourceFile, chunkingVars
  <1>3. QED BY <1>1, <1>2, PTL DEF ChunkingSpec

\* Every file that is cut into windows of lines, because the configuration says so or because
\* it is no Python that parses, is covered honestly: whatever its lines and the limits, each
\* chunk is a piece of the file within the limits that cites its lines, each brings something
\* new, and no line is lost.
THEOREM LineWindowsCover ==
    ChunkingSpec => [](~(config.structural /\ source.python) => ChunksCover)
  <1>1. ASSUME ChunkingInv, ~(config.structural /\ source.python) PROVE ChunksCover
    <2>1. CASE chunks = <<>>
      BY <2>1 DEF ChunksCover
    <2>2. CASE chunks # <<>>
      <3>1. /\ source.lines \in Files /\ source.lines # <<>> /\ Limited(config)
            /\ \A d \in source.definitions : d.from \in 1..Len(source.lines)
        BY <1>1, <2>2, ChunkingAssumption DEF ChunkingInv, Files, Limited
      <3>2. \A d \in source.definitions : d # NoSymbol
        <4>1. NoSymbol.from = 0
          BY DEF NoSymbol
        <4>2. QED BY <3>1, <4>1
      <3>3. \E kind \in {"line", "line_fallback"} : chunks = LineChunks(source.lines, config, kind)
        BY <1>1, <2>2 DEF ChunkingInv, Chunks
      <3>4. PICK kind \in {"line", "line_fallback"} : chunks = LineChunks(source.lines, config, kind)
        BY <3>3
      <3>5. chunks \in Seq(Lined) /\ \E lo, hi : Tiling(source.lines, config, chunks, lo, hi)
        BY <3>1, <3>4, LineChunksTile
      <3>6. QED BY <3>1, <3>2, <3>5, TilingCovers
    <2>3. QED BY <2>1, <2>2
  <1>2. ChunkingInv => (~(config.structural /\ source.python) => ChunksCover)
    BY <1>1
  <1>3. QED BY <1>2, ChunkingInvHolds, PTL
=============================================================================
