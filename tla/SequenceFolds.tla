--------------------------- MODULE SequenceFolds ----------------------------
(***************************************************************************)
(* FoldLeft in proofs.  Where the code accumulates over a list, the models *)
(* fold over a sequence; FoldLeft is defined by a recursive function on    *)
(* the sets of positions.  Here such a function is shown to exist, and to  *)
(* be, from the first position to the last, the run of an accumulator that *)
(* one reasons about step by step.                                         *)
(***************************************************************************)
EXTENDS Integers, SequencesExt, FiniteSetTheorems, WellFoundedInduction, NaturalsInduction, TLAPS

\* Induction over the numbers, with a set in the place of a predicate.
LEMMA NumbersAllIn ==
    ASSUME NEW S, 0 \in S, \A n \in Nat : n \in S => n + 1 \in S
    PROVE  Nat \subseteq S
  <1> DEFINE T == Nat \ S
  <1>1. SUFFICES ASSUME T # {} PROVE FALSE
    OBVIOUS
  <1>2. PICK x \in T : \A y \in T : <<y, x>> \notin OpToRel(<, Nat)
    <2>1. T \subseteq Nat
      OBVIOUS
    <2> HIDE DEF T
    <2>2. QED BY <1>1, <2>1, NatLessThanWellFounded, WFMin
  <1>3. \A y \in T : ~(y < x)
    BY <1>2 DEF OpToRel
  <1>4. QED
    <2>1. x \in Nat /\ x # 0
      OBVIOUS
    <2>2. x - 1 \in Nat
      BY <2>1
    <2>3. x - 1 \notin T
      BY <1>3, <2>1
    <2>4. x - 1 \in S
      BY <2>2, <2>3
    <2>5. (x - 1) + 1 \in S
      BY <2>2, <2>4
    <2>6. QED BY <2>1, <2>5

\* A set of numbers that is not empty has a greatest one.
LEMMA MaxOfFinite ==
    ASSUME NEW n \in Nat, NEW s \in SUBSET (1..n), s # {}
    PROVE  Max(s) \in s /\ \A y \in s : y <= Max(s)
  <1> DEFINE S == {k \in Nat : \A t \in SUBSET (1..k) : t # {} => \E x \in t : \A y \in t : x >= y}
  <1>1. 0 \in S
    <2>1. 1..0 = {}
      OBVIOUS
    <2>2. QED BY <2>1
  <1>2. \A k \in Nat : k \in S => k + 1 \in S
    <2> SUFFICES ASSUME NEW k \in Nat, k \in S, NEW t \in SUBSET (1..(k + 1)), t # {}
                 PROVE  \E x \in t : \A y \in t : x >= y
      OBVIOUS
    <2>1. CASE k + 1 \in t
      <3>1. \A y \in t : k + 1 >= y
        OBVIOUS
      <3>2. QED BY <2>1, <3>1
    <2>2. CASE k + 1 \notin t
      <3>1. t \in SUBSET (1..k)
        BY <2>2
      <3>2. QED BY <3>1
    <2>3. QED BY <2>1, <2>2
  <1> HIDE DEF S
  <1>3. n \in S
    BY <1>1, <1>2, NumbersAllIn
  <1>4. \E x \in s : \A y \in s : x >= y
    BY <1>3 DEF S
  <1>5. \A x, y \in 1..n : x >= y => y <= x
    OBVIOUS
  <1>6. Max(s) \in s /\ \A y \in s : Max(s) >= y
    BY <1>4 DEF Max
  <1>7. QED BY <1>5, <1>6

LEMMA MaxOfInterval ==
    ASSUME NEW m \in Nat, m # 0
    PROVE  Max(1..m) = m /\ (1..m) \ {Max(1..m)} = 1..(m - 1)
  <1>1. m \in 1..m /\ 1..m # {}
    OBVIOUS
  <1>2. Max(1..m) \in 1..m /\ m <= Max(1..m)
    BY <1>1, MaxOfFinite
  <1>3. Max(1..m) = m
    BY <1>2
  <1>4. (1..m) \ {m} = 1..(m - 1)
    OBVIOUS
  <1>5. QED BY <1>3, <1>4

\* f folds the sets of positions up to k with a step function.
FoldOf(f, k, base, step) ==
    \A s \in SUBSET (1..k) :
        f[s] = IF s = {} THEN base ELSE step[<<f[s \ {Max(s)}], Max(s)>>]

\* A step function has a fold on the sets of numbers, from the least to the greatest.
LEMMA FoldExists ==
    ASSUME NEW n \in Nat, NEW Val, NEW base \in Val, NEW step \in [Val \X (1..n) -> Val]
    PROVE  \E f \in [SUBSET (1..n) -> Val] : FoldOf(f, n, base, step)
  <1> DEFINE Has(m) == \E f \in [SUBSET (1..m) -> Val] : FoldOf(f, m, base, step)
             S == {m \in Nat : m <= n => Has(m)}
  <1>1. Has(0)
    <2>1. 1..0 = {}
      OBVIOUS
    <2>2. [s \in SUBSET (1..0) |-> base] \in [SUBSET (1..0) -> Val]
      OBVIOUS
    <2>3. FoldOf([s \in SUBSET (1..0) |-> base], 0, base, step)
      BY <2>1 DEF FoldOf
    <2>4. QED BY <2>2, <2>3
  <1>2. ASSUME NEW k \in Nat, Has(k), k + 1 <= n PROVE Has(k + 1)
    <2>1. PICK g \in [SUBSET (1..k) -> Val] : FoldOf(g, k, base, step)
      BY <1>2
    <2> DEFINE f == [s \in SUBSET (1..(k + 1)) |->
                       IF k + 1 \in s THEN step[<<g[s \ {k + 1}], k + 1>>] ELSE g[s]]
    <2>0. (1..(k + 1)) \ {k + 1} = 1..k
      OBVIOUS
    <2>2. \A s \in SUBSET (1..(k + 1)) : s \ {k + 1} \in SUBSET (1..k)
      BY ONLY <2>0, Zenon
    <2>3. \A s \in SUBSET (1..(k + 1)) : k + 1 \notin s => s \in SUBSET (1..k)
      BY ONLY <2>0, Zenon
    <2>4. k + 1 \in 1..n
      BY <1>2
    <2>5. f \in [SUBSET (1..(k + 1)) -> Val]
      BY <2>2, <2>3, <2>4
    <2>6. FoldOf(f, k + 1, base, step)
      <3> SUFFICES ASSUME NEW s \in SUBSET (1..(k + 1))
                   PROVE  f[s] = IF s = {} THEN base ELSE step[<<f[s \ {Max(s)}], Max(s)>>]
        BY DEF FoldOf
      <3>1. CASE k + 1 \in s
        <4>1. Max(s) = k + 1
          <5>0. k + 1 \in Nat /\ s # {}
            BY <3>1
          <5>1. Max(s) \in s /\ k + 1 <= Max(s)
            BY <3>1, <5>0, MaxOfFinite
          <5>2. Max(s) \in 1..(k + 1)
            BY <5>1
          <5>3. QED BY <5>1, <5>2
        <4>2. s \ {k + 1} \in SUBSET (1..(k + 1)) /\ k + 1 \notin s \ {k + 1}
          OBVIOUS
        <4>3. f[s \ {k + 1}] = g[s \ {k + 1}]
          BY <4>2
        <4>4. f[s] = step[<<g[s \ {k + 1}], k + 1>>]
          BY <3>1
        <4>5. QED BY <3>1, <4>1, <4>3, <4>4
      <3>2. CASE k + 1 \notin s
        <4>1. s \in SUBSET (1..k) /\ f[s] = g[s]
          BY <3>2, <2>3
        <4>2. CASE s = {}
          BY <4>1, <4>2, <2>1 DEF FoldOf
        <4>3. CASE s # {}
          <5>1. s \ {Max(s)} \in SUBSET (1..k)
            BY <4>1
          <5>2. s \ {Max(s)} \in SUBSET (1..(k + 1)) /\ k + 1 \notin s \ {Max(s)}
            BY <3>2
          <5>3. f[s \ {Max(s)}] = g[s \ {Max(s)}]
            BY <5>2
          <5>4. QED BY <4>1, <4>3, <5>3, <2>1 DEF FoldOf
        <4>4. QED BY <4>2, <4>3
      <3>3. QED BY <3>1, <3>2
    <2>7. QED BY <2>5, <2>6
  <1> HIDE DEF Has
  <1>3. 0 \in S
    BY <1>1
  <1>4. \A k \in Nat : k \in S => k + 1 \in S
    BY <1>2
  <1> HIDE DEF S
  <1>5. n \in S
    BY <1>3, <1>4, NumbersAllIn
  <1>6. Has(n)
    BY <1>5 DEF S
  <1>7. QED BY <1>6 DEF Has

\* The accumulator after each position.
FoldRun(run, n, Val, base, step) ==
    /\ run \in [0..n -> Val] /\ run[0] = base
    /\ \A m \in 1..n : run[m] = step[<<run[m - 1], m>>]

\* g goes on from each position to the next as the step function does.
GoesOn(g, n, Val, base, step) ==
    /\ g[{}] = base
    /\ \A m \in 1..n : g[1..(m - 1)] \in Val => g[1..m] = step[<<g[1..(m - 1)], m>>]

\* What goes on so is a run.
RunOf(g, n) == [m \in 0..n |-> g[1..m]]

LEMMA FoldReached ==
    ASSUME NEW n \in Nat, NEW Val, NEW base \in Val, NEW step \in [Val \X (1..n) -> Val],
           NEW g, GoesOn(g, n, Val, base, step)
    PROVE  FoldRun(RunOf(g, n), n, Val, base, step)
  <1> DEFINE run == RunOf(g, n)
             S == {m \in Nat : m <= n => g[1..m] \in Val}
  <1>1. 1..0 = {}
    OBVIOUS
  <1>2. 0 \in S
    BY <1>1 DEF GoesOn
  <1>3. \A m \in Nat : m \in S => m + 1 \in S
    <2> SUFFICES ASSUME NEW m \in Nat, m \in S, m + 1 <= n PROVE g[1..(m + 1)] \in Val
      OBVIOUS
    <2>1. m + 1 \in 1..n /\ (m + 1) - 1 = m /\ m <= n
      OBVIOUS
    <2>2. g[1..(m + 1)] = step[<<g[1..m], m + 1>>] /\ g[1..m] \in Val
      BY <2>1 DEF GoesOn
    <2>3. QED BY <2>1, <2>2
  <1> HIDE DEF S
  <1>4. \A m \in 0..n : m \in S
    BY <1>2, <1>3, NumbersAllIn
  <1>5. \A m \in 0..n : g[1..m] \in Val
    BY <1>4 DEF S
  <1>6. \A m \in 1..n : m \in 0..n /\ m - 1 \in 0..n
    OBVIOUS
  <1>7. run \in [0..n -> Val] /\ run[0] = base
    BY <1>1, <1>5 DEF GoesOn, RunOf
  <1>8. \A m \in 1..n : run[m] = step[<<run[m - 1], m>>]
    BY <1>5, <1>6 DEF GoesOn, RunOf
  <1> HIDE DEF run
  <1>9. FoldRun(run, n, Val, base, step)
    BY <1>7, <1>8 DEF FoldRun
  <1>10. QED BY <1>9 DEF run

\* The concatenation of the first k sequences.
Flattens(f, k, T, s) ==
    /\ f \in [1..k -> Seq(T)]
    /\ \A i \in 1..k : f[i] = IF i = 1 THEN s[i] ELSE f[i - 1] \o s[i]

\* Joining nonempty lists runs through the concatenations of the first of them.
LEMMA FlattenRuns ==
    ASSUME NEW T, NEW s \in Seq(Seq(T)), Len(s) # 0
    PROVE  \E f : Flattens(f, Len(s), T, s) /\ FlattenSeq(s) = f[Len(s)]
  <1> DEFINE n == Len(s)
             Has(k) == \E f : Flattens(f, k, T, s)
             S == {k \in Nat : k <= n => Has(k)}
             Body(g) == [i \in 1..n |-> IF i = 1 THEN s[i] ELSE g[i - 1] \o s[i]]
             It == CHOOSE g : g = Body(g)
  <1>0. n \in Nat /\ n # 0 /\ \A i \in 1..n : s[i] \in Seq(T)
    OBVIOUS
  <1>1. FlattenSeq(s) = It[n]
    BY DEF FlattenSeq
  <1> HIDE DEF n
  <1>2. Has(0)
    <2>1. Flattens([i \in 1..0 |-> <<>>], 0, T, s)
      BY DEF Flattens
    <2>2. QED BY <2>1
  <1>3. ASSUME NEW k \in Nat, Has(k), k + 1 <= n PROVE Has(k + 1)
    <2>1. PICK g : Flattens(g, k, T, s)
      BY <1>3
    <2> DEFINE f == [i \in 1..(k + 1) |->
                       IF i \in 1..k THEN g[i]
                       ELSE IF k = 0 THEN s[1] ELSE g[k] \o s[k + 1]]
    <2>2. k + 1 \in 1..n /\ (k # 0 => k \in 1..k) /\ (k = 0 => 1 \in 1..n)
      BY <1>0, <1>3
    <2>3. s[k + 1] \in Seq(T) /\ (k = 0 => s[1] \in Seq(T)) /\ (k # 0 => g[k] \in Seq(T))
      BY <1>0, <2>1, <2>2 DEF Flattens
    <2>4. \A x, y \in Seq(T) : x \o y \in Seq(T)
      OBVIOUS
    <2>5. f \in [1..(k + 1) -> Seq(T)]
      <3>1. \A i \in 1..k : g[i] \in Seq(T)
        BY <2>1 DEF Flattens
      <3>2. IF k = 0 THEN s[1] \in Seq(T) ELSE g[k] \o s[k + 1] \in Seq(T)
        BY <2>3, <2>4
      <3>3. QED BY <3>1, <3>2
    <2>6. \A i \in 1..(k + 1) : f[i] = IF i = 1 THEN s[i] ELSE f[i - 1] \o s[i]
      <3> SUFFICES ASSUME NEW i \in 1..(k + 1)
                   PROVE  f[i] = IF i = 1 THEN s[i] ELSE f[i - 1] \o s[i]
        OBVIOUS
      <3>1. CASE i \in 1..k
        <4>1. f[i] = g[i] /\ (i # 1 => f[i - 1] = g[i - 1])
          BY <3>1
        <4>2. g[i] = IF i = 1 THEN s[i] ELSE g[i - 1] \o s[i]
          BY <2>1, <3>1 DEF Flattens
        <4>3. QED BY <4>1, <4>2
      <3>2. CASE i \notin 1..k
        <4>1. i = k + 1
          BY <3>2
        <4>2. f[i] = IF k = 0 THEN s[1] ELSE g[k] \o s[k + 1]
          BY <3>2
        <4>3. k # 0 => i # 1 /\ i - 1 = k /\ f[k] = g[k]
          BY <4>1
        <4> HIDE DEF f
        <4>4. QED BY <4>1, <4>2, <4>3
      <3>3. QED BY <3>1, <3>2
    <2> HIDE DEF f
    <2>7. QED BY <2>5, <2>6 DEF Flattens
  <1> HIDE DEF Has
  <1>4. 0 \in S /\ \A k \in Nat : k \in S => k + 1 \in S
    <2>1. 0 \in S
      BY <1>2
    <2>2. \A k \in Nat : k \in S => k + 1 \in S
      <3> SUFFICES ASSUME NEW k \in Nat, k <= n => Has(k), k + 1 <= n PROVE Has(k + 1)
        OBVIOUS
      <3>1. k <= n
        BY <1>0
      <3>2. QED BY <1>3, <3>1
    <2>3. QED BY <2>1, <2>2
  <1> HIDE DEF S
  <1>5. Has(n)
    <2>1. n \in S
      BY <1>0, <1>4, NumbersAllIn
    <2>2. QED BY <1>0, <2>1 DEF S
  <1>6. PICK f : Flattens(f, n, T, s)
    BY <1>5 DEF Has
  <1>7. f = Body(f)
    BY <1>6 DEF Flattens
  <1>8. It = Body(It)
    <2> HIDE DEF Body
    <2>1. QED BY <1>7
  <1>9. \A i \in 1..n : It[i] = IF i = 1 THEN s[i] ELSE It[i - 1] \o s[i]
    BY <1>8
  <1> HIDE DEF It
  <1> DEFINE R == {k \in Nat : k + 1 <= n => It[k + 1] \in Seq(T)}
  <1>10. 0 \in R
    BY <1>0, <1>9
  <1>11. \A k \in Nat : k \in R => k + 1 \in R
    <2> SUFFICES ASSUME NEW k \in Nat, k \in R, (k + 1) + 1 <= n
                 PROVE  It[(k + 1) + 1] \in Seq(T)
      OBVIOUS
    <2>1. (k + 1) + 1 \in 1..n /\ (k + 1) + 1 # 1 /\ ((k + 1) + 1) - 1 = k + 1 /\ k + 1 <= n
      BY <1>0
    <2>2. It[(k + 1) + 1] = It[k + 1] \o s[(k + 1) + 1] /\ It[k + 1] \in Seq(T)
      BY <1>9, <2>1
    <2>3. \A x, y \in Seq(T) : x \o y \in Seq(T)
      OBVIOUS
    <2>4. QED BY <1>0, <2>1, <2>2, <2>3
  <1> HIDE DEF R
  <1>12. ASSUME NEW i \in 1..n PROVE It[i] \in Seq(T)
    <2>1. i - 1 \in Nat /\ (i - 1) + 1 = i /\ i <= n
      BY <1>0
    <2>2. i - 1 \in R
      BY <1>10, <1>11, <2>1, NumbersAllIn
    <2>3. QED BY <2>1, <2>2 DEF R
  <1> DEFINE all == [i \in 1..n |-> It[i]]
  <1>13. all \in [1..n -> Seq(T)]
    BY <1>12
  <1>14. \A i \in 1..n : all[i] = IF i = 1 THEN s[i] ELSE all[i - 1] \o s[i]
    <2>1. \A i \in 1..n : i # 1 => i - 1 \in 1..n
      BY <1>0
    <2>2. QED BY <1>9, <2>1
  <1>15. all[n] = It[n]
    BY <1>0
  <1> HIDE DEF all
  <1>16. Flattens(all, n, T, s)
    BY <1>13, <1>14 DEF Flattens
  <1>17. QED BY <1>1, <1>15, <1>16 DEF n

\* What FlattenSeq joins is a sequence.
LEMMA FlattenType ==
    ASSUME NEW T, NEW s \in Seq(Seq(T))
    PROVE  FlattenSeq(s) \in Seq(T)
  <1>1. CASE Len(s) = 0
    <2>1. FlattenSeq(s) = s /\ s = <<>>
      BY <1>1 DEF FlattenSeq
    <2>2. QED BY <2>1
  <1>2. CASE Len(s) # 0
    <2>1. PICK f : Flattens(f, Len(s), T, s) /\ FlattenSeq(s) = f[Len(s)]
      BY <1>2, FlattenRuns
    <2>2. Len(s) \in 1..Len(s)
      BY <1>2
    <2>3. QED BY <2>1, <2>2 DEF Flattens
  <1>3. QED BY <1>1, <1>2
=============================================================================
