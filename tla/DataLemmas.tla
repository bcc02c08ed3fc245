------------------------------ MODULE DataLemmas ------------------------------
(***************************************************************************)
(* Facts about data that the proofs about the components share.  Nothing   *)
(* in it is about this program.  Induction is over a set of numbers: each  *)
(* use names the set of the n for which its claim holds.                   *)
(***************************************************************************)
EXTENDS Integers, Sequences, FiniteSets, SequencesExt, FiniteSetTheorems,
        SequenceTheorems, TLAPS

\* A set of naturals that has 0 and each successor has them all: if it lacked n, the
\* successor would map its part up to n into a smaller set, one to one.
LEMMA SetInduction ==
  ASSUME NEW S, 0 \in S, \A n \in Nat : n \in S => n + 1 \in S
  PROVE  Nat \subseteq S
<1> SUFFICES ASSUME NEW n \in Nat, n \notin S
             PROVE  FALSE
  OBVIOUS
<1> DEFINE A == (0..n) \cap S
           B == (1..n) \cap S
           next == [i \in A |-> i + 1]
<1>1. IsFiniteSet(A) /\ IsFiniteSet(B) /\ B \subseteq A /\ B # A
  <2>1. IsFiniteSet(0..n)
    BY FS_Interval
  <2> QED
    BY <2>1, FS_Subset
<1>2. \A i \in A : i + 1 \in B
  <2> SUFFICES ASSUME NEW i \in A
               PROVE  i + 1 \in B
    OBVIOUS
  <2>1. i \in Nat /\ i <= n /\ i # n /\ i + 1 \in S
    OBVIOUS
  <2> QED
    BY <2>1
<1>3. next \in Injection(A, B)
  BY <1>2 DEF Injection, IsInjective
<1>4. Cardinality(A) <= Cardinality(B)
  BY <1>1, <1>3, FS_Injection DEF ExistsInjection
<1>5. Cardinality(B) < Cardinality(A) /\ Cardinality(A) \in Nat /\ Cardinality(B) \in Nat
  <2>1. Cardinality(A) \in Nat /\ Cardinality(B) \in Nat
    BY <1>1, FS_CardinalityType
  <2>2. B \in SUBSET A
    BY <1>1
  <2>3. Cardinality(B) <= Cardinality(A) /\ (Cardinality(A) = Cardinality(B) => A = B)
    BY <1>1, <2>2, FS_Subset
  <2> QED
    BY <1>1, <2>1, <2>3
<1> QED
  BY <1>4, <1>5

LEMMA FiniteImage ==
  ASSUME NEW S, IsFiniteSet(S), NEW f
  PROVE  IsFiniteSet({f[x] : x \in S})
<1> DEFINE T == {f[x] : x \in S}
           g == [x \in S |-> f[x]]
<1>1. g \in Surjection(S, T)
  BY DEF Surjection
<1> QED
  BY <1>1, FS_Surjection DEF ExistsSurjection

-----------------------------------------------------------------------------
\* R is a strict total order of the finite set D.
StrictlyOrders(R, D) ==
  /\ IsFiniteSet(D)
  /\ \A i \in D : <<i, i>> \notin R
  /\ \A i, j, k \in D : <<i, j>> \in R /\ <<j, k>> \in R => <<i, k>> \in R
  /\ \A i, j \in D : i = j \/ <<i, j>> \in R \/ <<j, i>> \in R

Rank(R, D, i) == Cardinality({j \in D : <<j, i>> \in R})

\* The number of elements before an element is its place: the places are in the
\* order R, and every place is taken.
LEMMA Ranks ==
  ASSUME NEW D, NEW R, StrictlyOrders(R, D)
  PROVE  /\ Cardinality(D) \in Nat
         /\ \A i \in D : Rank(R, D, i) \in Nat /\ Rank(R, D, i) < Cardinality(D)
         /\ \A i, j \in D : <<i, j>> \in R <=> Rank(R, D, i) < Rank(R, D, j)
         /\ \A i, j \in D : Rank(R, D, i) = Rank(R, D, j) => i = j
         /\ \A k \in Nat : k < Cardinality(D) => \E i \in D : Rank(R, D, i) = k
<1> DEFINE below(i) == {j \in D : <<j, i>> \in R}
           rank(i) == Rank(R, D, i)
           n == Cardinality(D)
<1> HIDE DEF below, rank, n
<1>0. /\ IsFiniteSet(D)
      /\ \A i \in D : <<i, i>> \notin R
      /\ \A i, j, k \in D : <<i, j>> \in R /\ <<j, k>> \in R => <<i, k>> \in R
      /\ \A i, j \in D : i = j \/ <<i, j>> \in R \/ <<j, i>> \in R
  BY DEF StrictlyOrders
<1>1. n \in Nat
  BY <1>0, FS_CardinalityType DEF n
<1>2. \A i \in D : IsFiniteSet(below(i)) /\ rank(i) \in Nat /\ rank(i) < n
  <2> SUFFICES ASSUME NEW i \in D
               PROVE  IsFiniteSet(below(i)) /\ rank(i) \in Nat /\ rank(i) < n
    OBVIOUS
  <2>1. below(i) \in SUBSET D /\ i \notin below(i)
    BY <1>0 DEF below
  <2>2. IsFiniteSet(below(i)) /\ rank(i) <= n /\ (n = rank(i) => D = below(i))
    BY <1>0, <2>1, FS_Subset DEF rank, n, Rank, below
  <2>3. rank(i) \in Nat
    BY <2>2, FS_CardinalityType DEF rank, Rank, below
  <2> QED
    BY <1>1, <2>1, <2>2, <2>3
<1>3. ASSUME NEW i \in D, NEW j \in D, <<i, j>> \in R
      PROVE  rank(i) < rank(j)
  <2>1. below(i) \in SUBSET below(j) /\ i \in below(j) /\ i \notin below(i)
    BY <1>0, <1>3 DEF below
  <2>2. rank(i) <= rank(j) /\ (rank(j) = rank(i) => below(j) = below(i))
    BY <1>2, <2>1, FS_Subset DEF rank, Rank, below
  <2> QED
    BY <1>2, <2>1, <2>2
<1>4. \A i, j \in D : <<i, j>> \in R => rank(i) < rank(j)
  BY <1>3
<1>5. ASSUME NEW i \in D, NEW j \in D
      PROVE  /\ rank(i) = rank(j) => i = j
             /\ <<i, j>> \in R <=> rank(i) < rank(j)
  <2>1. rank(i) \in Nat /\ rank(j) \in Nat
    BY <1>2
  <2>2. CASE i = j
    BY <1>0, <2>1, <2>2
  <2>3. CASE <<i, j>> \in R
    BY <1>4, <2>1, <2>3
  <2>4. CASE <<j, i>> \in R
    BY <1>4, <2>1, <2>4
  <2> QED
    BY <1>0, <2>2, <2>3, <2>4
<1>6. \A k \in 0..(n - 1) : \E i \in D : rank(i) = k
  <2> DEFINE f == [i \in D |-> rank(i)]
             T == 0..(n - 1)
  <2>1. IsFiniteSet(T) /\ Cardinality(T) = n
    BY <1>1, FS_Interval
  <2> HIDE DEF f, T
  <2>2. f \in Injection(D, T)
    <3>1. \A i \in D : rank(i) \in T
      <4> QED
        BY <1>1, <1>2 DEF T
    <3> QED
      BY <1>5, <3>1 DEF f, Injection, IsInjective
  <2>3. f \in Surjection(D, T)
    <3> QED
      BY <1>0, <2>1, <2>2, FS_Injection DEF n
  <2> QED
    BY <2>3 DEF Surjection, f, T
<1>7. \A k \in Nat : k < n => \E i \in D : rank(i) = k
  BY <1>1, <1>6
<1> QED
  BY <1>1, <1>2, <1>5, <1>7 DEF rank, n

\* The sequence of the elements by their places: it has each one, in the order R.
InPlaces(R, D) == [k \in 1..Cardinality(D) |-> CHOOSE i \in D : Rank(R, D, i) = k - 1]

LEMMA PlacesInOrder ==
  ASSUME NEW D, NEW R, StrictlyOrders(R, D)
  PROVE  /\ InPlaces(R, D) \in [1..Cardinality(D) -> D]
         /\ \A k, l \in 1..Cardinality(D) :
              k < l <=> <<InPlaces(R, D)[k], InPlaces(R, D)[l]>> \in R
         /\ \A i \in D : \E k \in 1..Cardinality(D) : InPlaces(R, D)[k] = i
<1> DEFINE n == Cardinality(D)
           rank(i) == Rank(R, D, i)
           item(k) == CHOOSE i \in D : rank(i) = k - 1
           s == InPlaces(R, D)
<1> HIDE DEF n, rank
<1>1. /\ n \in Nat
      /\ \A i \in D : rank(i) \in Nat /\ rank(i) < n
      /\ \A i, j \in D : <<i, j>> \in R <=> rank(i) < rank(j)
      /\ \A i, j \in D : rank(i) = rank(j) => i = j
      /\ \A k \in Nat : k < n => \E i \in D : rank(i) = k
  BY Ranks DEF n, rank
<1>2. s = [k \in 1..n |-> item(k)]
  BY DEF InPlaces, n, rank
<1> HIDE DEF s
<1>3. ASSUME NEW k \in 1..n
      PROVE  s[k] = item(k) /\ item(k) \in D /\ rank(s[k]) = k - 1
  <2>1. k - 1 \in Nat /\ k - 1 < n
    BY <1>1
  <2>2. item(k) \in D /\ rank(item(k)) = k - 1
    BY <1>1, <2>1
  <2> HIDE DEF item
  <2> QED
    BY <1>2, <2>2
<1> HIDE DEF item
<1>4. s \in [1..n -> D]
  BY <1>2, <1>3
<1>5. ASSUME NEW k \in 1..n, NEW l \in 1..n
      PROVE  k < l <=> <<s[k], s[l]>> \in R
  <2>1. rank(s[k]) = k - 1 /\ rank(s[l]) = l - 1 /\ s[k] \in D /\ s[l] \in D
    BY <1>3
  <2>2. k - 1 < l - 1 <=> k < l
    BY <1>1
  <2> QED
    BY <1>1, <2>1, <2>2
<1>6. ASSUME NEW i \in D
      PROVE  \E k \in 1..n : s[k] = i
  <2>1. rank(i) + 1 \in 1..n /\ (rank(i) + 1) - 1 = rank(i)
    BY <1>1
  <2>2. rank(s[rank(i) + 1]) = rank(i) /\ s[rank(i) + 1] \in D
    BY <1>3, <2>1
  <2> QED
    BY <1>1, <2>1, <2>2
<1> QED
  BY <1>4, <1>5, <1>6 DEF n, s

-----------------------------------------------------------------------------
\* f solves the equation of a fold over the subsets of D: what LET iter[s] == ... of
\* the module Folds stands for; g solves it where its values are in T.
SolvesFold(f, D, base, step, pick) ==
  \A s \in SUBSET D :
    f[s] = IF s = {} THEN base ELSE step[<<pick[s], f[s \ {pick[s]}]>>]

SolvesFoldIn(g, T, D, base, step, pick) ==
  /\ g[{}] = base
  /\ \A s \in SUBSET D :
       s # {} /\ g[s \ {pick[s]}] \in T => g[s] = step[<<pick[s], g[s \ {pick[s]}]>>]

Foldable(T, D, base, step, pick) ==
  /\ IsFiniteSet(D)
  /\ base \in T
  /\ \A s \in SUBSET D : s # {} => pick[s] \in s
  /\ \A x \in D, t \in T : step[<<x, t>>] \in T

HasOneFold(T, D, base, step, pick) ==
  \E f \in [SUBSET D -> T] :
    /\ SolvesFold(f, D, base, step, pick)
    /\ \A g : SolvesFoldIn(g, T, D, base, step, pick) => \A s \in SUBSET D : g[s] = f[s]

\* The equation has one solution.
LEMMA RecursionOverSubsets ==
  ASSUME NEW T, NEW D, NEW base, NEW step, NEW pick, Foldable(T, D, base, step, pick)
  PROVE  HasOneFold(T, D, base, step, pick)
<1> DEFINE small(n) == {s \in SUBSET D : Cardinality(s) <= n}
           rest(s) == s \ {pick[s]}
           Eq(f, s) == f[s] = IF s = {} THEN base ELSE step[<<pick[s], f[rest(s)]>>]
<1> HIDE DEF small, rest, Eq
<1>0. /\ IsFiniteSet(D)
      /\ base \in T
      /\ \A s \in SUBSET D : s # {} => pick[s] \in s
      /\ \A x \in D, t \in T : step[<<x, t>>] \in T
  BY DEF Foldable
<1>1. \A s \in SUBSET D : IsFiniteSet(s) /\ Cardinality(s) \in Nat
  BY <1>0, FS_Subset, FS_CardinalityType
<1>2. ASSUME NEW s \in SUBSET D, s # {}
      PROVE  /\ pick[s] \in D /\ rest(s) \in SUBSET D
             /\ Cardinality(rest(s)) = Cardinality(s) - 1
  <2>1. pick[s] \in s /\ IsFiniteSet(s)
    BY <1>0, <1>1, <1>2
  <2>2. Cardinality(s \ {pick[s]}) = Cardinality(s) - 1
    BY <2>1, FS_RemoveElement
  <2> QED
    BY <2>1, <2>2 DEF rest
<1>3. \A s \in SUBSET D : Cardinality(s) = 0 <=> s = {}
  BY <1>1, FS_EmptySet
<1> DEFINE Good == {n \in Nat : \E f \in [small(n) -> T] : \A s \in small(n) : Eq(f, s)}
<1>4. 0 \in Good
  <2>1. \A s \in small(0) : s = {}
    BY <1>1, <1>3 DEF small
  <2>2. \A s \in small(0) : [t \in small(0) |-> base][s] = base
    OBVIOUS
  <2>3. [t \in small(0) |-> base] \in [small(0) -> T]
    BY <1>0
  <2>4. \A s \in small(0) : Eq([t \in small(0) |-> base], s)
    BY <2>1, <2>2 DEF Eq
  <2> QED
    BY <2>3, <2>4
<1>5. ASSUME NEW n \in Nat, n \in Good
      PROVE  n + 1 \in Good
  <2>1. PICK f \in [small(n) -> T] : \A s \in small(n) : Eq(f, s)
    BY <1>5
  <2> DEFINE g == [s \in small(n + 1) |->
                     IF s \in small(n) THEN f[s] ELSE step[<<pick[s], f[rest(s)]>>]]
  <2>2. small(n) \subseteq small(n + 1)
    BY <1>1 DEF small
  <2>3. ASSUME NEW s \in small(n + 1), s # {}
        PROVE  rest(s) \in small(n) /\ pick[s] \in D
    <3>1. s \in SUBSET D /\ Cardinality(s) <= n + 1 /\ Cardinality(s) \in Nat
      BY <1>1 DEF small
    <3> QED
      BY <1>2, <2>3, <3>1 DEF small
  <2>4. ASSUME NEW s \in small(n + 1), s \notin small(n)
        PROVE  s # {}
    <3>1. {} \in small(n)
      BY <1>3 DEF small
    <3> QED
      BY <2>4, <3>1
  <2>5. g \in [small(n + 1) -> T]
    <3>1. \A s \in small(n + 1) :
            (IF s \in small(n) THEN f[s] ELSE step[<<pick[s], f[rest(s)]>>]) \in T
      BY <1>0, <2>3, <2>4
    <3> QED
      BY <3>1
  <2>6. ASSUME NEW s \in small(n + 1)
        PROVE  Eq(g, s)
    <3>1. CASE s \in small(n)
      <4>1. g[s] = f[s] /\ Eq(f, s)
        BY <2>1, <3>1
      <4>2. s # {} => g[rest(s)] = f[rest(s)]
        BY <2>2, <2>3
      <4> HIDE DEF g
      <4> QED
        BY <4>1, <4>2 DEF Eq
    <3>2. CASE s \notin small(n)
      <4>1. s # {} /\ g[s] = step[<<pick[s], f[rest(s)]>>]
        BY <2>4, <3>2
      <4>2. g[rest(s)] = f[rest(s)]
        BY <2>2, <2>3, <4>1
      <4> HIDE DEF g
      <4> QED
        BY <4>1, <4>2 DEF Eq
    <3> QED
      BY <3>1, <3>2
  <2> HIDE DEF g
  <2> QED
    BY <2>5, <2>6
<1>6. PICK f \in [SUBSET D -> T] : \A s \in SUBSET D : Eq(f, s)
  <2>1. Cardinality(D) \in Good
    <3>1. Nat \subseteq Good
      <4> HIDE DEF Good
      <4> QED
        BY <1>4, <1>5, SetInduction
    <3> HIDE DEF Good
    <3> QED
      BY <1>0, <3>1, FS_CardinalityType
  <2>2. small(Cardinality(D)) = SUBSET D
    BY <1>0, FS_Subset DEF small
  <2> QED
    BY <2>1, <2>2
<1>7. ASSUME NEW g, g[{}] = base,
             \A s \in SUBSET D :
               s # {} /\ g[rest(s)] \in T => g[s] = step[<<pick[s], g[rest(s)]>>]
      PROVE  \A s \in SUBSET D : g[s] = f[s]
  <2> DEFINE Same == {n \in Nat : \A s \in small(n) : g[s] = f[s]}
  <2>1. 0 \in Same
    <3>1. \A s \in small(0) : s = {} /\ s \in SUBSET D
      BY <1>1, <1>3 DEF small
    <3> QED
      BY <1>6, <1>7, <3>1 DEF Eq
  <2>2. ASSUME NEW n \in Nat, n \in Same
        PROVE  n + 1 \in Same
    <3>1. ASSUME NEW s \in small(n + 1)
          PROVE  g[s] = f[s]
      <4>1. s \in SUBSET D /\ Cardinality(s) <= n + 1 /\ Cardinality(s) \in Nat
        BY <1>1 DEF small
      <4>2. CASE s = {}
        BY <1>6, <1>7, <4>1, <4>2 DEF Eq
      <4>3. CASE s # {}
        <5>1. rest(s) \in small(n)
          BY <1>2, <4>1, <4>3 DEF small
        <5>2. g[rest(s)] = f[rest(s)] /\ f[rest(s)] \in T
          BY <1>2, <2>2, <4>1, <4>3, <5>1
        <5> QED
          BY <1>6, <1>7, <4>1, <4>3, <5>2 DEF Eq
      <4> QED
        BY <4>2, <4>3
    <3> QED
      BY <3>1
  <2>3. Cardinality(D) \in Same
    <3>1. Nat \subseteq Same
      <4> HIDE DEF Same
      <4> QED
        BY <2>1, <2>2, SetInduction
    <3> HIDE DEF Same
    <3> QED
      BY <1>0, <3>1, FS_CardinalityType
  <2>4. small(Cardinality(D)) = SUBSET D
    BY <1>0, FS_Subset DEF small
  <2> QED
    BY <2>3, <2>4
<1>8. SolvesFold(f, D, base, step, pick)
  BY <1>6 DEF Eq, rest, SolvesFold
<1>9. \A g : SolvesFoldIn(g, T, D, base, step, pick) => \A s \in SUBSET D : g[s] = f[s]
  BY <1>7 DEF rest, SolvesFoldIn
<1> QED
  BY <1>8, <1>9 DEF HasOneFold

\* A set with a natural in it has a least one.
LEMMA LeastNatural ==
  ASSUME NEW S, NEW n \in Nat, n \in S
  PROVE  \E k \in Nat : k \in S /\ \A j \in Nat : j < k => j \notin S
<1> SUFFICES ASSUME \A k \in Nat : k \in S => \E j \in Nat : j < k /\ j \in S
             PROVE  FALSE
  OBVIOUS
<1> DEFINE Free == {m \in Nat : \A k \in Nat : k <= m => k \notin S}
<1>1. 0 \in Free
  OBVIOUS
<1>2. \A m \in Nat : m \in Free => m + 1 \in Free
  <2> SUFFICES ASSUME NEW m \in Nat, m \in Free, NEW k \in Nat, k <= m + 1, k \in S
               PROVE  FALSE
    OBVIOUS
  <2>1. PICK j \in Nat : j < k /\ j \in S
    OBVIOUS
  <2> QED
    BY <2>1
<1>3. Nat \subseteq Free
  <2> HIDE DEF Free
  <2> QED
    BY <1>1, <1>2, SetInduction
<1> QED
  BY <1>3

LEMMA GreatestOfInterval ==
  ASSUME NEW n \in Nat, NEW s \in SUBSET (1..n), s # {}
  PROVE  Max(s) \in s /\ \A x \in s : x <= Max(s)
<1> DEFINE HasMax == {m \in Nat : \A t \in SUBSET (1..m) :
                        t # {} => \E x \in t : \A y \in t : x >= y}
<1>1. 0 \in HasMax
  <2>1. 1..0 = {}
    OBVIOUS
  <2> QED
    BY <2>1
<1>2. ASSUME NEW m \in Nat, m \in HasMax
      PROVE  m + 1 \in HasMax
  <2>1. ASSUME NEW t \in SUBSET (1..(m + 1)), t # {}
        PROVE  \E x \in t : \A y \in t : x >= y
    <3>1. CASE m + 1 \in t
      BY <3>1
    <3>2. CASE m + 1 \notin t
      <4>1. t \in SUBSET (1..m)
        BY <3>2
      <4> QED
        BY <1>2, <2>1, <4>1
    <3> QED
      BY <3>1, <3>2
  <2> QED
    BY <2>1
<1>3. Nat \subseteq HasMax
  <2> HIDE DEF HasMax
  <2> QED
    BY <1>1, <1>2, SetInduction
<1>4. \E x \in s : \A y \in s : x >= y
  BY <1>3
<1>5. Max(s) \in s /\ \A y \in s : Max(s) >= y
  BY <1>4 DEF Max
<1> QED
  BY <1>5

LEMMA GreatestOfPrefix ==
  ASSUME NEW n \in Nat, NEW k \in 1..n
  PROVE  /\ (1..k) \in SUBSET (1..n) /\ (1..k) # {}
         /\ Max(1..k) = k
         /\ (1..k) \ {k} = 1..(k - 1)
<1>1. (1..k) \in SUBSET (1..n) /\ k \in 1..k
  OBVIOUS
<1>2. Max(1..k) \in 1..k /\ k <= Max(1..k)
  BY <1>1, GreatestOfInterval
<1> QED
  BY <1>1, <1>2

\* The same from left to right: f[k] is the fold of the first k entries, h and g are
\* functions on sets of positions, as FoldLeft has them.
FoldsLeft(f, n, base, step) == f[0] = base /\ \A k \in 1..n : f[k] = step[<<k, f[k - 1]>>]

SolvesLeft(h, n, base, step) ==
  \A s \in SUBSET (1..n) : h[s] = IF s = {} THEN base ELSE step[<<Max(s), h[s \ {Max(s)}]>>]

SolvesLeftIn(g, T, n, base, step) ==
  /\ g[{}] = base
  /\ \A s \in SUBSET (1..n) :
       s # {} /\ g[s \ {Max(s)}] \in T => g[s] = step[<<Max(s), g[s \ {Max(s)}]>>]

LeftFoldable(T, n, base, step) ==
  n \in Nat /\ base \in T /\ \A x \in 1..n, t \in T : step[<<x, t>>] \in T

HasLeftFold(T, n, base, step) ==
  \E f \in [0..n -> T], h \in [SUBSET (1..n) -> T] :
    /\ FoldsLeft(f, n, base, step)
    /\ SolvesLeft(h, n, base, step)
    /\ \A g : SolvesLeftIn(g, T, n, base, step) => g[1..n] = f[n]

LEMMA LeftRecursion ==
  ASSUME NEW T, NEW n, NEW base, NEW step, LeftFoldable(T, n, base, step)
  PROVE  HasLeftFold(T, n, base, step)
<1>0. n \in Nat /\ base \in T /\ \A x \in 1..n, t \in T : step[<<x, t>>] \in T
  BY DEF LeftFoldable
<1> DEFINE D == 1..n
           pick == [s \in SUBSET D |-> Max(s)]
<1> HIDE DEF D, pick
<1>1. IsFiniteSet(D)
  <2>1. 1 \in Int /\ n \in Int
    BY <1>0
  <2> QED
    BY <2>1, FS_Interval DEF D
<1>2. \A s \in SUBSET D : s # {} => pick[s] = Max(s) /\ pick[s] \in s
  BY <1>0, GreatestOfInterval DEF D, pick
<1>3. PICK h \in [SUBSET D -> T] :
        /\ SolvesFold(h, D, base, step, pick)
        /\ \A g : SolvesFoldIn(g, T, D, base, step, pick) => \A s \in SUBSET D : g[s] = h[s]
  <2>1. \A s \in SUBSET D : s # {} => pick[s] \in s
    BY <1>2
  <2>2. \A x \in D, t \in T : step[<<x, t>>] \in T
    BY <1>0 DEF D
  <2>3. HasOneFold(T, D, base, step, pick)
    BY <1>0, <1>1, <2>1, <2>2, RecursionOverSubsets DEF Foldable
  <2> QED
    BY <2>3 DEF HasOneFold
<1> DEFINE f == [k \in 0..n |-> h[1..k]]
<1> HIDE DEF f
<1>4. f \in [0..n -> T]
  <2>1. \A k \in 0..n : (1..k) \in SUBSET D
    BY <1>0 DEF D
  <2> QED
    BY <2>1 DEF f
<1>5. f[0] = base
  <2>1. f[0] = h[{}] /\ {} \in SUBSET D
    BY <1>0 DEF f
  <2> QED
    BY <1>3, <2>1 DEF SolvesFold
<1>6. ASSUME NEW k \in 1..n
      PROVE  f[k] = step[<<k, f[k - 1]>>]
  <2>1. (1..k) \in SUBSET D /\ (1..k) # {} /\ pick[1..k] = k /\ (1..k) \ {k} = 1..(k - 1)
    BY <1>0, GreatestOfPrefix DEF D, pick
  <2>2. f[k] = h[1..k] /\ f[k - 1] = h[1..(k - 1)]
    BY <1>0 DEF f
  <2>3. h[1..k] = step[<<pick[1..k], h[(1..k) \ {pick[1..k]}]>>]
    BY <1>3, <2>1 DEF SolvesFold
  <2> QED
    BY <2>1, <2>2, <2>3
<1>7. FoldsLeft(f, n, base, step)
  BY <1>5, <1>6 DEF FoldsLeft
<1>8. SolvesLeft(h, n, base, step)
  BY <1>2, <1>3 DEF SolvesFold, SolvesLeft, D
<1>9. ASSUME NEW g, SolvesLeftIn(g, T, n, base, step)
      PROVE  g[1..n] = f[n]
  <2>1. SolvesFoldIn(g, T, D, base, step, pick)
    BY <1>2, <1>9 DEF SolvesFoldIn, SolvesLeftIn, D
  <2>2. \A s \in SUBSET D : g[s] = h[s]
    BY <1>3, <2>1
  <2>3. f[n] = h[D] /\ D \in SUBSET D
    BY <1>0 DEF f, D
  <2> QED
    BY <2>2, <2>3 DEF D
<1> QED
  BY <1>3, <1>4, <1>7, <1>8, <1>9 DEF HasLeftFold, D

-----------------------------------------------------------------------------
Occurs(x, s) == \E k \in 1..Len(s) : s[k] = x

\* x and y in this order stand in the first n of the sequences seqs in this order.
Ordered(x, y, seqs, n) ==
  \E p, q \in 1..n : p <= q /\ Occurs(x, seqs[p]) /\ Occurs(y, seqs[q])

IsFlat(s, T, seqs, n) ==
  /\ s \in Seq(T)
  /\ \A x : Occurs(x, s) <=> \E p \in 1..n : Occurs(x, seqs[p])
  /\ \A j, k \in 1..Len(s) : j < k => Ordered(s[j], s[k], seqs, n)

\* One sequence more is joined to the first n.
LEMMA FlatExtends ==
  ASSUME NEW T, NEW seqs \in Seq(Seq(T)), NEW n \in Nat, n + 1 \in 1..Len(seqs),
         NEW s, IsFlat(s, T, seqs, n)
  PROVE  IsFlat(s \o seqs[n + 1], T, seqs, n + 1)
<1> DEFINE t == seqs[n + 1]
           u == s \o t
<1>1. s \in Seq(T) /\ t \in Seq(T) /\ Len(s) \in Nat /\ Len(t) \in Nat
  BY ElementOfSeq, LenProperties DEF IsFlat
<1> HIDE DEF t, u
<1>2. /\ u \in Seq(T) /\ Len(u) = Len(s) + Len(t)
      /\ \A k \in 1..Len(u) : u[k] = IF k <= Len(s) THEN s[k] ELSE t[k - Len(s)]
  BY <1>1, ConcatProperties DEF u
<1>3. \A k \in 1..Len(u) :
        \/ k <= Len(s) /\ k \in 1..Len(s) /\ u[k] = s[k]
        \/ k > Len(s) /\ k - Len(s) \in 1..Len(t) /\ u[k] = t[k - Len(s)]
  BY <1>1, <1>2
<1>4. \A x : Occurs(x, u) <=> Occurs(x, s) \/ Occurs(x, t)
  <2>1. ASSUME NEW x, Occurs(x, u)
        PROVE  Occurs(x, s) \/ Occurs(x, t)
    BY <1>3, <2>1 DEF Occurs
  <2>2. ASSUME NEW x, Occurs(x, s)
        PROVE  Occurs(x, u)
    <3>1. PICK k \in 1..Len(s) : s[k] = x
      BY <2>2 DEF Occurs
    <3>2. k \in 1..Len(u) /\ u[k] = s[k]
      BY <1>1, <1>2
    <3> QED
      BY <3>1, <3>2 DEF Occurs
  <2>3. ASSUME NEW x, Occurs(x, t)
        PROVE  Occurs(x, u)
    <3>1. PICK k \in 1..Len(t) : t[k] = x
      BY <2>3 DEF Occurs
    <3>2. k + Len(s) \in 1..Len(u) /\ ~(k + Len(s) <= Len(s)) /\ (k + Len(s)) - Len(s) = k
      BY <1>1, <1>2
    <3>3. u[k + Len(s)] = t[k]
      BY <1>2, <3>2
    <3> QED
      BY <3>1, <3>2, <3>3 DEF Occurs
  <2> QED
    BY <2>1, <2>2, <2>3
<1>5. \A x : Occurs(x, u) <=> \E p \in 1..(n + 1) : Occurs(x, seqs[p])
  <2>1. \A x : (\E p \in 1..(n + 1) : Occurs(x, seqs[p]))
                 <=> (\E p \in 1..n : Occurs(x, seqs[p])) \/ Occurs(x, seqs[n + 1])
    OBVIOUS
  <2> QED
    BY <1>4, <2>1 DEF IsFlat, t
<1>6. ASSUME NEW j \in 1..Len(u), NEW k \in 1..Len(u), j < k
      PROVE  Ordered(u[j], u[k], seqs, n + 1)
  <2>1. CASE k <= Len(s)
    <3>1. j \in 1..Len(s) /\ k \in 1..Len(s) /\ u[j] = s[j] /\ u[k] = s[k]
      BY <1>1, <1>2, <1>6, <2>1
    <3>2. PICK p, q \in 1..n : p <= q /\ Occurs(s[j], seqs[p]) /\ Occurs(s[k], seqs[q])
      BY <1>6, <3>1 DEF IsFlat, Ordered
    <3>3. p \in 1..(n + 1) /\ q \in 1..(n + 1)
      OBVIOUS
    <3> QED
      BY <3>1, <3>2, <3>3 DEF Ordered
  <2>2. CASE k > Len(s)
    <3>1. Occurs(u[k], t)
      BY <1>3, <2>2, <1>1 DEF Occurs
    <3>2. PICK p \in 1..(n + 1) : Occurs(u[j], seqs[p])
      BY <1>5 DEF Occurs
    <3>3. p <= n + 1 /\ n + 1 \in 1..(n + 1)
      OBVIOUS
    <3> QED
      BY <3>1, <3>2, <3>3 DEF Ordered, t
  <2> QED
    BY <1>1, <2>1, <2>2
<1> QED
  BY <1>2, <1>5, <1>6 DEF IsFlat, u, t

\* FlattenSeq joins the sequences one after the other.
LEMMA FlattenProperties ==
  ASSUME NEW T, NEW seqs \in Seq(Seq(T))
  PROVE  IsFlat(FlattenSeq(seqs), T, seqs, Len(seqs))
<1> DEFINE n == Len(seqs)
<1>1. n \in Nat /\ \A i \in 1..n : seqs[i] \in Seq(T)
  BY ElementOfSeq, LenProperties
<1>2. CASE n = 0
  <2>1. seqs = <<>> /\ FlattenSeq(seqs) = seqs
    BY <1>2, EmptySeq DEF FlattenSeq
  <2>2. <<>> \in Seq(T) /\ Len(<<>>) = 0 /\ 1..0 = {}
    BY EmptySeq
  <2>3. IsFlat(<<>>, T, seqs, 0)
    BY <2>2 DEF IsFlat, Occurs
  <2> QED
    BY <1>2, <2>1, <2>3
<1>3. CASE n # 0
  <2> DEFINE Eq(f) == f = [i \in 1..n |-> IF i = 1 THEN seqs[i] ELSE f[i - 1] \o seqs[i]]
             flat == CHOOSE f : Eq(f)
             step == [p \in (1..n) \X Seq(T) |->
                        IF p[1] = 1 THEN seqs[p[1]] ELSE p[2] \o seqs[p[1]]]
  <2>1. FlattenSeq(seqs) = flat[n]
    BY <1>1, <1>3 DEF FlattenSeq
  <2>2. \A x \in 1..n, t \in Seq(T) :
           /\ step[<<x, t>>] = IF x = 1 THEN seqs[x] ELSE t \o seqs[x]
           /\ step[<<x, t>>] \in Seq(T)
    BY <1>1, ConcatProperties
  <2>3. <<>> \in Seq(T)
    BY EmptySeq
  <2> HIDE DEF step
  <2>4. \E f \in [0..n -> Seq(T)] : FoldsLeft(f, n, <<>>, step)
    <3>1. HasLeftFold(Seq(T), n, <<>>, step)
      BY <1>1, <2>2, <2>3, LeftRecursion DEF LeftFoldable
    <3> QED
      BY <3>1 DEF HasLeftFold
  <2>5. \E f : Eq(f)
    <3>1. PICK f \in [0..n -> Seq(T)] : FoldsLeft(f, n, <<>>, step)
      BY <2>4
    <3> DEFINE g == [i \in 1..n |-> f[i]]
    <3>2. ASSUME NEW i \in 1..n
          PROVE  g[i] = IF i = 1 THEN seqs[i] ELSE g[i - 1] \o seqs[i]
      <4>1. f[i] = IF i = 1 THEN seqs[i] ELSE f[i - 1] \o seqs[i]
        <5>1. f[i - 1] \in Seq(T)
          <6>1. i - 1 \in 0..n
            BY <1>1
          <6> QED
            BY <6>1
        <5>2. f[i] = step[<<i, f[i - 1]>>]
          BY <3>1 DEF FoldsLeft
        <5> QED
          BY <2>2, <5>1, <5>2
      <4>2. i # 1 => i - 1 \in 1..n
        BY <1>1
      <4> QED
        BY <4>1, <4>2
    <3>3. Eq(g)
      BY <3>2
    <3> QED
      BY <3>3
  <2>6. Eq(flat)
    <3> HIDE DEF Eq
    <3> QED
      BY <2>5
  <2> HIDE DEF flat
  <2>7. \A i \in 1..n : flat[i] = IF i = 1 THEN seqs[i] ELSE flat[i - 1] \o seqs[i]
    BY <2>6
  <2> DEFINE Good == {i \in Nat : i + 1 \in 1..n => IsFlat(flat[i + 1], T, seqs, i + 1)}
  <2>8. 0 \in Good
    <3>1. flat[1] = seqs[1] /\ seqs[1] \in Seq(T)
      BY <1>1, <1>3, <2>7
    <3>2. \A j, k \in 1..Len(seqs[1]) : Ordered(seqs[1][j], seqs[1][k], seqs, 1)
      BY DEF Ordered, Occurs
    <3>3. IsFlat(flat[1], T, seqs, 1)
      BY <3>1, <3>2 DEF IsFlat
    <3> QED
      BY <3>3
  <2>9. ASSUME NEW i \in Nat, i \in Good
        PROVE  i + 1 \in Good
    <3> SUFFICES ASSUME i + 2 \in 1..n
                 PROVE  IsFlat(flat[i + 2], T, seqs, i + 2)
      OBVIOUS
    <3>1. IsFlat(flat[i + 1], T, seqs, i + 1)
      BY <1>1, <2>9
    <3>2. flat[i + 2] = flat[i + 1] \o seqs[i + 2]
      <4>1. i + 2 # 1 /\ (i + 2) - 1 = i + 1
        OBVIOUS
      <4> QED
        BY <2>7, <4>1
    <3>3. i + 1 \in Nat /\ (i + 1) + 1 = i + 2
      OBVIOUS
    <3> QED
      BY <3>1, <3>2, <3>3, FlatExtends
  <2>10. Nat \subseteq Good
    <3> HIDE DEF Good
    <3> QED
      BY <2>8, <2>9, SetInduction
  <2>11. n - 1 \in Good /\ (n - 1) + 1 = n /\ n \in 1..n
    <3> HIDE DEF Good
    <3> QED
      BY <1>1, <1>3, <2>10
  <2> QED
    BY <2>1, <2>11
<1> QED
  BY <1>2, <1>3

-----------------------------------------------------------------------------
\* IsPrefix by the entries, and what follows for longer sequences.
LEMMA PrefixEntries ==
  ASSUME NEW T, NEW s \in Seq(T), NEW t \in Seq(T)
  PROVE  IsPrefix(s, t) <=> Len(s) <= Len(t) /\ \A k \in 1..Len(s) : s[k] = t[k]
<1>1. Len(s) \in Nat /\ Len(t) \in Nat
  BY LenProperties
<1>2. SubSeq(s, 1, Len(s)) = s
  BY <1>1
<1>3. ASSUME Len(s) <= Len(t)
      PROVE  SubSeq(t, 1, Len(s)) = s <=> \A k \in 1..Len(s) : s[k] = t[k]
  <2> DEFINE u == SubSeq(t, 1, Len(s))
  <2>1. u \in Seq(T) /\ Len(u) = Len(s) /\ \A k \in 1..Len(s) : u[k] = t[k]
    BY <1>1, <1>3
  <2> HIDE DEF u
  <2>2. u = s <=> \A k \in 1..Len(s) : u[k] = s[k]
    BY <2>1, SeqEqual
  <2> QED
    BY <2>1, <2>2 DEF u
<1> QED
  BY <1>2, <1>3 DEF IsPrefix

LEMMA PrefixTransitive ==
  ASSUME NEW T, NEW s \in Seq(T), NEW t \in Seq(T), NEW u \in Seq(T),
         IsPrefix(s, t), IsPrefix(t, u)
  PROVE  IsPrefix(s, u)
<1>1. Len(s) \in Nat /\ Len(t) \in Nat /\ Len(u) \in Nat
  BY LenProperties
<1>2. /\ Len(s) <= Len(t) /\ \A k \in 1..Len(s) : s[k] = t[k]
      /\ Len(t) <= Len(u) /\ \A k \in 1..Len(t) : t[k] = u[k]
  BY PrefixEntries
<1> QED
  BY <1>1, <1>2, PrefixEntries

-----------------------------------------------------------------------------
(* Remainders, and how often they come *)

\* A function defined by recursion on the numbers up to n exists.
LEMMA RecursionUpTo ==
  ASSUME NEW T, NEW n, NEW base, NEW step, LeftFoldable(T, n, base, step)
  PROVE  \E f \in [0..n -> T] :
           f = [k \in 0..n |-> IF k = 0 THEN base ELSE step[<<k, f[k - 1]>>]]
<1>1. n \in Nat
  BY DEF LeftFoldable
<1>2. PICK f \in [0..n -> T] : FoldsLeft(f, n, base, step)
  BY LeftRecursion DEF HasLeftFold
<1>3. \A k \in 0..n : f[k] = IF k = 0 THEN base ELSE step[<<k, f[k - 1]>>]
  <2> SUFFICES ASSUME NEW k \in 0..n, k # 0
               PROVE  f[k] = step[<<k, f[k - 1]>>]
    BY <1>2 DEF FoldsLeft
  <2>1. k \in 1..n
    BY <1>1
  <2> QED
    BY <1>2, <2>1 DEF FoldsLeft
<1> QED
  BY <1>2, <1>3

LEMMA Division ==
  ASSUME NEW a \in Nat, NEW b \in Nat \ {0}
  PROVE  a % b \in 0..(b - 1) /\ a \div b \in Nat /\ a = b * (a \div b) + (a % b)
BY SMT

LEMMA Products ==
  ASSUME NEW b \in Nat \ {0}, NEW x \in Int, NEW y \in Int
  PROVE  /\ b * x \in Int /\ b * (x + 1) = b * x + b /\ b * (x - y) = b * x - b * y
         /\ x >= 1 => b * x >= b
<1>1. b * x \in Int
  BY SMT
<1>2. b * (x + 1) = b * x + b
  BY SMT
<1>3. b * (x - y) = b * x - b * y
  BY SMT
<1>4. x >= 1 => b * x >= b
  BY SMT
<1> QED
  BY <1>1, <1>2, <1>3, <1>4

LEMMA OneRemainder ==
  ASSUME NEW b \in Nat \ {0}, NEW x \in Int, NEW y \in Int, NEW r \in 0..(b - 1), NEW s \in 0..(b - 1),
         b * x + r = b * y + s
  PROVE  r = s
<1>1. /\ b * x \in Int /\ b * y \in Int /\ x - y \in Int /\ y - x \in Int
      /\ b * (x - y) = b * x - b * y /\ b * (y - x) = b * y - b * x
  BY Products
<1>2. ~(x > y)
  BY <1>1, Products
<1>3. ~(y > x)
  BY <1>1, Products
<1> QED
  BY <1>2, <1>3

LEMMA RemainderReturns ==
  ASSUME NEW a \in Nat, NEW b \in Nat \ {0}
  PROVE  (a + b) % b = a % b
<1> DEFINE q == a \div b
           r == a % b
           p == (a + b) \div b
           s == (a + b) % b
<1>1. q \in Nat /\ r \in 0..(b - 1) /\ a = b * q + r
  BY Division
<1>2. p \in Nat /\ s \in 0..(b - 1) /\ a + b = b * p + s
  BY Division, a + b \in Nat
<1> HIDE DEF q, r, p, s
<1>3. b * (q + 1) = b * q + b /\ b * q \in Int /\ q + 1 \in Int
  BY <1>1, Products
<1>4. b * (q + 1) + r = b * p + s
  BY <1>1, <1>2, <1>3
<1>5. r = s
  BY <1>1, <1>2, <1>3, <1>4, OneRemainder
<1> QED
  BY <1>5 DEF r, s

\* The numbers among the t from m on whose remainder by t is in a..(b - 1).
Hits(m, t, a, b) == {c \in m..(m + t - 1) : a <= c % t /\ c % t < b}

\* Any t successive numbers have each remainder by t once.
LEMMA WindowCount ==
  ASSUME NEW t \in Nat \ {0}, NEW a \in 0..t, NEW b \in a..t
  PROVE  \A m \in Nat : IsFiniteSet(Hits(m, t, a, b)) /\ Cardinality(Hits(m, t, a, b)) = b - a
<1> DEFINE S == {m \in Nat : IsFiniteSet(Hits(m, t, a, b)) /\ Cardinality(Hits(m, t, a, b)) = b - a}
<1>0. a \in Nat /\ b \in Nat /\ a <= b /\ b <= t
  OBVIOUS
<1>1. 0 \in S
  <2>1. \A c \in 0..(t - 1) : c % t = c
    OBVIOUS
  <2>2. Hits(0, t, a, b) = a..(b - 1)
    BY <1>0, <2>1 DEF Hits
  <2>3. IsFiniteSet(a..(b - 1)) /\ Cardinality(a..(b - 1)) = IF a > b - 1 THEN 0 ELSE (b - 1) - a + 1
    BY <1>0, FS_Interval, a \in Int, b - 1 \in Int
  <2> QED
    BY <1>0, <2>2, <2>3
<1>2. ASSUME NEW m \in Nat, m \in S
      PROVE  m + 1 \in S
  <2> DEFINE A == Hits(m, t, a, b)
             B == Hits(m + 1, t, a, b)
  <2>1. IsFiniteSet(A) /\ Cardinality(A) = b - a
    BY <1>2
  <2>2. (m + t) % t = m % t /\ m % t \in Int
    <3>1. (m + t) % t = m % t
      BY RemainderReturns
    <3> QED
      BY <3>1
  <2>3. \A c : c \in (m + 1)..(m + 1 + t - 1) <=> c = m + t \/ (c \in m..(m + t - 1) /\ c # m)
    OBVIOUS
  <2>4. m \in m..(m + t - 1) /\ m + t \notin m..(m + t - 1) /\ m + t # m
    OBVIOUS
  <2>5. CASE a <= m % t /\ m % t < b
    <3>1. B = (A \ {m}) \cup {m + t} /\ m \in A /\ m + t \notin A \ {m}
      BY <2>2, <2>3, <2>4, <2>5 DEF Hits
    <3>2. IsFiniteSet(A \ {m}) /\ Cardinality(A \ {m}) = (b - a) - 1
      BY <2>1, <3>1, FS_RemoveElement
    <3>3. IsFiniteSet(B) /\ Cardinality(B) = ((b - a) - 1) + 1
      BY <3>1, <3>2, FS_AddElement
    <3> QED
      BY <1>0, <3>3
  <2>6. CASE ~(a <= m % t /\ m % t < b)
    <3>1. B = A
      BY <2>2, <2>3, <2>4, <2>6 DEF Hits
    <3> QED
      BY <2>1, <3>1
  <2> QED
    BY <2>5, <2>6
<1> HIDE DEF S
<1>3. Nat \subseteq S
  BY <1>1, <1>2, SetInduction
<1>4. ASSUME NEW m \in Nat
      PROVE  IsFiniteSet(Hits(m, t, a, b)) /\ Cardinality(Hits(m, t, a, b)) = b - a
  <2>1. m \in S
    BY <1>3
  <2> QED
    BY <2>1 DEF S
<1> QED
  BY <1>4

=============================================================================
