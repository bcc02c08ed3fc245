---------------------------- MODULE ResolverProofs ----------------------------
(***************************************************************************)
(* Proofs about Resolver, for every list of registries, every set of       *)
(* listings they may hold, and however often they change during a call.    *)
(***************************************************************************)
EXTENDS Resolver, DataLemmas

-----------------------------------------------------------------------------
(* The sorted list of registries *)

LEMMA RegistryFacts ==
  /\ Len(Sources) \in Nat /\ IsFiniteSet(Registry) /\ Cardinality(Registry) = Len(Sources)
  /\ \A c \in Registry : c \in Nat /\ Sources[c] \in Nat
<1>1. Len(Sources) \in Nat
  BY ResolverAssumption, LenProperties
<1>2. 1 \in Int /\ Len(Sources) \in Int
  BY <1>1
<1>3. IsFiniteSet(1..Len(Sources)) /\ Cardinality(1..Len(Sources)) = Len(Sources)
  BY <1>1, <1>2, FS_Interval
<1> QED
  BY <1>1, <1>3, ResolverAssumption, ElementOfSeq DEF Registry

\* Every place of the sorted list has one registry, every registry one place, and
\* the places are in the order of the priorities, then of the file.
LEMMA Places ==
  /\ \A p \in Registry : At(p) \in Registry /\ Place(At(p)) = p
  /\ \A c \in Registry : Place(c) \in Registry /\ At(Place(c)) = c
  /\ \A c, d \in Registry : Before(c, d) <=> Place(c) < Place(d)
<1> DEFINE R == {e \in Registry \X Registry : Before(e[1], e[2])}
           rank(i) == Rank(R, Registry, i)
           n == Len(Sources)
<1> HIDE DEF R, rank
<1>1. \A i, j \in Registry : <<i, j>> \in R <=> Before(i, j)
  BY DEF R
<1>2. StrictlyOrders(R, Registry)
  BY <1>1, RegistryFacts DEF Before, StrictlyOrders
<1>3. \A i \in Registry : Place(i) = rank(i) + 1
  <2> SUFFICES ASSUME NEW i \in Registry
               PROVE  Place(i) = rank(i) + 1
    OBVIOUS
  <2>1. {d \in Registry : Before(d, i)} = {j \in Registry : <<j, i>> \in R}
    BY DEF R
  <2> QED
    BY <2>1 DEF Place, rank, Rank
<1>4. /\ \A i \in Registry : rank(i) \in Nat /\ rank(i) < n
      /\ \A i, j \in Registry : <<i, j>> \in R <=> rank(i) < rank(j)
      /\ \A i, j \in Registry : rank(i) = rank(j) => i = j
      /\ \A k \in Nat : k < n => \E i \in Registry : rank(i) = k
  BY <1>2, RegistryFacts, Ranks DEF rank
<1>5. \A i \in Registry : Place(i) \in Registry
  BY <1>3, <1>4, RegistryFacts DEF Registry
<1>6. \A p \in Registry : At(p) \in Registry /\ Place(At(p)) = p
  <2> SUFFICES ASSUME NEW p \in Registry
               PROVE  \E c \in Registry : Place(c) = p
    BY DEF At
  <2>1. p - 1 \in Nat /\ p - 1 < n
    BY RegistryFacts DEF Registry
  <2>2. PICK c \in Registry : rank(c) = p - 1
    BY <1>4, <2>1
  <2> QED
    BY <1>3, <2>2, RegistryFacts DEF Registry
<1>7. \A c, d \in Registry : Place(c) = Place(d) => c = d
  <2> SUFFICES ASSUME NEW c \in Registry, NEW d \in Registry, Place(c) = Place(d)
               PROVE  rank(c) = rank(d)
    BY <1>4
  <2> QED
    BY <1>3, <1>4, RegistryFacts
<1>8. \A c \in Registry : At(Place(c)) = c
  BY <1>5, <1>6, <1>7
<1>9. \A c, d \in Registry : Before(c, d) <=> Place(c) < Place(d)
  <2> SUFFICES ASSUME NEW c \in Registry, NEW d \in Registry
               PROVE  Before(c, d) <=> Place(c) < Place(d)
    OBVIOUS
  <2>1. rank(c) \in Nat /\ rank(d) \in Nat /\ Place(c) = rank(c) + 1 /\ Place(d) = rank(d) + 1
    BY <1>3, <1>4
  <2>2. Place(c) < Place(d) <=> rank(c) < rank(d)
    BY <2>1
  <2> QED
    BY <1>1, <1>4, <2>2
<1> QED
  BY <1>5, <1>6, <1>8, <1>9

-----------------------------------------------------------------------------
(* The answers joined, then merged *)

FullReplies == [Registry -> Answers]

Part(answers, p) ==
  LET c == At(p) IN IF answers[c] = Error THEN <<>> ELSE Instances(c, answers[c])

LEMMA InstancesFacts ==
  ASSUME NEW c \in Registry, NEW answer \in Listings
  PROVE  /\ answer \in Seq(Addresses) /\ Len(answer) \in Nat
         /\ Instances(c, answer) \in Seq(Instance)
         /\ Len(Instances(c, answer)) = Len(answer)
         /\ \A k \in 1..Len(answer) :
              answer[k] \in Addresses /\ Instances(c, answer)[k] = [addr |-> answer[k], from |-> c]
<1>1. answer \in Seq(Addresses)
  BY ResolverAssumption
<1>2. Len(answer) \in Nat /\ \A k \in 1..Len(answer) : answer[k] \in Addresses
  BY <1>1, LenProperties, ElementOfSeq
<1>3. \A k \in 1..Len(answer) : [addr |-> answer[k], from |-> c] \in Instance
  BY <1>2 DEF Instance
<1>4. Instances(c, answer) \in [1..Len(answer) -> Instance]
  BY <1>3 DEF Instances
<1>5. Instances(c, answer) \in Seq(Instance)
  BY <1>2, <1>4, IsASeq
<1>6. DOMAIN Instances(c, answer) = 1..Len(answer)
  BY DEF Instances
<1>7. Len(Instances(c, answer)) = Len(answer)
  BY <1>2, <1>5, <1>6, LenProperties
<1> QED
  BY <1>1, <1>2, <1>5, <1>7 DEF Instances

\* What a registry contributes: an instance for each address it lists.
LEMMA PartFacts ==
  ASSUME NEW answers \in FullReplies, NEW p \in Registry
  PROVE  /\ Part(answers, p) \in Seq(Instance)
         /\ \A x : Occurs(x, Part(answers, p)) <=>
              /\ x \in Instance /\ x.from = At(p)
              /\ answers[At(p)] # Error /\ x.addr \in Entries(answers[At(p)])
<1> DEFINE c == At(p)
<1>1. c \in Registry
  BY Places
<1>2. answers[c] \in Answers
  BY <1>1 DEF FullReplies
<1> HIDE DEF c
<1>3. CASE answers[c] = Error
  <2>1. Part(answers, p) = <<>>
    BY <1>3 DEF Part, c
  <2>2. <<>> \in Seq(Instance) /\ \A x : ~Occurs(x, <<>>)
    BY EmptySeq DEF Occurs
  <2> QED
    BY <1>3, <2>1, <2>2 DEF c
<1>4. CASE answers[c] # Error
  <2>1. answers[c] \in Listings /\ Part(answers, p) = Instances(c, answers[c])
    BY <1>2, <1>4 DEF Answers, Part, c
  <2> DEFINE s == Instances(c, answers[c])
             n == Len(answers[c])
  <2>2. /\ s \in Seq(Instance) /\ Len(s) = n
        /\ \A k \in 1..n : answers[c][k] \in Addresses
                           /\ s[k] = [addr |-> answers[c][k], from |-> c]
    BY <1>1, <2>1, InstancesFacts
  <2> HIDE DEF s, n
  <2>3. ASSUME NEW x, Occurs(x, s)
        PROVE  x \in Instance /\ x.from = c /\ x.addr \in Entries(answers[c])
    <3>1. PICK k \in 1..n : s[k] = x
      BY <2>2, <2>3 DEF Occurs
    <3>2. x = [addr |-> answers[c][k], from |-> c] /\ answers[c][k] \in Addresses
      BY <2>2, <3>1
    <3> QED
      BY <1>1, <3>1, <3>2 DEF Instance, Entries, n
  <2>4. ASSUME NEW x \in Instance, x.from = c, x.addr \in Entries(answers[c])
        PROVE  Occurs(x, s)
    <3>1. PICK k \in 1..n : answers[c][k] = x.addr
      BY <2>4 DEF Entries, n
    <3>2. x = [addr |-> x.addr, from |-> x.from]
      BY DEF Instance
    <3> QED
      BY <2>2, <2>4, <3>1, <3>2 DEF Occurs
  <2> QED
    BY <1>4, <2>1, <2>2, <2>3, <2>4 DEF c, s
<1> QED
  BY <1>3, <1>4

\* The joined list has an instance for each address a registry listed, those of a
\* registry that goes before another before those of that other.
LEMMA CollectedFacts ==
  ASSUME NEW answers \in FullReplies
  PROVE  LET coll == Collected(answers)
         IN /\ coll \in Seq(Instance)
            /\ \A x : Occurs(x, coll) <=>
                 x \in Instance /\ answers[x.from] # Error /\ x.addr \in Entries(answers[x.from])
            /\ \A j, k \in 1..Len(coll) : j < k => ~Before(coll[k].from, coll[j].from)
<1> DEFINE seqs == [p \in Registry |-> Part(answers, p)]
           coll == Collected(answers)
           n == Len(Sources)
<1>1. seqs \in Seq(Seq(Instance)) /\ Len(seqs) = n
  <2>1. seqs \in [1..n -> Seq(Instance)]
    BY PartFacts DEF Registry
  <2>2. n \in Nat
    BY RegistryFacts
  <2> HIDE DEF seqs
  <2>3. seqs \in Seq(Seq(Instance))
    BY <2>1, <2>2, IsASeq
  <2> QED
    BY <2>1, <2>2, <2>3, LenProperties
<1>2. coll = FlattenSeq(seqs)
  BY DEF Collected, Part
<1>3. \A p \in 1..n : seqs[p] = Part(answers, p)
  BY DEF Registry
<1> HIDE DEF seqs, coll
<1>4. IsFlat(coll, Instance, seqs, n)
  BY <1>1, <1>2, FlattenProperties
<1>5. coll \in Seq(Instance)
  BY <1>4 DEF IsFlat
<1>6. ASSUME NEW x
      PROVE  Occurs(x, coll) <=>
               x \in Instance /\ answers[x.from] # Error /\ x.addr \in Entries(answers[x.from])
  <2>1. ASSUME Occurs(x, coll)
        PROVE  x \in Instance /\ answers[x.from] # Error /\ x.addr \in Entries(answers[x.from])
    <3>1. PICK p \in 1..n : Occurs(x, seqs[p])
      BY <1>4, <2>1 DEF IsFlat
    <3> QED
      BY <1>3, <3>1, PartFacts DEF Registry
  <2>2. ASSUME x \in Instance, answers[x.from] # Error, x.addr \in Entries(answers[x.from])
        PROVE  Occurs(x, coll)
    <3>1. x.from \in Registry
      BY <2>2 DEF Instance
    <3>2. Place(x.from) \in 1..n /\ At(Place(x.from)) = x.from
      BY <3>1, Places DEF Registry
    <3>3. Occurs(x, seqs[Place(x.from)])
      BY <1>3, <2>2, <3>2, PartFacts DEF Registry
    <3> QED
      BY <1>4, <3>2, <3>3 DEF IsFlat
  <2> QED
    BY <2>1, <2>2
<1>7. ASSUME NEW j \in 1..Len(coll), NEW k \in 1..Len(coll), j < k
      PROVE  ~Before(coll[k].from, coll[j].from)
  <2>1. PICK p, q \in 1..n : p <= q /\ Occurs(coll[j], seqs[p]) /\ Occurs(coll[k], seqs[q])
    BY <1>4, <1>7 DEF IsFlat, Ordered
  <2>2. coll[j].from = At(p) /\ coll[k].from = At(q) /\ p \in Registry /\ q \in Registry
    BY <1>3, <2>1, PartFacts DEF Registry
  <2>3. ~(q < p)
    BY <2>1, RegistryFacts
  <2>4. /\ At(p) \in Registry /\ Place(At(p)) = p
        /\ At(q) \in Registry /\ Place(At(q)) = q
    BY <2>2, Places
  <2>5. ~Before(At(q), At(p))
    BY <2>3, <2>4, Places
  <2> QED
    BY <2>2, <2>5
<1> QED
  BY <1>5, <1>6, <1>7 DEF coll

\* No address is in the list twice, and the entries are the first ones of their
\* address among the first n of coll.
FirstOf(x, coll, n) ==
  \E k \in 1..n : coll[k] = x /\ \A j \in 1..n : j < k => coll[j].addr # x.addr

IsMerged(m, coll, n) ==
  /\ m \in Seq(Instance)
  /\ \A x : Occurs(x, m) <=> FirstOf(x, coll, n)
  /\ \A j, k \in 1..Len(m) : j # k => m[j].addr # m[k].addr

\* AddNew keeps the first entry of an address, whatever the next one is.
LEMMA AddNewMerges ==
  ASSUME NEW coll \in Seq(Instance), NEW n \in Nat, n + 1 \in 1..Len(coll),
         NEW m, IsMerged(m, coll, n)
  PROVE  IsMerged(AddNew(m, coll[n + 1]), coll, n + 1)
<1> DEFINE y == coll[n + 1]
           new == AddNew(m, y)
<1>1. m \in Seq(Instance) /\ Len(m) \in Nat /\ y \in Instance /\ Len(coll) \in Nat
  BY ElementOfSeq, LenProperties DEF IsMerged
<1>2. \A k \in 1..n : k \in 1..Len(coll) /\ coll[k] \in Instance
  BY <1>1, ElementOfSeq
<1>3. \A j \in 1..(n + 1) : j < n + 1 <=> j \in 1..n
  OBVIOUS
<1> HIDE DEF y, new
<1>4. CASE \E k \in 1..Len(m) : m[k].addr = y.addr
  <2>1. new = m
    BY <1>4 DEF AddNew, new
  <2>2. PICK i \in 1..n : coll[i].addr = y.addr
    <3>1. PICK k \in 1..Len(m) : m[k].addr = y.addr
      BY <1>4
    <3>2. FirstOf(m[k], coll, n)
      BY <3>1 DEF IsMerged, Occurs
    <3> QED
      BY <3>1, <3>2 DEF FirstOf
  <2>3. ASSUME NEW x, FirstOf(x, coll, n)
        PROVE  FirstOf(x, coll, n + 1)
    <3>1. PICK k \in 1..n : coll[k] = x /\ \A j \in 1..n : j < k => coll[j].addr # x.addr
      BY <2>3 DEF FirstOf
    <3>2. k \in 1..(n + 1) /\ \A j \in 1..(n + 1) : j < k => j \in 1..n
      BY <1>3
    <3> QED
      BY <3>1, <3>2 DEF FirstOf
  <2>4. ASSUME NEW x, FirstOf(x, coll, n + 1)
        PROVE  FirstOf(x, coll, n)
    <3>1. PICK k \in 1..(n + 1) :
            coll[k] = x /\ \A j \in 1..(n + 1) : j < k => coll[j].addr # x.addr
      BY <2>4 DEF FirstOf
    <3>2. k # n + 1
      BY <2>2, <3>1 DEF y
    <3>3. k \in 1..n /\ \A j \in 1..n : j \in 1..(n + 1)
      BY <3>2
    <3> QED
      BY <3>1, <3>3 DEF FirstOf
  <2> QED
    BY <2>1, <2>3, <2>4 DEF IsMerged, new, y
<1>5. CASE ~\E k \in 1..Len(m) : m[k].addr = y.addr
  <2>1. new = Append(m, y)
    BY <1>5 DEF AddNew, new
  <2>2. /\ new \in Seq(Instance) /\ Len(new) = Len(m) + 1
        /\ \A k \in 1..Len(m) : new[k] = m[k]
        /\ new[Len(m) + 1] = y
    BY <1>1, <2>1, AppendProperties
  <2>3. \A j \in 1..n : coll[j].addr # y.addr
    <3> DEFINE same == {j \in 1..n : coll[j].addr = y.addr}
    <3> SUFFICES ASSUME NEW h \in same
                 PROVE  FALSE
      OBVIOUS
    <3>1. PICK j \in Nat : j \in same /\ \A i \in Nat : i < j => i \notin same
      <4>1. h \in Nat
        OBVIOUS
      <4> HIDE DEF same
      <4> QED
        BY <4>1, LeastNatural
    <3>2. j \in 1..n /\ coll[j].addr = y.addr /\ \A i \in 1..n : i < j => coll[i].addr # y.addr
      BY <3>1
    <3>3. FirstOf(coll[j], coll, n)
      BY <3>2 DEF FirstOf
    <3>4. Occurs(coll[j], m)
      BY <3>3 DEF IsMerged
    <3> QED
      BY <1>5, <3>2, <3>4 DEF Occurs
  <2>4. \A x : Occurs(x, new) <=> Occurs(x, m) \/ x = y
    <3>1. ASSUME NEW x, Occurs(x, new)
          PROVE  Occurs(x, m) \/ x = y
      <4>1. PICK k \in 1..Len(new) : new[k] = x
        BY <3>1 DEF Occurs
      <4>2. k \in 1..Len(m) \/ k = Len(m) + 1
        BY <1>1, <2>2
      <4> QED
        BY <2>2, <4>1, <4>2 DEF Occurs
    <3>2. ASSUME NEW x, Occurs(x, m) \/ x = y
          PROVE  Occurs(x, new)
      <4>1. 1..Len(m) \subseteq 1..Len(new) /\ Len(m) + 1 \in 1..Len(new)
        BY <1>1, <2>2
      <4> QED
        BY <2>2, <3>2, <4>1 DEF Occurs
    <3> QED
      BY <3>1, <3>2
  <2>5. ASSUME NEW x, FirstOf(x, coll, n) \/ x = y
        PROVE  FirstOf(x, coll, n + 1)
    <3>1. CASE x = y
      <4>1. n + 1 \in 1..(n + 1) /\ \A j \in 1..(n + 1) : j < n + 1 => coll[j].addr # y.addr
        BY <1>3, <2>3
      <4> QED
        BY <3>1, <4>1 DEF FirstOf, y
    <3>2. CASE FirstOf(x, coll, n)
      <4>1. PICK k \in 1..n : coll[k] = x /\ \A j \in 1..n : j < k => coll[j].addr # x.addr
        BY <3>2 DEF FirstOf
      <4>2. k \in 1..(n + 1) /\ \A j \in 1..(n + 1) : j < k => j \in 1..n
        BY <1>3
      <4> QED
        BY <4>1, <4>2 DEF FirstOf
    <3> QED
      BY <2>5, <3>1, <3>2
  <2>6. ASSUME NEW x, FirstOf(x, coll, n + 1)
        PROVE  FirstOf(x, coll, n) \/ x = y
    <3>1. PICK k \in 1..(n + 1) :
            coll[k] = x /\ \A j \in 1..(n + 1) : j < k => coll[j].addr # x.addr
      BY <2>6 DEF FirstOf
    <3>2. CASE k = n + 1
      BY <3>1, <3>2 DEF y
    <3>3. CASE k # n + 1
      <4>1. k \in 1..n /\ \A j \in 1..n : j \in 1..(n + 1)
        BY <3>3
      <4> QED
        BY <3>1, <4>1 DEF FirstOf
    <3> QED
      BY <3>2, <3>3
  <2>7. \A j, k \in 1..Len(new) : j # k => new[j].addr # new[k].addr
    <3>1. \A k \in 1..Len(new) : k \in 1..Len(m) \/ k = Len(m) + 1
      BY <1>1, <2>2
    <3> QED
      BY <1>5, <2>2, <3>1 DEF IsMerged
  <2>8. \A x : Occurs(x, m) <=> FirstOf(x, coll, n)
    BY DEF IsMerged
  <2>9. \A x : Occurs(x, new) <=> FirstOf(x, coll, n + 1)
    BY <2>4, <2>5, <2>6, <2>8
  <2> QED
    BY <2>2, <2>7, <2>9 DEF IsMerged, new, y
<1> QED
  BY <1>4, <1>5

\* What resolve_merge returns for any list of joined instances: the fold of AddNew.
LEMMA FoldMerges ==
  ASSUME NEW coll \in Seq(Instance)
  PROVE  IsMerged(FoldLeft(AddNew, <<>>, coll), coll, Len(coll))
<1> DEFINE n == Len(coll)
           Lists == Seq(Instance)
           Eq(g) == g = [s \in SUBSET (DOMAIN coll) |->
                           IF s = {} THEN <<>> ELSE AddNew(g[s \ {Max(s)}], coll[Max(s)])]
           iter == CHOOSE g : Eq(g)
           step == [p \in (1..n) \X Lists |-> AddNew(p[2], coll[p[1]])]
<1>1. n \in Nat /\ DOMAIN coll = 1..n /\ \A k \in 1..n : coll[k] \in Instance
  BY LenProperties, ElementOfSeq
<1>2. FoldLeft(AddNew, <<>>, coll) = iter[DOMAIN coll]
  BY DEF FoldLeft, MapThenFoldSet
<1>3. \A x \in 1..n, t \in Lists :
        step[<<x, t>>] = AddNew(t, coll[x]) /\ step[<<x, t>>] \in Lists
  <2>1. \A x \in 1..n, t \in Lists : AddNew(t, coll[x]) \in Lists
    BY <1>1, AppendProperties DEF AddNew
  <2> QED
    BY <2>1
<1> HIDE DEF step, Lists, iter
<1>4. HasLeftFold(Lists, n, <<>>, step)
  <2>1. <<>> \in Lists
    BY EmptySeq DEF Lists
  <2> QED
    BY <1>1, <1>3, <2>1, LeftRecursion DEF LeftFoldable
<1>5. PICK f \in [0..n -> Lists], h \in [SUBSET (1..n) -> Lists] :
        /\ FoldsLeft(f, n, <<>>, step)
        /\ SolvesLeft(h, n, <<>>, step)
        /\ \A g : SolvesLeftIn(g, Lists, n, <<>>, step) => g[1..n] = f[n]
  BY <1>4 DEF HasLeftFold
<1>6. \A s \in SUBSET (1..n) : s # {} => Max(s) \in 1..n
  BY <1>1, GreatestOfInterval
<1>7. Eq(h)
  <2>1. ASSUME NEW s \in SUBSET (1..n)
        PROVE  h[s] = IF s = {} THEN <<>> ELSE AddNew(h[s \ {Max(s)}], coll[Max(s)])
    <3>1. h[s \ {Max(s)}] \in Lists
      OBVIOUS
    <3> QED
      BY <1>3, <1>5, <1>6, <3>1 DEF SolvesLeft
  <2> QED
    BY <1>1, <2>1
<1>8. Eq(iter)
  <2> HIDE DEF Eq
  <2> QED
    BY <1>7 DEF iter
<1>9. SolvesLeftIn(iter, Lists, n, <<>>, step)
  <2>1. \A s \in SUBSET (1..n) :
          iter[s] = IF s = {} THEN <<>> ELSE AddNew(iter[s \ {Max(s)}], coll[Max(s)])
    BY <1>1, <1>8
  <2> QED
    BY <1>3, <1>6, <2>1 DEF SolvesLeftIn
<1>10. iter[1..n] = f[n]
  BY <1>5, <1>9
<1> DEFINE Good == {k \in Nat : k \in 0..n => IsMerged(f[k], coll, k)}
<1>11. 0 \in Good
  <2>1. f[0] = <<>>
    BY <1>5 DEF FoldsLeft
  <2>2. IsMerged(<<>>, coll, 0)
    BY EmptySeq DEF IsMerged, Occurs, FirstOf
  <2> QED
    BY <2>1, <2>2
<1>12. ASSUME NEW k \in Nat, k \in Good
       PROVE  k + 1 \in Good
  <2> SUFFICES ASSUME k + 1 \in 0..n
               PROVE  IsMerged(f[k + 1], coll, k + 1)
    OBVIOUS
  <2>1. k \in 0..n /\ k + 1 \in 1..n /\ (k + 1) - 1 = k
    BY <1>1
  <2>2. IsMerged(f[k], coll, k) /\ f[k] \in Lists
    BY <1>12, <2>1
  <2>3. f[k + 1] = step[<<k + 1, f[k]>>]
    BY <1>5, <2>1 DEF FoldsLeft
  <2>4. f[k + 1] = AddNew(f[k], coll[k + 1])
    BY <1>3, <2>1, <2>2, <2>3
  <2> QED
    BY <2>1, <2>2, <2>4, AddNewMerges
<1>13. Nat \subseteq Good
  <2> HIDE DEF Good
  <2> QED
    BY <1>11, <1>12, SetInduction
<1>14. IsMerged(f[n], coll, n)
  BY <1>1, <1>13
<1> QED
  BY <1>1, <1>2, <1>10, <1>14

LEMMA MergedFacts ==
  ASSUME NEW answers \in FullReplies
  PROVE  IsMerged(Merged(answers), Collected(answers), Len(Collected(answers)))
BY CollectedFacts, FoldMerges DEF Merged

\* An address that some registry lists is in the merged list, and an entry of the
\* merged list is from a registry that lists its address.
LEMMA MergedCovers ==
  ASSUME NEW answers \in FullReplies
  PROVE  /\ Merged(answers) \in Seq(Instance)
         /\ \A c \in Registry, a \in Addresses :
              answers[c] # Error /\ a \in Entries(answers[c]) =>
                \E x \in Entries(Merged(answers)) : x.addr = a
         /\ \A x \in Entries(Merged(answers)) :
              x \in Instance /\ answers[x.from] # Error /\ x.addr \in Entries(answers[x.from])
<1> DEFINE coll == Collected(answers)
           m == Merged(answers)
           n == Len(coll)
<1>1. /\ coll \in Seq(Instance) /\ n \in Nat
      /\ \A x : Occurs(x, coll) <=>
           x \in Instance /\ answers[x.from] # Error /\ x.addr \in Entries(answers[x.from])
  BY CollectedFacts, LenProperties
<1>2. IsMerged(m, coll, n)
  BY MergedFacts
<1> HIDE DEF coll, m
<1>3. ASSUME NEW c \in Registry, NEW a \in Addresses,
             answers[c] # Error, a \in Entries(answers[c])
      PROVE  \E x \in Entries(m) : x.addr = a
  <2> DEFINE same == {k \in 1..n : coll[k].addr = a}
             x == [addr |-> a, from |-> c]
  <2>1. x \in Instance /\ x.addr = a /\ x.from = c
    BY DEF Instance
  <2>2. Occurs(x, coll)
    BY <1>1, <1>3, <2>1
  <2>3. PICK h \in 1..n : coll[h] = x
    BY <2>2 DEF Occurs
  <2>4. PICK k \in Nat : k \in same /\ \A j \in Nat : j < k => j \notin same
    <3>1. h \in Nat /\ h \in same
      BY <2>1, <2>3
    <3> HIDE DEF same
    <3> QED
      BY <3>1, LeastNatural
  <2>5. k \in 1..n /\ coll[k].addr = a /\ \A j \in 1..n : j < k => coll[j].addr # a
    BY <2>4
  <2>6. FirstOf(coll[k], coll, n)
    BY <2>5 DEF FirstOf
  <2>7. Occurs(coll[k], m)
    BY <1>2, <2>6 DEF IsMerged
  <2> QED
    BY <2>5, <2>7 DEF Entries, Occurs
<1>4. ASSUME NEW x \in Entries(m)
      PROVE  x \in Instance /\ answers[x.from] # Error /\ x.addr \in Entries(answers[x.from])
  <2>1. FirstOf(x, coll, n)
    BY <1>2, <1>4 DEF Entries, Occurs, IsMerged
  <2>2. Occurs(x, coll)
    BY <2>1 DEF FirstOf, Occurs
  <2> QED
    BY <1>1, <2>2
<1> QED
  BY <1>2, <1>3, <1>4 DEF IsMerged, m

\* Each address is in the merged list once, from the first of its registries.
LEMMA MergedPrefers ==
  ASSUME NEW answers \in FullReplies, NEW k \in 1..Len(Merged(answers))
  PROVE  LET x == Merged(answers)[k]
         IN /\ \A j \in 1..Len(Merged(answers)) : j # k => Merged(answers)[j].addr # x.addr
            /\ \A d \in Registry : Before(d, x.from) =>
                 ~(answers[d] # Error /\ x.addr \in Entries(answers[d]))
<1> DEFINE coll == Collected(answers)
           m == Merged(answers)
           n == Len(coll)
           x == m[k]
<1>1. /\ coll \in Seq(Instance) /\ n \in Nat
      /\ \A y : Occurs(y, coll) <=>
           y \in Instance /\ answers[y.from] # Error /\ y.addr \in Entries(answers[y.from])
      /\ \A i, j \in 1..n : i < j => ~Before(coll[j].from, coll[i].from)
  BY CollectedFacts, LenProperties
<1>2. IsMerged(m, coll, n) /\ k \in 1..Len(m)
  BY MergedFacts
<1> HIDE DEF coll, m
<1>3. FirstOf(x, coll, n)
  BY <1>2 DEF Occurs, IsMerged
<1>4. PICK i \in 1..n : coll[i] = x /\ \A j \in 1..n : j < i => coll[j].addr # x.addr
  BY <1>3 DEF FirstOf
<1>5. x \in Instance
  BY <1>1, <1>4, ElementOfSeq
<1>6. ASSUME NEW d \in Registry, Before(d, x.from),
             answers[d] # Error, x.addr \in Entries(answers[d])
      PROVE  FALSE
  <2> DEFINE y == [addr |-> x.addr, from |-> d]
  <2>1. y \in Instance /\ y.addr = x.addr /\ y.from = d
    BY <1>5 DEF Instance
  <2>2. Occurs(y, coll)
    BY <1>1, <1>6, <2>1
  <2> HIDE DEF y
  <2>3. PICK j \in 1..n : coll[j] = y
    BY <2>2 DEF Occurs
  <2>4. ~(j < i)
    BY <1>4, <2>1, <2>3
  <2>5. j # i
    BY <1>4, <1>6, <2>1, <2>3, RegistryFacts DEF Before
  <2>6. i < j
    BY <1>1, <2>4, <2>5
  <2> QED
    BY <1>1, <1>4, <1>6, <2>1, <2>3, <2>6
<1>7. \A j \in 1..Len(m) : j # k => m[j].addr # x.addr
  BY <1>2 DEF IsMerged
<1> QED
  BY <1>6, <1>7 DEF m

-----------------------------------------------------------------------------
(* A call *)

EmptyOnce(c) == \E answer \in moments[c] : ~HasInstances(answer)

ResolverTypes ==
  /\ query_mode \in {"Priority", "Merge"}
  /\ holds \in [Registry -> Answers]
  /\ stage \in {"idle", "asking", "ok", "failed"}
  /\ next \in Nat
  /\ replies \in [Registry -> Answers \cup {None}]
  /\ result \in Seq(Instance)
  /\ moments \in [Registry -> SUBSET Answers]

\* An answer was held at some moment of the call.
RepliesHeld == \A c \in Registry : replies[c] # None => replies[c] \in moments[c]

\* The moments go on to now, and the loop has passed registries without instances only.
WhileAsking ==
  stage = "asking" =>
    /\ next \in Registry
    /\ \A c \in Registry : holds[c] \in moments[c]
    /\ query_mode = "Priority" => \A p \in Registry : p < next => EmptyOnce(At(p))

OneRegistry ==
  query_mode = "Priority" /\ stage = "ok" =>
    \E c \in Registry :
      /\ \A inst \in Entries(result) : inst.from = c
      /\ \A d \in Registry : Before(d, c) => EmptyOnce(d)

AllReplied ==
  query_mode = "Merge" /\ stage = "ok" => replies \in FullReplies /\ result = Merged(replies)

AllEmptyOnce == stage = "failed" => \A c \in Registry : EmptyOnce(c)

ResolverInv ==
  /\ ResolverTypes /\ RepliesHeld /\ WhileAsking
  /\ OneRegistry /\ AllReplied /\ AllEmptyOnce

LEMMA ResolverInitInv == ResolverInit => ResolverInv
<1> SUFFICES ASSUME ResolverInit
             PROVE  ResolverInv
  OBVIOUS
<1>1. ResolverTypes
  BY EmptySeq DEF ResolverInit, ResolverTypes
<1>2. RepliesHeld
  BY DEF ResolverInit, RepliesHeld
<1> QED
  BY <1>1, <1>2
     DEF ResolverInit, ResolverInv, WhileAsking, OneRegistry, AllReplied, AllEmptyOnce

LEMMA StartKeeps ==
  ASSUME ResolverInv, Start
  PROVE  ResolverInv'
<1>1. ResolverTypes'
  BY EmptySeq DEF ResolverInv, ResolverTypes, Start, Failed
<1>2. RepliesHeld' /\ OneRegistry' /\ AllReplied'
  BY DEF RepliesHeld, OneRegistry, AllReplied, Start, Failed
<1>3. stage' = "asking" => next' \in Registry
  BY RegistryFacts, ResolverAssumption, EmptySeq DEF Start, Failed, Registry
<1>4. WhileAsking'
  <2>1. \A p \in Registry : ~(p < 1)
    BY RegistryFacts DEF Registry
  <2> QED
    BY <1>3, <2>1 DEF WhileAsking, Start, ResolverInv, ResolverTypes
<1>5. AllEmptyOnce'
  <2>1. Sources = <<>> => Registry = {}
    BY EmptySeq DEF Registry
  <2> QED
    BY <2>1 DEF AllEmptyOnce, Start
<1> QED
  BY <1>1, <1>2, <1>4, <1>5 DEF ResolverInv

\* The loop of resolve_priority at one registry.
LEMMA AskNextKeeps ==
  ASSUME ResolverInv, AskNext
  PROVE  ResolverInv'
<1> DEFINE c == At(next)
<1>1. /\ next \in Registry /\ c \in Registry /\ Place(c) = next
      /\ holds[c] \in Answers /\ holds[c] \in moments[c]
      /\ \A p \in Registry : p < next => EmptyOnce(At(p))
  BY Places DEF AskNext, ResolverInv, ResolverTypes, WhileAsking
<1>2. /\ replies' = [replies EXCEPT ![c] = holds[c]]
      /\ UNCHANGED <<query_mode, holds, moments>> /\ query_mode = "Priority"
      /\ stage = "asking"
  BY DEF AskNext
<1> HIDE DEF c
<1>3. replies' \in [Registry -> Answers \cup {None}] /\ RepliesHeld'
  BY <1>1, <1>2 DEF ResolverInv, ResolverTypes, RepliesHeld
<1>4. AllReplied'
  BY <1>2 DEF AllReplied
<1>5. CASE HasInstances(holds[c])
  <2>1. stage' = "ok" /\ result' = Instances(c, holds[c]) /\ next' = next
    BY <1>5 DEF AskNext, Ok, c
  <2>2. holds[c] \in Listings
    BY <1>1, <1>5 DEF HasInstances, Answers
  <2>3. /\ result' \in Seq(Instance)
        /\ \A inst \in Entries(result') : inst.from = c
    <3> DEFINE s == Instances(c, holds[c])
    <3> HIDE DEF s
    <3>1. /\ s \in Seq(Instance) /\ Len(s) = Len(holds[c])
          /\ \A k \in 1..Len(s) : s[k] = [addr |-> holds[c][k], from |-> c]
      BY <1>1, <2>2, InstancesFacts DEF s
    <3>2. ASSUME NEW k \in 1..Len(s)
          PROVE  s[k].from = c
      <4>1. s[k] = [addr |-> holds[c][k], from |-> c]
        BY <3>1
      <4> QED
        BY <4>1
    <3>3. \A inst \in Entries(s) : inst.from = c
      BY <3>2 DEF Entries
    <3> QED
      BY <2>1, <3>1, <3>3 DEF s
  <2>4. \A d \in Registry : Before(d, c) => EmptyOnce(d)
    <3> SUFFICES ASSUME NEW d \in Registry, Before(d, c)
                 PROVE  EmptyOnce(d)
      OBVIOUS
    <3>1. Place(d) \in Registry /\ At(Place(d)) = d /\ Place(d) < next
      BY <1>1, Places
    <3> QED
      BY <1>1, <3>1
  <2>5. OneRegistry'
    BY <1>1, <1>2, <2>3, <2>4 DEF OneRegistry, EmptyOnce
  <2>6. ResolverTypes'
    BY <1>2, <1>3, <2>1, <2>3 DEF ResolverInv, ResolverTypes
  <2> QED
    BY <1>3, <1>4, <2>1, <2>5, <2>6 DEF ResolverInv, WhileAsking, AllEmptyOnce
<1>6. CASE ~HasInstances(holds[c])
  <2>1. /\ next' = next + 1
        /\ IF next = Len(Sources) THEN Failed ELSE UNCHANGED <<stage, result>>
    BY <1>6 DEF AskNext, c
  <2>2. EmptyOnce(c)
    BY <1>1, <1>6 DEF EmptyOnce
  <2>3. \A p \in Registry : p < next + 1 => EmptyOnce(At(p))
    <3>1. \A p \in Registry : p < next + 1 => p < next \/ p = next
      BY <1>1, RegistryFacts DEF Registry
    <3> QED
      BY <1>1, <2>2, <3>1 DEF c
  <2>4. stage' # "ok" /\ ResolverTypes'
    <3>1. stage' \in {"asking", "failed"} /\ result' \in Seq(Instance)
      BY <1>2, <2>1, EmptySeq DEF ResolverInv, ResolverTypes, Failed
    <3>2. next' \in Nat
      BY <2>1 DEF ResolverInv, ResolverTypes
    <3> QED
      BY <1>2, <1>3, <3>1, <3>2 DEF ResolverInv, ResolverTypes
  <2>5. WhileAsking'
    <3>1. stage' = "asking" => next + 1 \in Registry
      BY <1>1, <2>1, RegistryFacts DEF Registry, Failed
    <3>2. \A d \in Registry : holds[d] \in moments[d]
      BY <1>2 DEF ResolverInv, WhileAsking
    <3>3. \A p \in Registry : p < next' => EmptyOnce(At(p))'
      BY <1>2, <2>1, <2>3, Places DEF EmptyOnce
    <3> QED
      BY <1>2, <2>1, <3>1, <3>2, <3>3 DEF WhileAsking
  <2>6. AllEmptyOnce'
    <3> SUFFICES ASSUME stage' = "failed", NEW d \in Registry
                 PROVE  EmptyOnce(d)'
      BY DEF AllEmptyOnce
    <3>1. next = Len(Sources)
      BY <1>2, <2>1
    <3>2. Place(d) \in Registry /\ At(Place(d)) = d /\ Place(d) < next + 1
      BY <3>1, Places, RegistryFacts DEF Registry
    <3> QED
      BY <1>2, <2>3, <3>2 DEF EmptyOnce
  <2> QED
    BY <1>3, <1>4, <2>4, <2>5, <2>6 DEF ResolverInv, OneRegistry
<1> QED
  BY <1>5, <1>6

\* Nothing merged is nothing listed.
LEMMA NothingMerged ==
  ASSUME NEW answers \in FullReplies, Merged(answers) = <<>>, NEW c \in Registry
  PROVE  ~HasInstances(answers[c])
<1> SUFFICES ASSUME HasInstances(answers[c])
             PROVE  FALSE
  OBVIOUS
<1>1. answers[c] \in Listings /\ answers[c] # Error
  BY DEF HasInstances, FullReplies, Answers
<1>2. answers[c] \in Seq(Addresses) /\ answers[c] # <<>>
  BY <1>1, ResolverAssumption DEF HasInstances
<1>3. 1 \in 1..Len(answers[c])
  BY <1>2, EmptySeq, LenProperties
<1>4. answers[c][1] \in Addresses /\ answers[c][1] \in Entries(answers[c])
  BY <1>2, <1>3, ElementOfSeq DEF Entries
<1>5. \E x \in Entries(<<>>) : x.addr = answers[c][1]
  BY <1>1, <1>4, MergedCovers
<1> QED
  BY <1>5 DEF Entries

\* The answer of one registry to resolve_merge.
LEMMA ReplyKeeps ==
  ASSUME ResolverInv, NEW c \in Registry, Reply(c)
  PROVE  ResolverInv'
<1>1. /\ stage = "asking" /\ query_mode = "Merge"
      /\ replies' = [replies EXCEPT ![c] = holds[c]]
      /\ UNCHANGED <<query_mode, holds, next, moments>>
  BY DEF Reply
<1>2. holds[c] \in Answers /\ holds[c] \in moments[c]
  BY <1>1 DEF ResolverInv, ResolverTypes, WhileAsking
<1>3. replies' \in [Registry -> Answers \cup {None}] /\ RepliesHeld'
  BY <1>1, <1>2 DEF ResolverInv, ResolverTypes, RepliesHeld
<1>4. WhileAsking' /\ OneRegistry'
  BY <1>1 DEF ResolverInv, WhileAsking, OneRegistry, EmptyOnce
<1>5. CASE \E d \in Registry : replies'[d] = None
  <2>1. UNCHANGED <<stage, result>>
    BY <1>5 DEF Reply
  <2> QED
    BY <1>1, <1>3, <1>4, <2>1
    DEF ResolverInv, ResolverTypes, AllReplied, AllEmptyOnce, EmptyOnce
<1>6. CASE ~\E d \in Registry : replies'[d] = None
  <2>1. replies' \in FullReplies
    BY <1>3, <1>6 DEF FullReplies
  <2>2. IF Merged(replies') = <<>> THEN Failed ELSE Ok(Merged(replies'))
    BY <1>6 DEF Reply
  <2>3. Merged(replies') \in Seq(Instance)
    BY <2>1, MergedCovers
  <2>4. ResolverTypes'
    BY <1>1, <1>3, <2>2, <2>3, EmptySeq DEF ResolverInv, ResolverTypes, Failed, Ok
  <2>5. AllReplied'
    BY <2>1, <2>2 DEF AllReplied, Failed, Ok
  <2>6. AllEmptyOnce'
    <3> SUFFICES ASSUME stage' = "failed", NEW d \in Registry
                 PROVE  EmptyOnce(d)'
      BY DEF AllEmptyOnce
    <3>1. Merged(replies') = <<>>
      BY <2>2 DEF Ok
    <3>2. ~HasInstances(replies'[d])
      BY <2>1, <3>1, NothingMerged
    <3>3. replies'[d] \in moments'[d]
      BY <1>3, <1>6 DEF RepliesHeld
    <3> QED
      BY <3>2, <3>3 DEF EmptyOnce
  <2> QED
    BY <1>3, <1>4, <2>4, <2>5, <2>6 DEF ResolverInv
<1> QED
  BY <1>5, <1>6

LEMMA LeaveKeeps ==
  ASSUME ResolverInv, Leave
  PROVE  ResolverInv'
BY EmptySeq DEF Leave, ResolverInv, ResolverTypes, RepliesHeld, WhileAsking,
   OneRegistry, AllReplied, AllEmptyOnce

\* A registry changes: the moments of a call only grow.
LEMMA ChangeKeeps ==
  ASSUME ResolverInv, NEW c \in Registry, NEW answer \in Answers, Change(c, answer)
  PROVE  ResolverInv'
<1>1. /\ holds' = [holds EXCEPT ![c] = answer]
      /\ UNCHANGED <<query_mode, stage, next, replies, result>>
      /\ moments' = IF stage = "asking" THEN [moments EXCEPT ![c] = @ \cup {answer}] ELSE moments
  BY DEF Change
<1>2. moments \in [Registry -> SUBSET Answers] /\ holds \in [Registry -> Answers]
  BY DEF ResolverInv, ResolverTypes
<1>3. /\ moments' \in [Registry -> SUBSET Answers]
      /\ \A d \in Registry : moments[d] \subseteq moments'[d]
      /\ stage = "asking" => answer \in moments'[c]
  BY <1>1, <1>2
<1>4. \A d \in Registry : EmptyOnce(d) => EmptyOnce(d)'
  BY <1>3 DEF EmptyOnce
<1>5. ResolverTypes'
  BY <1>1, <1>2, <1>3 DEF ResolverInv, ResolverTypes
<1>6. RepliesHeld'
  BY <1>1, <1>3 DEF ResolverInv, RepliesHeld
<1>7. WhileAsking'
  <2> SUFFICES ASSUME stage = "asking"
               PROVE  /\ next \in Registry
                      /\ \A d \in Registry : holds'[d] \in moments'[d]
                      /\ query_mode = "Priority" =>
                           \A p \in Registry : p < next => EmptyOnce(At(p))'
    BY <1>1 DEF WhileAsking
  <2>1. \A d \in Registry : holds'[d] \in moments'[d]
    BY <1>1, <1>2, <1>3 DEF ResolverInv, WhileAsking
  <2> QED
    BY <1>4, <2>1, Places DEF ResolverInv, WhileAsking
<1>8. OneRegistry'
  BY <1>1, <1>4 DEF ResolverInv, OneRegistry
<1>9. AllReplied' /\ AllEmptyOnce'
  BY <1>1, <1>4 DEF ResolverInv, AllReplied, AllEmptyOnce
<1> QED
  BY <1>5, <1>6, <1>7, <1>8, <1>9 DEF ResolverInv

LEMMA ResolverInvHolds == ResolverSpec => []ResolverInv
<1>1. ResolverInv /\ [ResolverNext]_resolverVars => ResolverInv'
  <2> SUFFICES ASSUME ResolverInv, [ResolverNext]_resolverVars
               PROVE  ResolverInv'
    OBVIOUS
  <2>1. CASE Start
    BY <2>1, StartKeeps
  <2>2. CASE AskNext
    BY <2>2, AskNextKeeps
  <2>3. ASSUME NEW c \in Registry, Reply(c)
        PROVE  ResolverInv'
    BY <2>3, ReplyKeeps
  <2>4. CASE Leave
    BY <2>4, LeaveKeeps
  <2>5. ASSUME NEW c \in Registry, NEW answer \in Answers, Change(c, answer)
        PROVE  ResolverInv'
    BY <2>5, ChangeKeeps
  <2>6. CASE UNCHANGED resolverVars
    BY <2>6 DEF resolverVars, ResolverInv, ResolverTypes, RepliesHeld, WhileAsking,
       OneRegistry, AllReplied, AllEmptyOnce, EmptyOnce
  <2> QED
    BY <2>1, <2>2, <2>3, <2>4, <2>5, <2>6 DEF ResolverNext, Resolve
<1> QED
  BY <1>1, ResolverInitInv, PTL DEF ResolverSpec

-----------------------------------------------------------------------------
(* What a caller can rely on *)

\* However the registries change between two questions of resolve_priority, the
\* instances are one registry's, and each that goes before it had none at some moment.
THEOREM PriorityOrderHonoured == ResolverSpec => []PriorityHonoured
<1>1. ResolverInv => PriorityHonoured
  <2> SUFFICES ASSUME ResolverInv, query_mode = "Priority", stage = "ok",
                      NEW inst \in Entries(result), NEW d \in Registry
               PROVE  /\ inst.from = result[1].from
                      /\ Before(d, inst.from) => \E answer \in moments[d] : ~HasInstances(answer)
    BY DEF PriorityHonoured
  <2>1. PICK c \in Registry : /\ \A x \in Entries(result) : x.from = c
                              /\ \A e \in Registry : Before(e, c) => EmptyOnce(e)
    BY DEF ResolverInv, OneRegistry
  <2>2. result[1] \in Entries(result)
    <3>1. Len(result) \in Nat
      BY LenProperties DEF ResolverInv, ResolverTypes
    <3>2. PICK k \in 1..Len(result) : inst = result[k]
      BY DEF Entries
    <3>3. 1 \in 1..Len(result)
      BY <3>1, <3>2
    <3> QED
      BY <3>3 DEF Entries
  <2> QED
    BY <2>1, <2>2 DEF EmptyOnce
<1> QED
  BY <1>1, ResolverInvHolds, PTL

\* In either mode a call fails only if every registry was without instances at some
\* moment of it, or there is no registry.
THEOREM FailsOnlyWhenEmpty == ResolverSpec => []FailsOnlyIfAllEmpty
<1>1. ResolverInv => FailsOnlyIfAllEmpty
  BY DEF ResolverInv, AllEmptyOnce, EmptyOnce, FailsOnlyIfAllEmpty
<1> QED
  BY <1>1, ResolverInvHolds, PTL

\* The fold of resolve_merge loses no address and invents none, for lists of any
\* length and answers in any order.
THEOREM MergeComplete == ResolverSpec => []MergeKeepsAll
<1>1. ResolverInv => MergeKeepsAll
  <2> SUFFICES ASSUME ResolverInv, query_mode = "Merge", stage = "ok"
               PROVE  /\ \A c \in Registry, a \in Addresses :
                           HeldThroughout(c, a) => \E inst \in Entries(result) : inst.addr = a
                      /\ \A inst \in Entries(result) :
                           \E answer \in moments[inst.from] :
                             answer # Error /\ inst.addr \in Entries(answer)
    BY DEF MergeKeepsAll
  <2>1. replies \in FullReplies /\ result = Merged(replies)
    BY DEF ResolverInv, AllReplied
  <2>2. \A c \in Registry : replies[c] \in moments[c]
    BY <2>1, ResolverAssumption DEF ResolverInv, RepliesHeld, FullReplies, Answers
  <2>3. ASSUME NEW c \in Registry, NEW a \in Addresses, HeldThroughout(c, a)
        PROVE  \E inst \in Entries(result) : inst.addr = a
    BY <2>1, <2>2, <2>3, MergedCovers DEF HeldThroughout
  <2>4. ASSUME NEW inst \in Entries(result)
        PROVE  \E answer \in moments[inst.from] :
                 answer # Error /\ inst.addr \in Entries(answer)
    <3>1. inst \in Instance /\ replies[inst.from] # Error
          /\ inst.addr \in Entries(replies[inst.from])
      BY <2>1, MergedCovers
    <3>2. inst.from \in Registry
      BY <3>1 DEF Instance
    <3> QED
      BY <2>2, <3>1, <3>2
  <2> QED
    BY <2>3, <2>4
<1> QED
  BY <1>1, ResolverInvHolds, PTL

\* An address is in a merged list once, as the first registry that lists it has it.
THEOREM MergeFirstWins == ResolverSpec => []FirstEntryWins
<1>1. ResolverInv => FirstEntryWins
  <2> SUFFICES ASSUME ResolverInv, query_mode = "Merge", stage = "ok",
                      NEW k \in 1..Len(result)
               PROVE  /\ \A j \in 1..(k - 1) : result[j].addr # result[k].addr
                      /\ \A d \in Registry : Before(d, result[k].from) =>
                           ~HeldThroughout(d, result[k].addr)
    BY DEF FirstEntryWins
  <2>1. replies \in FullReplies /\ result = Merged(replies)
    BY DEF ResolverInv, AllReplied
  <2>2. \A c \in Registry : replies[c] \in moments[c]
    BY <2>1, ResolverAssumption DEF ResolverInv, RepliesHeld, FullReplies, Answers
  <2>3. /\ \A j \in 1..Len(result) : j # k => result[j].addr # result[k].addr
        /\ \A d \in Registry : Before(d, result[k].from) =>
             ~(replies[d] # Error /\ result[k].addr \in Entries(replies[d]))
    BY <2>1, MergedPrefers
  <2>4. \A j \in 1..(k - 1) : j \in 1..Len(result) /\ j # k
    BY LenProperties DEF ResolverInv, ResolverTypes
  <2> QED
    BY <2>2, <2>3, <2>4 DEF HeldThroughout
<1> QED
  BY <1>1, ResolverInvHolds, PTL
=============================================================================
