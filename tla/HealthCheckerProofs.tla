------------------------- MODULE HealthCheckerProofs -------------------------
(***************************************************************************)
(* Proofs about HealthChecker and about the requests that select by its    *)
(* marks, for every set of services, instances, listings, routes and       *)
(* requests, every pair of thresholds and every weight.                    *)
(***************************************************************************)
EXTENDS HealthAwareSelection, DataLemmas

LEMMA RunsAreNat ==
  /\ FailRun \in Nat \ {0} /\ OkRun \in Nat \ {0} /\ WindowLength \in Nat \ {0}
  /\ FailRun <= WindowLength /\ OkRun <= WindowLength
  /\ unhealthy_threshold <= FailRun /\ healthy_threshold <= OkRun
  /\ FailRun = IF unhealthy_threshold = 0 THEN 1 ELSE unhealthy_threshold
  /\ OkRun = IF healthy_threshold = 0 THEN 1 ELSE healthy_threshold
BY HealthAssumption DEF FailRun, OkRun, WindowLength, MaxOf

\* What a window that has slid on ends with.
LEMMA SlideProperties ==
  ASSUME NEW seq \in Seq(BOOLEAN), Len(seq) <= WindowLength, NEW value \in BOOLEAN
  PROVE  LET w == Slide(seq, value)
         IN /\ w \in Seq(BOOLEAN)
            /\ Len(w) <= WindowLength
            /\ \A n \in 1..WindowLength, ok \in BOOLEAN :
                 EndsWith(w, n, ok) <=> value = ok /\ EndsWith(seq, n - 1, ok)
<1> DEFINE w == Slide(seq, value)
           base == IF Len(seq) < WindowLength THEN seq ELSE Tail(seq)
           d == IF Len(seq) < WindowLength THEN 0 ELSE 1
<1>0. WindowLength \in Nat \ {0} /\ Len(seq) \in Nat
  BY RunsAreNat, LenProperties
<1>1. /\ base \in Seq(BOOLEAN)
      /\ Len(base) = Len(seq) - d
      /\ \A k \in 1..Len(base) : base[k] = seq[k + d]
  <2>1. CASE Len(seq) < WindowLength
    BY <1>0, <2>1
  <2>2. CASE Len(seq) = WindowLength
    <3>1. seq # << >>
      BY <1>0, <2>2
    <3>2. /\ Tail(seq) \in Seq(BOOLEAN)
          /\ Len(Tail(seq)) = Len(seq) - 1
          /\ \A k \in 1..Len(Tail(seq)) : Tail(seq)[k] = seq[k + 1]
      BY <3>1, HeadTailProperties
    <3>3. base = Tail(seq) /\ d = 1
      BY <1>0, <2>2
    <3> HIDE DEF base, d
    <3> QED BY <3>2, <3>3
  <2> QED BY <1>0, <2>1, <2>2
<1>2. w = Append(base, value)
  BY DEF Slide
<1> HIDE DEF w, base
<1>3. /\ w \in Seq(BOOLEAN)
      /\ Len(w) = Len(base) + 1
      /\ w[Len(w)] = value
      /\ \A k \in 1..Len(base) : w[k] = base[k]
  BY <1>1, <1>2, AppendProperties
<1>4. Len(w) <= WindowLength /\ Len(base) \in Nat
  BY <1>0, <1>1, <1>3, LenProperties
<1>5. ASSUME NEW n \in 1..WindowLength, NEW ok \in BOOLEAN, EndsWith(w, n, ok)
      PROVE  value = ok /\ EndsWith(seq, n - 1, ok)
  <2>1. /\ Len(w) >= n
        /\ \A k \in (Len(w) - n + 1)..Len(w) : w[k] = ok
    BY <1>5 DEF EndsWith
  <2>2. value = ok
    BY <1>0, <1>3, <1>4, <2>1
  <2>3. Len(seq) >= n - 1
    BY <1>0, <1>1, <1>3, <2>1
  <2>4. ASSUME NEW k \in (Len(seq) - (n - 1) + 1)..Len(seq)
        PROVE  seq[k] = ok
    <3>1. /\ k - d \in 1..Len(base)
          /\ k - d \in (Len(w) - n + 1)..Len(w)
          /\ (k - d) + d = k
      BY <1>0, <1>1, <1>3, <2>1, <2>3
    <3> QED BY <1>1, <1>3, <2>1, <3>1
  <2> QED BY <2>2, <2>3, <2>4 DEF EndsWith
<1>6. ASSUME NEW n \in 1..WindowLength, NEW ok \in BOOLEAN,
             value = ok, EndsWith(seq, n - 1, ok)
      PROVE  EndsWith(w, n, ok)
  <2>1. /\ Len(seq) >= n - 1
        /\ \A k \in (Len(seq) - (n - 1) + 1)..Len(seq) : seq[k] = ok
    BY <1>6 DEF EndsWith
  <2>2. Len(w) >= n
    BY <1>0, <1>1, <1>3, <2>1
  <2>3. ASSUME NEW k \in (Len(w) - n + 1)..Len(w)
        PROVE  w[k] = ok
    <3>1. CASE k = Len(w)
      BY <1>3, <1>6, <3>1
    <3>2. CASE k # Len(w)
      <4>1. /\ k \in 1..Len(base)
            /\ k + d \in (Len(seq) - (n - 1) + 1)..Len(seq)
        BY <1>0, <1>1, <1>3, <1>4, <2>2, <3>2
      <4> QED BY <1>1, <1>3, <2>1, <4>1
    <3> QED BY <3>1, <3>2
  <2> QED BY <2>2, <2>3 DEF EndsWith
<1> QED BY <1>3, <1>4, <1>5, <1>6 DEF w

\* A run contains its shorter runs.
LEMMA ShorterRun ==
  ASSUME NEW seq \in Seq(BOOLEAN), NEW n \in Nat, NEW m \in 0..n, NEW ok \in BOOLEAN,
         EndsWith(seq, n, ok)
  PROVE  EndsWith(seq, m, ok)
BY LenProperties DEF EndsWith

LEMMA EmptyRun ==
  ASSUME NEW seq \in Seq(BOOLEAN), NEW ok \in BOOLEAN
  PROVE  EndsWith(seq, 0, ok)
BY LenProperties DEF EndsWith

-----------------------------------------------------------------------------
(* A counter and the window of outcomes it stands for. *)

\* count is the length of the run of v that seq ends with, up to threshold.
CountsRun(seq, count, threshold, v) ==
  /\ EndsWith(seq, count, v)
  /\ \A n \in 1..MaxOf(threshold, 1) :
       EndsWith(seq, n, v) => count >= MinOf(n, threshold)

\* One more v: the counter grows, and reaches the threshold exactly when the
\* run does.
LEMMA RunGrows ==
  ASSUME NEW seq \in Seq(BOOLEAN), Len(seq) <= WindowLength, NEW v \in BOOLEAN,
         NEW threshold \in Nat, MaxOf(threshold, 1) <= WindowLength,
         NEW count \in 0..threshold, CountsRun(seq, count, threshold, v)
  PROVE  /\ CountsRun(Slide(seq, v), MinOf(count + 1, threshold), threshold, v)
         /\ count + 1 >= threshold
              <=> EndsWith(Slide(seq, v), MaxOf(threshold, 1), v)
<1> DEFINE w == Slide(seq, v)
<1>0. WindowLength \in Nat \ {0}
  BY RunsAreNat
<1>1. /\ w \in Seq(BOOLEAN)
      /\ \A n \in 1..WindowLength : EndsWith(w, n, v) <=> EndsWith(seq, n - 1, v)
  BY SlideProperties
<1>2. /\ EndsWith(seq, count, v)
      /\ \A n \in 1..MaxOf(threshold, 1) :
           EndsWith(seq, n, v) => count >= MinOf(n, threshold)
  BY DEF CountsRun
<1>3. \A m \in 0..count : EndsWith(seq, m, v)
  BY <1>2, ShorterRun
<1> HIDE DEF w
<1>4. EndsWith(w, MinOf(count + 1, threshold), v)
  <2>1. CASE threshold = 0
    BY <1>1, <2>1, EmptyRun DEF MinOf
  <2>2. CASE threshold # 0
    <3>1. /\ MinOf(count + 1, threshold) \in 1..WindowLength
          /\ MinOf(count + 1, threshold) - 1 \in 0..count
      BY <1>0, <2>2 DEF MinOf, MaxOf
    <3> QED BY <1>1, <1>3, <3>1
  <2> QED BY <2>1, <2>2
<1>5. ASSUME NEW n \in 1..MaxOf(threshold, 1), EndsWith(w, n, v)
      PROVE  MinOf(count + 1, threshold) >= MinOf(n, threshold)
  <2>1. EndsWith(seq, n - 1, v)
    BY <1>0, <1>1, <1>5 DEF MaxOf
  <2>2. n = 1 \/ n - 1 \in 1..MaxOf(threshold, 1)
    BY DEF MaxOf
  <2>3. n = 1 \/ count >= MinOf(n - 1, threshold)
    BY <1>2, <2>1, <2>2
  <2> QED BY <2>2, <2>3 DEF MinOf, MaxOf
<1>6. ASSUME count + 1 >= threshold
      PROVE  EndsWith(w, MaxOf(threshold, 1), v)
  <2>1. MaxOf(threshold, 1) \in 1..WindowLength /\ MaxOf(threshold, 1) - 1 \in 0..count
    BY <1>0, <1>6 DEF MaxOf
  <2> QED BY <1>1, <1>3, <2>1
<1>7. ASSUME EndsWith(w, MaxOf(threshold, 1), v)
      PROVE  count + 1 >= threshold
  <2>1. MaxOf(threshold, 1) \in 1..WindowLength
    BY <1>0 DEF MaxOf
  <2>2. EndsWith(seq, MaxOf(threshold, 1) - 1, v)
    BY <1>1, <1>7, <2>1
  <2>3. CASE threshold <= 1
    BY <2>3
  <2>4. CASE threshold > 1
    <3>1. threshold - 1 \in 1..MaxOf(threshold, 1) /\ MaxOf(threshold, 1) = threshold
      BY <2>4 DEF MaxOf
    <3>2. count >= MinOf(threshold - 1, threshold)
      BY <1>2, <2>2, <3>1
    <3> QED BY <3>2 DEF MinOf
  <2> QED BY <2>3, <2>4
<1> QED BY <1>4, <1>5, <1>6, <1>7 DEF CountsRun, w

\* The opposite outcome: the counter starts again from 0.
LEMMA RunBreaks ==
  ASSUME NEW seq \in Seq(BOOLEAN), Len(seq) <= WindowLength,
         NEW v \in BOOLEAN, NEW u \in BOOLEAN, u # v,
         NEW threshold \in Nat, MaxOf(threshold, 1) <= WindowLength
  PROVE  /\ CountsRun(Slide(seq, u), 0, threshold, v)
         /\ ~EndsWith(Slide(seq, u), MaxOf(threshold, 1), v)
<1>1. /\ Slide(seq, u) \in Seq(BOOLEAN)
      /\ \A n \in 1..WindowLength : ~EndsWith(Slide(seq, u), n, v)
  BY SlideProperties
<1>2. 1..MaxOf(threshold, 1) \subseteq 1..WindowLength /\ MaxOf(threshold, 1) \in 1..WindowLength
  BY RunsAreNat DEF MaxOf
<1> QED BY <1>1, <1>2, EmptyRun DEF CountsRun

-----------------------------------------------------------------------------
(* The inductive invariant. *)

\* seen_keys and the probes of this round are the same instances.
RoundInv == \A i \in Instances : probed[i] = IF i \in seen_keys THEN 1 ELSE 0

\* Each counter stands for the run of its outcome.
CountersInv ==
  \A i \in Instances :
    /\ Len(outcomes[i]) <= WindowLength
    /\ CountsRun(outcomes[i], fail_counts[i], unhealthy_threshold, FALSE)
    /\ CountsRun(outcomes[i], ok_counts[i], healthy_threshold, TRUE)

HealthInv == HealthTypeOK /\ RoundInv /\ CountersInv /\ MarksFollowProbes

LEMMA InitInv == HealthInit => HealthInv
<1> SUFFICES ASSUME HealthInit PROVE HealthInv
  OBVIOUS
<1> USE HealthAssumption DEF HealthInit
<1>1. HealthTypeOK
  BY EmptySeq DEF HealthTypeOK
<1>2. RoundInv
  BY DEF RoundInv
<1>3. ASSUME NEW i \in Instances, NEW v \in BOOLEAN
      PROVE  /\ Len(outcomes[i]) = 0
             /\ EndsWith(outcomes[i], 0, v)
             /\ \A n \in Nat \ {0} : ~EndsWith(outcomes[i], n, v)
  BY EmptySeq DEF EndsWith
<1>4. CountersInv
  <2>1. ASSUME NEW i \in Instances, NEW v \in BOOLEAN, NEW threshold \in Nat
        PROVE  CountsRun(outcomes[i], 0, threshold, v)
    BY <1>3 DEF CountsRun, MaxOf
  <2>2. ASSUME NEW i \in Instances
        PROVE  /\ Len(outcomes[i]) <= WindowLength
               /\ CountsRun(outcomes[i], fail_counts[i], unhealthy_threshold, FALSE)
               /\ CountsRun(outcomes[i], ok_counts[i], healthy_threshold, TRUE)
    <3>1. fail_counts[i] = 0 /\ ok_counts[i] = 0
      OBVIOUS
    <3>2. Len(outcomes[i]) <= WindowLength
      BY <1>3, RunsAreNat
    <3> QED BY <2>1, <3>1, <3>2
  <2> QED BY <2>2 DEF CountersInv
<1>5. MarksFollowProbes
  BY <1>3, RunsAreNat DEF MarksFollowProbes, LastAll
<1> QED BY <1>1, <1>2, <1>4, <1>5 DEF HealthInv

\* What one recorded probe does to the counters and the marks.
LEMMA RecordStep ==
  ASSUME HealthInv, NEW j \in Instances, record_success(j) \/ record_failure(j)
  PROVE  /\ CountersInv' /\ MarksFollowProbes'
         /\ unhealthy' \subseteq Instances
         /\ fail_counts' \in [Instances -> 0..unhealthy_threshold]
         /\ ok_counts' \in [Instances -> 0..healthy_threshold]
         /\ outcomes' \in [Instances -> Seq(BOOLEAN)]
         /\ \A i \in Instances :
              /\ i \in unhealthy' \ unhealthy => LastAll(i, FailRun, FALSE)'
              /\ i \in unhealthy \ unhealthy' => LastAll(i, OkRun, TRUE)'
<1> DEFINE seq == outcomes[j]
<1>1. /\ unhealthy \subseteq Instances
      /\ fail_counts \in [Instances -> 0..unhealthy_threshold]
      /\ ok_counts \in [Instances -> 0..healthy_threshold]
      /\ outcomes \in [Instances -> Seq(BOOLEAN)]
  BY DEF HealthInv, HealthTypeOK
<1>2. /\ unhealthy_threshold \in Nat /\ healthy_threshold \in Nat
      /\ FailRun = MaxOf(unhealthy_threshold, 1) /\ OkRun = MaxOf(healthy_threshold, 1)
      /\ FailRun <= WindowLength /\ OkRun <= WindowLength
  BY HealthAssumption, RunsAreNat DEF FailRun, OkRun
<1>3. /\ seq \in Seq(BOOLEAN) /\ Len(seq) <= WindowLength
      /\ CountsRun(seq, fail_counts[j], unhealthy_threshold, FALSE)
      /\ CountsRun(seq, ok_counts[j], healthy_threshold, TRUE)
  BY <1>1 DEF HealthInv, CountersInv
<1>4. \A v \in BOOLEAN : /\ Slide(seq, v) \in Seq(BOOLEAN)
                         /\ Len(Slide(seq, v)) <= WindowLength
  BY <1>3, SlideProperties
\* The other instances are left alone.
<1>5. ASSUME NEW i \in Instances, i # j
      PROVE  /\ outcomes'[i] = outcomes[i]
             /\ fail_counts'[i] = fail_counts[i]
             /\ ok_counts'[i] = ok_counts[i]
             /\ i \in unhealthy' <=> i \in unhealthy
  <2>1. CASE record_success(j)
    BY <1>1, <1>5, <2>1 DEF record_success, Remember
  <2>2. CASE record_failure(j)
    BY <1>1, <1>5, <2>2 DEF record_failure, Remember
  <2> QED BY <2>1, <2>2
<1>6. ASSUME NEW i \in Instances, i # j
      PROVE  /\ Len(outcomes'[i]) <= WindowLength
             /\ CountsRun(outcomes'[i], fail_counts'[i], unhealthy_threshold, FALSE)
             /\ CountsRun(outcomes'[i], ok_counts'[i], healthy_threshold, TRUE)
             /\ EndsWith(outcomes'[i], FailRun, FALSE) => i \in unhealthy'
             /\ EndsWith(outcomes'[i], OkRun, TRUE) => i \notin unhealthy'
  BY <1>5, <1>6 DEF HealthInv, CountersInv, MarksFollowProbes, LastAll
<1> HIDE DEF seq
\* The marks that the step moves are those of j.
<1>7. ASSUME CountsRun(outcomes'[j], fail_counts'[j], unhealthy_threshold, FALSE),
             CountsRun(outcomes'[j], ok_counts'[j], healthy_threshold, TRUE),
             Len(outcomes'[j]) <= WindowLength,
             EndsWith(outcomes'[j], FailRun, FALSE) => j \in unhealthy',
             EndsWith(outcomes'[j], OkRun, TRUE) => j \notin unhealthy',
             j \in unhealthy' \ unhealthy => EndsWith(outcomes'[j], FailRun, FALSE),
             j \in unhealthy \ unhealthy' => EndsWith(outcomes'[j], OkRun, TRUE)
      PROVE  /\ CountersInv' /\ MarksFollowProbes'
             /\ \A i \in Instances :
                  /\ i \in unhealthy' \ unhealthy => LastAll(i, FailRun, FALSE)'
                  /\ i \in unhealthy \ unhealthy' => LastAll(i, OkRun, TRUE)'
  <2>1. CountersInv'
    BY <1>6, <1>7 DEF CountersInv
  <2>2. MarksFollowProbes'
    BY <1>6, <1>7 DEF MarksFollowProbes, LastAll
  <2>3. ASSUME NEW i \in Instances
        PROVE  /\ i \in unhealthy' \ unhealthy => LastAll(i, FailRun, FALSE)'
               /\ i \in unhealthy \ unhealthy' => LastAll(i, OkRun, TRUE)'
    BY <1>5, <1>7 DEF LastAll
  <2> QED BY <2>1, <2>2, <2>3
<1>8. CASE record_failure(j)
  <2>1. /\ outcomes' = [outcomes EXCEPT ![j] = Slide(seq, FALSE)]
        /\ fail_counts' = [fail_counts EXCEPT ![j] =
                             MinOf(fail_counts[j] + 1, unhealthy_threshold)]
        /\ ok_counts' = [ok_counts EXCEPT ![j] = 0]
        /\ unhealthy' = IF fail_counts[j] + 1 >= unhealthy_threshold
                        THEN unhealthy \cup {j} ELSE unhealthy
    BY <1>8 DEF record_failure, Remember, seq
  <2>2. /\ outcomes'[j] = Slide(seq, FALSE)
        /\ fail_counts'[j] = MinOf(fail_counts[j] + 1, unhealthy_threshold)
        /\ ok_counts'[j] = 0
    BY <1>1, <2>1
  <2>3. /\ CountsRun(outcomes'[j], fail_counts'[j], unhealthy_threshold, FALSE)
        /\ fail_counts[j] + 1 >= unhealthy_threshold
             <=> EndsWith(outcomes'[j], FailRun, FALSE)
    BY <1>1, <1>2, <1>3, <2>2, RunGrows
  <2>4. /\ CountsRun(outcomes'[j], ok_counts'[j], healthy_threshold, TRUE)
        /\ ~EndsWith(outcomes'[j], OkRun, TRUE)
    BY <1>2, <1>3, <2>2, RunBreaks
  <2>5. Len(outcomes'[j]) <= WindowLength
    BY <1>4, <2>2
  <2>6. /\ EndsWith(outcomes'[j], FailRun, FALSE) => j \in unhealthy'
        /\ j \in unhealthy' \ unhealthy => EndsWith(outcomes'[j], FailRun, FALSE)
        /\ ~(j \in unhealthy \ unhealthy')
    BY <2>1, <2>3
  <2>7. /\ unhealthy' \subseteq Instances
        /\ fail_counts' \in [Instances -> 0..unhealthy_threshold]
        /\ ok_counts' \in [Instances -> 0..healthy_threshold]
    BY <1>1, <1>2, <2>1 DEF MinOf
  <2>8. outcomes' \in [Instances -> Seq(BOOLEAN)]
    BY <1>1, <1>4, <2>1
  <2> QED BY <1>7, <2>3, <2>4, <2>5, <2>6, <2>7, <2>8
<1>9. CASE record_success(j)
  <2>1. /\ outcomes' = [outcomes EXCEPT ![j] = Slide(seq, TRUE)]
        /\ ok_counts' = [ok_counts EXCEPT ![j] =
                           MinOf(ok_counts[j] + 1, healthy_threshold)]
        /\ fail_counts' = [fail_counts EXCEPT ![j] = 0]
        /\ unhealthy' = IF ok_counts[j] + 1 >= healthy_threshold
                        THEN unhealthy \ {j} ELSE unhealthy
    BY <1>9 DEF record_success, Remember, seq
  <2>2. /\ outcomes'[j] = Slide(seq, TRUE)
        /\ ok_counts'[j] = MinOf(ok_counts[j] + 1, healthy_threshold)
        /\ fail_counts'[j] = 0
    BY <1>1, <2>1
  <2>3. /\ CountsRun(outcomes'[j], ok_counts'[j], healthy_threshold, TRUE)
        /\ ok_counts[j] + 1 >= healthy_threshold
             <=> EndsWith(outcomes'[j], OkRun, TRUE)
    BY <1>1, <1>2, <1>3, <2>2, RunGrows
  <2>4. /\ CountsRun(outcomes'[j], fail_counts'[j], unhealthy_threshold, FALSE)
        /\ ~EndsWith(outcomes'[j], FailRun, FALSE)
    BY <1>2, <1>3, <2>2, RunBreaks
  <2>5. Len(outcomes'[j]) <= WindowLength
    BY <1>4, <2>2
  <2>6. /\ EndsWith(outcomes'[j], OkRun, TRUE) => j \notin unhealthy'
        /\ j \in unhealthy \ unhealthy' => EndsWith(outcomes'[j], OkRun, TRUE)
        /\ ~(j \in unhealthy' \ unhealthy)
    BY <2>1, <2>3
  <2>7. /\ unhealthy' \subseteq Instances
        /\ fail_counts' \in [Instances -> 0..unhealthy_threshold]
        /\ ok_counts' \in [Instances -> 0..healthy_threshold]
    BY <1>1, <1>2, <2>1 DEF MinOf
  <2>8. outcomes' \in [Instances -> Seq(BOOLEAN)]
    BY <1>1, <1>4, <2>1
  <2> QED BY <1>7, <2>3, <2>4, <2>5, <2>6, <2>7, <2>8
<1> QED BY <1>8, <1>9

LEMMA NextInv == HealthInv /\ [HealthNext]_healthVars => HealthInv'
<1> SUFFICES ASSUME HealthInv, [HealthNext]_healthVars PROVE HealthInv'
  OBVIOUS
<1> USE HealthAssumption
<1>1. /\ up \in [Instances -> BOOLEAN]
      /\ listing \in [Services -> Listings]
      /\ routes \in RouteChoices /\ routes \in Seq(Services)
      /\ todoRoutes \in Seq(Services)
      /\ todoInsts \in Seq(Instances)
      /\ task = "probing" => todoInsts # <<>>
      /\ probed \in [Instances -> Nat]
      /\ seen_keys \subseteq Instances
  BY DEF HealthInv, HealthTypeOK
\* A step that records no probe keeps what is said of the counters.
<1>2. ASSUME UNCHANGED statusVars
      PROVE  CountersInv' /\ MarksFollowProbes'
  BY <1>2 DEF HealthInv, CountersInv, MarksFollowProbes, LastAll, statusVars
<1>3. CASE StartRound
  <2>1. HealthTypeOK'
    BY <1>1, <1>3 DEF StartRound, HealthInv, HealthTypeOK, worldVars, statusVars
  <2>2. RoundInv'
    BY <1>3 DEF StartRound, RoundInv
  <2> QED BY <1>2, <1>3, <2>1, <2>2 DEF StartRound, HealthInv
<1>4. CASE ResolveRoute
  <2>1. /\ todoRoutes' \in Seq(Services)
        /\ todoInsts' \in Seq(Instances)
        /\ task' = IF todoInsts' = <<>> THEN "resolving" ELSE "probing"
    BY <1>1, <1>4, HeadTailProperties DEF ResolveRoute
  <2>2. HealthTypeOK'
    BY <1>4, <2>1 DEF ResolveRoute, HealthInv, HealthTypeOK, worldVars, statusVars
  <2>3. RoundInv'
    BY <1>4 DEF ResolveRoute, HealthInv, RoundInv
  <2> QED BY <1>2, <1>4, <2>2, <2>3 DEF ResolveRoute, HealthInv
\* The instances that are left of a list.
<1>5. ASSUME task = "probing", AfterProbe
      PROVE  /\ Head(todoInsts) \in Instances
             /\ todoInsts' \in Seq(Instances)
             /\ task' \in {"resolving", "probing"}
             /\ task' = "probing" => todoInsts' # <<>>
             /\ UNCHANGED <<up, listing, routes, todoRoutes>>
  <2>1. /\ Head(todoInsts) \in Instances
        /\ Tail(todoInsts) \in Seq(Instances)
        /\ Len(Tail(todoInsts)) = Len(todoInsts) - 1
    BY <1>1, <1>5, HeadTailProperties
  <2>2. Len(todoInsts) # 1 => Tail(todoInsts) # <<>>
    BY <2>1, EmptySeq
  <2> QED BY <1>5, <2>1, <2>2 DEF AfterProbe, worldVars
<1>6. CASE SkipSeen
  <2>1. HealthTypeOK'
    BY <1>5, <1>6 DEF SkipSeen, HealthInv, HealthTypeOK, statusVars
  <2>2. RoundInv'
    BY <1>6 DEF SkipSeen, HealthInv, RoundInv
  <2> QED BY <1>2, <1>6, <2>1, <2>2 DEF SkipSeen, HealthInv
<1>7. CASE Probe
  <2> DEFINE j == Head(todoInsts)
  <2>1. /\ j \in Instances /\ j \notin seen_keys
        /\ seen_keys' = seen_keys \cup {j}
        /\ probed' = [probed EXCEPT ![j] = @ + 1]
        /\ record_success(j) \/ record_failure(j)
    BY <1>5, <1>7 DEF Probe
  <2>2. /\ CountersInv' /\ MarksFollowProbes'
        /\ unhealthy' \subseteq Instances
        /\ fail_counts' \in [Instances -> 0..unhealthy_threshold]
        /\ ok_counts' \in [Instances -> 0..healthy_threshold]
        /\ outcomes' \in [Instances -> Seq(BOOLEAN)]
    BY <2>1, RecordStep
  <2>3. /\ probed' \in [Instances -> Nat]
        /\ seen_keys' \subseteq Instances
        /\ RoundInv'
    <3> HIDE DEF j
    <3> QED BY <1>1, <2>1 DEF HealthInv, RoundInv
  <2>4. HealthTypeOK'
    BY <1>5, <1>7, <2>2, <2>3 DEF Probe, HealthInv, HealthTypeOK
  <2> QED BY <2>2, <2>3, <2>4 DEF HealthInv
<1>8. CASE EndRound
  <2>1. HealthTypeOK'
    BY <1>8 DEF EndRound, HealthInv, HealthTypeOK, worldVars, statusVars
  <2>2. RoundInv'
    BY <1>8 DEF EndRound, HealthInv, RoundInv
  <2> QED BY <1>2, <1>8, <2>1, <2>2 DEF EndRound, HealthInv
<1>9. CASE World
  <2>1. UNCHANGED taskVars /\ UNCHANGED statusVars
    BY <1>9 DEF World, ChangeInstance, ChangeListing, ReloadRoutes
  <2>2. /\ up' \in [Instances -> BOOLEAN]
        /\ listing' \in [Services -> Listings]
        /\ routes' \in RouteChoices
    BY <1>1, <1>9 DEF World, ChangeInstance, ChangeListing, ReloadRoutes
  <2>3. HealthTypeOK'
    BY <2>1, <2>2 DEF taskVars, statusVars, HealthInv, HealthTypeOK
  <2>4. RoundInv'
    BY <2>1 DEF taskVars, HealthInv, RoundInv
  <2> QED BY <1>2, <2>1, <2>3, <2>4 DEF HealthInv
<1>10. CASE UNCHANGED healthVars
  BY <1>10 DEF healthVars, HealthInv, HealthTypeOK, RoundInv, CountersInv,
               MarksFollowProbes, LastAll
<1> QED
  BY <1>3, <1>4, <1>6, <1>7, <1>8, <1>9, <1>10 DEF HealthNext, Task

LEMMA InvHolds == HealthSpec => []HealthInv
BY InitInv, NextInv, PTL DEF HealthSpec

-----------------------------------------------------------------------------
(* Results *)

\* Types; the counters of health_checker.rs stay within their thresholds,
\* and an instance is looked for only where one is left.
THEOREM HealthTypeCorrect == HealthSpec => []HealthTypeOK
<1>1. HealthInv => HealthTypeOK
  BY DEF HealthInv
<1> QED BY <1>1, InvHolds, PTL

\* seen_keys keeps an instance behind several routes from counting twice in
\* a round, for any number of routes and services that share it.
THEOREM SharedInstanceCountsOnce == HealthSpec => []ProbedOncePerRound
<1>1. HealthInv => ProbedOncePerRound
  BY DEF HealthInv, RoundInv, ProbedOncePerRound
<1> QED BY <1>1, InvHolds, PTL

\* A completed run of probes decides the mark, whatever the thresholds.
THEOREM RunsDecideMarks == HealthSpec => []MarksFollowProbes
<1>1. HealthInv => MarksFollowProbes
  BY DEF HealthInv
<1> QED BY <1>1, InvHolds, PTL

\* No step but the probe that completes a run moves a mark.
THEOREM MarksMoveOnlyOnRuns == HealthSpec => MarksMoveOnRuns
<1> DEFINE Moves == \A i \in Instances :
             /\ i \in unhealthy' \ unhealthy => LastAll(i, FailRun, FALSE)'
             /\ i \in unhealthy \ unhealthy' => LastAll(i, OkRun, TRUE)'
<1>1. ASSUME HealthInv, [HealthNext]_healthVars
      PROVE  [Moves]_healthVars
  <2>1. CASE UNCHANGED unhealthy
    BY <2>1
  <2>2. CASE Probe
    <3>1. Head(todoInsts) \in Instances
      BY <1>1, <2>2, HeadTailProperties DEF Probe, HealthInv, HealthTypeOK
    <3>2. record_success(Head(todoInsts)) \/ record_failure(Head(todoInsts))
      BY <2>2 DEF Probe
    <3> QED BY <1>1, <3>1, <3>2, RecordStep
  <2>3. HealthNext /\ ~Probe => UNCHANGED unhealthy
    BY DEF HealthNext, Task, World, StartRound, ResolveRoute, SkipSeen, EndRound,
           ChangeInstance, ChangeListing, ReloadRoutes, statusVars
  <2> QED BY <1>1, <2>1, <2>2, <2>3 DEF healthVars
<1> QED BY <1>1, InvHolds, PTL DEF HealthSpec, MarksMoveOnRuns

-----------------------------------------------------------------------------
(* Selection *)

\* A scan of l that has come to position n: h are the positions found unmarked, and st
\* what remains true since the request began, beside the marks un.
ScanFits(ph, l, h, n, st, un) ==
  /\ ph \in {"idle", "scanning"}
  /\ l \in Seq(Instances) /\ h \in Seq(Nat) /\ n \in 1..(Len(l) + 1)
  /\ st = [marked |-> st.marked, clear |-> st.clear]
  /\ ph = "idle" => h = <<>> /\ n = 1 /\ st = [marked |-> {}, clear |-> {}]
  /\ ph = "scanning" => l # <<>>
  /\ Len(h) < n
  /\ \A p \in 1..Len(h) : h[p] \in 1..(n - 1) /\ l[h[p]] \notin st.marked
  /\ \A k \in 1..(n - 1) : /\ l[k] \in st.clear => h # <<>>
                           /\ l[k] \in st.marked => Len(h) < n - 1
  /\ \A i \in st.marked : i \in un /\ \E k \in 1..Len(l) : l[k] = i
  /\ \A i \in st.clear : i \notin un /\ \E k \in 1..Len(l) : l[k] = i

\* Without a request; when it begins; and after each look at a mark.
LEMMA IdleFits ==
  ASSUME NEW un
  PROVE  ScanFits("idle", <<>>, <<>>, 1, [marked |-> {}, clear |-> {}], un)
<1>1. <<>> \in Seq(Instances) /\ <<>> \in Seq(Nat) /\ Len(<<>>) = 0 /\ 1 \in 1..(0 + 1)
      /\ \A k : k \notin 1..0 /\ k \notin 1..(1 - 1)
  OBVIOUS
<1> QED
  BY <1>1 DEF ScanFits

LEMMA BeginFits ==
  ASSUME NEW l \in Seq(Instances), l # <<>>, NEW un
  PROVE  ScanFits("scanning", l, <<>>, 1,
                  [marked |-> Entries(l) \cap un, clear |-> Entries(l) \ un], un)
<1>1. /\ <<>> \in Seq(Nat) /\ Len(<<>>) = 0 /\ Len(l) \in Nat /\ 1 \in 1..(Len(l) + 1)
      /\ \A k : k \notin 1..0 /\ k \notin 1..(1 - 1)
  BY LenProperties
<1>2. \A i \in Entries(l) : \E k \in 1..Len(l) : l[k] = i
  BY DEF Entries
<1> QED
  BY <1>1, <1>2 DEF ScanFits

LEMMA LookUpFits ==
  ASSUME NEW l, NEW h, NEW n, NEW st, NEW un, ScanFits("scanning", l, h, n, st, un), n <= Len(l)
  PROVE  ScanFits("scanning", l, IF l[n] \in un THEN h ELSE Append(h, n), n + 1, st, un)
<1> DEFINE g == IF l[n] \in un THEN h ELSE Append(h, n)
<1>1. /\ l \in Seq(Instances) /\ h \in Seq(Nat) /\ n \in Nat /\ n >= 1
      /\ Len(l) \in Nat /\ Len(h) \in Nat /\ n + 1 \in 1..(Len(l) + 1) /\ (n + 1) - 1 = n
  BY LenProperties DEF ScanFits
<1>2. CASE l[n] \in un
  <2>1. g = h /\ l[n] \notin st.clear
    BY <1>2 DEF ScanFits
  <2> HIDE DEF g
  <2>2. ASSUME NEW k \in 1..n
        PROVE  /\ l[k] \in st.clear => h # <<>>
               /\ l[k] \in st.marked => Len(h) < n
    <3>1. CASE k = n
      BY <2>1, <3>1 DEF ScanFits
    <3>2. CASE k # n
      <4>1. k \in 1..(n - 1)
        BY <1>1, <3>2
      <4> QED
        BY <1>1, <4>1 DEF ScanFits
    <3> QED
      BY <3>1, <3>2
  <2>3. \A p \in 1..Len(h) : h[p] \in 1..n /\ l[h[p]] \notin st.marked
    BY <1>1 DEF ScanFits
  <2>4. Len(h) < n + 1
    BY <1>1 DEF ScanFits
  <2> QED
    BY <1>1, <2>1, <2>2, <2>3, <2>4 DEF ScanFits, g
<1>3. CASE l[n] \notin un
  <2>1. g = Append(h, n) /\ l[n] \notin st.marked
    BY <1>3 DEF ScanFits
  <2> HIDE DEF g
  <2>2. /\ g \in Seq(Nat) /\ Len(g) = Len(h) + 1 /\ g # <<>>
        /\ \A p \in 1..Len(h) : g[p] = h[p]
        /\ g[Len(h) + 1] = n
    <3>1. /\ g \in Seq(Nat) /\ Len(g) = Len(h) + 1
          /\ \A p \in 1..Len(h) : g[p] = h[p]
          /\ g[Len(h) + 1] = n
      BY <1>1, <2>1, AppendProperties
    <3>2. g # <<>>
      BY <1>1, <3>1, EmptySeq
    <3> QED
      BY <3>1, <3>2
  <2>3. ASSUME NEW k \in 1..n, l[k] \in st.marked
        PROVE  Len(g) < n
    <3>1. k \in 1..(n - 1)
      BY <1>1, <2>1, <2>3
    <3>2. Len(h) < n - 1
      BY <2>3, <3>1 DEF ScanFits
    <3> QED
      BY <1>1, <2>2, <3>2
  <2>4. ASSUME NEW p \in 1..Len(g)
        PROVE  g[p] \in 1..n /\ l[g[p]] \notin st.marked
    <3>1. CASE p = Len(h) + 1
      BY <1>1, <2>1, <2>2, <3>1
    <3>2. CASE p # Len(h) + 1
      <4>1. p \in 1..Len(h)
        BY <1>1, <2>2, <3>2
      <4>2. h[p] \in 1..(n - 1) /\ l[h[p]] \notin st.marked
        BY <4>1 DEF ScanFits
      <4> QED
        BY <1>1, <2>2, <4>1, <4>2
    <3> QED
      BY <3>1, <3>2
  <2>5. Len(g) < n + 1
    BY <1>1, <2>2 DEF ScanFits
  <2> QED
    BY <1>1, <2>2, <2>3, <2>4, <2>5 DEF ScanFits, g
<1> QED
  BY <1>2, <1>3

\* The marks move.
LEMMA MarksFit ==
  ASSUME NEW ph, NEW l, NEW h, NEW n, NEW st, NEW un, ScanFits(ph, l, h, n, st, un), NEW un2
  PROVE  ScanFits(ph, l, h, n, [marked |-> st.marked \cap un2, clear |-> st.clear \ un2], un2)
<1> DEFINE new == [marked |-> st.marked \cap un2, clear |-> st.clear \ un2]
<1>1. new.marked = st.marked \cap un2 /\ new.clear = st.clear \ un2
      /\ new = [marked |-> new.marked, clear |-> new.clear]
  OBVIOUS
<1>2. ph = "idle" => new = [marked |-> {}, clear |-> {}]
  <2> SUFFICES ASSUME ph = "idle"
               PROVE  new = [marked |-> {}, clear |-> {}]
    OBVIOUS
  <2>1. st.marked = {} /\ st.clear = {}
    BY DEF ScanFits
  <2> QED
    BY <2>1
<1> HIDE DEF new
<1> QED
  BY <1>1, <1>2 DEF ScanFits, new

SelectionInv ==
  /\ rr \in [Services -> Nat] /\ svc \in [Requests -> Services]
  /\ mode \in [Requests -> {"first", "round_robin", "random", "weighted_round_robin"}]
  /\ phase \in [Requests -> {"idle", "scanning"}]
  /\ DOMAIN list = Requests /\ DOMAIN healthy = Requests /\ DOMAIN next = Requests
  /\ DOMAIN stayed = Requests /\ DOMAIN chosen = Requests
  /\ \A r \in Requests : ScanFits(phase[r], list[r], healthy[r], next[r], stayed[r], unhealthy)

\* At the end of a scan there are candidates, and none of them was marked all the
\* while if an entry of the list was unmarked all the while.
LEMMA CandidatesFit ==
  ASSUME NEW r \in Requests, phase[r] = "scanning", next[r] > Len(list[r]),
         ScanFits(phase[r], list[r], healthy[r], next[r], stayed[r], unhealthy)
  PROVE  /\ Len(Candidates(r)) \in Nat \ {0}
         /\ \A p \in 1..Len(Candidates(r)) :
              /\ Candidates(r)[p] \in 1..Len(list[r])
              /\ stayed[r].clear # {} =>
                   Cand(r, Candidates(r)[p]) \notin stayed[r].marked
<1> DEFINE l == list[r]
           h == healthy[r]
           st == stayed[r]
           all == [k \in 1..Len(l) |-> k]
           c == Candidates(r)
<1>1. /\ Len(l) \in Nat \ {0} /\ Len(h) \in Nat /\ next[r] = Len(l) + 1
      /\ h \in Seq(Nat) /\ (Len(h) = 0 <=> h = <<>>)
  <2>1. l \in Seq(Instances) /\ h \in Seq(Nat) /\ l # <<>> /\ next[r] \in 1..(Len(l) + 1)
    BY DEF ScanFits
  <2>2. Len(l) \in Nat /\ Len(h) \in Nat /\ Len(l) # 0 /\ (Len(h) = 0 <=> h = <<>>)
    BY <2>1, LenProperties, EmptySeq
  <2> QED
    BY <2>1, <2>2
<1>2. /\ Len(h) <= Len(l)
      /\ \A p \in 1..Len(h) : h[p] \in 1..Len(l) /\ l[h[p]] \notin st.marked
      /\ \A k \in 1..Len(l) : /\ l[k] \in st.clear => h # <<>>
                              /\ l[k] \in st.marked => Len(h) < Len(l)
      /\ \A i \in st.clear : \E k \in 1..Len(l) : l[k] = i
  <2>1. (Len(l) + 1) - 1 = Len(l) /\ (Len(h) < Len(l) + 1 => Len(h) <= Len(l))
    BY <1>1
  <2> QED
    BY <1>1, <2>1 DEF ScanFits
<1>3. c = IF h # <<>> /\ Len(h) < Len(l) THEN h ELSE all
  BY DEF Candidates
<1>4. Len(all) = Len(l) /\ \A p \in 1..Len(l) : all[p] = p
  BY <1>1
<1> HIDE DEF l, h, st, all, c
<1>5. CASE h # <<>> /\ Len(h) < Len(l)
  BY <1>1, <1>2, <1>3, <1>5 DEF l, h, st, c, Cand
<1>6. CASE ~(h # <<>> /\ Len(h) < Len(l))
  <2>1. c = all
    BY <1>3, <1>6
  <2>2. ASSUME st.clear # {}, NEW p \in 1..Len(l)
        PROVE  l[p] \notin st.marked
    <3>1. h # <<>>
      BY <1>2, <2>2
    <3> QED
      BY <1>2, <1>6, <3>1
  <2> QED
    BY <1>1, <1>4, <2>1, <2>2 DEF l, st, c, Cand
<1> QED
  BY <1>5, <1>6

\* k is the first of n places whose value exceeds c, or the last place if none does.
FirstAbove(f, n, c, k) ==
  \/ c < f[k] /\ \A j \in 1..n : c < f[j] => k <= j
  \/ k = n /\ \A j \in 1..n : ~(c < f[j])

LEMMA PickIsFirst ==
  ASSUME NEW r \in Requests, Len(Candidates(r)) \in Nat \ {0}
  PROVE  /\ PickWeighted(r) \in 1..Len(Candidates(r))
         /\ FirstAbove(Cumulative(r), Len(Candidates(r)),
                       rr[svc[r]] % Total(r), PickWeighted(r))
<1> DEFINE n == Len(Candidates(r))
           c == rr[svc[r]] % Total(r)
           f == Cumulative(r)
           pick == PickWeighted(r)
           hits == {k \in 1..n : c < f[k]}
<1>1. pick = IF hits = {} THEN n ELSE CHOOSE k \in hits : \A h \in hits : k <= h
  BY DEF PickWeighted
<1> HIDE DEF n, c, f, pick
<1>2. n \in Nat /\ n > 0
  BY DEF n
<1>3. hits \subseteq 1..n
  OBVIOUS
<1>4. CASE hits = {}
  BY <1>1, <1>2, <1>4 DEF FirstAbove, n, c, f, pick
<1>5. CASE hits # {}
  <2> HIDE DEF hits
  <2>1. PICK m \in Nat : m \in hits
    <3>1. PICK m : m \in hits
      BY <1>5
    <3>2. m \in 1..n
      BY <1>3, <3>1
    <3>3. m \in Nat
      BY <1>2, <3>2
    <3> QED
      BY <3>1, <3>3
  <2>2. \E k \in Nat : k \in hits /\ \A j \in Nat : j < k => j \notin hits
    BY <2>1, LeastNatural
  <2>3. \E k \in hits : \A h \in hits : k <= h
    BY <1>2, <1>3, <2>2
  <2>4. pick \in hits /\ \A h \in hits : pick <= h
    BY <1>1, <1>5, <2>3
  <2> QED
    BY <1>3, <2>4 DEF FirstAbove, hits, n, c, f, pick
<1> QED
  BY <1>4, <1>5

\* Every mode picks a place among the candidates.
LEMMA PlacesFit ==
  ASSUME NEW r \in Requests, SelectionInv, Len(Candidates(r)) \in Nat \ {0}
  PROVE  Places(r) \subseteq 1..Len(Candidates(r))
<1> DEFINE n == Len(Candidates(r))
<1> HIDE DEF n
<1>1. n \in Nat /\ n > 0 /\ rr[svc[r]] \in Nat
  BY DEF n, SelectionInv
<1>2. 1 \in 1..n /\ (rr[svc[r]] % n) + 1 \in 1..n
  BY <1>1
<1>3. PickWeighted(r) \in 1..n
  BY PickIsFirst DEF n
<1>4. mode[r] \in {"first", "round_robin", "random", "weighted_round_robin"}
  BY DEF SelectionInv
<1>5. /\ mode[r] = "first" => Places(r) = {1}
      /\ mode[r] = "random" => Places(r) = 1..n
      /\ mode[r] = "round_robin" => Places(r) = {(rr[svc[r]] % n) + 1}
      /\ mode[r] = "weighted_round_robin" =>
           Places(r) = {} \/ Places(r) = {PickWeighted(r)}
  BY DEF Places, n
<1> QED
  BY <1>2, <1>3, <1>4, <1>5 DEF n

\* Selecting ends the request: what it kept of its scan is gone.
LEMMA SelectEnds ==
  ASSUME NEW r \in Requests, SelectionInv, Select(r)
  PROVE  /\ phase' = [phase EXCEPT ![r] = "idle"] /\ list' = [list EXCEPT ![r] = <<>>]
         /\ healthy' = [healthy EXCEPT ![r] = <<>>] /\ next' = [next EXCEPT ![r] = 1]
         /\ mode' = [mode EXCEPT ![r] = "first"]
         /\ stayed' = [stayed EXCEPT ![r] = [marked |-> {}, clear |-> {}]]
         /\ DOMAIN chosen' = Requests
         /\ rr' \in [Services -> Nat]
         /\ UNCHANGED <<unhealthy, svc>>
<1>1. \E outcome : Finish(r, outcome)
  BY DEF Select
<1>2. rr' = rr \/ rr' = [rr EXCEPT ![svc[r]] = (rr[svc[r]] + 1) % WordSize]
  BY DEF Select, CountUp
<1>3. rr \in [Services -> Nat] /\ svc[r] \in Services
  BY DEF SelectionInv
<1>4. (rr[svc[r]] + 1) % WordSize \in Nat
  BY <1>3, SelectionAssumption
<1>5. rr' \in [Services -> Nat]
  BY <1>2, <1>3, <1>4
<1> QED
  BY <1>1, <1>5 DEF Finish, SelectionInv

LEMMA SelectionInitInv == SelectionInit => SelectionInv
<1> SUFFICES ASSUME SelectionInit
             PROVE  SelectionInv
  OBVIOUS
<1>1. ASSUME NEW r \in Requests
      PROVE  ScanFits(phase[r], list[r], healthy[r], next[r], stayed[r], unhealthy)
  <2>1. phase[r] = "idle" /\ list[r] = <<>> /\ healthy[r] = <<>> /\ next[r] = 1
        /\ stayed[r] = [marked |-> {}, clear |-> {}]
    BY DEF SelectionInit
  <2> QED
    BY <2>1, IdleFits
<1> QED
  BY <1>1 DEF SelectionInit, SelectionInv

\* Each action leaves the scans of the other requests alone.
LEMMA SelectionNextInv ==
  ASSUME SelectionInv, [SelectionNext]_selectionVars
  PROVE  SelectionInv'
<1>1. ASSUME NEW r \in Requests, LookUp(r)
      PROVE  SelectionInv'
  <2>1. /\ next' = [next EXCEPT ![r] = next[r] + 1] /\ phase[r] = "scanning"
        /\ next[r] <= Len(list[r])
        /\ UNCHANGED <<unhealthy, rr, phase, svc, list, mode, chosen, stayed>>
    BY <1>1 DEF LookUp
  <2>2. healthy' = IF list[r][next[r]] \in unhealthy THEN healthy
                   ELSE [healthy EXCEPT ![r] = Append(healthy[r], next[r])]
    BY <1>1 DEF LookUp, Cand, is_healthy
  <2>3. ScanFits("scanning", list[r], healthy'[r], next'[r], stayed[r], unhealthy)
    <3>1. ScanFits("scanning", list[r], healthy[r], next[r], stayed[r], unhealthy)
      BY <2>1 DEF SelectionInv
    <3>2. healthy'[r] = IF list[r][next[r]] \in unhealthy THEN healthy[r]
                        ELSE Append(healthy[r], next[r])
      BY <2>2 DEF SelectionInv
    <3>3. next'[r] = next[r] + 1
      BY <2>1 DEF SelectionInv
    <3> QED
      BY <2>1, <3>1, <3>2, <3>3, LookUpFits
  <2>4. ASSUME NEW q \in Requests
        PROVE  ScanFits(phase'[q], list'[q], healthy'[q], next'[q], stayed'[q], unhealthy')
    <3>1. CASE q = r
      BY <2>1, <2>3, <3>1
    <3>2. CASE q # r
      <4>1. healthy'[q] = healthy[q] /\ next'[q] = next[q]
        BY <2>1, <2>2, <3>2
      <4> QED
        BY <2>1, <4>1 DEF SelectionInv
    <3> QED
      BY <3>1, <3>2
  <2> QED
    BY <2>1, <2>2, <2>4 DEF SelectionInv
<1>2. ASSUME NEW r \in Requests, Select(r)
      PROVE  SelectionInv'
  <2>1. /\ phase' = [phase EXCEPT ![r] = "idle"] /\ list' = [list EXCEPT ![r] = <<>>]
        /\ healthy' = [healthy EXCEPT ![r] = <<>>] /\ next' = [next EXCEPT ![r] = 1]
        /\ mode' = [mode EXCEPT ![r] = "first"]
        /\ stayed' = [stayed EXCEPT ![r] = [marked |-> {}, clear |-> {}]]
        /\ DOMAIN chosen' = Requests
        /\ rr' \in [Services -> Nat]
        /\ UNCHANGED <<unhealthy, svc>>
    BY <1>2, SelectEnds
  <2>2. ASSUME NEW q \in Requests
        PROVE  ScanFits(phase'[q], list'[q], healthy'[q], next'[q], stayed'[q], unhealthy')
    <3>1. CASE q = r
      BY <2>1, <3>1, IdleFits DEF SelectionInv
    <3>2. CASE q # r
      BY <2>1, <3>2 DEF SelectionInv
    <3> QED
      BY <3>1, <3>2
  <2>3. mode' \in [Requests -> {"first", "round_robin", "random", "weighted_round_robin"}]
        /\ phase' \in [Requests -> {"idle", "scanning"}]
    BY <2>1 DEF SelectionInv
  <2>4. /\ DOMAIN list' = Requests /\ DOMAIN healthy' = Requests /\ DOMAIN next' = Requests
        /\ DOMAIN stayed' = Requests
    BY <2>1 DEF SelectionInv
  <2> QED
    BY <2>1, <2>2, <2>3, <2>4 DEF SelectionInv
<1>3. ASSUME NEW r \in Requests, NEW s \in Services, NEW l \in Lists,
             NEW m \in Modes, Begin(r, s, l, m)
      PROVE  SelectionInv'
  <2> DEFINE st == [marked |-> Entries(l) \cap unhealthy,
                    clear |-> Entries(l) \ unhealthy]
  <2>1. /\ phase[r] = "idle" /\ phase' = [phase EXCEPT ![r] = "scanning"]
        /\ svc' = [svc EXCEPT ![r] = s] /\ list' = [list EXCEPT ![r] = l]
        /\ mode' = [mode EXCEPT ![r] = m] /\ chosen' = [chosen EXCEPT ![r] = NoInstance]
        /\ stayed' = [stayed EXCEPT ![r] = st]
        /\ UNCHANGED <<unhealthy, rr, healthy, next>>
    BY <1>3 DEF Begin
  <2>2. ScanFits("scanning", l, <<>>, 1, st, unhealthy)
    BY SelectionAssumption, BeginFits
  <2> HIDE DEF st
  <2>3. healthy[r] = <<>> /\ next[r] = 1
    BY <2>1 DEF SelectionInv, ScanFits
  <2>4. ASSUME NEW q \in Requests
        PROVE  ScanFits(phase'[q], list'[q], healthy'[q], next'[q], stayed'[q], unhealthy')
    <3>1. CASE q = r
      BY <2>1, <2>2, <2>3, <3>1 DEF SelectionInv
    <3>2. CASE q # r
      BY <2>1, <3>2 DEF SelectionInv
    <3> QED
      BY <3>1, <3>2
  <2>5. m \in {"first", "round_robin", "random", "weighted_round_robin"}
    BY SelectionAssumption
  <2> QED
    BY <2>1, <2>4, <2>5 DEF SelectionInv
<1>4. ASSUME NEW i \in Instances, MoveMark(i)
      PROVE  SelectionInv'
  <2>1. /\ stayed' = [r \in Requests |-> [marked |-> stayed[r].marked \cap unhealthy',
                                          clear |-> stayed[r].clear \ unhealthy']]
        /\ UNCHANGED <<rr, phase, svc, list, mode, healthy, next, chosen>>
    BY <1>4 DEF MoveMark, Observe
  <2>2. ASSUME NEW q \in Requests
        PROVE  ScanFits(phase'[q], list'[q], healthy'[q], next'[q], stayed'[q], unhealthy')
    BY <2>1, MarksFit DEF SelectionInv
  <2> QED
    BY <2>1, <2>2 DEF SelectionInv
<1>5. CASE UNCHANGED selectionVars
  BY <1>5 DEF SelectionInv, selectionVars
<1> QED
  BY <1>1, <1>2, <1>3, <1>4, <1>5 DEF SelectionNext, SelectionStep

LEMMA SelectionInvHolds == SelectionSpec => []SelectionInv
BY SelectionInitInv, SelectionNextInv, PTL DEF SelectionSpec

\* The step that ends a selection is the request's own.
LEMMA PickAvoids ==
  ASSUME SelectionInv, [SelectionNext]_selectionVars,
         NEW r \in Requests, Picks(r), stayed[r].clear # {}
  PROVE  chosen'[r] \notin stayed[r].marked
<1>1. phase[r] = "scanning" /\ phase'[r] = "idle"
  BY DEF Picks
<1>2. Select(r)
  <2>1. ASSUME NEW q \in Requests, LookUp(q)
        PROVE  FALSE
    BY <1>1, <2>1 DEF LookUp
  <2>2. ASSUME NEW q \in Requests, q # r, Select(q)
        PROVE  FALSE
    <3>1. phase' = [phase EXCEPT ![q] = "idle"]
      BY <2>2, SelectEnds
    <3> QED
      BY <1>1, <2>2, <3>1 DEF SelectionInv
  <2>3. ASSUME NEW q \in Requests, NEW s, NEW l, NEW m, Begin(q, s, l, m)
        PROVE  FALSE
    <3>1. phase' = [phase EXCEPT ![q] = "scanning"]
      BY <2>3 DEF Begin
    <3> QED
      BY <1>1, <3>1 DEF SelectionInv
  <2>4. ASSUME NEW i, MoveMark(i)
        PROVE  FALSE
    BY <1>1, <2>4 DEF MoveMark
  <2>5. CASE UNCHANGED selectionVars
    BY <1>1, <2>5 DEF selectionVars
  <2> QED
    BY <2>1, <2>2, <2>3, <2>4, <2>5 DEF SelectionNext, SelectionStep
<1> DEFINE c == Candidates(r)
<1>3. /\ next[r] > Len(list[r])
      /\ \/ \E place \in Places(r) :
              Finish(r, Cand(r, c[place]))
         \/ Finish(r, NoInstance)
  BY <1>2 DEF Select
<1>4. ScanFits(phase[r], list[r], healthy[r], next[r], stayed[r], unhealthy)
      /\ DOMAIN chosen = Requests
  BY DEF SelectionInv
<1>5. /\ Len(c) \in Nat \ {0}
      /\ \A p \in 1..Len(c) : Cand(r, c[p]) \notin stayed[r].marked
  BY <1>1, <1>3, <1>4, CandidatesFit
<1>6. Places(r) \subseteq 1..Len(c)
  BY <1>5, PlacesFit
<1> HIDE DEF c
<1>7. CASE Finish(r, NoInstance)
  <2>1. chosen'[r] = NoInstance
    BY <1>4, <1>7 DEF Finish
  <2>2. \A i \in stayed[r].marked : i \in Instances
    <3>1. list[r] \in Seq(Instances) /\ \A i \in stayed[r].marked : \E k \in 1..Len(list[r]) : list[r][k] = i
      BY <1>4 DEF ScanFits
    <3> QED
      BY <3>1, ElementOfSeq
  <2> QED
    BY <2>1, <2>2, SelectionAssumption
<1>8. CASE \E place \in Places(r) : Finish(r, Cand(r, c[place]))
  <2>1. PICK place \in Places(r) : Finish(r, Cand(r, c[place]))
    BY <1>8
  <2>2. chosen'[r] = Cand(r, c[place])
    BY <1>4, <2>1 DEF Finish
  <2> QED
    BY <1>5, <1>6, <2>2
<1> QED
  BY <1>3, <1>7, <1>8

\* However marks move during a scan, and in every mode, a request is not sent to an
\* instance marked all the while if its list has one unmarked all the while (AvoidsMarked).
THEOREM MarkedAvoided == SelectionSpec => AvoidsMarked
<1>1. SelectionInv /\ [SelectionNext]_selectionVars
        => [\A r \in Requests :
              Picks(r) /\ stayed[r].clear # {} => chosen'[r] \notin stayed[r].marked
           ]_selectionVars
  BY PickAvoids
<1> QED
  BY <1>1, SelectionInvHolds, PTL DEF SelectionSpec, AvoidsMarked

-----------------------------------------------------------------------------
(* Fair shares *)

WeightOf(i) == IF Weight[i] = 0 THEN 1 ELSE Weight[i]

\* The sums of the weights of cands as the code has them.
WrappedSums(f, cands) ==
  f[0] = 0 /\ \A k \in 1..Len(cands) : f[k] = (f[k - 1] + WeightOf(cands[k])) % WordSize

\* Place k among cands is the turn of a counter of c.
TurnOf(cands, m, c, k) ==
  /\ k \in 1..Len(cands)
  /\ \/ m = "round_robin" /\ k = (c % Len(cands)) + 1
     \/ /\ m = "weighted_round_robin"
        /\ \E f : /\ WrappedSums(f, cands)
                  /\ f[Len(cands)] # 0
                  /\ FirstAbove(f, Len(cands), c % f[Len(cands)], k)

\* The picks are the turns of as many successive values, up to the counter's; the
\* counter has not gone through zero meanwhile, unless with the last of them.
ShareFits(cands, m, picks, count) ==
  /\ cands \in Seq(Instances) /\ picks \in Seq(Nat)
  /\ \E first \in Nat :
       /\ first + Len(picks) <= WordSize
       /\ (first + Len(picks)) % WordSize = count
       /\ \A j \in 1..Len(picks) : TurnOf(cands, m, first + j - 1, picks[j])

ShareInv ==
  /\ rr \in [Services -> 0..(WordSize - 1)]
  /\ DOMAIN share = Services
  /\ \A s \in Services : ShareFits(share[s].cands, share[s].mode, share[s].picks, rr[s])

Chosen(r) == [k \in 1..Len(Candidates(r)) |->
                Cand(r, Candidates(r)[k])]

\* What PickWeighted adds up is the weights of the candidates.
LEMMA CumulativeSums ==
  ASSUME NEW r \in Requests, Len(Candidates(r)) \in Nat \ {0},
         Chosen(r) \in Seq(Instances)
  PROVE  WrappedSums(Cumulative(r), Chosen(r))
<1> DEFINE n == Len(Candidates(r))
           w == [k \in 1..n |-> WeightAt(r, Candidates(r)[k])]
           T == 0..(WordSize - 1)
           step == [p \in (1..n) \X T |-> (p[2] + w[p[1]]) % WordSize]
           sums == Cumulative(r)
<1>1. n \in Nat /\ Len(Chosen(r)) = n /\ WordSize \in Nat \ {0}
  BY SelectionAssumption DEF Chosen
<1>2. \A k \in 1..n : w[k] = WeightOf(Chosen(r)[k]) /\ w[k] \in Nat
  <2> SUFFICES ASSUME NEW k \in 1..n
               PROVE  w[k] = WeightOf(Chosen(r)[k]) /\ w[k] \in Nat
    OBVIOUS
  <2>1. w[k] = WeightOf(Chosen(r)[k])
    BY DEF WeightAt, WeightOf, Chosen
  <2>2. Chosen(r)[k] \in Instances
    BY <1>1, ElementOfSeq
  <2>3. Weight[Chosen(r)[k]] \in Nat
    BY <2>2, SelectionAssumption
  <2> QED
    BY <2>1, <2>3 DEF WeightOf
<1>3. sums = CHOOSE f : f = [k \in 0..n |->
                 IF k = 0 THEN 0
                 ELSE (f[k - 1] + WeightAt(r, Candidates(r)[k])) % WordSize]
  BY DEF Cumulative
<1>4. \E f : f = [k \in 0..n |->
                 IF k = 0 THEN 0
                 ELSE (f[k - 1] + WeightAt(r, Candidates(r)[k])) % WordSize]
  <2>1. \A k \in 1..n, t \in T : step[<<k, t>>] \in T
    <3> SUFFICES ASSUME NEW k \in 1..n, NEW t \in T
                 PROVE  step[<<k, t>>] \in T
      OBVIOUS
    <3>1. step[<<k, t>>] = (t + w[k]) % WordSize
      OBVIOUS
    <3>2. t + w[k] \in Nat
      BY <1>1, <1>2
    <3> HIDE DEF w, step
    <3> QED
      BY <1>1, <3>1, <3>2, Division
  <2>2. 0 \in T
    BY <1>1
  <2>3. PICK f \in [0..n -> T] :
          f = [k \in 0..n |-> IF k = 0 THEN 0 ELSE step[<<k, f[k - 1]>>]]
    <3> HIDE DEF step, T, n
    <3>1. LeftFoldable(T, n, 0, step)
      BY <1>1, <2>1, <2>2 DEF LeftFoldable
    <3> QED
      BY <3>1, RecursionUpTo
  <2>4. ASSUME NEW k \in 0..n, k # 0
        PROVE  step[<<k, f[k - 1]>>] =
                 (f[k - 1] + WeightAt(r, Candidates(r)[k])) % WordSize
    <3>1. k \in 1..n /\ k - 1 \in 0..n
      BY <1>1, <2>4
    <3>2. f[k - 1] \in T
      BY <2>3, <3>1
    <3> HIDE DEF T
    <3> QED
      BY <3>1, <3>2
  <2> HIDE DEF step, T, w, n
  <2>5. f = [k \in 0..n |->
               IF k = 0 THEN 0
               ELSE (f[k - 1] + WeightAt(r, Candidates(r)[k])) % WordSize]
    BY <2>3, <2>4
  <2> QED
    BY <2>5 DEF n
<1> HIDE DEF sums
<1>5. sums = [k \in 0..n |->
                 IF k = 0 THEN 0
                 ELSE (sums[k - 1] + WeightAt(r, Candidates(r)[k])) % WordSize]
  BY <1>3, <1>4
<1>6. sums[0] = 0
  BY <1>1, <1>5
<1>7. ASSUME NEW k \in 1..n
      PROVE  sums[k] = (sums[k - 1] + WeightOf(Chosen(r)[k])) % WordSize
  <2>1. k \in 0..n /\ k # 0
    BY <1>1
  <2>2. sums[k] = (sums[k - 1] + w[k]) % WordSize
    BY <1>5, <2>1
  <2> QED
    BY <1>2, <2>2
<1> QED
  BY <1>1, <1>6, <1>7 DEF WrappedSums, sums

\* What a counted mode picks is the turn of the counter.
LEMMA PlaceIsTurn ==
  ASSUME NEW r \in Requests, SelectionInv, Len(Candidates(r)) \in Nat \ {0},
         Chosen(r) \in Seq(Instances), Counted(r), NEW place \in Places(r)
  PROVE  TurnOf(Chosen(r), mode[r], rr[svc[r]], place)
<1> DEFINE n == Len(Candidates(r))
           f == Cumulative(r)
<1>1. n \in Nat /\ n > 0 /\ Len(Chosen(r)) = n /\ f[n] = Total(r)
  BY DEF Chosen, Total
<1>2. WrappedSums(f, Chosen(r))
  BY CumulativeSums
<1>3. /\ PickWeighted(r) \in 1..n
      /\ FirstAbove(f, n, rr[svc[r]] % Total(r), PickWeighted(r))
  BY PickIsFirst
<1> HIDE DEF n, f
<1>4. CASE mode[r] = "round_robin"
  <2>1. Places(r) = {(rr[svc[r]] % n) + 1}
    BY <1>4 DEF Places, n
  <2>2. place = (rr[svc[r]] % n) + 1
    BY <2>1
  <2>3. Places(r) \subseteq 1..n
    BY PlacesFit DEF n
  <2> QED
    BY <1>1, <1>4, <2>2, <2>3 DEF TurnOf
<1>5. CASE mode[r] = "weighted_round_robin"
  <2>1. Places(r) = IF Total(r) = 0 THEN {} ELSE {PickWeighted(r)}
    BY <1>5 DEF Places
  <2>2. Total(r) # 0 /\ place = PickWeighted(r)
    BY <2>1
  <2> QED
    BY <1>1, <1>2, <1>3, <1>5, <2>2 DEF TurnOf
<1> QED
  BY <1>4, <1>5 DEF Counted

\* One pick more: after picks that the counter has not wrapped behind, or the first.
LEMMA PicksExtend ==
  ASSUME NEW cands \in Seq(Instances), NEW m, NEW picks \in Seq(Nat), NEW first \in Nat,
         NEW count \in 0..(WordSize - 1), first + Len(picks) = count,
         \A j \in 1..Len(picks) : TurnOf(cands, m, first + j - 1, picks[j]),
         NEW place, TurnOf(cands, m, count, place)
  PROVE  ShareFits(cands, m, Append(picks, place), (count + 1) % WordSize)
<1> DEFINE more == Append(picks, place)
<1>1. WordSize \in Nat \ {0} /\ count \in Nat /\ count + 1 <= WordSize
  BY SelectionAssumption
<1>2. place \in Nat
  <2>1. place \in 1..Len(cands)
    BY DEF TurnOf
  <2> QED
    BY <2>1, LenProperties
<1>3. /\ more \in Seq(Nat) /\ Len(more) = Len(picks) + 1 /\ Len(picks) \in Nat
      /\ \A j \in 1..Len(picks) : more[j] = picks[j]
      /\ more[Len(picks) + 1] = place
  BY <1>2, AppendProperties, LenProperties
<1> HIDE DEF more
<1>4. first + Len(more) = count + 1
  BY <1>1, <1>3
<1>5. ASSUME NEW j \in 1..Len(more)
      PROVE  TurnOf(cands, m, first + j - 1, more[j])
  <2>1. CASE j = Len(picks) + 1
    <3>1. first + j - 1 = count
      BY <1>1, <1>3, <2>1
    <3> QED
      BY <1>3, <2>1, <3>1
  <2>2. CASE j # Len(picks) + 1
    <3>1. j \in 1..Len(picks)
      BY <1>3, <2>2
    <3> QED
      BY <1>3, <3>1
  <2> QED
    BY <2>1, <2>2
<1>6. ShareFits(cands, m, more, (count + 1) % WordSize)
  BY <1>1, <1>3, <1>4, <1>5 DEF ShareFits
<1> QED
  BY <1>6 DEF more

LEMMA SmallRemainder ==
  ASSUME NEW w \in Nat \ {0}, NEW a \in Nat, a < w
  PROVE  a % w = a
OBVIOUS

LEMMA NotWrapped ==
  ASSUME NEW w \in Nat \ {0}, NEW a \in Nat, a <= w, a % w # 0
  PROVE  a < w /\ a % w = a
<1>1. w % w = 0
  OBVIOUS
<1>2. a < w
  BY <1>1
<1> QED
  BY <1>2

LEMMA ShareExtends ==
  ASSUME NEW cands, NEW m, NEW picks, NEW count \in 0..(WordSize - 1),
         ShareFits(cands, m, picks, count), count # 0, NEW place, TurnOf(cands, m, count, place)
  PROVE  ShareFits(cands, m, Append(picks, place), (count + 1) % WordSize) /\ Len(picks) < WordSize
<1>1. PICK first \in Nat :
        /\ first + Len(picks) <= WordSize
        /\ (first + Len(picks)) % WordSize = count
        /\ \A j \in 1..Len(picks) : TurnOf(cands, m, first + j - 1, picks[j])
  BY DEF ShareFits
<1>2. cands \in Seq(Instances) /\ picks \in Seq(Nat) /\ Len(picks) \in Nat
  BY LenProperties DEF ShareFits
<1> DEFINE total == first + Len(picks)
<1>3. total \in Nat /\ total <= WordSize /\ total % WordSize # 0 /\ WordSize \in Nat \ {0}
  <2>1. WordSize \in Nat \ {0}
    BY SelectionAssumption
  <2>2. total \in Nat
    BY <1>2
  <2>3. total <= WordSize /\ total % WordSize = count
    BY <1>1
  <2> HIDE DEF total
  <2> QED
    BY <2>1, <2>2, <2>3
<1>4. first + Len(picks) < WordSize /\ first + Len(picks) = count
  <2> HIDE DEF total
  <2>1. total < WordSize /\ total % WordSize = total
    BY <1>3, NotWrapped
  <2> QED
    BY <1>1, <2>1 DEF total
<1>5. Len(picks) < WordSize
  BY <1>2, <1>3, <1>4
<1> QED
  BY <1>1, <1>2, <1>4, <1>5, PicksExtend

LEMMA ShareBegins ==
  ASSUME NEW cands \in Seq(Instances), NEW m, NEW count \in 0..(WordSize - 1),
         NEW place, TurnOf(cands, m, count, place)
  PROVE  ShareFits(cands, m, Append(<<>>, place), (count + 1) % WordSize)
<1>1. <<>> \in Seq(Nat) /\ Len(<<>>) = 0 /\ \A j : j \notin 1..0
  OBVIOUS
<1>2. count \in Nat /\ count + 0 = count
  BY SelectionAssumption
<1> QED
  BY <1>1, <1>2, PicksExtend

LEMMA NoShareFits ==
  ASSUME NEW count \in 0..(WordSize - 1)
  PROVE  ShareFits(<<>>, "first", <<>>, count)
<1>1. <<>> \in Seq(Instances) /\ <<>> \in Seq(Nat) /\ Len(<<>>) = 0 /\ \A j : j \notin 1..0
  OBVIOUS
<1>2. count \in Nat /\ count + 0 = count /\ count <= WordSize /\ count % WordSize = count
  BY SelectionAssumption
<1> QED
  BY <1>1, <1>2 DEF ShareFits

LEMMA ShareInitInv == SelectionInit => ShareInv
<1> SUFFICES ASSUME SelectionInit
             PROVE  ShareInv
  OBVIOUS
<1>1. 0 \in 0..(WordSize - 1)
  BY SelectionAssumption
<1>2. ShareFits(<<>>, "first", <<>>, 0)
  BY <1>1, NoShareFits
<1> QED
  BY <1>1, <1>2 DEF SelectionInit, NoShare, ShareInv

LEMMA SelectFits ==
  ASSUME SelectionInv, NEW r \in Requests, Select(r)
  PROVE  /\ Len(Candidates(r)) \in Nat \ {0}
         /\ Chosen(r) \in Seq(Instances)
<1>1. ScanFits(phase[r], list[r], healthy[r], next[r], stayed[r], unhealthy)
  BY DEF SelectionInv
<1>2. /\ Len(Candidates(r)) \in Nat \ {0}
      /\ \A p \in 1..Len(Candidates(r)) :
           Candidates(r)[p] \in 1..Len(list[r])
      /\ list[r] \in Seq(Instances)
  BY <1>1, CandidatesFit DEF ScanFits, Select
<1>3. \A p \in 1..Len(Candidates(r)) :
        Cand(r, Candidates(r)[p]) \in Instances
  BY <1>2, ElementOfSeq DEF Cand
<1> QED
  BY <1>2, <1>3, IsASeq DEF Chosen

\* Only the weights can leave no place to pick.
LEMMA UncountedKeeps ==
  ASSUME SelectionInv, NEW r \in Requests, Select(r), ~Counted(r)
  PROVE  UNCHANGED <<rr, share>>
<1>1. UNCHANGED rr
  BY DEF Select
<1>2. Places(r) # {}
  <2> DEFINE n == Len(Candidates(r))
  <2>1. n \in Nat /\ n > 0
    BY SelectFits
  <2>2. mode[r] = "first" \/ mode[r] = "random"
    BY DEF Counted, SelectionInv
  <2>3. Places(r) = {1} \/ Places(r) = 1..n
    BY <2>2 DEF Places
  <2> HIDE DEF n
  <2>4. 1 \in 1..n
    BY <2>1
  <2> QED
    BY <2>3, <2>4
<1> QED
  BY <1>1, <1>2 DEF Select

\* The end of a selection that is counted.
LEMMA CountedKeeps ==
  ASSUME ShareInv, SelectionInv, NEW r \in Requests, Select(r), Counted(r)
  PROVE  ShareInv'
<1> DEFINE s == svc[r]
           next_count == (rr[s] + 1) % WordSize
<1>1. s \in Services /\ rr[s] \in 0..(WordSize - 1) /\ next_count \in 0..(WordSize - 1)
  <2>1. s \in Services /\ rr[s] \in 0..(WordSize - 1)
    BY DEF SelectionInv, ShareInv
  <2>2. rr[s] + 1 \in Nat /\ WordSize \in Nat \ {0}
    BY <2>1, SelectionAssumption
  <2> HIDE DEF s
  <2> QED
    BY <2>1, <2>2, Division
<1>2. rr' = [rr EXCEPT ![s] = next_count]
  BY DEF Select, CountUp
<1>3. \/ \E place \in Places(r) : Extend(r, place)
      \/ share' = [share EXCEPT ![s] = NoShare]
  BY DEF Select
<1>4. Len(Candidates(r)) \in Nat \ {0} /\ Chosen(r) \in Seq(Instances)
  BY SelectFits
<1>6. CASE share' = [share EXCEPT ![s] = NoShare]
  <2>1. ShareFits(<<>>, "first", <<>>, next_count)
    BY <1>1, NoShareFits
  <2> HIDE DEF s, next_count
  <2>2. ASSUME NEW t \in Services
        PROVE  ShareFits(share'[t].cands, share'[t].mode, share'[t].picks, rr'[t])
    <3>1. CASE t = s
      <4>1. share'[t] = [cands |-> <<>>, mode |-> "first", picks |-> <<>>]
            /\ rr'[t] = next_count
        BY <1>2, <1>6, <3>1 DEF ShareInv, NoShare
      <4> QED
        BY <2>1, <4>1
    <3>2. CASE t # s
      BY <1>2, <1>6, <3>2 DEF ShareInv
    <3> QED
      BY <3>1, <3>2
  <2>3. rr' \in [Services -> 0..(WordSize - 1)] /\ DOMAIN share' = Services
    BY <1>1, <1>2, <1>6 DEF ShareInv
  <2> QED
    BY <2>2, <2>3 DEF ShareInv
<1>7. ASSUME NEW place \in Places(r), Extend(r, place)
      PROVE  ShareInv'
  <2> DEFINE like == share[s].cands = Chosen(r) /\ share[s].mode = mode[r] /\ rr[s] # 0
             before == IF ~like THEN <<>>
                       ELSE IF Len(share[s].picks) < WordSize THEN share[s].picks
                       ELSE Tail(share[s].picks)
  <2>1. share' = [share EXCEPT ![s] = [cands |-> Chosen(r), mode |-> mode[r],
                                       picks |-> Append(before, place)]]
    BY <1>7 DEF Extend, Chosen
  <2>2. TurnOf(Chosen(r), mode[r], rr[s], place)
    BY <1>4, PlaceIsTurn
  <2>3. ShareFits(share[s].cands, share[s].mode, share[s].picks, rr[s])
    BY <1>1 DEF ShareInv
  <2>4. ShareFits(Chosen(r), mode[r], Append(before, place), next_count)
    <3>1. CASE like
      <4>1. /\ ShareFits(Chosen(r), mode[r], Append(share[s].picks, place), next_count)
            /\ Len(share[s].picks) < WordSize
        BY <1>1, <2>2, <2>3, <3>1, ShareExtends
      <4> QED
        BY <3>1, <4>1
    <3>2. CASE ~like
      <4>1. before = <<>>
        BY <3>2
      <4> HIDE DEF before, like
      <4> QED
        BY <1>1, <1>4, <2>2, <4>1, ShareBegins
    <3> QED
      BY <3>1, <3>2
  <2> HIDE DEF before, like, s, next_count
  <2>5. ASSUME NEW t \in Services
        PROVE  ShareFits(share'[t].cands, share'[t].mode, share'[t].picks, rr'[t])
    <3>1. CASE t = s
      <4>1. /\ share'[t].cands = Chosen(r) /\ share'[t].mode = mode[r]
            /\ share'[t].picks = Append(before, place) /\ rr'[t] = next_count
        BY <1>2, <2>1, <3>1 DEF ShareInv
      <4> QED
        BY <2>4, <4>1
    <3>2. CASE t # s
      BY <1>2, <2>1, <3>2 DEF ShareInv
    <3> QED
      BY <3>1, <3>2
  <2>6. rr' \in [Services -> 0..(WordSize - 1)] /\ DOMAIN share' = Services
    BY <1>1, <1>2, <2>1 DEF ShareInv
  <2> QED
    BY <2>5, <2>6 DEF ShareInv
<1> QED
  BY <1>3, <1>6, <1>7

LEMMA ShareNextInv ==
  ASSUME ShareInv, SelectionInv, [SelectionNext]_selectionVars
  PROVE  ShareInv'
<1>1. ASSUME NEW r \in Requests, Select(r), ~Counted(r)
      PROVE  UNCHANGED <<rr, share>>
  BY <1>1, UncountedKeeps
<1>2. ASSUME NEW r \in Requests, LookUp(r)
      PROVE  UNCHANGED <<rr, share>>
  BY <1>2 DEF LookUp
<1>3. ASSUME NEW r, NEW s, NEW l, NEW m, Begin(r, s, l, m)
      PROVE  UNCHANGED <<rr, share>>
  BY <1>3 DEF Begin
<1>4. ASSUME NEW i, MoveMark(i)
      PROVE  UNCHANGED <<rr, share>>
  BY <1>4 DEF MoveMark
<1>5. UNCHANGED selectionVars => UNCHANGED <<rr, share>>
  BY DEF selectionVars
<1>6. UNCHANGED <<rr, share>> => ShareInv'
  BY DEF ShareInv
<1> QED
  BY <1>1, <1>2, <1>3, <1>4, <1>5, <1>6, CountedKeeps
     DEF SelectionNext, SelectionStep

LEMMA ShareInvHolds == SelectionSpec => []ShareInv
<1>1. SelectionInv /\ ShareInv /\ [SelectionNext]_selectionVars => ShareInv'
  BY ShareNextInv
<1> QED
  BY <1>1, ShareInitInv, SelectionInvHolds, PTL DEF SelectionSpec

\* The shares added up, and what follows from each being at least 1.
Adds(S, share_of, n) ==
  /\ n \in Nat /\ S \in [0..n -> Nat]
  /\ S[0] = 0 /\ \A k \in 1..n : S[k] = S[k - 1] + share_of[k]
  /\ \A k \in 1..n : share_of[k] \in Nat \ {0}

LEMMA AddsGrow ==
  ASSUME NEW S, NEW share_of, NEW n, Adds(S, share_of, n)
  PROVE  /\ n \in Nat /\ \A a \in 0..n : S[a] \in Nat
         /\ \A a, b \in 0..n : a <= b => S[a] <= S[b]
<1> DEFINE Fit == {b \in Nat : b <= n => \A a \in 0..b : S[a] <= S[b]}
<1>1. n \in Nat /\ \A a \in 0..n : S[a] \in Nat
  BY DEF Adds
<1>2. 0 \in Fit
  <2>1. \A a \in 0..0 : a = 0
    OBVIOUS
  <2>2. 0 \in 0..n
    BY <1>1
  <2> QED
    BY <1>1, <2>1, <2>2
<1>3. ASSUME NEW b \in Nat, b \in Fit
      PROVE  b + 1 \in Fit
  <2> SUFFICES ASSUME b + 1 <= n, NEW a \in 0..(b + 1)
               PROVE  S[a] <= S[b + 1]
    OBVIOUS
  <2>1. b + 1 \in 1..n /\ (b + 1) - 1 = b /\ b \in 0..n /\ b + 1 \in 0..n /\ a \in 0..n
    BY <1>1
  <2>2. S[b + 1] = S[b] + share_of[b + 1] /\ share_of[b + 1] \in Nat
    BY <2>1 DEF Adds
  <2>3. CASE a = b + 1
    BY <1>1, <2>1, <2>3
  <2>4. CASE a # b + 1
    <3>1. a \in 0..b
      BY <2>4
    <3>2. S[a] <= S[b]
      BY <1>1, <1>3, <2>1, <3>1
    <3> QED
      BY <1>1, <2>1, <2>2, <3>2
  <2> QED
    BY <2>3, <2>4
<1> HIDE DEF Fit
<1>4. Nat \subseteq Fit
  BY <1>2, <1>3, SetInduction
<1>5. ASSUME NEW a \in 0..n, NEW b \in 0..n, a <= b
      PROVE  S[a] <= S[b]
  <2>1. b \in Fit /\ a \in 0..b /\ b <= n
    BY <1>1, <1>4, <1>5
  <2> QED
    BY <2>1 DEF Fit
<1> QED
  BY <1>1, <1>5

\* The shares of the candidates of a service, as Cycle adds them up.
ShareTable(s) == [k \in 1..Len(share[s].cands) |-> ShareOf(s, k)]

LEMMA SharesAdd ==
  ASSUME NEW s \in Services, share[s].cands \in Seq(Instances)
  PROVE  Adds(Shares(s), ShareTable(s), Len(share[s].cands))
<1> DEFINE n == Len(share[s].cands)
           w == ShareTable(s)
           step == [p \in (1..n) \X Nat |-> p[2] + w[p[1]]]
           sums == Shares(s)
<1>1. n \in Nat
  BY LenProperties
<1>2. \A k \in 1..n : w[k] = ShareOf(s, k) /\ w[k] \in Nat \ {0}
  <2> SUFFICES ASSUME NEW k \in 1..n
               PROVE  w[k] = ShareOf(s, k) /\ w[k] \in Nat \ {0}
    OBVIOUS
  <2>1. w[k] = ShareOf(s, k)
    BY DEF ShareTable
  <2>2. share[s].cands[k] \in Instances
    BY ElementOfSeq
  <2>3. Weight[share[s].cands[k]] \in Nat
    BY <2>2, SelectionAssumption
  <2> QED
    BY <2>1, <2>3 DEF ShareOf
<1>3. sums = CHOOSE f : f = [k \in 0..n |->
                               IF k = 0 THEN 0 ELSE f[k - 1] + ShareOf(s, k)]
  BY DEF Shares
<1> HIDE DEF w, sums
<1>4. PICK f \in [0..n -> Nat] :
        f = [k \in 0..n |-> IF k = 0 THEN 0 ELSE f[k - 1] + ShareOf(s, k)]
  <2>1. \A k \in 1..n, t \in Nat : step[<<k, t>>] = t + w[k] /\ step[<<k, t>>] \in Nat
    BY <1>2
  <2> HIDE DEF step, n
  <2>2. LeftFoldable(Nat, n, 0, step)
    BY <1>1, <2>1 DEF LeftFoldable
  <2>3. PICK f \in [0..n -> Nat] :
          f = [k \in 0..n |-> IF k = 0 THEN 0 ELSE step[<<k, f[k - 1]>>]]
    BY <2>2, RecursionUpTo
  <2>4. ASSUME NEW k \in 0..n, k # 0
        PROVE  step[<<k, f[k - 1]>>] = f[k - 1] + ShareOf(s, k)
    <3>1. k \in 1..n /\ k - 1 \in 0..n
      BY <1>1, <2>4
    <3> QED
      BY <1>2, <2>1, <2>3, <3>1
  <2>5. f = [k \in 0..n |-> IF k = 0 THEN 0 ELSE f[k - 1] + ShareOf(s, k)]
    BY <2>3, <2>4
  <2> QED
    BY <2>3, <2>5
<1> HIDE DEF step, n
<1>5. sums = [k \in 0..n |-> IF k = 0 THEN 0 ELSE sums[k - 1] + ShareOf(s, k)]
  BY <1>3, <1>4
<1>6. sums[0] = 0 /\ \A k \in 1..n : sums[k] = sums[k - 1] + w[k]
  <2>1. \A k \in 1..n : k \in 0..n /\ k # 0
    BY <1>1
  <2>2. 0 \in 0..n
    BY <1>1
  <2> QED
    BY <1>2, <1>5, <2>1, <2>2
<1>7. \A k \in Nat : k <= n => sums[k] \in Nat
  <2> DEFINE Fit == {k \in Nat : k <= n => sums[k] \in Nat}
  <2>1. 0 \in Fit
    BY <1>6
  <2>2. ASSUME NEW k \in Nat, k \in Fit
        PROVE  k + 1 \in Fit
    <3> SUFFICES ASSUME k + 1 <= n
                 PROVE  sums[k + 1] \in Nat
      OBVIOUS
    <3>1. k + 1 \in 1..n /\ (k + 1) - 1 = k /\ sums[k] \in Nat
      BY <1>1, <2>2
    <3>2. sums[k + 1] = sums[k] + w[k + 1]
      BY <1>6, <3>1
    <3> QED
      BY <1>2, <3>1, <3>2
  <2> HIDE DEF Fit
  <2>3. Nat \subseteq Fit
    BY <2>1, <2>2, SetInduction
  <2> QED
    BY <2>3 DEF Fit
<1>8. sums \in [0..n -> Nat]
  <2>1. \A k \in 0..n : sums[k] \in Nat
    BY <1>1, <1>7
  <2> QED
    BY <1>5, <2>1
<1> QED
  BY <1>1, <1>2, <1>6, <1>8 DEF Adds, n, w, sums

\* v falls into the share of place k.
FallsIn(S, v, k) == S[k - 1] <= v /\ v < S[k]

LEMMA OneShare ==
  ASSUME NEW S, NEW share_of, NEW n, Adds(S, share_of, n), NEW v \in Nat,
         NEW j \in 1..n, NEW k \in 1..n, FallsIn(S, v, j), FallsIn(S, v, k)
  PROVE  j = k
<1>1. /\ n \in Nat /\ \A a \in 0..n : S[a] \in Nat
      /\ \A a, b \in 0..n : a <= b => S[a] <= S[b]
  BY AddsGrow
<1>2. j \in 0..n /\ k \in 0..n /\ j - 1 \in 0..n /\ k - 1 \in 0..n
  BY <1>1
<1>3. ~(j <= k - 1)
  <2> SUFFICES ASSUME j <= k - 1
               PROVE  FALSE
    OBVIOUS
  <2>1. S[j] <= S[k - 1]
    BY <1>1, <1>2
  <2> QED
    BY <1>1, <1>2, <2>1 DEF FallsIn
<1>4. ~(k <= j - 1)
  <2> SUFFICES ASSUME k <= j - 1
               PROVE  FALSE
    OBVIOUS
  <2>1. S[k] <= S[j - 1]
    BY <1>1, <1>2
  <2> QED
    BY <1>1, <1>2, <2>1 DEF FallsIn
<1> QED
  BY <1>1, <1>3, <1>4

\* Sums that do not exceed WordSize have not wrapped, or the code picks nothing.
LEMMA SumsUnwrapped ==
  ASSUME NEW cands, NEW S, NEW share_of, Adds(S, share_of, Len(cands)), Len(cands) # 0,
         \A k \in 1..Len(cands) : share_of[k] = WeightOf(cands[k]),
         S[Len(cands)] <= WordSize, NEW f, WrappedSums(f, cands), f[Len(cands)] # 0
  PROVE  \A i \in 0..Len(cands) : f[i] = S[i]
<1> DEFINE n == Len(cands)
           Fit == {i \in Nat : i <= n /\ S[i] < WordSize => f[i] = S[i]}
<1>1. /\ n \in Nat /\ n >= 1 /\ WordSize \in Nat \ {0} /\ \A a \in 0..n : S[a] \in Nat
      /\ \A a, b \in 0..n : a <= b => S[a] <= S[b]
  BY AddsGrow, SelectionAssumption
<1>2. ASSUME NEW i \in Nat, i + 1 <= n
      PROVE  /\ S[i] \in Nat /\ S[i + 1] \in Nat /\ S[i] < S[i + 1]
             /\ f[i] = S[i] => f[i + 1] = S[i + 1] % WordSize
  <2>1. i + 1 \in 1..n /\ (i + 1) - 1 = i /\ i \in 0..n /\ i + 1 \in 0..n
    BY <1>1, <1>2
  <2>2. S[i + 1] = S[i] + share_of[i + 1] /\ share_of[i + 1] \in Nat \ {0}
    BY <2>1 DEF Adds
  <2>3. f[i + 1] = (f[i] + share_of[i + 1]) % WordSize
    BY <2>1 DEF WrappedSums
  <2> QED
    BY <1>1, <2>1, <2>2, <2>3
<1>3. 0 \in Fit
  <2>1. f[0] = S[0]
    BY DEF Adds, WrappedSums
  <2> QED
    BY <2>1
<1>4. ASSUME NEW i \in Nat, i \in Fit
      PROVE  i + 1 \in Fit
  <2> SUFFICES ASSUME i + 1 <= n, S[i + 1] < WordSize
               PROVE  f[i + 1] = S[i + 1]
    OBVIOUS
  <2>1. S[i] \in Nat /\ S[i + 1] \in Nat /\ S[i] < S[i + 1]
    BY <1>2
  <2>2. f[i] = S[i]
    BY <1>1, <1>4, <2>1
  <2>3. f[i + 1] = S[i + 1] % WordSize
    BY <1>2, <2>2
  <2>4. S[i + 1] % WordSize = S[i + 1]
    BY <1>1, <2>1, SmallRemainder
  <2> QED
    BY <2>3, <2>4
<1>5. \A i \in Nat : i <= n /\ S[i] < WordSize => f[i] = S[i]
  <2> HIDE DEF Fit
  <2>1. Nat \subseteq Fit
    BY <1>3, <1>4, SetInduction
  <2> QED
    BY <2>1 DEF Fit
<1> HIDE DEF Fit
<1>6. S[n] < WordSize
  <2> SUFFICES ASSUME S[n] = WordSize
               PROVE  FALSE
    BY <1>1
  <2> DEFINE i == n - 1
  <2>1. i \in Nat /\ i + 1 = n /\ i <= n
    BY <1>1
  <2> HIDE DEF i
  <2>2. S[i] < S[n] /\ S[i] \in Nat
    BY <1>1, <1>2, <2>1
  <2>3. f[i] = S[i]
    BY <1>1, <1>5, <2>1, <2>2
  <2>4. f[n] = WordSize % WordSize
    BY <1>1, <1>2, <2>1, <2>3
  <2>5. WordSize % WordSize = 0
    BY <1>1
  <2> QED
    BY <2>4, <2>5
<1>7. ASSUME NEW i \in 0..n
      PROVE  f[i] = S[i]
  <2>1. i \in Nat /\ i <= n /\ S[i] \in Nat /\ S[i] <= S[n]
    BY <1>1
  <2> QED
    BY <1>1, <1>5, <1>6, <2>1
<1> QED
  BY <1>7

\* A turn by weight.
LEMMA WeightedTurn ==
  ASSUME NEW cands, NEW S, NEW share_of, Adds(S, share_of, Len(cands)),
         \A k \in 1..Len(cands) : share_of[k] = WeightOf(cands[k]), S[Len(cands)] <= WordSize,
         NEW c \in Nat, NEW k, TurnOf(cands, "weighted_round_robin", c, k)
  PROVE  FallsIn(S, c % S[Len(cands)], k)
<1> DEFINE n == Len(cands)
           v == c % S[n]
<1>1. k \in 1..n
  BY DEF TurnOf
<1>2. PICK f : /\ WrappedSums(f, cands) /\ f[n] # 0
               /\ FirstAbove(f, n, c % f[n], k)
  BY DEF TurnOf
<1>3. n \in Nat /\ \A a \in 0..n : S[a] \in Nat
  BY AddsGrow
<1>4. \A i \in 0..n : f[i] = S[i]
  <2>1. n # 0
    BY <1>1, <1>3
  <2> QED
    BY <1>2, <2>1, SumsUnwrapped
<1> HIDE DEF n
<1>5. n \in 0..n /\ n \in 1..n /\ k \in 0..n
  BY <1>1, <1>3
<1>6. S[n] \in Nat \ {0} /\ FirstAbove(f, n, v, k)
  BY <1>2, <1>3, <1>4, <1>5
<1>7. v \in Nat /\ v < S[n]
  <2>1. v \in 0..(S[n] - 1)
    BY <1>6, Division
  <2> HIDE DEF v
  <2> QED
    BY <1>6, <2>1
<1> HIDE DEF v
<1>8. v < S[k] /\ \A j \in 1..n : v < f[j] => k <= j
  BY <1>4, <1>5, <1>6, <1>7 DEF FirstAbove
<1>9. S[k - 1] <= v
  <2>1. CASE k = 1
    BY <1>7, <2>1 DEF Adds
  <2>2. CASE k # 1
    <3>1. k - 1 \in 1..n /\ k - 1 \in 0..n /\ ~(k <= k - 1)
      BY <1>1, <1>3, <2>2
    <3>2. ~(v < S[k - 1])
      BY <1>4, <1>8, <3>1
    <3> QED
      BY <1>3, <1>7, <3>1, <3>2
  <2> QED
    BY <2>1, <2>2
<1> QED
  BY <1>8, <1>9 DEF FallsIn, v, n

\* A turn in round robin, where each share is 1.
LEMMA EqualTurn ==
  ASSUME NEW cands, NEW S, NEW share_of, Adds(S, share_of, Len(cands)),
         \A k \in 1..Len(cands) : share_of[k] = 1,
         NEW c \in Nat, NEW k, TurnOf(cands, "round_robin", c, k)
  PROVE  FallsIn(S, c % S[Len(cands)], k)
<1> DEFINE n == Len(cands)
           Fit == {i \in Nat : i <= n => S[i] = i}
<1>1. n \in Nat /\ k \in 1..n /\ k = (c % n) + 1
  BY DEF TurnOf, Adds
<1>2. 0 \in Fit
  BY DEF Adds
<1>3. ASSUME NEW i \in Nat, i \in Fit
      PROVE  i + 1 \in Fit
  <2> SUFFICES ASSUME i + 1 <= n
               PROVE  S[i + 1] = i + 1
    OBVIOUS
  <2>1. i + 1 \in 1..n /\ (i + 1) - 1 = i /\ S[i] = i
    BY <1>1, <1>3
  <2>2. S[i + 1] = S[i] + 1
    BY <2>1 DEF Adds
  <2> QED
    BY <2>1, <2>2
<1> HIDE DEF Fit
<1>4. Nat \subseteq Fit
  BY <1>2, <1>3, SetInduction
<1>5. \A i \in Nat : i <= n => S[i] = i
  BY <1>4 DEF Fit
<1> HIDE DEF n
<1>6. S[n] = n /\ S[k] = k /\ S[k - 1] = k - 1
  BY <1>1, <1>5
<1>7. c % n \in Nat
  BY <1>1
<1> QED
  BY <1>1, <1>6, <1>7 DEF FallsIn, n

\* A place is picked exactly when the counter falls into its share.
LEMMA TurnFallsIn ==
  ASSUME NEW s \in Services, share[s].cands \in Seq(Instances),
         Cycle(s) <= WordSize, NEW c \in Nat, NEW j,
         TurnOf(share[s].cands, share[s].mode, c, j), NEW k \in 1..Len(share[s].cands)
  PROVE  j = k <=> FallsIn(Shares(s), c % Cycle(s), k)
<1> DEFINE cands == share[s].cands
           m == share[s].mode
           S == Shares(s)
           w == ShareTable(s)
           n == Len(cands)
           v == c % S[n]
<1>1. Adds(S, w, n) /\ Cycle(s) = S[n]
  BY SharesAdd DEF Cycle
<1>2. j \in 1..n
  BY DEF TurnOf
<1>3. \A i \in 1..n :
        w[i] = IF m = "round_robin" \/ Weight[cands[i]] = 0 THEN 1 ELSE Weight[cands[i]]
  BY DEF ShareTable, ShareOf
<1>4. FallsIn(S, v, j)
  <2> HIDE DEF S, w, cands, m
  <2>1. CASE m = "round_robin"
    <3>1. \A i \in 1..n : w[i] = 1
      BY <1>3, <2>1
    <3>2. TurnOf(cands, "round_robin", c, j)
      BY <2>1 DEF cands, m
    <3> QED
      BY <1>1, <3>1, <3>2, EqualTurn
  <2>2. CASE m = "weighted_round_robin"
    <3>1. \A i \in 1..n : w[i] = WeightOf(cands[i])
      BY <1>3, <2>2 DEF WeightOf
    <3>2. TurnOf(cands, "weighted_round_robin", c, j)
      BY <2>2 DEF cands, m
    <3>3. S[n] <= WordSize
      BY <1>1
    <3> QED
      BY <1>1, <3>1, <3>2, <3>3, WeightedTurn
  <2> QED
    BY <2>1, <2>2 DEF TurnOf, cands, m
<1> HIDE DEF S, w, cands, m
<1>5. n \in Nat /\ \A a \in 0..n : S[a] \in Nat
  BY <1>1, AddsGrow
<1>6. v \in Nat
  <2>1. j \in 0..n /\ j <= n /\ n \in 0..n /\ j - 1 \in 0..n
    BY <1>2, <1>5
  <2>2. S[j - 1] < S[j] /\ S[j] <= S[n] /\ S[j - 1] \in Nat /\ S[j] \in Nat /\ S[n] \in Nat
    <3>1. S[j] = S[j - 1] + w[j] /\ w[j] \in Nat \ {0}
      BY <1>1, <1>2 DEF Adds
    <3>2. S[j] <= S[n]
      BY <1>1, <2>1, AddsGrow
    <3> QED
      BY <1>5, <2>1, <3>1, <3>2
  <2>3. S[n] \in Nat \ {0}
    BY <2>2
  <2> HIDE DEF n
  <2>4. v \in 0..(S[n] - 1)
    BY <2>3, Division
  <2> HIDE DEF v
  <2> QED
    BY <2>3, <2>4
<1>7. k \in 1..n
  BY DEF cands
<1> HIDE DEF v, n
<1>8. FallsIn(S, v, k) => j = k
  BY <1>1, <1>2, <1>4, <1>6, <1>7, OneShare
<1> QED
  BY <1>1, <1>4, <1>8 DEF S, v

LEMMA ShareSuffices == ShareInv => FairShare
<1> SUFFICES ASSUME ShareInv, NEW s \in Services,
                    Len(share[s].picks) >= Cycle(s), NEW k \in 1..Len(share[s].cands)
             PROVE  PickedLast(s, Cycle(s), k) = ShareOf(s, k)
  BY DEF FairShare
<1> DEFINE cands == share[s].cands
           picks == share[s].picks
           l == Len(picks)
           t == Cycle(s)
           S == Shares(s)
           w == ShareTable(s)
           n == Len(cands)
<1>1. ShareFits(cands, share[s].mode, picks, rr[s])
  BY DEF ShareInv
<1>2. PICK first \in Nat :
        /\ first + l <= WordSize
        /\ \A j \in 1..l : TurnOf(cands, share[s].mode, first + j - 1, picks[j])
  BY <1>1 DEF ShareFits
<1>3. cands \in Seq(Instances) /\ l \in Nat /\ t <= l
  BY <1>1, LenProperties DEF ShareFits
<1>4. Adds(S, w, n) /\ t = S[n] /\ w[k] = ShareOf(s, k)
  BY <1>3, SharesAdd DEF Cycle, ShareTable
<1>5. k \in 1..n
  OBVIOUS
<1> HIDE DEF S, w, t, l
<1>6. /\ S[k - 1] \in 0..t /\ S[k] \in S[k - 1]..t /\ S[k] - S[k - 1] = w[k]
      /\ t \in Nat \ {0}
  <2>1. n \in Nat /\ \A a \in 0..n : S[a] \in Nat
    BY <1>4, AddsGrow
  <2>2. k \in 0..n /\ n \in 0..n /\ k - 1 \in 0..n /\ k <= n
    BY <1>5, <2>1
  <2>3. S[k] <= S[n]
    BY <1>4, <2>2, AddsGrow
  <2>4. S[k] = S[k - 1] + w[k] /\ w[k] \in Nat \ {0}
    BY <1>4, <1>5 DEF Adds
  <2>5. S[k - 1] \in Nat /\ S[k] \in Nat /\ S[n] \in Nat
    BY <2>1, <2>2
  <2> QED
    BY <1>4, <2>3, <2>4, <2>5
<1> DEFINE from == first + l - t
           H == Hits(from, t, S[k - 1], S[k])
           A == {j \in (l - t + 1)..l : picks[j] = k}
           g == [c \in H |-> c - first + 1]
<1>7. from \in Nat
  BY <1>3, <1>6
<1>8. IsFiniteSet(H) /\ Cardinality(H) = w[k]
  <2> HIDE DEF from
  <2> QED
    BY <1>6, <1>7, WindowCount
<1>9. ASSUME NEW j \in (l - t + 1)..l
      PROVE  /\ j \in Int /\ first + j - 1 \in from..(from + t - 1)
             /\ picks[j] = k <=> FallsIn(S, (first + j - 1) % t, k)
  <2>1. j \in 1..l /\ first + j - 1 \in Nat /\ first + j - 1 \in from..(from + t - 1) /\ j \in Int
    BY <1>3, <1>6
  <2>2. t <= WordSize
    BY <1>2, <1>3, <1>6, SelectionAssumption
  <2>3. TurnOf(cands, share[s].mode, first + j - 1, picks[j])
    BY <1>2, <2>1
  <2>4. picks[j] = k <=> FallsIn(Shares(s), (first + j - 1) % Cycle(s), k)
    <3>1. Cycle(s) <= WordSize
      BY <2>2 DEF t
    <3> DEFINE c == first + j - 1
    <3>2. /\ c \in Nat /\ TurnOf(share[s].cands, share[s].mode, c, picks[j])
          /\ share[s].cands \in Seq(Instances)
      BY <1>3, <2>1, <2>3
    <3> HIDE DEF c, picks
    <3>3. picks[j] = k <=> FallsIn(Shares(s), c % Cycle(s), k)
      BY <3>1, <3>2, TurnFallsIn
    <3> QED
      BY <3>3 DEF c
  <2> QED
    BY <2>1, <2>4 DEF t, S
<1>10. \A j \in (l - t + 1)..l : j \in A <=> first + j - 1 \in H
  BY <1>9 DEF Hits, FallsIn
<1>11. \A c \in H : /\ c \in Int /\ c - first + 1 \in (l - t + 1)..l
                    /\ first + (c - first + 1) - 1 = c
  BY <1>3, <1>6, <1>7 DEF Hits
<1>12. \A j \in A : j \in (l - t + 1)..l /\ j \in Int /\ (first + j - 1) - first + 1 = j
  BY <1>9
<1> HIDE DEF H, A, from
<1>13. g \in Bijection(H, A)
  <2>1. \A c \in H : g[c] \in A
    BY <1>10, <1>11
  <2>2. \A c, d \in H : g[c] = g[d] => c = d
    BY <1>11
  <2>3. \A j \in A : \E c \in H : g[c] = j
    <3> SUFFICES ASSUME NEW j \in A
                 PROVE  \E c \in H : g[c] = j
      OBVIOUS
    <3>1. first + j - 1 \in H /\ g[first + j - 1] = j
      BY <1>10, <1>12
    <3> QED
      BY <3>1
  <2>4. g \in [H -> A]
    BY <2>1
  <2> HIDE DEF g
  <2> QED
    BY <2>2, <2>3, <2>4 DEF Bijection, Injection, Surjection, IsInjective
<1>14. Cardinality(A) = w[k]
  BY <1>8, <1>13, FS_Bijection DEF ExistsBijection
<1>15. PickedLast(s, t, k) = Cardinality(A)
  BY DEF PickedLast, A, l
<1> QED
  BY <1>4, <1>14, <1>15 DEF t

\* Among as many successive selections as a cycle has, each candidate gets its share, for
\* all weights and however requests interleave, until the counter wraps (FairShare).
THEOREM SharesFair == SelectionSpec => []FairShare
BY ShareInvHolds, ShareSuffices, PTL

-----------------------------------------------------------------------------
(* Selection by the marks of the checker *)

\* What a request keeps in `stayed` is true of the marks now.
StayedFits ==
  /\ stayed = [r \in Requests |-> [marked |-> stayed[r].marked, clear |-> stayed[r].clear]]
  /\ \A r \in Requests : stayed[r].marked \subseteq unhealthy
                         /\ stayed[r].clear \cap unhealthy = {}

\* A request writes nothing the checker reads or writes.
LEMMA RequestsLeaveChecker ==
  ASSUME RequestStep
  PROVE  UNCHANGED healthVars
<1>1. UNCHANGED unhealthy
  <2>1. ASSUME NEW r, Select(r)
        PROVE  UNCHANGED unhealthy
    BY <2>1 DEF Select, Finish
  <2>2. ASSUME NEW r, LookUp(r)
        PROVE  UNCHANGED unhealthy
    BY <2>2 DEF LookUp
  <2>3. ASSUME NEW r, NEW s, NEW l, NEW m, Begin(r, s, l, m)
        PROVE  UNCHANGED unhealthy
    BY <2>3 DEF Begin
  <2> QED
    BY <2>1, <2>2, <2>3 DEF RequestStep, SelectionStep
<1> QED
  BY <1>1 DEF RequestStep, checkerOnly, worldVars, taskVars, healthVars

\* The requests leave the checker alone: what is proved of it holds beside them.
THEOREM CheckerUndisturbed == DrainSpec => HealthSpec
<1>1. DrainInit => HealthInit
  BY DEF DrainInit
<1>2. [DrainNext]_drainVars => [HealthNext]_healthVars
  BY RequestsLeaveChecker DEF DrainNext, CheckerStep, drainVars
<1> QED
  BY <1>1, <1>2, PTL DEF DrainSpec, HealthSpec

\* The checker moves one mark at a time, and the requests see their lists: selection over
\* the marks of the real checker is the selection of InstanceSelection.
LEMMA DrainStep ==
  ASSUME HealthTypeOK, StayedFits, [DrainNext]_drainVars
  PROVE  [SelectionNext]_selectionVars /\ StayedFits'
<1>1. CASE CheckerStep
  <2>1. /\ HealthNext /\ UNCHANGED selectionOnly
        /\ stayed' = [r \in Requests |-> [marked |-> stayed[r].marked \cap unhealthy',
                                          clear |-> stayed[r].clear \ unhealthy']]
    BY <1>1 DEF CheckerStep, Observe
  <2>2. StayedFits'
    BY <2>1 DEF StayedFits
  <2>3. unhealthy' = unhealthy \/ \E i \in Instances :
          unhealthy' = unhealthy \cup {i} \/ unhealthy' = unhealthy \ {i}
    <3>1. CASE Probe
      <4>1. Head(todoInsts) \in Instances
        BY <3>1, HeadTailProperties DEF Probe, HealthTypeOK
      <4> QED
        BY <3>1, <4>1 DEF Probe, record_success, record_failure
    <3>2. CASE ~Probe
      BY <2>1, <3>2 DEF HealthNext, Task, StartRound, ResolveRoute, SkipSeen, EndRound, World,
           ChangeInstance, ChangeListing, ReloadRoutes, statusVars, worldVars, taskVars
    <3> QED
      BY <3>1, <3>2
  <2>4. CASE unhealthy' = unhealthy
    <3>1. \A r \in Requests : stayed[r].marked \cap unhealthy = stayed[r].marked
                              /\ stayed[r].clear \ unhealthy = stayed[r].clear
      BY DEF StayedFits
    <3>2. stayed' = [r \in Requests |-> [marked |-> stayed[r].marked, clear |-> stayed[r].clear]]
      BY <2>1, <2>4, <3>1
    <3>3. stayed' = stayed
      BY <3>2 DEF StayedFits
    <3> QED
      BY <2>1, <2>2, <2>4, <3>3 DEF selectionOnly, selectionVars
  <2>5. CASE unhealthy' # unhealthy
    <3>1. PICK i \in Instances : unhealthy' = IF i \in unhealthy THEN unhealthy \ {i}
                                              ELSE unhealthy \cup {i}
      <4>1. PICK i \in Instances :
              unhealthy' = unhealthy \cup {i} \/ unhealthy' = unhealthy \ {i}
        BY <2>3, <2>5
      <4> QED
        BY <2>5, <4>1
    <3>2. MoveMark(i)
      BY <1>1, <2>1, <3>1 DEF CheckerStep, selectionOnly, MoveMark
    <3> QED
      BY <2>2, <3>2 DEF SelectionNext
  <2> QED
    BY <2>4, <2>5
<1>2. CASE RequestStep
  <2>1. UNCHANGED unhealthy
    BY <1>2, RequestsLeaveChecker DEF healthVars
  <2>2. PICK r \in Requests :
          \/ SelectionStep(r)
          \/ \E s \in Services, m \in Modes :
               listing[s] # <<>> /\ Begin(r, s, listing[s], m)
    BY <1>2 DEF RequestStep
  <2>3. CASE SelectionStep(r)
    <3>1. stayed' = stayed \/ stayed' = [stayed EXCEPT ![r] = [marked |-> {}, clear |-> {}]]
      BY <2>3 DEF SelectionStep, LookUp, Select, Finish
    <3>2. StayedFits'
      BY <2>1, <3>1 DEF StayedFits
    <3> QED
      BY <2>3, <3>2 DEF SelectionNext
  <2>4. ASSUME NEW s \in Services, NEW m \in Modes, listing[s] # <<>>,
               Begin(r, s, listing[s], m)
        PROVE  [SelectionNext]_selectionVars /\ StayedFits'
    <3>1. listing[s] \in Lists
      BY <2>4, DrainAssumption DEF HealthTypeOK
    <3>2. stayed' = [stayed EXCEPT ![r] = [marked |-> Entries(listing[s]) \cap unhealthy,
                                           clear |-> Entries(listing[s]) \ unhealthy]]
      BY <2>4 DEF Begin
    <3>3. StayedFits'
      BY <2>1, <3>2 DEF StayedFits
    <3> QED
      BY <2>4, <3>1, <3>3 DEF SelectionNext
  <2> QED
    BY <2>2, <2>3, <2>4
<1>3. CASE UNCHANGED drainVars
  BY <1>3 DEF drainVars, healthVars, selectionOnly, selectionVars, StayedFits
<1> QED
  BY <1>1, <1>2, <1>3 DEF DrainNext

\* Over the marks the checker really sets, requests select as InstanceSelection says
\* (ImplementsSelection) ...
THEOREM SelectionOverChecker == DrainSpec => ImplementsSelection
<1>1. DrainInit => SelectionInit /\ StayedFits
  BY DEF DrainInit, SelectionInit, StayedFits
<1>2. DrainSpec => []HealthTypeOK
  BY CheckerUndisturbed, HealthTypeCorrect, PTL
<1>3. HealthTypeOK /\ StayedFits /\ [DrainNext]_drainVars
        => [SelectionNext]_selectionVars /\ StayedFits'
  BY DrainStep
<1> QED
  BY <1>1, <1>2, <1>3, PTL DEF DrainSpec, ImplementsSelection, SelectionSpec

\* ... so no request goes to an instance the checker kept marked during the selection if
\* another one of its list stayed unmarked (AvoidsMarked), and shares stay fair (FairShare).
THEOREM PromisesOverChecker == DrainSpec => AvoidsMarked /\ []FairShare
BY SelectionOverChecker, MarkedAvoided, SharesFair DEF ImplementsSelection
=============================================================================
