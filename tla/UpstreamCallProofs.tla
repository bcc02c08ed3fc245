------------------------- MODULE UpstreamCallProofs -------------------------
(***************************************************************************)
(* Proofs about UpstreamCall, for every set of upstreams and requests,     *)
(* every threshold, recovery time, clock skew and max_retries.             *)
(***************************************************************************)
EXTENDS UpstreamCall, SequenceTheorems, TLAPS

LEMMA CapIsNat == ElapsedCap \in Nat /\ RecoverySecs <= ElapsedCap
BY BreakerAssumption DEF ElapsedCap

LEMMA RetriesAreNat == \A n \in RetryChoices \cup {0} : n \in Nat
BY CallAssumption

\* What Window appends and what it keeps: it slides over the outcomes.
LEMMA WindowProperties ==
  ASSUME NEW u \in Upstreams, NEW how \in Outcomes,
         recent[u] \in Seq(Outcomes), Len(recent[u]) <= Threshold
  PROVE  LET w == Window(u, how) n == Len(recent[u])
         IN /\ w \in Seq(Outcomes)
            /\ Len(w) = IF n < Threshold THEN n + 1 ELSE Threshold
            /\ Threshold > 0 => w[Len(w)] = how
            /\ \A i \in 1..(Len(w) - 1) :
                 w[i] = IF n < Threshold THEN recent[u][i] ELSE recent[u][i + 1]
<1> DEFINE s == recent[u] n == Len(s) w == Window(u, how)
<1>0. s \in Seq(Outcomes) /\ n \in Nat /\ Threshold \in Nat /\ n <= Threshold
  BY BreakerAssumption, LenProperties
<1>1. CASE n < Threshold
  <2>1. w = Append(s, how)
    BY <1>1 DEF Window
  <2> QED BY <1>0, <1>1, <2>1
<1>2. CASE n = Threshold /\ Threshold = 0
  <2>1. w = << >>
    BY <1>2 DEF Window
  <2> QED BY <1>0, <1>2, <2>1
<1>3. CASE n = Threshold /\ Threshold > 0
  <2>1. w = Append(Tail(s), how)
    BY <1>0, <1>3 DEF Window
  <2>2. /\ Tail(s) \in Seq(Outcomes)
        /\ Len(Tail(s)) = n - 1
        /\ \A i \in 1..(n - 1) : Tail(s)[i] = s[i + 1]
    BY <1>0, <1>3
  <2>3. /\ w \in Seq(Outcomes)
        /\ Len(w) = n
        /\ w[n] = how
        /\ \A i \in 1..(n - 1) : w[i] = Tail(s)[i]
    BY <1>0, <1>3, <2>1, <2>2
  <2> QED BY <1>0, <1>3, <2>2, <2>3
<1> QED BY <1>0, <1>1, <1>2, <1>3

-----------------------------------------------------------------------------
(* Type correctness *)

LEMMA InitType == Init => TypeOK
BY BreakerAssumption, CallAssumption, CapIsNat
   DEF Init, BreakerInit, CallInit, TypeOK, BreakerTypeOK, InFlight, Phases, Results

\* Noting an outcome keeps the types of the breaker and of the history.
LEMMA NoteSuccessType ==
  ASSUME TypeOK, NEW r \in Requests, NEW u \in Upstreams, NoteSuccess(r, u)
  PROVE  /\ BreakerTypeOK'
         /\ recent' \in [Upstreams -> Seq(Outcomes)]
         /\ \A v \in Upstreams : Len(recent'[v]) <= Threshold
         /\ noted' \in [Requests -> Nat]
         /\ quiet' \in [Upstreams -> (-skew')..ElapsedCap]
         /\ probe' \in [Requests -> BOOLEAN]
<1>1. BreakerTypeOK'
  BY BreakerAssumption, CapIsNat
     DEF TypeOK, BreakerTypeOK, NoteSuccess, record_success
<1>2. /\ recent' \in [Upstreams -> Seq(Outcomes)]
      /\ \A v \in Upstreams : Len(recent'[v]) <= Threshold
  <2>1. "ok" \in Outcomes
    BY DEF Outcomes
  <2>2. /\ Window(u, "ok") \in Seq(Outcomes)
        /\ Len(Window(u, "ok")) <= Threshold
    BY <2>1, WindowProperties, BreakerAssumption, LenProperties DEF TypeOK
  <2> QED BY <2>2 DEF TypeOK, NoteSuccess
<1>3. /\ noted' \in [Requests -> Nat]
      /\ quiet' \in [Upstreams -> (-skew')..ElapsedCap]
      /\ probe' \in [Requests -> BOOLEAN]
  BY DEF TypeOK, NoteSuccess, record_success
<1> QED BY <1>1, <1>2, <1>3

LEMMA NoteFailureType ==
  ASSUME TypeOK, NEW r \in Requests, NEW u \in Upstreams, NEW how \in Outcomes,
         NoteFailure(r, u, how)
  PROVE  /\ BreakerTypeOK'
         /\ recent' \in [Upstreams -> Seq(Outcomes)]
         /\ \A v \in Upstreams : Len(recent'[v]) <= Threshold
         /\ noted' \in [Requests -> Nat]
         /\ quiet' \in [Upstreams -> (-skew')..ElapsedCap]
         /\ probe' \in [Requests -> BOOLEAN]
<1>1. BreakerTypeOK'
  BY BreakerAssumption, CapIsNat
     DEF TypeOK, BreakerTypeOK, NoteFailure, record_failure
<1>2. /\ recent' \in [Upstreams -> Seq(Outcomes)]
      /\ \A v \in Upstreams : Len(recent'[v]) <= Threshold
  <2>1. /\ Window(u, how) \in Seq(Outcomes)
        /\ Len(Window(u, how)) <= Threshold
    BY WindowProperties, BreakerAssumption, LenProperties DEF TypeOK
  <2> QED BY <2>1 DEF TypeOK, NoteFailure
<1>3. /\ noted' \in [Requests -> Nat]
      /\ quiet' \in [Upstreams -> (-skew')..ElapsedCap]
      /\ probe' \in [Requests -> BOOLEAN]
  BY BreakerAssumption, CapIsNat
     DEF TypeOK, BreakerTypeOK, NoteFailure, record_failure
<1> QED BY <1>1, <1>2, <1>3

LEMMA NextType == TypeOK /\ [Next]_vars => TypeOK'
<1> SUFFICES ASSUME TypeOK, [Next]_vars PROVE TypeOK'
  OBVIOUS
<1> USE BreakerAssumption, CallAssumption, CapIsNat
<1> USE DEF InFlight, Phases, Results
<1>1. ASSUME NEW r \in Requests, NEW u \in Upstreams, NEW k \in {"http", "ws"},
             Arrive(r, u, k)
      PROVE  TypeOK'
  BY <1>1 DEF Arrive, TypeOK, BreakerTypeOK, breakerVars
<1>2. ASSUME NEW r \in Requests, Reject(r)
      PROVE  TypeOK'
  BY <1>2 DEF Reject, End, TypeOK, BreakerTypeOK, breakerVars, historyVars
<1>3. ASSUME NEW r \in Requests, NEW max \in RetryChoices, AdmitHttp(r, max)
      PROVE  TypeOK'
  <2>1. Tripped(target[r]) \in BOOLEAN
    BY DEF Tripped
  <2>2. probe' \in [Requests -> BOOLEAN]
    BY <1>3, <2>1 DEF AdmitHttp, Pass, TypeOK
  <2>3. attempt[r] = 0
    BY <1>3 DEF AdmitHttp, TypeOK
  <2> QED BY <1>3, <2>2 DEF AdmitHttp, Pass, TypeOK, BreakerTypeOK, breakerVars
<1>4. ASSUME NEW r \in Requests, AdmitWs(r)
      PROVE  TypeOK'
  <2>1. Tripped(target[r]) \in BOOLEAN
    BY DEF Tripped
  <2>2. probe' \in [Requests -> BOOLEAN]
    BY <1>4, <2>1 DEF AdmitWs, Pass, TypeOK
  <2> QED BY <1>4, <2>2 DEF AdmitWs, Pass, TypeOK, BreakerTypeOK, breakerVars
<1>5. ASSUME NEW r \in Requests, BodyRead(r)
      PROVE  TypeOK'
  BY <1>5 DEF BodyRead, TypeOK, BreakerTypeOK, breakerVars, historyVars
<1>6. ASSUME NEW r \in Requests, BodyFail(r)
      PROVE  TypeOK'
  <2>1. target[r] \in Upstreams /\ "body_error" \in Outcomes
    BY <1>6 DEF BodyFail, TypeOK, Outcomes
  <2>2. CASE retries[r] = 0
    <3>1. NoteFailure(r, target[r], "body_error")
      BY <1>6, <2>2 DEF BodyFail
    <3> HIDE DEF InFlight
    <3> QED BY <1>6, <2>1, <3>1, NoteFailureType DEF BodyFail, End, TypeOK, InFlight
  <2>3. CASE retries[r] # 0
    BY <1>6, <2>3 DEF BodyFail, End, TypeOK, BreakerTypeOK, breakerVars, historyVars
  <2> QED BY <2>2, <2>3
<1>7. ASSUME NEW r \in Requests, SendOk(r)
      PROVE  TypeOK'
  <2>1. target[r] \in Upstreams /\ NoteSuccess(r, target[r])
    BY <1>7 DEF SendOk, TypeOK
  <2> QED BY <1>7, <2>1, NoteSuccessType DEF SendOk, End, TypeOK
<1>8. ASSUME NEW r \in Requests, SendFail(r)
      PROVE  TypeOK'
  <2>1. /\ target[r] \in Upstreams /\ "upstream_error" \in Outcomes
        /\ NoteFailure(r, target[r], "upstream_error")
    BY <1>8 DEF SendFail, TypeOK, Outcomes
  <2>2. CASE attempt[r] < retries[r]
    <3>1. attempt \in [Requests -> Nat] /\ retries[r] \in Nat
      <4>1. retries[r] \in RetryChoices \cup {0}
        BY DEF TypeOK
      <4> QED BY <4>1, RetriesAreNat DEF TypeOK
    <3>2. /\ attempt' \in [Requests -> Nat]
          /\ attempt'[r] <= retries[r]
      BY <1>8, <2>2, <3>1 DEF SendFail, TypeOK
    <3>3. \A q \in Requests \ {r} : attempt'[q] = attempt[q]
      BY <1>8, <2>2 DEF SendFail, TypeOK
    <3>4. \A q \in Requests : attempt'[q] <= retries[q]
      BY <3>2, <3>3 DEF TypeOK
    <3> QED BY <1>8, <2>1, <2>2, <3>2, <3>3, <3>4, NoteFailureType DEF SendFail, TypeOK
  <2>3. CASE ~(attempt[r] < retries[r])
    BY <1>8, <2>1, <2>3, NoteFailureType DEF SendFail, End, TypeOK
  <2> QED BY <2>2, <2>3
<1>9. ASSUME NEW r \in Requests, NEW how \in {"ok", "upstream_error"}, WsDone(r, how)
      PROVE  TypeOK'
  BY <1>9 DEF WsDone, End, TypeOK, BreakerTypeOK, breakerVars, historyVars
<1>10. ASSUME NEW r \in Requests, Drop(r)
       PROVE  TypeOK'
  BY <1>10 DEF Drop, End, TypeOK, BreakerTypeOK, breakerVars, historyVars
<1>11. CASE ClockTick
  BY <1>11 DEF ClockTick, Tick, TypeOK, BreakerTypeOK, callVars
<1>12. CASE ClockStepBack
  BY <1>12 DEF ClockStepBack, StepBack, TypeOK, BreakerTypeOK, callVars
<1>13. CASE UNCHANGED vars
  BY <1>13 DEF vars, TypeOK, BreakerTypeOK
<1> QED BY <1>1, <1>2, <1>3, <1>4, <1>5, <1>6, <1>7, <1>8, <1>9, <1>10, <1>11,
           <1>12, <1>13 DEF Next, Call

\* Every variable keeps its type, and no request makes more than
\* max_retries + 1 attempts.
THEOREM TypeCorrect == Spec => []TypeOK
BY InitType, NextType, PTL DEF Spec

-----------------------------------------------------------------------------
(* The counter and the stamp against the history *)

\* The counter is the length of the trailing run of failures in the window.
TrailingRun(u) ==
  /\ failures[u] <= Len(recent[u])
  /\ \A i \in (Len(recent[u]) - failures[u] + 1)..Len(recent[u]) : recent[u][i] # "ok"
  /\ failures[u] < Len(recent[u]) => recent[u][Len(recent[u]) - failures[u]] = "ok"

StampIsLatest(u) == Tripped(u) => elapsed[u] = quiet[u]

HistoryInv == \A u \in Upstreams : TrailingRun(u) /\ StampIsLatest(u)

LEMMA HistoryInvSuffices == TypeOK /\ HistoryInv => CounterMatchesHistory
<1> SUFFICES ASSUME TypeOK, HistoryInv, NEW u \in Upstreams
             PROVE  /\ Tripped(u) <=> AllFailed(recent[u])
                    /\ Tripped(u) => elapsed[u] = quiet[u]
  BY DEF CounterMatchesHistory
<1>1. /\ failures[u] \in 0..Threshold
      /\ Len(recent[u]) \in Nat /\ Len(recent[u]) <= Threshold
      /\ Threshold \in Nat
  BY BreakerAssumption, LenProperties DEF TypeOK, BreakerTypeOK
<1>2. TrailingRun(u) /\ StampIsLatest(u)
  BY DEF HistoryInv
<1>3. ASSUME Tripped(u) PROVE AllFailed(recent[u])
  BY <1>1, <1>2, <1>3 DEF Tripped, TrailingRun, AllFailed
<1>4. ASSUME AllFailed(recent[u]) PROVE Tripped(u)
  <2>1. ~(failures[u] < Len(recent[u]))
    BY <1>1, <1>2, <1>4 DEF TrailingRun, AllFailed
  <2> QED BY <1>1, <1>4, <2>1 DEF Tripped, AllFailed
<1> QED BY <1>2, <1>3, <1>4 DEF StampIsLatest

\* What a step has to say of one upstream, when the others keep their state.
LEMMA OneUpstream ==
  ASSUME HistoryInv, NEW u \in Upstreams,
         \A v \in Upstreams \ {u} :
           /\ failures'[v] = failures[v] /\ elapsed'[v] = elapsed[v]
           /\ recent'[v] = recent[v] /\ quiet'[v] = quiet[v],
         TrailingRun(u)', StampIsLatest(u)'
  PROVE  HistoryInv'
BY DEF HistoryInv, TrailingRun, StampIsLatest, Tripped

LEMMA SuccessKeepsHistory ==
  ASSUME TypeOK, HistoryInv, NEW r \in Requests, NEW u \in Upstreams,
         NoteSuccess(r, u)
  PROVE  HistoryInv'
<1> DEFINE w == Window(u, "ok")
<1>1. /\ failures[u] \in 0..Threshold /\ Threshold \in Nat
      /\ recent[u] \in Seq(Outcomes) /\ Len(recent[u]) <= Threshold
      /\ Len(recent[u]) \in Nat
  BY BreakerAssumption, LenProperties DEF TypeOK, BreakerTypeOK
<1>2. /\ w \in Seq(Outcomes)
      /\ Len(w) = IF Len(recent[u]) < Threshold THEN Len(recent[u]) + 1 ELSE Threshold
      /\ Threshold > 0 => w[Len(w)] = "ok"
  BY <1>1, WindowProperties DEF Outcomes
<1>3. recent'[u] = w /\ failures'[u] = 0
  BY <1>1 DEF NoteSuccess, record_success, TypeOK, BreakerTypeOK
<1>4. TrailingRun(u)'
  BY <1>1, <1>2, <1>3 DEF TrailingRun
<1>5. StampIsLatest(u)'
  BY <1>1, <1>3 DEF StampIsLatest, Tripped
<1>6. \A v \in Upstreams \ {u} :
        /\ failures'[v] = failures[v] /\ elapsed'[v] = elapsed[v]
        /\ recent'[v] = recent[v] /\ quiet'[v] = quiet[v]
  BY DEF NoteSuccess, record_success, TypeOK, BreakerTypeOK
<1> QED BY <1>4, <1>5, <1>6, OneUpstream

LEMMA FailureKeepsHistory ==
  ASSUME TypeOK, HistoryInv, NEW r \in Requests, NEW u \in Upstreams,
         NEW how \in Outcomes, how # "ok", NoteFailure(r, u, how)
  PROVE  HistoryInv'
<1> DEFINE w == Window(u, how) n == Len(recent[u])
<1>1. /\ failures[u] \in 0..Threshold /\ Threshold \in Nat
      /\ recent[u] \in Seq(Outcomes) /\ n <= Threshold
      /\ n \in Nat
  BY BreakerAssumption, LenProperties DEF TypeOK, BreakerTypeOK
<1>2. /\ w \in Seq(Outcomes)
      /\ Len(w) = IF n < Threshold THEN n + 1 ELSE Threshold
      /\ Threshold > 0 => w[Len(w)] = how
      /\ \A i \in 1..(Len(w) - 1) :
           w[i] = IF n < Threshold THEN recent[u][i] ELSE recent[u][i + 1]
  BY <1>1, WindowProperties
<1>3. /\ recent'[u] = w
      /\ failures'[u] = IF failures[u] < Threshold THEN failures[u] + 1 ELSE failures[u]
  BY <1>1 DEF NoteFailure, record_failure, TypeOK, BreakerTypeOK
<1>4. TrailingRun(u)
  BY DEF HistoryInv
<1>5. TrailingRun(u)'
  <2> DEFINE f == failures[u] g == IF f < Threshold THEN f + 1 ELSE f
  <2>1. /\ f <= n
        /\ \A i \in (n - f + 1)..n : recent[u][i] # "ok"
        /\ f < n => recent[u][n - f] = "ok"
    BY <1>4 DEF TrailingRun
  <2>2. /\ g <= Len(w)
        /\ \A i \in (Len(w) - g + 1)..Len(w) : w[i] # "ok"
        /\ g < Len(w) => w[Len(w) - g] = "ok"
    <3> HIDE DEF w
    <3>1. CASE n < Threshold
      <4>1. Len(w) = n + 1 /\ g = f + 1 /\ f \in Nat
        BY <1>1, <1>2, <2>1, <3>1
      <4>2. \A i \in 1..n : w[i] = recent[u][i]
        BY <1>1, <1>2, <3>1, <4>1
      <4>3. w[n + 1] # "ok"
        BY <1>1, <1>2, <3>1, <4>1
      <4> HIDE DEF n, f, g
      <4>4. n \in Nat
        BY <1>1 DEF n
      <4>5. ASSUME NEW i \in (n - f + 1)..(n + 1) PROVE w[i] # "ok"
        <5>1. CASE i = n + 1
          BY <4>3, <5>1
        <5>2. CASE i # n + 1
          <6>1. i \in (n - f + 1)..n /\ i \in 1..n
            BY <2>1, <4>1, <4>4, <5>2
          <6> QED BY <2>1, <4>2, <6>1
        <5> QED BY <5>1, <5>2
      <4>6. ASSUME f < n PROVE w[n - f] = "ok"
        <5>1. n - f \in 1..n
          BY <4>1, <4>4, <4>6
        <5> QED BY <2>1, <4>2, <4>6, <5>1
      <4>7. /\ Len(w) - g + 1 = n - f + 1 /\ Len(w) - g = n - f
            /\ g <= Len(w) /\ (g < Len(w) <=> f < n)
        BY <2>1, <4>1, <4>4
      <4> QED BY <4>1, <4>5, <4>6, <4>7
    <3>2. CASE n = Threshold
      <4>1. Len(w) = n /\ f \in Nat /\ f <= n /\ g = IF f < n THEN f + 1 ELSE f
        BY <1>1, <1>2, <2>1, <3>2
      <4>2. \A i \in 1..(n - 1) : w[i] = recent[u][i + 1]
        BY <1>1, <1>2, <3>2, <4>1
      <4>3. n > 0 => w[n] # "ok"
        BY <1>1, <1>2, <3>2, <4>1
      <4> HIDE DEF n, f, g
      <4>4. n \in Nat
        BY <1>1 DEF n
      <4>5. ASSUME NEW i \in (n - g + 1)..n PROVE w[i] # "ok"
        <5>1. CASE i = n
          BY <4>1, <4>3, <4>4, <5>1
        <5>2. CASE i # n
          <6>1. i + 1 \in (n - f + 1)..n /\ i \in 1..(n - 1)
            BY <4>1, <4>4, <5>2
          <6> QED BY <2>1, <4>2, <6>1
        <5> QED BY <5>1, <5>2
      <4>6. ASSUME g < n PROVE w[n - g] = "ok"
        <5>1. n - g \in 1..(n - 1) /\ f < n /\ n - g + 1 = n - f
          BY <4>1, <4>4, <4>6
        <5> QED BY <2>1, <4>2, <5>1
      <4>7. g <= n
        BY <4>1, <4>4
      <4> QED BY <4>1, <4>5, <4>6, <4>7
    <3> QED BY <1>1, <3>1, <3>2
  <2> QED BY <1>3, <2>2 DEF TrailingRun
<1>6. StampIsLatest(u)'
  <2>1. ASSUME Tripped(u)' PROVE elapsed'[u] = 0 /\ quiet'[u] = 0
    BY <1>1, <1>3, <2>1 DEF Tripped, NoteFailure, record_failure, TypeOK, BreakerTypeOK
  <2> QED BY <2>1 DEF StampIsLatest
<1>7. \A v \in Upstreams \ {u} :
        /\ failures'[v] = failures[v] /\ elapsed'[v] = elapsed[v]
        /\ recent'[v] = recent[v] /\ quiet'[v] = quiet[v]
  BY DEF NoteFailure, record_failure, TypeOK, BreakerTypeOK
<1> QED BY <1>5, <1>6, <1>7, OneUpstream

LEMMA InitHistory == Init => HistoryInv
<1> SUFFICES ASSUME Init, NEW u \in Upstreams
             PROVE  TrailingRun(u) /\ StampIsLatest(u)
  BY DEF HistoryInv
<1>1. failures[u] = 0 /\ recent[u] = << >> /\ Len(<< >>) = 0
  BY DEF Init, BreakerInit, CallInit
<1> QED BY <1>1, BreakerAssumption DEF TrailingRun, StampIsLatest, Tripped

LEMMA NextHistory == TypeOK /\ HistoryInv /\ [Next]_vars => HistoryInv'
<1> SUFFICES ASSUME TypeOK, HistoryInv, [Next]_vars PROVE HistoryInv'
  OBVIOUS
<1>1. CASE UNCHANGED <<failures, elapsed, recent, quiet>>
  BY <1>1 DEF HistoryInv, TrailingRun, StampIsLatest, Tripped
<1>2. ASSUME NEW r \in Requests, SendOk(r)
      PROVE  HistoryInv'
  BY <1>2, SuccessKeepsHistory DEF SendOk, TypeOK, InFlight
<1>3. ASSUME NEW r \in Requests, SendFail(r)
      PROVE  HistoryInv'
  <2>1. "upstream_error" \in Outcomes /\ target[r] \in Upstreams
    BY <1>3 DEF SendFail, TypeOK, InFlight, Outcomes
  <2> QED BY <1>3, <2>1, FailureKeepsHistory DEF SendFail
<1>4. ASSUME NEW r \in Requests, BodyFail(r)
      PROVE  HistoryInv'
  <2>1. "body_error" \in Outcomes /\ target[r] \in Upstreams
    BY <1>4 DEF BodyFail, TypeOK, InFlight, Outcomes
  <2>2. CASE retries[r] = 0
    BY <1>4, <2>1, <2>2, FailureKeepsHistory DEF BodyFail
  <2>3. CASE retries[r] # 0
    BY <1>1, <1>4, <2>3 DEF BodyFail, breakerVars, historyVars
  <2> QED BY <2>2, <2>3
<1>5. CASE ClockTick
  BY <1>5 DEF ClockTick, Tick, HistoryInv, TrailingRun, StampIsLatest, Tripped
<1>6. CASE ClockStepBack
  BY <1>6 DEF ClockStepBack, StepBack, HistoryInv, TrailingRun, StampIsLatest, Tripped
<1>7. ASSUME NEW r \in Requests,
             \/ Reject(r) \/ AdmitWs(r) \/ BodyRead(r) \/ Drop(r)
             \/ \E max \in RetryChoices : AdmitHttp(r, max)
             \/ \E how \in {"ok", "upstream_error"} : WsDone(r, how)
             \/ \E u \in Upstreams, k \in {"http", "ws"} : Arrive(r, u, k)
      PROVE  HistoryInv'
  BY <1>1, <1>7 DEF Reject, AdmitWs, BodyRead, Drop, AdmitHttp, WsDone, Arrive, Pass,
                    breakerVars, historyVars
<1>8. CASE UNCHANGED vars
  BY <1>1, <1>8 DEF vars
<1> QED BY <1>2, <1>3, <1>4, <1>5, <1>6, <1>7, <1>8 DEF Next, Call

\* The breaker's counter and stamp agree with the history of the calls.
THEOREM HistoryCorrect == Spec => []CounterMatchesHistory
<1>1. Init => TypeOK /\ HistoryInv
  BY InitType, InitHistory
<1>2. TypeOK /\ HistoryInv /\ [Next]_vars => TypeOK' /\ HistoryInv'
  BY NextType, NextHistory
<1>3. TypeOK /\ HistoryInv => CounterMatchesHistory
  BY HistoryInvSuffices
<1> QED BY <1>1, <1>2, <1>3, PTL DEF Spec

-----------------------------------------------------------------------------
(* What the check lets through and what it refuses *)

LEMMA PassMeansAllow ==
  ASSUME TypeOK, Next, NEW r \in Requests, Passes(r)
  PROVE  allow(target[r])
<1>1. ASSUME NEW q \in Requests, Call(q) PROVE allow(target[r])
  <2>1. r = q
    BY <1>1 DEF Passes, Call, Reject, AdmitHttp, AdmitWs, BodyRead, BodyFail, SendOk,
                SendFail, WsDone, Drop, End, TypeOK
  <2> QED BY <1>1, <2>1 DEF Passes, Call, Reject, AdmitHttp, AdmitWs, BodyRead, BodyFail,
                SendOk, SendFail, WsDone, Drop, End, Pass, TypeOK, InFlight
<1>2. ASSUME NEW q \in Requests, NEW u \in Upstreams, NEW k \in {"http", "ws"},
             Arrive(q, u, k)
      PROVE  FALSE
  BY <1>2 DEF Passes, Arrive, TypeOK
<1>3. CASE ClockTick \/ ClockStepBack
  BY <1>3 DEF Passes, ClockTick, ClockStepBack, callVars
<1> QED BY <1>1, <1>2, <1>3 DEF Next

LEMMA RefusalMeansShut ==
  ASSUME TypeOK, Next, NEW r \in Requests, Refused(r)
  PROVE  ~allow(target[r])
<1>1. ASSUME NEW q \in Requests, Call(q) PROVE ~allow(target[r])
  <2>1. r = q
    BY <1>1 DEF Refused, Call, Reject, AdmitHttp, AdmitWs, BodyRead, BodyFail, SendOk,
                SendFail, WsDone, Drop, End, TypeOK
  <2> QED BY <1>1, <2>1 DEF Refused, Call, Reject, AdmitHttp, AdmitWs, BodyRead, BodyFail,
                SendOk, SendFail, WsDone, Drop, End, TypeOK, InFlight
<1>2. ASSUME NEW q \in Requests, NEW u \in Upstreams, NEW k \in {"http", "ws"},
             Arrive(q, u, k)
      PROVE  FALSE
  BY <1>2 DEF Refused, Arrive, TypeOK
<1>3. CASE ClockTick \/ ClockStepBack
  BY <1>3 DEF Refused, ClockTick, ClockStepBack, callVars
<1> QED BY <1>1, <1>2, <1>3 DEF Next

\* allow, read against the history: it is false exactly inside the recovery
\* time of a full run of failures.
LEMMA AllowMatchesHistory ==
  ASSUME TypeOK, CounterMatchesHistory, NEW u \in Upstreams
  PROVE  ~allow(u) <=> AllFailed(recent[u]) /\ Cooling(u)
<1>1. /\ failures[u] \in 0..Threshold /\ Threshold \in Nat /\ RecoverySecs \in Nat
      /\ elapsed[u] \in Int /\ quiet[u] \in Int
  BY BreakerAssumption, CapIsNat DEF TypeOK, BreakerTypeOK
<1>2. /\ Tripped(u) <=> AllFailed(recent[u])
      /\ Tripped(u) => elapsed[u] = quiet[u]
  BY DEF CounterMatchesHistory
<1>3. ~allow(u) <=> Tripped(u) /\ SinceOpen(u) < RecoverySecs
  BY <1>1 DEF allow, Tripped, SinceOpen
<1>4. Tripped(u) => (SinceOpen(u) < RecoverySecs <=> Cooling(u))
  BY <1>1, <1>2 DEF SinceOpen, Cooling
<1> QED BY <1>2, <1>3, <1>4

LEMMA RoutedTarget ==
  ASSUME TypeOK, NEW r \in Requests, pc[r] = "routed"
  PROVE  target[r] \in Upstreams
BY DEF TypeOK

\* No request passes inside the recovery time of a run of failures.
THEOREM OpenRefusesAlways == Spec => OpenRefuses
<1>1. TypeOK /\ CounterMatchesHistory /\ [Next]_vars
        => [\A r \in Requests :
              Passes(r) => ~(AllFailed(recent[target[r]]) /\ Cooling(target[r]))]_vars
  BY PassMeansAllow, AllowMatchesHistory, RoutedTarget DEF Passes
<1> QED BY <1>1, TypeCorrect, HistoryCorrect, PTL DEF Spec, OpenRefuses

\* No request is refused for any other reason.
THEOREM RefusesOnlyThen == Spec => RefusesOnlyWhenOpen
<1>1. TypeOK /\ CounterMatchesHistory /\ [Next]_vars
        => [\A r \in Requests :
              Refused(r) => AllFailed(recent[target[r]]) /\ Cooling(target[r])]_vars
  BY RefusalMeansShut, AllowMatchesHistory, RoutedTarget DEF Refused
<1> QED BY <1>1, TypeCorrect, HistoryCorrect, PTL DEF Spec, RefusesOnlyWhenOpen

-----------------------------------------------------------------------------
(* The retry loop *)

\* A request that has not ended has no result, and its phase fits its kind.
PhasesMatch(r) ==
  /\ pc[r] # "done" => result[r] = "none"
  /\ pc[r] \in {"reading", "sending"} => kind[r] = "http"
  /\ pc[r] = "connecting" => kind[r] = "ws"

\* AttemptsNotedOnce, for one request.
Counted(r) ==
  /\ pc[r] = "sending" => noted[r] = attempt[r]
  /\ pc[r] \in {"routed", "reading", "connecting"} => noted[r] = 0
  /\ result[r] = "rejected" => noted[r] = 0
  /\ result[r] = "ok" /\ kind[r] = "http" => noted[r] = attempt[r] + 1
  /\ result[r] = "upstream_error" /\ kind[r] = "http" =>
       attempt[r] = retries[r] /\ noted[r] = retries[r] + 1
  /\ result[r] = "body_error" => noted[r] = (IF retries[r] = 0 THEN 1 ELSE 0)
  /\ kind[r] = "ws" => noted[r] = 0

RetryInv == \A r \in Requests : PhasesMatch(r) /\ Counted(r)

LEMMA InitRetry == Init => RetryInv
BY DEF Init, CallInit, RetryInv, PhasesMatch, Counted

\* A step of one request leaves the others as they are.
LEMMA OneRequest ==
  ASSUME RetryInv, NEW r \in Requests,
         \A q \in Requests \ {r} :
           /\ pc'[q] = pc[q] /\ kind'[q] = kind[q] /\ retries'[q] = retries[q]
           /\ attempt'[q] = attempt[q] /\ result'[q] = result[q] /\ noted'[q] = noted[q],
         PhasesMatch(r)', Counted(r)'
  PROVE  RetryInv'
BY DEF RetryInv, PhasesMatch, Counted

LEMMA CallKeepsOthers ==
  ASSUME TypeOK, NEW r \in Requests,
         Call(r) \/ \E u \in Upstreams, k \in {"http", "ws"} : Arrive(r, u, k)
  PROVE  \A q \in Requests \ {r} :
           /\ pc'[q] = pc[q] /\ kind'[q] = kind[q] /\ retries'[q] = retries[q]
           /\ attempt'[q] = attempt[q] /\ result'[q] = result[q] /\ noted'[q] = noted[q]
<1> SUFFICES ASSUME NEW q \in Requests \ {r}
             PROVE  /\ pc'[q] = pc[q] /\ kind'[q] = kind[q] /\ retries'[q] = retries[q]
                    /\ attempt'[q] = attempt[q] /\ result'[q] = result[q]
                    /\ noted'[q] = noted[q]
  OBVIOUS
<1>1. CASE \E u \in Upstreams, k \in {"http", "ws"} : Arrive(r, u, k)
  BY <1>1 DEF Arrive, TypeOK
<1>2. CASE Reject(r) \/ AdmitWs(r) \/ BodyRead(r) \/ Drop(r)
  BY <1>2 DEF Reject, AdmitWs, Pass, BodyRead, Drop, End, historyVars, TypeOK
<1>3. CASE \E max \in RetryChoices : AdmitHttp(r, max)
  BY <1>3 DEF AdmitHttp, Pass, TypeOK
<1>4. CASE \E how \in {"ok", "upstream_error"} : WsDone(r, how)
  BY <1>4 DEF WsDone, End, historyVars, TypeOK
<1>5. CASE SendOk(r)
  BY <1>5 DEF SendOk, End, NoteSuccess, TypeOK
<1>6. CASE SendFail(r)
  BY <1>6 DEF SendFail, End, NoteFailure, TypeOK
<1>7. CASE BodyFail(r)
  BY <1>7 DEF BodyFail, End, NoteFailure, historyVars, TypeOK
<1> QED BY <1>1, <1>2, <1>3, <1>4, <1>5, <1>6, <1>7 DEF Call

LEMMA NextRetry == TypeOK /\ RetryInv /\ [Next]_vars => RetryInv'
<1> SUFFICES ASSUME TypeOK, RetryInv, [Next]_vars PROVE RetryInv'
  OBVIOUS
<1>1. ASSUME NEW r \in Requests, Call(r) PROVE RetryInv'
  <2>1. PhasesMatch(r) /\ Counted(r) /\ attempt[r] \in Nat /\ noted[r] \in Nat
    BY DEF RetryInv, TypeOK
  <2>2. CASE Reject(r)
    <3>1. PhasesMatch(r)' /\ Counted(r)'
      BY <2>1, <2>2 DEF Reject, End, PhasesMatch, Counted, historyVars, TypeOK
    <3> QED BY <1>1, <3>1, CallKeepsOthers, OneRequest
  <2>3. CASE \E max \in RetryChoices : AdmitHttp(r, max)
    <3>1. PhasesMatch(r)' /\ Counted(r)'
      BY <2>1, <2>3 DEF AdmitHttp, Pass, PhasesMatch, Counted, TypeOK
    <3> QED BY <1>1, <3>1, CallKeepsOthers, OneRequest
  <2>4. CASE AdmitWs(r)
    <3>1. PhasesMatch(r)' /\ Counted(r)'
      BY <2>1, <2>4 DEF AdmitWs, Pass, PhasesMatch, Counted, TypeOK
    <3> QED BY <1>1, <3>1, CallKeepsOthers, OneRequest
  <2>5. CASE BodyRead(r)
    <3>1. PhasesMatch(r)' /\ Counted(r)'
      BY <2>1, <2>5 DEF BodyRead, PhasesMatch, Counted, historyVars, TypeOK
    <3> QED BY <1>1, <3>1, CallKeepsOthers, OneRequest
  <2>6. CASE BodyFail(r)
    <3>1. PhasesMatch(r)' /\ Counted(r)'
      BY <2>1, <2>6 DEF BodyFail, End, NoteFailure, PhasesMatch, Counted, historyVars, TypeOK
    <3> QED BY <1>1, <3>1, CallKeepsOthers, OneRequest
  <2>7. CASE SendOk(r)
    <3>1. PhasesMatch(r)' /\ Counted(r)'
      BY <2>1, <2>7 DEF SendOk, End, NoteSuccess, PhasesMatch, Counted, TypeOK
    <3> QED BY <1>1, <3>1, CallKeepsOthers, OneRequest
  <2>8. CASE SendFail(r)
    <3>1. attempt[r] <= retries[r] /\ retries[r] \in Nat
      <4>1. retries[r] \in RetryChoices \cup {0}
        BY DEF TypeOK
      <4> QED BY <4>1, RetriesAreNat DEF TypeOK
    <3>2. PhasesMatch(r)' /\ Counted(r)'
      BY <2>1, <2>8, <3>1 DEF SendFail, End, NoteFailure, PhasesMatch, Counted, TypeOK
    <3> QED BY <1>1, <3>2, CallKeepsOthers, OneRequest
  <2>9. CASE \E how \in {"ok", "upstream_error"} : WsDone(r, how)
    <3>1. PhasesMatch(r)' /\ Counted(r)'
      BY <2>1, <2>9 DEF WsDone, End, PhasesMatch, Counted, historyVars, TypeOK
    <3> QED BY <1>1, <3>1, CallKeepsOthers, OneRequest
  <2>10. CASE Drop(r)
    <3>1. PhasesMatch(r)' /\ Counted(r)'
      BY <2>1, <2>10 DEF Drop, End, InFlight, PhasesMatch, Counted, historyVars, TypeOK
    <3> QED BY <1>1, <3>1, CallKeepsOthers, OneRequest
  <2> QED BY <1>1, <2>2, <2>3, <2>4, <2>5, <2>6, <2>7, <2>8, <2>9, <2>10 DEF Call
<1>2. ASSUME NEW r \in Requests,
             \E u \in Upstreams, k \in {"http", "ws"} : Arrive(r, u, k)
      PROVE  RetryInv'
  <2>1. PhasesMatch(r)' /\ Counted(r)'
    BY <1>2 DEF Arrive, PhasesMatch, Counted, TypeOK
  <2> QED BY <1>2, <2>1, CallKeepsOthers, OneRequest
<1>3. CASE ClockTick \/ ClockStepBack
  BY <1>3 DEF ClockTick, ClockStepBack, callVars, RetryInv, PhasesMatch, Counted
<1>4. CASE UNCHANGED vars
  BY <1>4 DEF vars, RetryInv, PhasesMatch, Counted
<1> QED BY <1>1, <1>2, <1>3, <1>4 DEF Next

\* Each attempt is noted exactly once, and only attempts are.
THEOREM AttemptsCounted == Spec => []AttemptsNotedOnce
<1>1. Init => TypeOK /\ RetryInv
  BY InitType, InitRetry
<1>2. TypeOK /\ RetryInv /\ [Next]_vars => TypeOK' /\ RetryInv'
  BY NextType, NextRetry
<1>3. RetryInv => AttemptsNotedOnce
  BY DEF RetryInv, Counted, AttemptsNotedOnce
<1> QED BY <1>1, <1>2, <1>3, PTL DEF Spec

-----------------------------------------------------------------------------
(* The breaker implements its abstract specification *)

ModeMap == [u \in Upstreams |-> Mode(u)]
FlightMap == [r \in Requests |-> IF pc[r] \in InFlight THEN target[r] ELSE NoUpstream]

LEMMA SameBreakerSameModes ==
  ASSUME UNCHANGED breakerVars
  PROVE  ModeMap' = ModeMap
BY DEF breakerVars, ModeMap, Mode, Tripped, SinceOpen

LEMMA SuccessCloses ==
  ASSUME TypeOK, NEW r \in Requests, NEW u \in Upstreams, NoteSuccess(r, u)
  PROVE  ModeMap' = [ModeMap EXCEPT ![u] = "closed"]
<1>1. /\ failures[u] \in 0..Threshold /\ Threshold \in Nat
      /\ failures'[u] = 0
      /\ \A v \in Upstreams \ {u} : failures'[v] = failures[v] /\ elapsed'[v] = elapsed[v]
  BY BreakerAssumption DEF NoteSuccess, record_success, TypeOK, BreakerTypeOK
<1>2. Mode(u)' = "closed"
  BY <1>1 DEF Mode, Tripped
<1>3. \A v \in Upstreams \ {u} : Mode(v)' = Mode(v)
  BY <1>1 DEF Mode, Tripped, SinceOpen
<1> QED BY <1>2, <1>3 DEF ModeMap

LEMMA FailureOpens ==
  ASSUME TypeOK, NEW r \in Requests, NEW u \in Upstreams, NEW how \in Outcomes,
         NoteFailure(r, u, how)
  PROVE  \E m \in {IF RecoverySecs = 0 THEN "probing" ELSE "open"}
                    \cup ({ModeMap[u]} \cap {"closed"}) :
           ModeMap' = [ModeMap EXCEPT ![u] = m]
<1>1. /\ failures[u] \in 0..Threshold /\ Threshold \in Nat /\ RecoverySecs \in Nat
      /\ failures'[u] = IF failures[u] < Threshold THEN failures[u] + 1 ELSE failures[u]
      /\ Threshold > 0 /\ failures[u] + 1 >= Threshold => elapsed'[u] = 0
      /\ \A v \in Upstreams \ {u} : failures'[v] = failures[v] /\ elapsed'[v] = elapsed[v]
  BY BreakerAssumption DEF NoteFailure, record_failure, TypeOK, BreakerTypeOK
<1>2. \A v \in Upstreams \ {u} : Mode(v)' = Mode(v)
  BY <1>1 DEF Mode, Tripped, SinceOpen
<1>3. CASE Tripped(u)'
  <2>1. Mode(u)' = IF RecoverySecs = 0 THEN "probing" ELSE "open"
    BY <1>1, <1>3 DEF Mode, Tripped, SinceOpen
  <2>2. ModeMap' = [ModeMap EXCEPT ![u] = IF RecoverySecs = 0 THEN "probing" ELSE "open"]
    BY <1>2, <2>1 DEF ModeMap
  <2> QED BY <2>2
<1>4. CASE ~Tripped(u)'
  <2>1. Mode(u)' = "closed" /\ Mode(u) = "closed"
    BY <1>1, <1>4 DEF Mode, Tripped
  <2>2. ModeMap' = [ModeMap EXCEPT ![u] = "closed"] /\ ModeMap[u] = "closed"
    BY <1>2, <2>1 DEF ModeMap
  <2> QED BY <2>2
<1> QED BY <1>3, <1>4

\* A request that ends leaves the flight.
LEMMA EndLeaves ==
  ASSUME TypeOK, NEW r \in Requests, NEW how \in Results, End(r, how)
  PROVE  FlightMap' = [FlightMap EXCEPT ![r] = NoUpstream]
BY DEF End, FlightMap, InFlight, TypeOK

LEMMA ClockMovesModes ==
  ASSUME TypeOK, ClockTick \/ ClockStepBack
  PROVE  Abstract!Clock
<1>1. failures' = failures
  BY DEF ClockTick, ClockStepBack, Tick, StepBack
<1>2. \A u \in Upstreams : Mode(u) = "closed" <=> Mode(u)' = "closed"
  BY <1>1 DEF Mode, Tripped
<1>3. \A u \in Upstreams : Mode(u)' \in {"closed", "open", "probing"}
  BY DEF Mode
<1>4. UNCHANGED FlightMap
  BY DEF ClockTick, ClockStepBack, callVars, FlightMap
<1> QED BY <1>2, <1>3, <1>4 DEF Abstract!Clock, Abstract!Modes, FlightMap

LEMMA StepSimulated ==
  TypeOK /\ [Next]_vars => [Abstract!Next]_(Abstract!abstractVars)
<1> SUFFICES ASSUME TypeOK, [Next]_vars
             PROVE  Abstract!Next \/ (ModeMap' = ModeMap /\ FlightMap' = FlightMap)
  BY DEF Abstract!abstractVars, ModeMap, FlightMap
<1>1. ASSUME NEW r \in Requests, NEW u \in Upstreams, NEW k \in {"http", "ws"},
             Arrive(r, u, k)
      PROVE  ModeMap' = ModeMap /\ FlightMap' = FlightMap
  <2>1. FlightMap' = FlightMap
    BY <1>1 DEF Arrive, FlightMap, InFlight, TypeOK
  <2> QED BY <1>1, <2>1, SameBreakerSameModes DEF Arrive
<1>2. ASSUME NEW r \in Requests, Reject(r)
      PROVE  ModeMap' = ModeMap /\ FlightMap' = FlightMap
  <2>1. FlightMap' = FlightMap
    BY <1>2 DEF Reject, End, FlightMap, InFlight, TypeOK
  <2> QED BY <1>2, <2>1, SameBreakerSameModes DEF Reject
<1>3. ASSUME NEW r \in Requests, pc[r] = "routed", Pass(r),
             pc' = [pc EXCEPT ![r] = "reading"] \/ pc' = [pc EXCEPT ![r] = "connecting"],
             UNCHANGED target
      PROVE  Abstract!Next
  <2>1. target[r] \in Upstreams
    BY <1>3, RoutedTarget
  <2>2. ModeMap' = ModeMap
    BY <1>3, SameBreakerSameModes DEF Pass
  <2>3. Mode(target[r]) # "open"
    <3>1. failures[target[r]] \in 0..Threshold /\ Threshold \in Nat
      BY <2>1, BreakerAssumption DEF TypeOK, BreakerTypeOK
    <3> QED BY <1>3, <3>1 DEF Pass, allow, Mode, Tripped
  <2>4. FlightMap[r] = NoUpstream /\ FlightMap' = [FlightMap EXCEPT ![r] = target[r]]
    BY <1>3 DEF FlightMap, InFlight, TypeOK
  <2>5. PICK u \in Upstreams : u = target[r]
    BY <2>1
  <2>6. Abstract!Admit(r, u)
    BY <2>1, <2>2, <2>3, <2>4, <2>5 DEF Abstract!Admit, ModeMap, FlightMap
  <2> QED BY <2>6 DEF Abstract!Next
<1>4. ASSUME NEW r \in Requests, BodyRead(r)
      PROVE  ModeMap' = ModeMap /\ FlightMap' = FlightMap
  <2>1. FlightMap' = FlightMap
    BY <1>4 DEF BodyRead, FlightMap, InFlight, TypeOK
  <2> QED BY <1>4, <2>1, SameBreakerSameModes DEF BodyRead
<1>5. ASSUME NEW r \in Requests, NEW how \in Results, End(r, how),
             UNCHANGED breakerVars
      PROVE  Abstract!Next
  <2>1. Abstract!Leave(r)
    BY <1>5, EndLeaves, SameBreakerSameModes DEF Abstract!Leave, ModeMap, FlightMap
  <2> QED BY <2>1 DEF Abstract!Next
<1>6. ASSUME NEW r \in Requests, SendOk(r)
      PROVE  Abstract!Next
  <2>1. /\ target[r] \in Upstreams /\ FlightMap[r] = target[r]
        /\ "ok" \in Results
    BY <1>6 DEF SendOk, FlightMap, InFlight, Results, TypeOK
  <2>2. PICK u \in Upstreams : u = target[r]
    BY <2>1
  <2>3. ModeMap' = [ModeMap EXCEPT ![u] = "closed"]
    BY <1>6, <2>2, SuccessCloses DEF SendOk
  <2>4. Abstract!Succeed(r, u)
    BY <1>6, <2>1, <2>2, <2>3, EndLeaves
       DEF SendOk, Abstract!Succeed, ModeMap, FlightMap
  <2> QED BY <2>4 DEF Abstract!Next
<1>7. ASSUME NEW r \in Requests, NEW how \in Outcomes, pc[r] \in InFlight,
             NoteFailure(r, target[r], how),
             FlightMap' = FlightMap \/ FlightMap' = [FlightMap EXCEPT ![r] = NoUpstream]
      PROVE  Abstract!Next
  <2>1. target[r] \in Upstreams /\ FlightMap[r] = target[r]
    BY <1>7 DEF FlightMap, TypeOK
  <2>2. PICK u \in Upstreams : u = target[r]
    BY <2>1
  <2>3. \E m \in {IF RecoverySecs = 0 THEN "probing" ELSE "open"}
                    \cup ({ModeMap[u]} \cap {"closed"}) :
          ModeMap' = [ModeMap EXCEPT ![u] = m]
    BY <1>7, <2>2, FailureOpens
  <2>4. Abstract!Fail(r, u)
    BY <1>7, <2>1, <2>2, <2>3 DEF Abstract!Fail, Abstract!Failed, ModeMap, FlightMap
  <2> QED BY <2>4 DEF Abstract!Next
<1>8. ASSUME NEW r \in Requests, SendFail(r)
      PROVE  Abstract!Next
  <2>1. "upstream_error" \in Outcomes /\ "upstream_error" \in Results /\ pc[r] \in InFlight
    BY <1>8 DEF SendFail, Outcomes, Results, InFlight
  <2>2. CASE attempt[r] < retries[r]
    <3>1. FlightMap' = FlightMap
      BY <1>8, <2>2 DEF SendFail, FlightMap
    <3> QED BY <1>7, <1>8, <2>1, <3>1 DEF SendFail
  <2>3. CASE ~(attempt[r] < retries[r])
    <3>1. FlightMap' = [FlightMap EXCEPT ![r] = NoUpstream]
      BY <1>8, <2>1, <2>3, EndLeaves DEF SendFail
    <3> QED BY <1>7, <1>8, <2>1, <3>1 DEF SendFail
  <2> QED BY <2>2, <2>3
<1>9. ASSUME NEW r \in Requests, BodyFail(r)
      PROVE  Abstract!Next
  <2>1. "body_error" \in Outcomes /\ "body_error" \in Results /\ pc[r] \in InFlight
    BY <1>9 DEF BodyFail, Outcomes, Results, InFlight
  <2>2. FlightMap' = [FlightMap EXCEPT ![r] = NoUpstream]
    BY <1>9, <2>1, EndLeaves DEF BodyFail
  <2>3. CASE retries[r] = 0
    BY <1>7, <1>9, <2>1, <2>2, <2>3 DEF BodyFail
  <2>4. CASE retries[r] # 0
    BY <1>5, <1>9, <2>1, <2>4 DEF BodyFail
  <2> QED BY <2>3, <2>4
<1>10. ASSUME NEW r \in Requests,
              Drop(r) \/ \E how \in {"ok", "upstream_error"} : WsDone(r, how)
       PROVE  Abstract!Next
  BY <1>5, <1>10 DEF Drop, WsDone, Results
<1>11. CASE ClockTick \/ ClockStepBack
  BY <1>11, ClockMovesModes DEF Abstract!Next
<1>12. ASSUME NEW r \in Requests, AdmitWs(r) \/ \E max \in RetryChoices : AdmitHttp(r, max)
       PROVE  Abstract!Next
  BY <1>3, <1>12 DEF AdmitWs, AdmitHttp
<1>13. CASE UNCHANGED vars
  BY <1>13, SameBreakerSameModes DEF vars, breakerVars, FlightMap
<1> QED BY <1>1, <1>2, <1>4, <1>6, <1>8, <1>9, <1>10, <1>11, <1>12, <1>13
        DEF Next, Call

LEMMA InitSimulated == Init => Abstract!Init
<1> SUFFICES ASSUME Init PROVE Abstract!Init
  OBVIOUS
<1>1. ASSUME NEW u \in Upstreams PROVE Mode(u) = "closed"
  <2>1. failures[u] = 0
    BY DEF Init, BreakerInit
  <2> QED BY <2>1, BreakerAssumption DEF Mode, Tripped
<1>2. \A r \in Requests : pc[r] \notin InFlight
  BY DEF Init, CallInit, InFlight
<1> QED BY <1>1, <1>2 DEF Abstract!Init

\* The counters, stamps and clock implement the three-mode breaker.
THEOREM BreakerImplements == Spec => ImplementsAbstract
<1>1. Init => Abstract!Init
  BY InitSimulated
<1>2. TypeOK /\ [Next]_vars => [Abstract!Next]_(Abstract!abstractVars)
  BY StepSimulated
<1> QED BY <1>1, <1>2, TypeCorrect, PTL DEF Spec, ImplementsAbstract, Abstract!Spec
=============================================================================
