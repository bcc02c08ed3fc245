----------------------------- MODULE UpstreamCall -----------------------------
(***************************************************************************)
(* server/handlers.rs, from the breaker check of proxy_handler to the end  *)
(* of proxy_with_retry: the requests that share one CircuitBreakerMap.     *)
(* Several requests are in flight at once; every .await (reading the       *)
(* client's body, sending to the upstream, connecting a WebSocket) is a    *)
(* point where the others run and where the future may be dropped.         *)
(***************************************************************************)
EXTENDS CircuitBreaker, Sequences

CONSTANTS Requests,      \* request slots; a slot serves one request at a time
          RetryChoices,  \* the values max_retries has while the server runs
          NoUpstream

ASSUME CallAssumption ==
  /\ RetryChoices \subseteq Nat
  /\ NoUpstream \notin Upstreams

VARIABLES pc,       \* where a request is
          target,   \* upstream_base of the request
          kind,     \* "http" or "ws": is_upgrade
          retries,  \* max_retries as read when the call started
          attempt,  \* the loop counter of proxy_with_retry
          result,   \* how the request ended
          recent,   \* history: the last Threshold outcomes noted per upstream
          quiet,    \* history: clock seconds since the last noted failure
          noted,    \* history: outcomes noted on behalf of the request
          probe     \* history: the request passed a tripped breaker

callVars == <<pc, target, kind, retries, attempt, result>>
historyVars == <<recent, quiet, noted, probe>>
vars == <<failures, elapsed, skew, pc, target, kind, retries, attempt, result,
          recent, quiet, noted, probe>>

Phases == {"idle", "routed", "reading", "sending", "connecting", "done"}
InFlight == {"reading", "sending", "connecting"}
Results == {"none", "ok", "upstream_error", "body_error", "rejected", "dropped"}

CallInit ==
  /\ pc = [r \in Requests |-> "idle"]
  /\ target = [r \in Requests |-> NoUpstream]
  /\ kind = [r \in Requests |-> "http"]
  /\ retries = [r \in Requests |-> 0]
  /\ attempt = [r \in Requests |-> 0]
  /\ result = [r \in Requests |-> "none"]
  /\ recent = [u \in Upstreams |-> <<>>]
  /\ quiet = [u \in Upstreams |-> ElapsedCap]
  /\ noted = [r \in Requests |-> 0]
  /\ probe = [r \in Requests |-> FALSE]

Init == BreakerInit /\ CallInit

-----------------------------------------------------------------------------
(* History of the outcomes the calls note, kept independently of the map.  *)

Outcomes == {"ok", "upstream_error", "body_error"}

AllFailed(window) ==
  /\ Threshold > 0
  /\ Len(window) = Threshold
  /\ \A i \in 1..Len(window) : window[i] # "ok"

\* The outcomes of the last Threshold calls to u, once `how` is noted.
Window(u, how) ==
  IF Len(recent[u]) < Threshold THEN Append(recent[u], how)
  ELSE IF Threshold = 0 THEN <<>>
  ELSE Append(Tail(recent[u]), how)

NoteSuccess(r, u) ==
  /\ record_success(u)
  /\ recent' = [recent EXCEPT ![u] = Window(u, "ok")]
  /\ noted' = [noted EXCEPT ![r] = noted[r] + 1]
  /\ UNCHANGED <<quiet, probe>>

NoteFailure(r, u, how) ==
  /\ record_failure(u)
  /\ recent' = [recent EXCEPT ![u] = Window(u, how)]
  /\ noted' = [noted EXCEPT ![r] = noted[r] + 1]
  /\ quiet' = [quiet EXCEPT ![u] = 0]
  /\ UNCHANGED probe

End(r, how) ==
  /\ pc' = [pc EXCEPT ![r] = "done"]
  /\ result' = [result EXCEPT ![r] = how]
  /\ UNCHANGED <<target, kind, retries>>

-----------------------------------------------------------------------------
(* Mutated forms, for checking that the properties can fail. *)

\* A refused request is noted as a failure.
Reject_noted(r) ==
  /\ pc[r] = "routed"
  /\ ~allow(target[r])
  /\ End(r, "rejected")
  /\ NoteFailure(r, target[r], "upstream_error")
  /\ UNCHANGED attempt

\* The breaker is not asked.
Pass_unchecked(r) ==
  /\ probe' = [probe EXCEPT ![r] = Tripped(target[r])]
  /\ UNCHANGED <<breakerVars, recent, quiet, noted>>

\* An unreadable body is noted in retry mode as well.
BodyFail_always_noted(r) ==
  /\ pc[r] = "reading"
  /\ End(r, "body_error")
  /\ UNCHANGED attempt
  /\ NoteFailure(r, target[r], "body_error")

\* One attempt too many.
SendFail_off_by_one(r) ==
  /\ pc[r] = "sending"
  /\ NoteFailure(r, target[r], "upstream_error")
  /\ IF attempt[r] <= retries[r]
       THEN /\ attempt' = [attempt EXCEPT ![r] = attempt[r] + 1]
            /\ UNCHANGED <<pc, target, kind, retries, result>>
       ELSE End(r, "upstream_error") /\ UNCHANGED attempt

\* The failure path `continue`s before it counts the attempt.
SendFail_stuck(r) ==
  /\ pc[r] = "sending"
  /\ record_failure(target[r])
  /\ recent' = [recent EXCEPT ![target[r]] = Window(target[r], "upstream_error")]
  /\ quiet' = [quiet EXCEPT ![target[r]] = 0]
  /\ UNCHANGED <<pc, target, kind, retries, attempt, result, noted, probe>>

-----------------------------------------------------------------------------
\* A request reaches the breaker check with its upstream chosen.
Arrive(r, u, k) ==
  /\ pc[r] \in {"idle", "done"}
  /\ pc' = [pc EXCEPT ![r] = "routed"]
  /\ target' = [target EXCEPT ![r] = u]
  /\ kind' = [kind EXCEPT ![r] = k]
  /\ retries' = [retries EXCEPT ![r] = 0]
  /\ attempt' = [attempt EXCEPT ![r] = 0]
  /\ result' = [result EXCEPT ![r] = "none"]
  /\ noted' = [noted EXCEPT ![r] = 0]
  /\ probe' = [probe EXCEPT ![r] = FALSE]
  /\ UNCHANGED <<breakerVars, recent, quiet>>

Reject(r) ==
  /\ pc[r] = "routed"
  /\ ~allow(target[r])
  /\ End(r, "rejected")
  /\ UNCHANGED <<breakerVars, attempt, historyVars>>

\* allow leaves the map as it is: a probe takes no token.
Pass(r) ==
  /\ allow(target[r])
  /\ probe' = [probe EXCEPT ![r] = Tripped(target[r])]
  /\ UNCHANGED <<breakerVars, recent, quiet, noted>>

\* max_retries comes from the config slot at this moment.
AdmitHttp(r, max) ==
  /\ pc[r] = "routed" /\ kind[r] = "http"
  /\ pc' = [pc EXCEPT ![r] = "reading"]
  /\ retries' = [retries EXCEPT ![r] = max]
  /\ Pass(r)
  /\ UNCHANGED <<target, kind, attempt, result>>

\* The WebSocket path passes the check and never reports back.
AdmitWs(r) ==
  /\ pc[r] = "routed" /\ kind[r] = "ws"
  /\ pc' = [pc EXCEPT ![r] = "connecting"]
  /\ Pass(r)
  /\ UNCHANGED <<target, kind, retries, attempt, result>>

BodyRead(r) ==
  /\ pc[r] = "reading"
  /\ pc' = [pc EXCEPT ![r] = "sending"]
  /\ UNCHANGED <<breakerVars, target, kind, retries, attempt, result, historyVars>>

\* Without retries the body is read inside proxy_http, whose error is noted;
\* with retries it is read before the loop and `?` leaves at once.
BodyFail(r) ==
  /\ pc[r] = "reading"
  /\ End(r, "body_error")
  /\ UNCHANGED attempt
  /\ IF retries[r] = 0
       THEN NoteFailure(r, target[r], "body_error")
       ELSE UNCHANGED <<breakerVars, historyVars>>

SendOk(r) ==
  /\ pc[r] = "sending"
  /\ NoteSuccess(r, target[r])
  /\ End(r, "ok")
  /\ UNCHANGED attempt

\* A connection-level failure; the next attempt does not ask allow again.
SendFail(r) ==
  /\ pc[r] = "sending"
  /\ NoteFailure(r, target[r], "upstream_error")
  /\ IF attempt[r] < retries[r]
       THEN /\ attempt' = [attempt EXCEPT ![r] = attempt[r] + 1]
            /\ UNCHANGED <<pc, target, kind, retries, result>>
       ELSE End(r, "upstream_error") /\ UNCHANGED attempt

WsDone(r, how) ==
  /\ pc[r] = "connecting"
  /\ End(r, how)
  /\ UNCHANGED <<breakerVars, attempt, historyVars>>

\* The client goes away: the future is dropped at an await.
Drop(r) ==
  /\ pc[r] \in InFlight
  /\ End(r, "dropped")
  /\ UNCHANGED <<breakerVars, attempt, historyVars>>

ClockTick ==
  /\ Tick
  /\ quiet' = [u \in Upstreams |->
                 IF quiet[u] < ElapsedCap THEN quiet[u] + 1 ELSE quiet[u]]
  /\ UNCHANGED <<callVars, recent, noted, probe>>

ClockStepBack ==
  /\ StepBack
  /\ quiet' = [u \in Upstreams |-> quiet[u] - 1]
  /\ UNCHANGED <<callVars, recent, noted, probe>>

Call(r) ==
  \/ Reject(r)
  \/ \E max \in RetryChoices : AdmitHttp(r, max)
  \/ AdmitWs(r)
  \/ BodyRead(r) \/ BodyFail(r)
  \/ SendOk(r) \/ SendFail(r)
  \/ \E how \in {"ok", "upstream_error"} : WsDone(r, how)
  \/ Drop(r)

Next ==
  \/ \E r \in Requests : Call(r)
  \/ \E r \in Requests, u \in Upstreams, k \in {"http", "ws"} : Arrive(r, u, k)
  \/ ClockTick
  \/ ClockStepBack

Spec == Init /\ [][Next]_vars

\* The clock runs, and the client's timeout ends every send.
Fairness ==
  /\ WF_vars(ClockTick)
  /\ \A r \in Requests : WF_vars(SendOk(r) \/ SendFail(r))

FairSpec == Spec /\ Fairness

-----------------------------------------------------------------------------
(* Properties *)

\* Types of every variable; the attempt counter stays inside 0..=max_retries.
TypeOK ==
  /\ BreakerTypeOK
  /\ pc \in [Requests -> Phases]
  /\ target \in [Requests -> Upstreams \cup {NoUpstream}]
  /\ kind \in [Requests -> {"http", "ws"}]
  /\ retries \in [Requests -> RetryChoices \cup {0}]
  /\ attempt \in [Requests -> Nat]
  /\ result \in [Requests -> Results]
  /\ recent \in [Upstreams -> Seq(Outcomes)]
  /\ quiet \in [Upstreams -> (-skew)..ElapsedCap]
  /\ noted \in [Requests -> Nat]
  /\ probe \in [Requests -> BOOLEAN]
  /\ \A r \in Requests :
       /\ attempt[r] <= retries[r]
       /\ pc[r] \in {"routed", "reading", "connecting"} => attempt[r] = 0
       /\ pc[r] \in InFlight \cup {"routed"} => target[r] \in Upstreams
  /\ \A u \in Upstreams : Len(recent[u]) <= Threshold

\* The two atomics of a key tell what was noted of its calls: the counter
\* reaches the threshold exactly when the last Threshold calls all failed,
\* and then the stamp is the time of the latest failure, not of the first.
CounterMatchesHistory ==
  \A u \in Upstreams :
    /\ Tripped(u) <=> AllFailed(recent[u])
    /\ Tripped(u) => elapsed[u] = quiet[u]

Passes(r) == pc[r] = "routed" /\ pc'[r] \in {"reading", "connecting"}
Refused(r) == pc[r] = "routed" /\ pc'[r] = "done"

Cooling(u) == quiet[u] < RecoverySecs /\ RecoverySecs > 0

\* A request passes the check (handlers.rs:121) only if one of the last
\* Threshold calls to its upstream succeeded, or recovery_secs have gone by
\* on the clock since the latest failure, however the calls interleaved and
\* whatever was done to the clock.
OpenRefuses ==
  [][\A r \in Requests :
       Passes(r) => ~(AllFailed(recent[target[r]]) /\ Cooling(target[r]))]_vars

\* ... and it is refused only for that reason: one success noted by any
\* request, or the recovery time, always lets the next request through.
RefusesOnlyWhenOpen ==
  [][\A r \in Requests :
       Refused(r) => AllFailed(recent[target[r]]) /\ Cooling(target[r])]_vars

\* Every attempt of proxy_with_retry is noted once, a request ends in success
\* at the first attempt that succeeds and in an upstream error only after
\* max_retries + 1 failures; a refused, dropped-before-sending or WebSocket
\* request is noted never, an unreadable body only without retries.
AttemptsNotedOnce ==
  \A r \in Requests :
    /\ pc[r] = "sending" => noted[r] = attempt[r]
    /\ pc[r] \in {"routed", "reading", "connecting"} => noted[r] = 0
    /\ result[r] = "rejected" => noted[r] = 0
    /\ result[r] = "ok" /\ kind[r] = "http" => noted[r] = attempt[r] + 1
    /\ result[r] = "upstream_error" /\ kind[r] = "http" =>
         attempt[r] = retries[r] /\ noted[r] = retries[r] + 1
    /\ result[r] = "body_error" => noted[r] = (IF retries[r] = 0 THEN 1 ELSE 0)
    /\ kind[r] = "ws" => noted[r] = 0

\* The detailed breaker implements the three-mode promise.
Mode(u) ==
  IF ~Tripped(u) THEN "closed"
  ELSE IF SinceOpen(u) >= RecoverySecs THEN "probing" ELSE "open"

Abstract == INSTANCE AbstractBreaker WITH
  Immediate <- RecoverySecs = 0,
  mode <- [u \in Upstreams |-> Mode(u)],
  flight <- [r \in Requests |-> IF pc[r] \in InFlight THEN target[r] ELSE NoUpstream]

ImplementsAbstract == Abstract!Spec

\* An upstream is never shut out for good: whatever fails, is dropped or is
\* refused, the breaker lets requests through again and again.
NeverShutForGood == \A u \in Upstreams : []<>allow(u)

\* The retry loop ends: a request that has started sending finishes.
RetryLoopEnds == \A r \in Requests : pc[r] = "sending" ~> pc[r] = "done"

-----------------------------------------------------------------------------
(* What the comments say and the code does not do: TLC refutes each when it *)
(* is made an invariant of the run breaker_calls.                            *)

\* circuit_breaker.rs:15 "one probe request is allowed": while a probe is out,
\* no other request passes the tripped breaker of that upstream.
OneProbeAtATime ==
  \A r, q \in Requests :
    (/\ probe[r] /\ pc[r] \in InFlight
     /\ probe[q] /\ pc[q] \in InFlight
     /\ target[r] = target[q]) => r = q

\* model.rs:62 "trips open after this many consecutive upstream failures".
TrippedByUpstream ==
  \A u \in Upstreams :
    Tripped(u) => \A i \in 1..Len(recent[u]) : recent[u][i] = "upstream_error"
=============================================================================
