-------------------------- MODULE ProxyHandlerProofs --------------------------
(***************************************************************************)
(* The handler makes its upstream calls as UpstreamCall says, whatever the *)
(* plugins do: what UpstreamCallProofs proves of the breaker holds of the  *)
(* server that makes the calls.                                            *)
(***************************************************************************)
EXTENDS ProxyHandler, UpstreamCallProofs, DataLemmas, TLAPS

\* A step of the handler is a step of its upstream call or leaves the calls alone.
LEMMA HandleIsCall ==
  ASSUME NEW r \in Requests, Handle(r)
  PROVE  [Next]_vars
<1>1. CASE Accept(r)
  BY <1>1 DEF Accept
<1>2. CASE PluginContinues(r) \/ PluginAnswers(r) \/ PluginFails(r)
  BY <1>2 DEF PluginContinues, PluginAnswers, PluginFails
<1>3. CASE RouteMiss(r) \/ ResolveFails(r)
  BY <1>3 DEF RouteMiss, ResolveFails
<1>4. ASSUME NEW rule \in Rules, RouteHit(r, rule)
      PROVE  [Next]_vars
  <2>1. CASE \E u \in Upstreams, k \in {"http", "ws"} : Forward(r, u, k)
    BY <2>1 DEF Forward, Next
  <2>2. CASE UNCHANGED vars
    BY <2>2
  <2> QED
    BY <1>4, <2>1, <2>2 DEF RouteHit
<1>5. CASE Resolved(r)
  BY <1>5 DEF Resolved, Forward, Next
<1>6. CASE CallStep(r)
  BY <1>6 DEF CallStep, Next
<1>7. CASE PluginReturns(r) \/ PluginSpoils(r) \/ Finish(r) \/ Gone(r)
  BY <1>7 DEF PluginReturns, PluginSpoils, Finish, Gone
<1> QED
  BY <1>1, <1>2, <1>3, <1>4, <1>5, <1>6, <1>7 DEF Handle

\* The whole handler drives its upstream calls as UpstreamCall says (ImplementsCalls),
\* for any chain of plugins, any rules and any number of requests.
THEOREM HandlerImplementsCalls == ProxySpec => ImplementsCalls
<1>1. ProxyInit => Init
  BY DEF ProxyInit
<1>2. [ProxyNext]_proxyVars => [Next]_vars
  <2>1. ASSUME NEW r \in Requests, Handle(r)
        PROVE  [Next]_vars
    BY <2>1, HandleIsCall
  <2>2. CASE Clock
    BY <2>2 DEF Clock, Next
  <2>3. CASE UNCHANGED proxyVars
    BY <2>3 DEF proxyVars
  <2> QED
    BY <2>1, <2>2, <2>3 DEF ProxyNext
<1> QED
  BY <1>1, <1>2, PTL DEF ProxySpec, ImplementsCalls, Spec

\* The breaker of the whole server keeps what UpstreamCallProofs proves of it: its
\* counters match the history of the calls, and each attempt is noted once.
THEOREM HandlerKeepsHistory == ProxySpec => []CounterMatchesHistory /\ []AttemptsNotedOnce
BY HandlerImplementsCalls, HistoryCorrect, AttemptsCounted, PTL DEF ImplementsCalls

-----------------------------------------------------------------------------
(* What a request leaves on the metrics *)

Tallies == {<<>>} \cup {<<CodeOf[f]>> : f \in Failures}

HandlerTypes ==
  /\ stage \in [Requests -> Stages]
  /\ hit \in [Requests -> Rules \cup {NoRule}]
  /\ reply \in [Requests -> Replies]
  /\ codes \in [Requests -> Tallies]

\* Until it ends a request has counted nothing, from the route on it has its hit,
\* and an ending is tied to the result of the call that led to it.
Accounted(r) ==
  /\ stage[r] # "ended" => codes[r] = <<>> /\ reply[r] = "none"
  /\ stage[r] \in {"idle", "plugins"} => hit[r] = NoRule
  /\ stage[r] \in {"resolving", "calling", "unwinding"} => hit[r] \in Rules
  /\ stage[r] = "unwinding" => result[r] = "ok"
  /\ stage[r] = "ended" =>
       /\ codes[r] = IF reply[r] \in Failures THEN <<CodeOf[reply[r]]>> ELSE <<>>
       /\ reply[r] \in Failures => (hit[r] = NoRule <=> reply[r] = "no_rule")
       /\ reply[r] = "breaker_open" => result[r] = "rejected"
       /\ reply[r] = "UpstreamConnection" => result[r] = "upstream_error" /\ kind[r] = "http"
       /\ reply[r] = "ok" => hit[r] \in Rules /\ result[r] = "ok"

AccountInv == HandlerTypes /\ \A r \in Requests : Accounted(r)

LEMMA FailureNames ==
  Failures = {"no_rule", "NoInstances", "AllFailed", "breaker_open", "UpstreamConnection",
              "WsUpgrade", "BodyRead"}
BY DEF Failures, CodeOf

LEMMA InitAccount == ProxyInit => AccountInv
<1> SUFFICES ASSUME ProxyInit PROVE AccountInv
  OBVIOUS
<1>1. codes \in [Requests -> Tallies]
  BY DEF ProxyInit, HandlerInit, Tallies
<1> QED
  BY <1>1 DEF ProxyInit, HandlerInit, AccountInv, HandlerTypes, Accounted, Stages, Replies

\* A call that is over has a result, and keeps its kind.
LEMMA CallResult ==
  ASSUME TypeOK, NEW r \in Requests, Call(r)
  PROVE  /\ kind'[r] = kind[r]
         /\ pc'[r] = "done" =>
              result'[r] \in {"ok", "dropped", "rejected", "body_error", "upstream_error"}
<1>1. CASE Reject(r) \/ AdmitWs(r) \/ BodyRead(r) \/ Drop(r)
  BY <1>1 DEF Reject, AdmitWs, Pass, BodyRead, Drop, End, TypeOK
<1>2. CASE \E max \in RetryChoices : AdmitHttp(r, max)
  BY <1>2 DEF AdmitHttp, Pass, TypeOK
<1>3. CASE \E how \in {"ok", "upstream_error"} : WsDone(r, how)
  BY <1>3 DEF WsDone, End, TypeOK
<1>4. CASE SendOk(r) \/ SendFail(r) \/ BodyFail(r)
  BY <1>4 DEF SendOk, SendFail, BodyFail, End, TypeOK
<1> QED
  BY <1>1, <1>2, <1>3, <1>4 DEF Call

\* What the handler keeps of a request.
Same(q) ==
  /\ stage'[q] = stage[q] /\ hit'[q] = hit[q] /\ codes'[q] = codes[q] /\ reply'[q] = reply[q]
  /\ result'[q] = result[q] /\ kind'[q] = kind[q]

LEMMA FailCounts ==
  ASSUME HandlerTypes, NEW r \in Requests, codes[r] = <<>>, NEW why \in Failures, Fail(r, why)
  PROVE  /\ stage'[r] = "ended" /\ reply'[r] = why /\ codes'[r] = <<CodeOf[why]>>
         /\ stage' \in [Requests -> Stages] /\ reply' \in [Requests -> Replies]
         /\ codes' \in [Requests -> Tallies]
         /\ \A q \in Requests \ {r} :
              stage'[q] = stage[q] /\ reply'[q] = reply[q] /\ codes'[q] = codes[q]
<1>1. Append(codes[r], CodeOf[why]) = <<CodeOf[why]>>
  OBVIOUS
<1>2. codes' = [codes EXCEPT ![r] = <<CodeOf[why]>>]
  BY <1>1 DEF Fail
<1>3. <<CodeOf[why]>> \in Tallies
  BY DEF Tallies
<1>4. codes'[r] = <<CodeOf[why]>> /\ codes' \in [Requests -> Tallies]
      /\ \A q \in Requests \ {r} : codes'[q] = codes[q]
  BY <1>2, <1>3 DEF HandlerTypes
<1> QED
  BY <1>4 DEF Fail, Answer, HandlerTypes, Stages, Replies

\* A step of one request touches no other and keeps the types.
LEMMA AnswerTypes ==
  ASSUME HandlerTypes, NEW r \in Requests, NEW how \in Replies, Answer(r, how)
  PROVE  /\ stage'[r] = "ended" /\ reply'[r] = how
         /\ stage' \in [Requests -> Stages] /\ reply' \in [Requests -> Replies]
         /\ \A q \in Requests \ {r} : stage'[q] = stage[q] /\ reply'[q] = reply[q]
BY DEF Answer, HandlerTypes, Stages

LEMMA MoveTypes ==
  ASSUME HandlerTypes, NEW r \in Requests, NEW to \in Stages, Move(r, to)
  PROVE  /\ stage'[r] = to /\ reply' = reply
         /\ stage' \in [Requests -> Stages]
         /\ \A q \in Requests \ {r} : stage'[q] = stage[q]
BY DEF Move, HandlerTypes

\* One step of one request, given what it does to that request.
LEMMA OneHandler ==
  ASSUME AccountInv, NEW r \in Requests, HandlerTypes', Accounted(r)',
         \A q \in Requests \ {r} : Same(q)
  PROVE  AccountInv'
BY DEF AccountInv, Accounted, Same

\* The call of one request leaves results and kinds of the others alone.
LEMMA CallsKeepOthers ==
  ASSUME TypeOK, NEW r \in Requests,
         Call(r) \/ (\E u \in Upstreams, k \in {"http", "ws"} : Arrive(r, u, k)) \/ UNCHANGED vars
  PROVE  \A q \in Requests \ {r} : result'[q] = result[q] /\ kind'[q] = kind[q]
BY CallKeepsOthers DEF vars

LEMMA AccountForward ==
  ASSUME TypeOK, AccountInv, NEW r \in Requests, NEW rule \in Rules,
         stage[r] \in {"plugins", "resolving"},
         NEW u \in Upstreams, NEW k \in {"http", "ws"}, Forward(r, u, k),
         hit' = [hit EXCEPT ![r] = rule]
  PROVE  AccountInv'
<1>1. Accounted(r) /\ HandlerTypes
  BY DEF AccountInv
<1>2. /\ stage'[r] = "calling" /\ reply' = reply /\ codes' = codes
      /\ stage' \in [Requests -> Stages]
      /\ \A q \in Requests \ {r} : stage'[q] = stage[q]
  BY <1>1, MoveTypes DEF Forward, Stages
<1>3. hit'[r] = rule /\ hit' \in [Requests -> Rules \cup {NoRule}]
      /\ \A q \in Requests \ {r} : hit'[q] = hit[q]
  BY <1>1 DEF HandlerTypes
<1>4. \A q \in Requests \ {r} : Same(q)
  BY <1>2, <1>3, CallsKeepOthers DEF Same, Forward
<1>5. HandlerTypes' /\ Accounted(r)'
  BY <1>1, <1>2, <1>3 DEF HandlerTypes, Accounted
<1> QED
  BY <1>4, <1>5, OneHandler

\* A failure outside the call.
LEMMA AccountFail ==
  ASSUME TypeOK, AccountInv, NEW r \in Requests,
         NEW why \in {"no_rule", "NoInstances", "AllFailed"}, Fail(r, why), UNCHANGED vars,
         codes[r] = <<>>, hit' \in [Requests -> Rules \cup {NoRule}],
         hit'[r] = NoRule <=> why = "no_rule",
         \A q \in Requests \ {r} : hit'[q] = hit[q]
  PROVE  AccountInv'
<1>1. HandlerTypes /\ why \in Failures
  BY FailureNames DEF AccountInv
<1>2. /\ stage'[r] = "ended" /\ reply'[r] = why /\ codes'[r] = <<CodeOf[why]>>
      /\ stage' \in [Requests -> Stages] /\ reply' \in [Requests -> Replies]
      /\ codes' \in [Requests -> Tallies]
      /\ \A q \in Requests \ {r} :
           stage'[q] = stage[q] /\ reply'[q] = reply[q] /\ codes'[q] = codes[q]
  BY <1>1, FailCounts
<1>3. \A q \in Requests \ {r} : Same(q)
  BY <1>2, CallsKeepOthers DEF Same
<1>4. HandlerTypes' /\ Accounted(r)'
  BY <1>1, <1>2 DEF HandlerTypes, Accounted
<1> QED
  BY <1>3, <1>4, OneHandler

\* An ending that counts nothing, outside the call.
LEMMA AccountAnswer ==
  ASSUME TypeOK, AccountInv, NEW r \in Requests, stage[r] # "ended",
         NEW how \in {"plugin", "PluginError", "gone", "ok"}, Answer(r, how),
         how = "ok" => stage[r] = "unwinding",
         UNCHANGED <<vars, hit, codes>>
  PROVE  AccountInv'
<1>1. HandlerTypes /\ Accounted(r) /\ how \in Replies /\ how \notin Failures
  BY FailureNames DEF AccountInv, Replies
<1>2. /\ stage'[r] = "ended" /\ reply'[r] = how
      /\ stage' \in [Requests -> Stages] /\ reply' \in [Requests -> Replies]
      /\ \A q \in Requests \ {r} : stage'[q] = stage[q] /\ reply'[q] = reply[q]
  BY <1>1, AnswerTypes
<1>3. \A q \in Requests \ {r} : Same(q)
  BY <1>2, CallsKeepOthers DEF Same, vars
<1>4. HandlerTypes' /\ Accounted(r)'
  BY <1>1, <1>2 DEF HandlerTypes, Accounted, vars
<1> QED
  BY <1>3, <1>4, OneHandler

LEMMA AccountCall ==
  ASSUME TypeOK, AccountInv, NEW r \in Requests, CallStep(r)
  PROVE  AccountInv'
<1>1. HandlerTypes /\ Accounted(r) /\ stage[r] = "calling" /\ codes[r] = <<>>
      /\ hit[r] \in Rules /\ reply[r] = "none"
  BY DEF AccountInv, Accounted, CallStep
<1>2. Call(r) /\ hit' = hit /\ kind'[r] = kind[r]
  BY CallResult DEF CallStep
<1>3. \A q \in Requests \ {r} : result'[q] = result[q] /\ kind'[q] = kind[q]
  BY <1>2, CallsKeepOthers
<1>4. NoRule \notin Rules
  BY HandlerAssumption
<1>5. CASE pc'[r] # "done"
  <2>1. stage' = stage /\ codes' = codes /\ reply' = reply
    BY <1>5 DEF CallStep
  <2>2. \A q \in Requests \ {r} : Same(q)
    BY <1>2, <1>3, <2>1 DEF Same
  <2>3. HandlerTypes' /\ Accounted(r)'
    BY <1>1, <1>2, <2>1 DEF HandlerTypes, Accounted
  <2> QED
    BY <2>2, <2>3, OneHandler
<1>6. ASSUME pc'[r] = "done", NEW why \in Failures, Fail(r, why), why # "no_rule",
             why = "breaker_open" => result'[r] = "rejected",
             why = "UpstreamConnection" => result'[r] = "upstream_error" /\ kind[r] = "http"
      PROVE  AccountInv'
  <2>1. /\ stage'[r] = "ended" /\ reply'[r] = why /\ codes'[r] = <<CodeOf[why]>>
        /\ stage' \in [Requests -> Stages] /\ reply' \in [Requests -> Replies]
        /\ codes' \in [Requests -> Tallies]
        /\ \A q \in Requests \ {r} :
             stage'[q] = stage[q] /\ reply'[q] = reply[q] /\ codes'[q] = codes[q]
    BY <1>1, <1>6, FailCounts
  <2>2. \A q \in Requests \ {r} : Same(q)
    BY <1>2, <1>3, <2>1 DEF Same
  <2>3. HandlerTypes' /\ Accounted(r)'
    BY <1>1, <1>2, <1>4, <1>6, <2>1, FailureNames DEF HandlerTypes, Accounted
  <2> QED
    BY <2>2, <2>3, OneHandler
<1>7. CASE pc'[r] = "done" /\ result'[r] = "ok"
  <2>1. /\ stage'[r] = "unwinding" /\ reply' = reply /\ codes' = codes
        /\ stage' \in [Requests -> Stages]
        /\ \A q \in Requests \ {r} : stage'[q] = stage[q]
    BY <1>1, <1>7, MoveTypes DEF CallStep, CallEnds, Stages
  <2>2. \A q \in Requests \ {r} : Same(q)
    BY <1>2, <1>3, <2>1 DEF Same
  <2>3. HandlerTypes' /\ Accounted(r)'
    BY <1>1, <1>2, <1>7, <2>1 DEF HandlerTypes, Accounted
  <2> QED
    BY <2>2, <2>3, OneHandler
<1>8. CASE pc'[r] = "done" /\ result'[r] = "dropped"
  <2>1. "gone" \in Replies /\ "gone" \notin Failures
    BY FailureNames DEF Replies
  <2>2. Answer(r, "gone") /\ codes' = codes
    BY <1>8 DEF CallStep, CallEnds
  <2>3. /\ stage'[r] = "ended" /\ reply'[r] = "gone"
        /\ stage' \in [Requests -> Stages] /\ reply' \in [Requests -> Replies]
        /\ \A q \in Requests \ {r} : stage'[q] = stage[q] /\ reply'[q] = reply[q]
    BY <1>1, <2>1, <2>2, AnswerTypes
  <2>4. \A q \in Requests \ {r} : Same(q)
    BY <1>2, <1>3, <2>2, <2>3 DEF Same
  <2>5. HandlerTypes' /\ Accounted(r)'
    BY <1>1, <1>2, <2>1, <2>2, <2>3 DEF HandlerTypes, Accounted
  <2> QED
    BY <2>4, <2>5, OneHandler
<1>9. CASE pc'[r] = "done" /\ result'[r] = "rejected"
  <2>1. Fail(r, "breaker_open")
    BY <1>9 DEF CallStep, CallEnds
  <2> QED
    BY <1>6, <1>9, <2>1, FailureNames
<1>10. CASE pc'[r] = "done" /\ result'[r] = "body_error"
  <2>1. Fail(r, "BodyRead")
    BY <1>10 DEF CallStep, CallEnds
  <2> QED
    BY <1>6, <1>10, <2>1, FailureNames
<1>11. CASE pc'[r] = "done" /\ result'[r] = "upstream_error"
  <2>1. Fail(r, IF kind[r] = "ws" THEN "WsUpgrade" ELSE "UpstreamConnection")
    BY <1>11 DEF CallStep, CallEnds
  <2>2. kind[r] \in {"http", "ws"}
    BY DEF TypeOK
  <2>3. CASE kind[r] = "ws"
    <3>1. Fail(r, "WsUpgrade")
      BY <2>1, <2>3
    <3> QED
      BY <1>6, <1>11, <3>1, FailureNames
  <2>4. CASE kind[r] = "http"
    <3>1. Fail(r, "UpstreamConnection")
      BY <2>1, <2>4
    <3> QED
      BY <1>6, <1>11, <2>4, <3>1, FailureNames
  <2> QED
    BY <2>2, <2>3, <2>4
<1> QED
  BY <1>2, <1>5, <1>7, <1>8, <1>9, <1>10, <1>11, CallResult

LEMMA AccountHandle ==
  ASSUME TypeOK, AccountInv, NEW r \in Requests, Handle(r)
  PROVE  AccountInv'
<1>1. HandlerTypes /\ Accounted(r) /\ NoRule \notin Rules
  BY HandlerAssumption DEF AccountInv
<1>2. CASE Accept(r)
  <2>1. /\ stage' = [stage EXCEPT ![r] = "plugins"] /\ hit' = [hit EXCEPT ![r] = NoRule]
        /\ codes' = [codes EXCEPT ![r] = <<>>] /\ reply' = [reply EXCEPT ![r] = "none"]
        /\ result' = result /\ kind' = kind
    BY <1>2 DEF Accept, vars
  <2>2. <<>> \in Tallies /\ "none" \in Replies /\ "plugins" \in Stages
    BY DEF Tallies, Replies, Stages
  <2>3. \A q \in Requests \ {r} : Same(q)
    BY <1>1, <2>1 DEF HandlerTypes, Same
  <2>4. HandlerTypes'
    BY <1>1, <2>1, <2>2 DEF HandlerTypes
  <2>5. stage'[r] = "plugins" /\ hit'[r] = NoRule /\ codes'[r] = <<>> /\ reply'[r] = "none"
    BY <1>1, <2>1 DEF HandlerTypes
  <2>6. Accounted(r)'
    BY <2>5 DEF Accounted
  <2> QED
    BY <2>3, <2>4, <2>6, OneHandler
<1>3. CASE PluginContinues(r) \/ PluginReturns(r)
  <2>1. /\ stage' = stage /\ hit' = hit /\ codes' = codes /\ reply' = reply
        /\ result' = result /\ kind' = kind
    BY <1>3 DEF PluginContinues, PluginReturns, vars
  <2> QED
    BY <2>1 DEF AccountInv, HandlerTypes, Accounted
<1>4. CASE PluginAnswers(r) \/ PluginFails(r) \/ PluginSpoils(r) \/ Finish(r) \/ Gone(r)
  <2>1. \E how \in {"plugin", "PluginError", "gone", "ok"} :
          /\ Answer(r, how) /\ (how = "ok" => stage[r] = "unwinding")
          /\ stage[r] # "ended" /\ UNCHANGED <<vars, hit, codes>>
    BY <1>4 DEF PluginAnswers, PluginFails, PluginSpoils, Finish, Gone, InChain, Unwinding
  <2> QED
    BY <2>1, AccountAnswer
<1>5. CASE RouteMiss(r)
  <2>1. /\ Fail(r, "no_rule") /\ UNCHANGED vars /\ hit' = hit
        /\ codes[r] = <<>> /\ hit[r] = NoRule
    BY <1>1, <1>5 DEF RouteMiss, Routing, Accounted
  <2> QED
    BY <1>1, <2>1, AccountFail DEF HandlerTypes
<1>6. ASSUME NEW rule \in Rules, RouteHit(r, rule)
      PROVE  AccountInv'
  <2>1. /\ hit' = [hit EXCEPT ![r] = rule] /\ stage[r] = "plugins" /\ codes[r] = <<>>
        /\ reply[r] = "none"
    BY <1>1, <1>6 DEF RouteHit, Routing, Accounted
  <2>2. /\ hit'[r] = rule /\ hit' \in [Requests -> Rules \cup {NoRule}]
        /\ \A q \in Requests \ {r} : hit'[q] = hit[q]
    BY <1>1, <2>1 DEF HandlerTypes
  <2>3. CASE \E u \in Upstreams, k \in {"http", "ws"} : Forward(r, u, k)
    BY <2>1, <2>3, AccountForward
  <2>4. CASE Move(r, "resolving") /\ UNCHANGED <<vars, met, unwound, codes>>
    <3>1. "resolving" \in Stages
      BY DEF Stages
    <3>2. /\ stage'[r] = "resolving" /\ reply' = reply /\ codes' = codes
          /\ stage' \in [Requests -> Stages]
          /\ \A q \in Requests \ {r} : stage'[q] = stage[q]
      BY <1>1, <2>4, <3>1, MoveTypes
    <3>3. \A q \in Requests \ {r} : Same(q)
      BY <2>2, <2>4, <3>2 DEF Same, vars
    <3>4. HandlerTypes' /\ Accounted(r)'
      BY <1>1, <2>1, <2>2, <3>2 DEF HandlerTypes, Accounted
    <3> QED
      BY <3>3, <3>4, OneHandler
  <2>5. CASE Fail(r, "NoInstances") /\ UNCHANGED <<vars, met, unwound>>
    BY <1>1, <2>1, <2>2, <2>5, AccountFail
  <2> QED
    BY <1>6, <2>3, <2>4, <2>5 DEF RouteHit
<1>7. CASE Resolved(r)
  <2>1. PICK u \in Upstreams, k \in {"http", "ws"} : Forward(r, u, k)
    BY <1>7 DEF Resolved
  <2>2. stage[r] = "resolving" /\ hit[r] \in Rules /\ hit' = [hit EXCEPT ![r] = hit[r]]
    BY <1>1, <1>7 DEF Resolved, Accounted, HandlerTypes
  <2> QED
    BY <2>1, <2>2, AccountForward
<1>8. CASE ResolveFails(r)
  <2>1. /\ Fail(r, "AllFailed") /\ UNCHANGED vars /\ hit' = hit
        /\ codes[r] = <<>> /\ hit[r] # NoRule
    BY <1>1, <1>8 DEF ResolveFails, Accounted
  <2> QED
    BY <1>1, <2>1, AccountFail DEF HandlerTypes
<1> QED
  BY <1>2, <1>3, <1>4, <1>5, <1>6, <1>7, <1>8, AccountCall DEF Handle

\* The account of a request and what the breaker noted of it agree in what CountedOnce says.
LEMMA AccountSuffices == AccountInv /\ AttemptsNotedOnce => CountedOnce
<1> SUFFICES ASSUME AccountInv, AttemptsNotedOnce, NEW r \in Requests
             PROVE  IF stage[r] = "ended" /\ reply[r] \in Failures
                    THEN /\ Len(codes[r]) = 1
                         /\ (Status(reply[r]) = 503) =
                              (codes[r][1] \in {"no_matching_route", "no_instances"})
                         /\ (hit[r] = NoRule) = (codes[r][1] = "no_matching_route")
                         /\ (codes[r][1] = "circuit_breaker_open") => noted[r] = 0
                         /\ (codes[r][1] = "upstream_connection") => noted[r] = retries[r] + 1
                    ELSE /\ codes[r] = <<>>
                         /\ reply[r] = "ok" => hit[r] # NoRule /\ result[r] = "ok"
  BY DEF CountedOnce
<1>1. Accounted(r) /\ NoRule \notin Rules
  BY HandlerAssumption DEF AccountInv
<1>2. ASSUME stage[r] = "ended", reply[r] \in Failures
      PROVE  /\ Len(codes[r]) = 1
             /\ (Status(reply[r]) = 503) =
                  (codes[r][1] \in {"no_matching_route", "no_instances"})
             /\ (hit[r] = NoRule) = (codes[r][1] = "no_matching_route")
             /\ (codes[r][1] = "circuit_breaker_open") => noted[r] = 0
             /\ (codes[r][1] = "upstream_connection") => noted[r] = retries[r] + 1
  <2>1. codes[r] = <<CodeOf[reply[r]]>> /\ (hit[r] = NoRule <=> reply[r] = "no_rule")
    BY <1>1, <1>2 DEF Accounted
  <2>2. Len(codes[r]) = 1 /\ codes[r][1] = CodeOf[reply[r]]
    BY <2>1
  <2>3. /\ (CodeOf[reply[r]] = "no_matching_route") = (reply[r] = "no_rule")
        /\ (CodeOf[reply[r]] = "no_instances") = (reply[r] = "NoInstances")
        /\ (CodeOf[reply[r]] = "circuit_breaker_open") = (reply[r] = "breaker_open")
        /\ (CodeOf[reply[r]] = "upstream_connection") = (reply[r] = "UpstreamConnection")
    BY <1>2, FailureNames DEF CodeOf
  <2>4. (Status(reply[r]) = 503) = (reply[r] \in {"no_rule", "NoInstances"})
    BY DEF Status
  <2>5. reply[r] = "breaker_open" => noted[r] = 0
    BY <1>1, <1>2 DEF Accounted, AttemptsNotedOnce
  <2>6. reply[r] = "UpstreamConnection" => noted[r] = retries[r] + 1
    BY <1>1, <1>2 DEF Accounted, AttemptsNotedOnce
  <2> QED
    BY <2>1, <2>2, <2>3, <2>4, <2>5, <2>6
<1>3. ASSUME ~(stage[r] = "ended" /\ reply[r] \in Failures)
      PROVE  codes[r] = <<>> /\ (reply[r] = "ok" => hit[r] # NoRule /\ result[r] = "ok")
  BY <1>1, <1>3 DEF Accounted
<1> QED
  BY <1>2, <1>3

\* The account holds of the handler all the time, and so does what it rests on.
LEMMA AccountHolds == ProxySpec => []TypeOK /\ []AttemptsNotedOnce /\ []AccountInv
<1>1. TypeOK /\ AccountInv /\ [ProxyNext]_proxyVars => AccountInv'
  <2> SUFFICES ASSUME TypeOK, AccountInv, [ProxyNext]_proxyVars PROVE AccountInv'
    OBVIOUS
  <2>1. CASE \E r \in Requests : Handle(r)
    BY <2>1, AccountHandle
  <2>2. CASE Clock \/ UNCHANGED proxyVars
    <3>1. UNCHANGED handlerVars /\ result' = result /\ kind' = kind
      BY <2>2 DEF Clock, ClockTick, ClockStepBack, callVars, proxyVars, vars
    <3> QED
      BY <3>1 DEF handlerVars, AccountInv, HandlerTypes, Accounted
  <2> QED
    BY <2>1, <2>2 DEF ProxyNext
<1>2. ProxySpec => []TypeOK /\ []AttemptsNotedOnce
  BY HandlerImplementsCalls, TypeCorrect, AttemptsCounted, PTL DEF ImplementsCalls
<1> QED
  BY <1>1, <1>2, InitAccount, PTL DEF ProxySpec

\* Every request that ends leaves one mark on the metrics that fits what became of it
\* (CountedOnce), for any chain, rules, upstreams and number of requests.
THEOREM EndingsCounted == ProxySpec => []CountedOnce
BY AccountHolds, AccountSuffices, PTL

-----------------------------------------------------------------------------
(* The plugins around a request *)

N == Cardinality(Loaded)

Earlier == {pair \in Loaded \X Loaded : Before(pair[1], pair[2])}

LEMMA LoadedFacts ==
  /\ IsFiniteSet(Loaded) /\ N \in Nat
  /\ \A i \in Loaded : i \in DOMAIN PluginConfigs /\ i \in Int /\ Config(i).order \in Int
<1>1. PluginConfigs \in Seq([name : STRING, enabled : BOOLEAN, order : Int])
  BY HandlerAssumption
<1>2. Len(PluginConfigs) \in Nat /\ DOMAIN PluginConfigs = 1..Len(PluginConfigs)
      /\ \A i \in DOMAIN PluginConfigs : Config(i).order \in Int
  <2>1. Len(PluginConfigs) \in Nat /\ DOMAIN PluginConfigs = 1..Len(PluginConfigs)
    BY <1>1, LenProperties
  <2>2. ASSUME NEW i \in 1..Len(PluginConfigs)
        PROVE  PluginConfigs[i] \in [name : STRING, enabled : BOOLEAN, order : Int]
    BY <1>1, ElementOfSeq
  <2> QED
    BY <2>1, <2>2 DEF Config
<1>3. IsFiniteSet(1..Len(PluginConfigs))
  BY <1>2, FS_Interval
<1>4. Loaded \subseteq 1..Len(PluginConfigs)
  BY <1>2 DEF Loaded
<1>5. IsFiniteSet(Loaded)
  BY <1>3, <1>4, FS_Subset
<1> QED
  BY <1>2, <1>4, <1>5, FS_CardinalityType DEF N

\* Before orders the loaded plugins: no two of them have one place.
LEMMA EarlierOrders == StrictlyOrders(Earlier, Loaded)
<1>1. \A i, j \in Loaded : <<i, j>> \in Earlier <=> Before(i, j)
  BY DEF Earlier
<1>2. /\ \A i \in Loaded : ~Before(i, i)
      /\ \A i, j \in Loaded : i = j \/ Before(i, j) \/ Before(j, i)
      /\ \A i, j, k \in Loaded : Before(i, j) /\ Before(j, k) => Before(i, k)
  BY LoadedFacts DEF Before
<1> QED
  BY <1>1, <1>2, LoadedFacts DEF StrictlyOrders

\* The chain has every loaded plugin once, by rising order.
LEMMA ChainFacts ==
  /\ Chain \in Seq(Loaded) /\ Len(Chain) = N
  /\ \A k \in 1..N : Chain[k] \in Loaded
  /\ \A k, l \in 1..N : k < l => Config(Chain[k]).order <= Config(Chain[l]).order
  /\ \A i \in Loaded : \E k \in 1..N : Chain[k] = i
<1>1. \A i \in Loaded : {j \in Loaded : Before(j, i)} = {j \in Loaded : <<j, i>> \in Earlier}
  BY DEF Earlier
<1>2. \A i \in Loaded : Cardinality({j \in Loaded : Before(j, i)}) = Rank(Earlier, Loaded, i)
  BY <1>1 DEF Rank
<1>3. Chain = InPlaces(Earlier, Loaded)
  BY <1>2 DEF Chain, InPlaces
<1>4. /\ Chain \in [1..N -> Loaded]
      /\ \A k, l \in 1..N : k < l <=> <<Chain[k], Chain[l]>> \in Earlier
      /\ \A i \in Loaded : \E k \in 1..N : Chain[k] = i
  BY <1>3, EarlierOrders, PlacesInOrder DEF N
<1>5. Chain \in Seq(Loaded) /\ Len(Chain) = N
  <2>1. Chain \in Seq(Loaded)
    BY <1>4, LoadedFacts, SeqDef
  <2> QED
    BY <1>4, <2>1, LoadedFacts
<1>6. \A i, j \in Loaded : <<i, j>> \in Earlier => Config(i).order <= Config(j).order
  BY LoadedFacts DEF Earlier, Before
<1> QED
  BY <1>4, <1>5, <1>6

HookTypes == met \in [Requests -> Seq(Loaded)] /\ unwound \in [Requests -> Seq(Loaded)]

\* A request met the chain from its start, its answer from its end; from the route
\* on it has met all of it, and only an answer of an upstream is handed back.
Hooked(r) ==
  /\ Len(met[r]) <= N /\ \A k \in 1..Len(met[r]) : met[r][k] = Chain[k]
  /\ Len(unwound[r]) <= N
  /\ \A k \in 1..Len(unwound[r]) : unwound[r][k] = Chain[N + 1 - k]
  /\ stage[r] \in {"resolving", "calling", "unwinding"} \/ hit[r] # NoRule => Len(met[r]) = N
  /\ unwound[r] # <<>> =>
       stage[r] \in {"unwinding", "ended"} /\ hit[r] \in Rules /\ result[r] = "ok"

UnwindInv == HookTypes /\ \A r \in Requests : Hooked(r)

LEMMA InitUnwind == ProxyInit => UnwindInv
<1> SUFFICES ASSUME ProxyInit PROVE UnwindInv
  OBVIOUS
<1>1. <<>> \in Seq(Loaded) /\ Len(<<>>) = 0 /\ 1..0 = {}
  OBVIOUS
<1> QED
  BY <1>1, LoadedFacts DEF ProxyInit, HandlerInit, UnwindInv, HookTypes, Hooked

\* What the invariant says of the requests the step is not about.
LEMMA OthersUnwind ==
  ASSUME UnwindInv, NEW r \in Requests, HookTypes', Hooked(r)',
         \A q \in Requests \ {r} :
           Same(q) /\ met'[q] = met[q] /\ unwound'[q] = unwound[q]
  PROVE  UnwindInv'
BY DEF UnwindInv, Hooked, Same

\* A step that calls no hook.
LEMMA NoHook ==
  ASSUME UnwindInv, NEW r \in Requests, met' = met, unwound' = unwound,
         \A q \in Requests \ {r} : Same(q),
         \/ Len(met[r]) = N
         \/ stage'[r] \notin {"resolving", "calling", "unwinding"} /\ hit'[r] = NoRule,
         \/ unwound[r] = <<>>
         \/ /\ stage'[r] \in {"unwinding", "ended"}
            /\ hit'[r] = hit[r] /\ result'[r] = result[r]
  PROVE  UnwindInv'
<1>1. HookTypes /\ Hooked(r)
  BY DEF UnwindInv
<1>2. HookTypes' /\ Hooked(r)'
  BY <1>1 DEF HookTypes, Hooked
<1> QED
  BY <1>2, OthersUnwind

\* One request's step in the handler touches no other.
LEMMA HandlerKeepsOthers ==
  ASSUME TypeOK, AccountInv, NEW r \in Requests, NEW to \in Stages, NEW s,
         stage' = [stage EXCEPT ![r] = to],
         reply' = [reply EXCEPT ![r] = s] \/ reply' = reply,
         \A q \in Requests \ {r} : hit'[q] = hit[q],
         codes' = codes \/ \E c : codes' = [codes EXCEPT ![r] = c],
         Call(r) \/ (\E u \in Upstreams, k \in {"http", "ws"} : Arrive(r, u, k)) \/ UNCHANGED vars
  PROVE  stage'[r] = to /\ \A q \in Requests \ {r} : Same(q)
BY CallsKeepOthers DEF AccountInv, HandlerTypes, Same

LEMMA UnwindEnd ==
  ASSUME TypeOK, AccountInv, UnwindInv, NEW r \in Requests, NEW how, stage[r] # "ended",
         Answer(r, how), codes' = codes \/ (\E c : codes' = [codes EXCEPT ![r] = c]),
         UNCHANGED <<vars, met, unwound, hit>>
  PROVE  UnwindInv'
<1>1. "ended" \in Stages /\ Hooked(r) /\ Accounted(r)
  BY DEF Stages, UnwindInv, AccountInv
<1>2. stage'[r] = "ended" /\ \A q \in Requests \ {r} : Same(q)
  BY <1>1, HandlerKeepsOthers DEF Answer
<1>3. hit'[r] = hit[r] /\ result'[r] = result[r] /\ (hit[r] # NoRule => Len(met[r]) = N)
  BY <1>1 DEF Hooked, vars
<1> QED
  BY <1>2, <1>3, NoHook

LEMMA UnwindForward ==
  ASSUME TypeOK, AccountInv, UnwindInv, NEW r \in Requests,
         stage[r] \in {"plugins", "resolving"}, Len(met[r]) = N,
         NEW u \in Upstreams, NEW k \in {"http", "ws"}, Forward(r, u, k),
         \A q \in Requests \ {r} : hit'[q] = hit[q]
  PROVE  UnwindInv'
<1>1. "calling" \in Stages /\ unwound[r] = <<>>
  BY DEF Stages, UnwindInv, Hooked
<1>2. stage' = [stage EXCEPT ![r] = "calling"] /\ Arrive(r, u, k)
      /\ met' = met /\ unwound' = unwound /\ codes' = codes /\ reply' = reply
  BY DEF Forward, Move
<1>3. \A q \in Requests \ {r} : Same(q)
  BY <1>1, <1>2, HandlerKeepsOthers
<1> QED
  BY <1>1, <1>2, <1>3, NoHook

LEMMA UnwindCall ==
  ASSUME TypeOK, AccountInv, UnwindInv, NEW r \in Requests, CallStep(r)
  PROVE  UnwindInv'
<1>1. Len(met[r]) = N /\ unwound[r] = <<>> /\ stage[r] = "calling" /\ Call(r)
      /\ met' = met /\ unwound' = unwound /\ hit' = hit
  BY DEF UnwindInv, Hooked, CallStep
<1>2. \A q \in Requests \ {r} : Same(q)
  <2>1. CASE pc'[r] # "done"
    BY <1>1, <2>1, CallsKeepOthers DEF CallStep, Same
  <2>2. CASE pc'[r] = "done"
    <3>1. CallEnds(r, result'[r])
      BY <2>2 DEF CallStep
    <3>2. \/ stage' = [stage EXCEPT ![r] = "unwinding"] /\ reply' = reply /\ codes' = codes
          \/ \E s : /\ stage' = [stage EXCEPT ![r] = "ended"]
                    /\ reply' = [reply EXCEPT ![r] = s]
                    /\ codes' = codes \/ \E c : codes' = [codes EXCEPT ![r] = c]
      BY <1>1, <2>2, <3>1, CallResult DEF CallEnds, Move, Answer, Fail
    <3>3. "unwinding" \in Stages /\ "ended" \in Stages
      BY DEF Stages
    <3> QED
      BY <1>1, <3>2, <3>3, HandlerKeepsOthers
  <2> QED
    BY <2>1, <2>2
<1> QED
  BY <1>1, <1>2, NoHook

\* The two hooks: a plugin more was met, a plugin more took the answer.
LEMMA UnwindHook ==
  ASSUME UnwindInv, AccountInv, NEW r \in Requests, PluginContinues(r) \/ PluginReturns(r)
  PROVE  UnwindInv'
<1>1. HookTypes /\ Hooked(r) /\ Accounted(r) /\ N \in Nat /\ Len(Chain) = N
      /\ \A k \in 1..N : Chain[k] \in Loaded
  BY LoadedFacts, ChainFacts DEF UnwindInv, AccountInv
<1>2. /\ stage' = stage /\ hit' = hit /\ result' = result /\ codes' = codes
      /\ reply' = reply /\ kind' = kind
  BY DEF PluginContinues, PluginReturns, vars
<1>3. met[r] \in Seq(Loaded) /\ unwound[r] \in Seq(Loaded)
      /\ Len(met[r]) \in Nat /\ Len(unwound[r]) \in Nat
  BY <1>1 DEF HookTypes
<1>4. CASE PluginContinues(r)
  <2> DEFINE next == Chain[Len(met[r]) + 1]
             more == Append(met[r], next)
  <2>1. /\ stage[r] = "plugins" /\ Len(met[r]) < N
        /\ met' = [met EXCEPT ![r] = more] /\ unwound' = unwound
    BY <1>1, <1>4 DEF PluginContinues, InChain
  <2>2. Len(met[r]) + 1 \in 1..N /\ next \in Loaded
    BY <1>1, <1>3, <2>1
  <2> HIDE DEF next
  <2>3. /\ more \in Seq(Loaded) /\ Len(more) = Len(met[r]) + 1
        /\ \A k \in 1..Len(met[r]) : more[k] = met[r][k]
        /\ more[Len(met[r]) + 1] = next
    BY <1>3, <2>2, AppendProperties
  <2> HIDE DEF more
  <2>4. met' \in [Requests -> Seq(Loaded)] /\ met'[r] = more
        /\ \A q \in Requests \ {r} : met'[q] = met[q]
    BY <1>1, <2>1, <2>3 DEF HookTypes
  <2>5. \A k \in 1..Len(more) : more[k] = Chain[k]
    <3>1. \A k \in 1..Len(met[r]) : met[r][k] = Chain[k]
      BY <1>1 DEF Hooked
    <3> QED
      BY <1>3, <2>3, <3>1 DEF next
  <2>6. unwound[r] = <<>> /\ hit[r] = NoRule
    BY <1>1, <2>1 DEF Hooked, Accounted
  <2>7. Hooked(r)'
    BY <1>1, <1>2, <1>3, <2>1, <2>2, <2>3, <2>4, <2>5, <2>6 DEF Hooked
  <2> QED
    BY <1>1, <1>2, <2>1, <2>4, <2>7, OthersUnwind DEF HookTypes, Same
<1>5. CASE PluginReturns(r)
  <2> DEFINE next == NextToUnwind(r)
             more == Append(unwound[r], next)
  <2>1. /\ stage[r] = "unwinding" /\ Len(unwound[r]) < N
        /\ unwound' = [unwound EXCEPT ![r] = more] /\ met' = met
    BY <1>1, <1>5 DEF PluginReturns, Unwinding
  <2>2. /\ N - Len(unwound[r]) \in 1..N
        /\ next = Chain[N - Len(unwound[r])] /\ next \in Loaded
        /\ N + 1 - (Len(unwound[r]) + 1) = N - Len(unwound[r])
    BY <1>1, <1>3, <2>1 DEF NextToUnwind
  <2> HIDE DEF next
  <2>3. /\ more \in Seq(Loaded) /\ Len(more) = Len(unwound[r]) + 1
        /\ \A k \in 1..Len(unwound[r]) : more[k] = unwound[r][k]
        /\ more[Len(unwound[r]) + 1] = next
    BY <1>3, <2>2, AppendProperties
  <2> HIDE DEF more
  <2>4. unwound' \in [Requests -> Seq(Loaded)] /\ unwound'[r] = more
        /\ \A q \in Requests \ {r} : unwound'[q] = unwound[q]
    BY <1>1, <2>1, <2>3 DEF HookTypes
  <2>5. \A k \in 1..Len(more) : more[k] = Chain[N + 1 - k]
    <3> SUFFICES ASSUME NEW k \in 1..Len(more) PROVE more[k] = Chain[N + 1 - k]
      OBVIOUS
    <3>1. CASE k \in 1..Len(unwound[r])
      <4>1. unwound[r][k] = Chain[N + 1 - k]
        BY <1>1, <3>1 DEF Hooked
      <4> QED
        BY <2>3, <3>1, <4>1
    <3>2. CASE k = Len(unwound[r]) + 1
      BY <2>2, <2>3, <3>2
    <3> QED
      BY <1>3, <2>3, <3>1, <3>2
  <2>6. hit[r] \in Rules /\ result[r] = "ok" /\ Len(met[r]) = N
    BY <1>1, <2>1 DEF Hooked, Accounted
  <2>7. Hooked(r)'
    <3>1. /\ met'[r] = met[r] /\ unwound'[r] = more /\ stage'[r] = stage[r]
          /\ hit'[r] = hit[r] /\ result'[r] = result[r] /\ Len(more) <= N
      BY <1>1, <1>2, <1>3, <2>1, <2>3, <2>4
    <3>2. \A k \in 1..Len(met[r]) : met[r][k] = Chain[k]
      BY <1>1 DEF Hooked
    <3> QED
      BY <1>1, <2>1, <2>5, <2>6, <3>1, <3>2 DEF Hooked
  <2> QED
    BY <1>1, <1>2, <2>1, <2>4, <2>7, OthersUnwind DEF HookTypes, Same
<1> QED
  BY <1>4, <1>5

LEMMA UnwindHandle ==
  ASSUME TypeOK, AccountInv, UnwindInv, NEW r \in Requests, Handle(r)
  PROVE  UnwindInv'
<1>1. HookTypes /\ Hooked(r) /\ Accounted(r) /\ Len(Chain) = N
  BY ChainFacts DEF UnwindInv, AccountInv
<1>2. CASE Accept(r)
  <2>1. /\ stage' = [stage EXCEPT ![r] = "plugins"] /\ hit' = [hit EXCEPT ![r] = NoRule]
        /\ codes' = [codes EXCEPT ![r] = <<>>] /\ reply' = [reply EXCEPT ![r] = "none"]
        /\ met' = [met EXCEPT ![r] = <<>>] /\ unwound' = [unwound EXCEPT ![r] = <<>>]
        /\ result' = result /\ kind' = kind
    BY <1>2 DEF Accept, vars
  <2>2. HandlerTypes /\ <<>> \in Seq(Loaded) /\ Len(<<>>) = 0 /\ 1..0 = {}
    BY DEF AccountInv
  <2>3. \A q \in Requests \ {r} : Same(q) /\ met'[q] = met[q] /\ unwound'[q] = unwound[q]
    BY <1>1, <2>1, <2>2 DEF HandlerTypes, HookTypes, Same
  <2>4. /\ stage'[r] = "plugins" /\ hit'[r] = NoRule
        /\ met'[r] = <<>> /\ unwound'[r] = <<>> /\ HookTypes'
    BY <1>1, <2>1, <2>2 DEF HandlerTypes, HookTypes
  <2>5. Hooked(r)'
    BY <2>2, <2>4, LoadedFacts DEF Hooked
  <2> QED
    BY <2>3, <2>4, <2>5, OthersUnwind
<1>3. CASE PluginAnswers(r) \/ PluginFails(r) \/ PluginSpoils(r) \/ Finish(r) \/ Gone(r)
           \/ RouteMiss(r) \/ ResolveFails(r)
  <2>1. \E how : /\ Answer(r, how) /\ stage[r] # "ended"
                 /\ codes' = codes \/ \E c : codes' = [codes EXCEPT ![r] = c]
                 /\ UNCHANGED <<vars, met, unwound, hit>>
    BY <1>3 DEF PluginAnswers, PluginFails, PluginSpoils, Finish, Gone, RouteMiss,
                ResolveFails, Fail, InChain, Unwinding, Routing
  <2> QED
    BY <2>1, UnwindEnd
<1>4. ASSUME NEW rule \in Rules, RouteHit(r, rule)
      PROVE  UnwindInv'
  <2>1. /\ hit' = [hit EXCEPT ![r] = rule] /\ stage[r] = "plugins" /\ Len(met[r]) = N
        /\ unwound[r] = <<>> /\ \A q \in Requests \ {r} : hit'[q] = hit[q]
    BY <1>1, <1>4 DEF RouteHit, Routing, Hooked, AccountInv, HandlerTypes
  <2>2. ASSUME NEW u \in Upstreams, NEW k \in {"http", "ws"}, Forward(r, u, k)
        PROVE  UnwindInv'
    BY <2>1, <2>2, UnwindForward
  <2>3. CASE Move(r, "resolving") /\ UNCHANGED <<vars, met, unwound, codes>>
    <3>1. \A q \in Requests \ {r} : Same(q)
      <4>1. "resolving" \in Stages /\ stage' = [stage EXCEPT ![r] = "resolving"]
            /\ reply' = reply /\ codes' = codes /\ UNCHANGED vars
        BY <2>3 DEF Move, Stages
      <4> QED
        BY <2>1, <4>1, HandlerKeepsOthers
    <3> QED
      BY <2>1, <2>3, <3>1, NoHook
  <2>4. CASE Fail(r, "NoInstances") /\ UNCHANGED <<vars, met, unwound>>
    <3>1. \A q \in Requests \ {r} : Same(q)
      <4>1. "ended" \in Stages /\ stage' = [stage EXCEPT ![r] = "ended"]
            /\ reply' = [reply EXCEPT ![r] = "NoInstances"]
            /\ (\E c : codes' = [codes EXCEPT ![r] = c]) /\ UNCHANGED vars
        BY <2>4 DEF Fail, Answer, Stages
      <4> QED
        BY <2>1, <4>1, HandlerKeepsOthers
    <3> QED
      BY <2>1, <2>4, <3>1, NoHook
  <2> QED
    BY <1>4, <2>2, <2>3, <2>4 DEF RouteHit
<1>5. CASE Resolved(r)
  <2>1. stage[r] = "resolving" /\ Len(met[r]) = N /\ hit' = hit
    BY <1>1, <1>5 DEF Resolved, Hooked
  <2> QED
    BY <1>5, <2>1, UnwindForward DEF Resolved
<1> QED
  BY <1>2, <1>3, <1>4, <1>5, UnwindCall, UnwindHook DEF Handle

LEMMA UnwindSuffices == UnwindInv => PluginsUnwind
<1> SUFFICES ASSUME UnwindInv, NEW r \in Requests
             PROVE  LET n == Len(unwound[r]) IN
               /\ Rising(Orders(met[r]))
               /\ Rising([k \in 1..n |-> Orders(unwound[r])[n + 1 - k]])
               /\ unwound[r] = [k \in 1..n |-> met[r][Len(met[r]) + 1 - k]]
               /\ hit[r] # NoRule =>
                    {met[r][k] : k \in DOMAIN met[r]} =
                      {i \in DOMAIN PluginConfigs :
                         Config(i).enabled /\ Config(i).name \in KnownNames}
               /\ unwound[r] # <<>> => hit[r] # NoRule /\ result[r] = "ok"
  BY DEF PluginsUnwind
<1> DEFINE n == Len(unwound[r])
           m == Len(met[r])
           order(i) == Config(i).order
<1>1. Hooked(r) /\ N \in Nat /\ n \in Nat /\ m \in Nat
      /\ DOMAIN met[r] = 1..m /\ DOMAIN unwound[r] = 1..n
      /\ met[r] \in Seq(Loaded) /\ unwound[r] \in Seq(Loaded)
  BY LoadedFacts DEF UnwindInv, HookTypes
<1>2. m <= N /\ n <= N /\ (\A k \in 1..m : met[r][k] = Chain[k])
      /\ \A k \in 1..n : unwound[r][k] = Chain[N + 1 - k]
  BY <1>1 DEF Hooked
<1>3. \A k, l \in 1..N : k < l => order(Chain[k]) <= order(Chain[l])
  BY ChainFacts
<1> HIDE DEF n, m, order
<1>4. Rising(Orders(met[r]))
  <2>1. Orders(met[r]) = [k \in 1..m |-> order(Chain[k])]
    BY <1>1, <1>2 DEF Orders, order
  <2>2. 1..m \subseteq 1..N
    BY <1>1, <1>2
  <2> QED
    BY <1>3, <2>1, <2>2 DEF Rising
<1>5. Rising([k \in 1..n |-> Orders(unwound[r])[n + 1 - k]])
  <2>1. \A k \in 1..n : n + 1 - k \in 1..n /\ N - n + k \in 1..N
                        /\ N + 1 - (n + 1 - k) = N - n + k
    BY <1>1, <1>2
  <2>2. \A k \in 1..n : Orders(unwound[r])[k] = order(Chain[N + 1 - k])
    BY <1>1, <1>2 DEF Orders, order
  <2>3. \A k \in 1..n : Orders(unwound[r])[n + 1 - k] = order(Chain[N - n + k])
    <3> TAKE k \in 1..n
    <3> QED
      BY <2>1, <2>2
  <2>4. \A k, l \in 1..n : k < l => order(Chain[N - n + k]) <= order(Chain[N - n + l])
    <3> SUFFICES ASSUME NEW k \in 1..n, NEW l \in 1..n, k < l
                 PROVE  order(Chain[N - n + k]) <= order(Chain[N - n + l])
      OBVIOUS
    <3>1. N - n + k < N - n + l
      BY <1>1
    <3> QED
      BY <1>3, <2>1, <3>1
  <2> QED
    BY <2>3, <2>4 DEF Rising
<1>6. unwound[r] # <<>> => hit[r] # NoRule /\ result[r] = "ok" /\ m = N
  BY <1>1, HandlerAssumption DEF Hooked, m
<1>7. unwound[r] = [k \in 1..n |-> met[r][m + 1 - k]]
  <2>1. CASE unwound[r] = <<>>
    <3>1. 1..n = {}
      BY <2>1 DEF n
    <3> QED
      BY <1>1, <2>1, <3>1
  <2>2. CASE unwound[r] # <<>>
    <3>1. m = N /\ \A k \in 1..n : m + 1 - k \in 1..m
      BY <1>1, <1>2, <1>6, <2>2
    <3>2. \A k \in 1..n : unwound[r][k] = met[r][m + 1 - k]
      BY <1>2, <3>1
    <3>3. unwound[r] = [k \in 1..n |-> unwound[r][k]]
      BY <1>1
    <3> QED
      BY <3>2, <3>3
  <2> QED
    BY <2>1, <2>2
<1>8. ASSUME hit[r] # NoRule
      PROVE  {met[r][k] : k \in DOMAIN met[r]} = Loaded
  <2>1. m = N
    BY <1>1, <1>8 DEF Hooked, m
  <2>2. DOMAIN met[r] = 1..N /\ \A k \in 1..N : met[r][k] = Chain[k]
    BY <1>1, <1>2, <2>1
  <2>3. /\ \A k \in 1..N : Chain[k] \in Loaded
        /\ \A i \in Loaded : \E k \in 1..N : Chain[k] = i
    BY ChainFacts
  <2> QED
    BY <2>2, <2>3
<1> QED
  BY <1>4, <1>5, <1>6, <1>7, <1>8 DEF n, m, Loaded

\* Plugins meet a request by rising order, all before it is routed, and its answer in
\* reverse, never after one of them answered or failed (PluginsUnwind): for any plugins.
THEOREM ChainUnwinds == ProxySpec => []PluginsUnwind
<1>1. TypeOK /\ AccountInv /\ UnwindInv /\ [ProxyNext]_proxyVars => UnwindInv'
  <2> SUFFICES ASSUME TypeOK, AccountInv, UnwindInv, [ProxyNext]_proxyVars PROVE UnwindInv'
    OBVIOUS
  <2>1. CASE \E r \in Requests : Handle(r)
    BY <2>1, UnwindHandle
  <2>2. CASE Clock \/ UNCHANGED proxyVars
    <3>1. UNCHANGED handlerVars /\ result' = result
      BY <2>2 DEF Clock, ClockTick, ClockStepBack, callVars, proxyVars, vars
    <3> QED
      BY <3>1 DEF handlerVars, UnwindInv, HookTypes, Hooked
  <2> QED
    BY <2>1, <2>2 DEF ProxyNext
<1> QED
  BY <1>1, InitUnwind, AccountHolds, UnwindSuffices, PTL DEF ProxySpec
=============================================================================
