----------------------------- MODULE ProxyHandler -----------------------------
(***************************************************************************)
(* server/handlers.rs: proxy_handler from the first plugin to the answer,  *)
(* around the upstream calls of UpstreamCall; with the plugin chain of     *)
(* server/plugin.rs and what server/metrics.rs counts on the way.  Plugins *)
(* are arbitrary code: each may go on, answer itself, fail or panic.  The  *)
(* counters of ProxyMetrics are the sums of what the requests add to them. *)
(***************************************************************************)
EXTENDS UpstreamCall, FiniteSets

CONSTANTS PluginConfigs,  \* server.plugins: a sequence of [name, enabled, order]
          KnownNames,     \* the names build_plugin_chain has a plugin for
          Rules,          \* the routing rules
          RuleTarget,     \* what a rule names: "url", "service" or "nothing"
          NoRule

ASSUME HandlerAssumption ==
  /\ RuleTarget \in [Rules -> {"url", "service", "nothing"}]
  /\ NoRule \notin Rules
  /\ PluginConfigs \in Seq([name : STRING, enabled : BOOLEAN, order : Int])

VARIABLES stage,    \* where the handler of a request is
          met,      \* the plugins whose on_request let it go on, in order
          unwound,  \* the plugins whose on_response took its answer, in order
          hit,      \* the rule counted in route_hits
          codes,    \* what the request added to failure_reasons
          reply     \* what the client gets

handlerVars == <<stage, met, unwound, hit, codes, reply>>
proxyVars == <<vars, handlerVars>>

Stages == {"idle", "plugins", "routing", "resolving", "calling", "unwinding", "ended"}

-----------------------------------------------------------------------------
(* build_plugin_chain *)

Config(i) == PluginConfigs[i]

\* Mutated form: the chain is built in the order of the file.
Before_unsorted(i, j) == i < j

\* sort_by_key is stable.
Before(i, j) ==
  \/ Config(i).order < Config(j).order
  \/ Config(i).order = Config(j).order /\ i < j

\* Disabled entries and unknown names are left out.
Loaded == {i \in DOMAIN PluginConfigs : Config(i).enabled /\ Config(i).name \in KnownNames}

Chain ==
  [k \in 1..Cardinality(Loaded) |->
     CHOOSE i \in Loaded : Cardinality({j \in Loaded : Before(j, i)}) = k - 1]

-----------------------------------------------------------------------------
(* Errors, their metric codes and status codes *)

CodeOf ==
  [no_rule |-> "no_matching_route", NoInstances |-> "no_instances",
   AllFailed |-> "registry_all_failed", breaker_open |-> "circuit_breaker_open",
   UpstreamConnection |-> "upstream_connection", WsUpgrade |-> "ws_upgrade",
   BodyRead |-> "body_read"]

Failures == DOMAIN CodeOf
Replies == Failures \cup {"none", "ok", "plugin", "PluginError", "gone"}

\* ProxyError::into_response; an upstream's own status and a plugin's are theirs.
Status(answer) == IF answer \in {"no_rule", "NoInstances"} THEN 503 ELSE 502

HandlerInit ==
  /\ stage = [r \in Requests |-> "idle"]
  /\ met = [r \in Requests |-> <<>>]
  /\ unwound = [r \in Requests |-> <<>>]
  /\ hit = [r \in Requests |-> NoRule]
  /\ codes = [r \in Requests |-> <<>>]
  /\ reply = [r \in Requests |-> "none"]

ProxyInit == Init /\ HandlerInit

Move(r, to) == stage' = [stage EXCEPT ![r] = to] /\ UNCHANGED reply

Answer(r, how) ==
  /\ stage' = [stage EXCEPT ![r] = "ended"]
  /\ reply' = [reply EXCEPT ![r] = how]

\* metrics.record_failure and the return of the error.
Fail(r, why) ==
  /\ Answer(r, why)
  /\ codes' = [codes EXCEPT ![r] = Append(codes[r], CodeOf[why])]

-----------------------------------------------------------------------------
(* Mutated forms, for checking that the properties can fail. *)

\* The error of the open breaker runs through the map_err of the call too.
CallEnds_twice(r, how) ==
  CASE how = "ok" -> Move(r, "unwinding") /\ UNCHANGED codes
    [] how = "dropped" -> Answer(r, "gone") /\ UNCHANGED codes
    [] how = "rejected" ->
         /\ Answer(r, "breaker_open")
         /\ codes' = [codes EXCEPT ![r] = <<"circuit_breaker_open", "upstream_connection">>]
    [] OTHER -> Fail(r, "UpstreamConnection")

\* The upstream call is made although the breaker refuses it.
CallStep_unasked(r) ==
  /\ stage[r] = "calling"
  /\ IF pc[r] = "routed"
       THEN /\ pc' = [pc EXCEPT ![r] = "sending"]
            /\ UNCHANGED <<breakerVars, target, kind, retries, attempt, result, historyVars>>
       ELSE Call(r)
  /\ IF pc'[r] = "done" THEN Move(r, "unwinding") ELSE UNCHANGED <<stage, reply>>
  /\ UNCHANGED <<met, unwound, hit, codes>>

-----------------------------------------------------------------------------
(* Before the call *)

Accept(r) ==
  /\ stage[r] \in {"idle", "ended"}
  /\ stage' = [stage EXCEPT ![r] = "plugins"]
  /\ met' = [met EXCEPT ![r] = <<>>]
  /\ unwound' = [unwound EXCEPT ![r] = <<>>]
  /\ hit' = [hit EXCEPT ![r] = NoRule]
  /\ codes' = [codes EXCEPT ![r] = <<>>]
  /\ reply' = [reply EXCEPT ![r] = "none"]
  /\ UNCHANGED vars

InChain(r) == stage[r] = "plugins" /\ Len(met[r]) < Len(Chain)

PluginContinues(r) ==
  /\ InChain(r)
  /\ met' = [met EXCEPT ![r] = Append(met[r], Chain[Len(met[r]) + 1])]
  /\ UNCHANGED <<vars, stage, unwound, hit, codes, reply>>

\* RequestAction::Respond ends the request: no on_response is called.
PluginAnswers(r) ==
  /\ InChain(r)
  /\ Answer(r, "plugin")
  /\ UNCHANGED <<vars, met, unwound, hit, codes>>

\* An Err or a panic, which run_on_request turns into one; nothing is counted.
PluginFails(r) ==
  /\ InChain(r)
  /\ Answer(r, "PluginError")
  /\ UNCHANGED <<vars, met, unwound, hit, codes>>

Routing(r) == stage[r] = "plugins" /\ Len(met[r]) = Len(Chain)

RouteMiss(r) ==
  /\ Routing(r)
  /\ Fail(r, "no_rule")
  /\ UNCHANGED <<vars, met, unwound, hit>>

\* The upstream is known: on to the breaker check of UpstreamCall.
Forward(r, u, k) ==
  /\ Arrive(r, u, k)
  /\ Move(r, "calling")
  /\ UNCHANGED <<met, unwound, codes>>

\* record_route_hit, then upstream_url, service_id or neither.
RouteHit(r, rule) ==
  /\ Routing(r)
  /\ hit' = [hit EXCEPT ![r] = rule]
  /\ \/ /\ RuleTarget[rule] = "url"
        /\ \E u \in Upstreams, k \in {"http", "ws"} : Forward(r, u, k)
     \/ /\ RuleTarget[rule] = "service"
        /\ Move(r, "resolving")
        /\ UNCHANGED <<vars, met, unwound, codes>>
     \/ /\ RuleTarget[rule] = "nothing"
        /\ Fail(r, "NoInstances")
        /\ UNCHANGED <<vars, met, unwound>>

\* The registries list an instance, which is selected.
Resolved(r) ==
  /\ stage[r] = "resolving"
  /\ \E u \in Upstreams, k \in {"http", "ws"} : Forward(r, u, k)
  /\ UNCHANGED hit

\* Resolver answers no other error and no empty list.
ResolveFails(r) ==
  /\ stage[r] = "resolving"
  /\ Fail(r, "AllFailed")
  /\ UNCHANGED <<vars, met, unwound, hit>>

-----------------------------------------------------------------------------
(* The call and after it *)

\* What the handler does with the result of the call, in the same poll.
CallEnds(r, how) ==
  CASE how = "ok" -> Move(r, "unwinding") /\ UNCHANGED codes
    [] how = "dropped" -> Answer(r, "gone") /\ UNCHANGED codes
    [] how = "rejected" -> Fail(r, "breaker_open")
    [] how = "body_error" -> Fail(r, "BodyRead")
    [] how = "upstream_error" ->
         Fail(r, IF kind[r] = "ws" THEN "WsUpgrade" ELSE "UpstreamConnection")

CallStep(r) ==
  /\ stage[r] = "calling"
  /\ Call(r)
  /\ IF pc'[r] = "done" THEN CallEnds(r, result'[r]) ELSE UNCHANGED <<stage, codes, reply>>
  /\ UNCHANGED <<met, unwound, hit>>

\* run_on_response: from the last plugin to the first.
NextToUnwind(r) == Chain[Len(Chain) - Len(unwound[r])]

Unwinding(r) == stage[r] = "unwinding" /\ Len(unwound[r]) < Len(Chain)

PluginReturns(r) ==
  /\ Unwinding(r)
  /\ unwound' = [unwound EXCEPT ![r] = Append(unwound[r], NextToUnwind(r))]
  /\ UNCHANGED <<vars, stage, met, hit, codes, reply>>

PluginSpoils(r) ==
  /\ Unwinding(r)
  /\ Answer(r, "PluginError")
  /\ UNCHANGED <<vars, met, unwound, hit, codes>>

\* The request id is put on the answer.
Finish(r) ==
  /\ stage[r] = "unwinding" /\ Len(unwound[r]) = Len(Chain)
  /\ Answer(r, "ok")
  /\ UNCHANGED <<vars, met, unwound, hit, codes>>

\* The client goes away outside the call: at a plugin or at the registries.
Gone(r) ==
  /\ stage[r] \in {"plugins", "resolving", "unwinding"}
  /\ Answer(r, "gone")
  /\ UNCHANGED <<vars, met, unwound, hit, codes>>

Clock == (ClockTick \/ ClockStepBack) /\ UNCHANGED handlerVars

Handle(r) ==
  \/ Accept(r) \/ PluginContinues(r) \/ PluginAnswers(r) \/ PluginFails(r)
  \/ RouteMiss(r)
  \/ \E rule \in Rules : RouteHit(r, rule)
  \/ Resolved(r) \/ ResolveFails(r)
  \/ CallStep(r)
  \/ PluginReturns(r) \/ PluginSpoils(r) \/ Finish(r) \/ Gone(r)

ProxyNext == (\E r \in Requests : Handle(r)) \/ Clock

ProxySpec == ProxyInit /\ [][ProxyNext]_proxyVars

\* The clock runs, and the client's timeout ends every send.
ProxyFairness ==
  /\ WF_proxyVars(ClockTick /\ Clock)
  /\ \A r \in Requests : WF_proxyVars(CallStep(r) /\ (SendOk(r) \/ SendFail(r)))

ProxyFairSpec == ProxySpec /\ ProxyFairness

-----------------------------------------------------------------------------
(* Properties *)

\* The whole handler drives its upstream calls as UpstreamCall says: what is
\* checked and proved of the calls holds of the server that makes them.
ImplementsCalls == Spec

\* Every request that ends leaves one mark on the metrics: a refused or failed
\* one exactly one code, which fits the status the client sees, an answered
\* one a hit and no code. Only plugins and clients that leave count nothing.
CountedOnce ==
  \A r \in Requests :
    IF stage[r] = "ended" /\ reply[r] \in Failures
    THEN /\ Len(codes[r]) = 1
         /\ (Status(reply[r]) = 503) =
              (codes[r][1] \in {"no_matching_route", "no_instances"})
         /\ (hit[r] = NoRule) = (codes[r][1] = "no_matching_route")
         /\ (codes[r][1] = "circuit_breaker_open") => noted[r] = 0
         /\ (codes[r][1] = "upstream_connection") => noted[r] = retries[r] + 1
    ELSE /\ codes[r] = <<>>
         /\ reply[r] = "ok" => hit[r] # NoRule /\ result[r] = "ok"

Orders(plugins) == [k \in DOMAIN plugins |-> Config(plugins[k]).order]

Rising(s) == \A i, j \in DOMAIN s : i < j => s[i] <= s[j]

\* A request meets every enabled plugin by rising order before it is routed;
\* the answer meets the same ones by falling order, and it meets one only if
\* it comes from an upstream: never after a plugin answered, failed or panicked.
PluginsUnwind ==
  \A r \in Requests :
    LET n == Len(unwound[r]) IN
    /\ Rising(Orders(met[r]))
    /\ Rising([k \in 1..n |-> Orders(unwound[r])[n + 1 - k]])
    /\ unwound[r] = [k \in 1..n |-> met[r][Len(met[r]) + 1 - k]]
    /\ hit[r] # NoRule =>
         {met[r][k] : k \in DOMAIN met[r]} =
           {i \in DOMAIN PluginConfigs : Config(i).enabled /\ Config(i).name \in KnownNames}
    /\ unwound[r] # <<>> => hit[r] # NoRule /\ result[r] = "ok"

-----------------------------------------------------------------------------
(* What the documents say and the code does not do: TLC refutes it when it   *)
(* is made an invariant of the run proxy_requests.                           *)

\* docs/adr/002-fr6-plugin-sdk-design.md:102: failures in plugin hooks
\* increment failure_reasons["plugin_error"].
PluginErrorsCounted ==
  \A r \in Requests :
    stage[r] = "ended" /\ reply[r] = "PluginError" => codes[r] = <<"plugin_error">>
=============================================================================
