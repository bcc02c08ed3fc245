# service-router in TLA+

service-router is a reverse proxy written in Rust (axum, tokio). It routes a
request by path, method and headers to a fixed URL or to a service, asks one or
more registries for the instances of the service, chooses one, and forwards HTTP
or WebSocket traffic, with plugins, retries, a circuit breaker, a background
health checker and a config that reloads while the server runs. Around the server
stand commands that judge a configuration without serving it.

This directory models the parts in which several activities meet, and the parts
that must agree although each is code of its own. TLC checks the models on small
instances, TLAPS proves the safety properties for every instance.

Paths below are relative to the crate's `src/`, those of documents to the
repository.

## 1. Inventory

| Component | State | Operations | Meets |
|---|---|---|---|
| Circuit breaker `server/circuit_breaker.rs` | per upstream: an atomic count of consecutive failures, an atomic stamp in wall-clock seconds | `allow`, `record_success`, `record_failure` | every request to the upstream |
| Upstream attempts `server/handlers.rs` (`proxy_with_retry`) | the attempt counter of a request | read the body, send, note the outcome, try again | breaker, HTTP client, client disconnects |
| Proxy handler `server/handlers.rs` (`proxy_handler`) | none of its own; snapshots of router, resolver and config | plugins, route, resolve, select, rewrite, breaker, forward, plugins, metrics | nearly everything |
| Plugin chain `server/plugin.rs` | a list of plugins, fixed at startup | run over requests in order, over responses in reverse | requests |
| Metrics `server/metrics.rs` | counters | count a route hit, count a failure | requests |
| Instance selection `server/handlers.rs` | one `AtomicUsize` per service | `first`, `round_robin`, `random`, `weighted_round_robin` over the unmarked part of a list | health marks, concurrent requests |
| Health checker `server/health_checker.rs` | marks; counts of consecutive failures and successes | a round: resolve every route's service, probe every instance once, record | resolver, config slot, selection |
| Registry resolver `registry/resolver.rs` | none (a sorted list of registries) | `resolve` in priority or merge mode, `health_report` | registries, one await each |
| Kubernetes registry `registry/k8s.rs` | none between calls | ask for Service, Endpoints, EndpointSlices | the cluster's controllers |
| Nacos registry `registry/nacos.rs` | a token and the task that refreshes it | log in, query, log in again when refused | requests, refresh task, server |
| Eureka, mock `registry/{eureka,mock}.rs` | none | one HTTP call, or a table | resolver |
| Config watcher and loader `config/{watcher,loader,env_resolver}.rs` | an event queue, a debounce sleep | load, validate, store into the config slot | editor, rebuild task |
| Rebuild task `main.rs` 211-232 | the address of the config it saw last | poll, compile, swap the router | config slot, requests |
| Router and matcher `routing/*.rs` | compiled rules of one snapshot | `resolve`, `rewrite_path` | requests |
| HTTP forwarding `proxy/http_proxy.rs` | none | copy headers, send, copy the answer | upstreams |
| WebSocket relay `proxy/ws_proxy.rs` | two loops per connection | upgrade, relay frames, pass on a close | clients, upstreams |
| Readiness `server/handlers.rs` 190-223 | none | `/ready` from config slot and resolver | reloads, registries |
| Startup and shutdown `main.rs`, `server/state.rs` | `AppState` | load, override, watch, serve, drain | all |
| Commands `config/{strict_check,diff}.rs`, `main.rs` | none | check-config, config-diff, config-drift, route-explain, doctor, and snapshot, replay, smoke, init | files, router, registries |

What is hard, and what makes each part right:

* **Breaker and attempts.** Requests pass `allow` together and report in any
  order, long after the breaker has moved on; a request may be dropped at any
  await; the clock may be set back. Right means: the two atomics say what the
  calls noted so far say, refusals happen inside the recovery time of a run of
  failures and only then, every attempt is noted once, no upstream is shut out
  for good.
* **Proxy handler, plugins, metrics.** A request can end at a dozen places.
  Right means: every plugin that saw the request sees the upstream's answer, in
  reverse, unless the chain was cut; every refused or failed request ends under
  exactly one code that fits its status.
* **Health checker.** A round has an await per service and per instance, and
  meanwhile registries, routes and instances change. Right means hysteresis:
  runs of probes, and nothing else, move a mark; a shared instance counts once
  per round; who stays down ends marked, who stays up ends clear.
* **Selection.** The marks are read one by one while they move, and the counter
  is shared without a lock. Right means: no request to an instance that was
  marked all along if another was clear all along; fair turns; exact weights.
* **Resolver.** The registries are read at different moments. Right means: the
  configured order is kept, a failing registry hides nothing, nothing that was
  there throughout is lost, duplicates are resolved by order and not by speed.
* **Kubernetes.** Three questions to a cluster that changes between them, with a
  fallback from one API to another. Right means: an empty answer is never an
  error in disguise, and an answer is one listing, not a mixture.
* **Nacos.** Queries and the refresh task log in side by side and store into one
  slot. Right means: whatever happened before, calls work again once the server
  does.
* **WebSocket relay.** One direction may end at any moment and takes the other
  with it. Right means: whoever says goodbye is heard to the end.
* **Reload.** A thread and a task with sleeps of their own; a pointer compared
  after what it pointed to may have been freed. Right means: no reload is
  missed, routes and config slot are never far apart, the last good edit wins.
* **Commands.** Each judges by code of its own what router and server will do
  with a file. Right means: they agree with router and server.

`PROJECT.json` lists every component with what is modelled of it, and the
hazards at their lines with the properties that cover them.

## 2. Modules

    AbstractBreaker            what a breaker promises
        ^ implemented by
    CircuitBreaker  <--  UpstreamCall         breaker_calls; UpstreamCallProofs
                             ^ implemented by
                         ProxyHandler         proxy_requests; ProxyHandlerProofs
    HealthStatus               the marks
        |
    HealthChecker, InstanceSelection   who moves and who reads them   health_marks, selection
        |
    HealthAwareSelection       both together  selection_drains; HealthCheckerProofs (all of them)
    Resolver                   registries     resolve; ResolverProofs
    K8sDiscovery, NacosToken  <--  RegistryCall   registry_calls; RegistryCallProofs
    HotReload                  file to routes reload, reload_failed_rebuild; HotReloadProofs
    Routing  <--  ConfigTools  rules, commands    config_tools, strict_shadow; ConfigToolsProofs
    WsRelay                    frames         ws_relay
    DataLemmas                 induction, orders, folds, sequences, remainders (for the proofs)

`MC*.tla` hold the small instances. Operators named `X_something` under a
"Mutated form" comment are broken variants of `X`; no specification uses them.
They record what kind of slip each property would notice.

### CircuitBreaker, UpstreamCall, AbstractBreaker

| Code | Model |
|---|---|
| `consecutive_failures` (AtomicU32) | `failures[u]`, saturated at `Threshold`: the code only compares it with the threshold |
| `open_since_epoch_secs` (AtomicU64) and the clock | `elapsed[u] = now_secs() - open_since_epoch_secs`, capped; negative after the clock was set back. `SinceOpen` is the saturating subtraction of `allow` |
| `allow`, `record_success`, `record_failure` | operators of the same names, one step each: each holds the DashMap shard of its key, so nobody sees one of the two atomics without the other |
| a request at its upstream | a slot with `pc`: `routed` (before the check), `reading` (the body, with retries), `sending`, `connecting` (WebSocket), `done` |
| `max_retries` | read once per request from `RetryChoices`, as the config may reload between requests |
| body handling | without retries the body is streamed by the attempt itself, and a broken body is noted against the upstream; with retries it is read first, and a broken body is not noted (`BodyFail`) |
| the future is dropped | `Drop`, possible at every await |

`recent[u]`, `quiet[u]`, `noted[r]` and `probe[r]` are history variables that
record what requests noted, without looking at the breaker's two atomics; the
properties compare the two. `AbstractBreaker` has modes instead of counters and
a clock; `ImplementsAbstract` maps the counters and stamps to it.

### ProxyHandler

The whole of `proxy_handler` around `UpstreamCall`. `stage[r]` is where the
handler is; `Accept`, one action per plugin outcome (`PluginContinues`,
`PluginAnswers`, `PluginFails`), `RouteMiss` and `RouteHit`, `Resolved` and
`ResolveFails`, `CallStep` (a step of the call, with what the handler does with
its result in the same poll), `PluginReturns`, `PluginSpoils`, `Finish`, and
`Gone` for a client that leaves. `Chain` builds the chain as
`build_plugin_chain` does, with its stable sort. The counters of `ProxyMetrics` are
sums; `codes[r]` and `hit[r]` are what request `r` adds to them. Error, code and status
are the tables `CodeOf` and `Status`. That `resolve` never returns an empty list
(it fails instead) makes the `no_instances` branch after it unreachable; the
code remains reachable by a rule without a target.

### HealthChecker

`StartRound` takes the routes of the config slot once, `ResolveRoute` is the
await per route (a failed resolve skips the route), `Probe` and `SkipSeen` go
through the instances. `record_success` and `record_failure` are one step each:
the task is their only caller and selection reads only the marks. The counters
are saturated at the thresholds they are compared with; a removed entry is 0.
`outcomes` (history) is a window of the latest results.

### InstanceSelection, HealthAwareSelection

A request looks up one mark per step (`LookUp`), then picks and bumps the
service's counter in one step (`Select`, the `fetch_add` is the only shared
access there). Only a proper and non-empty healthy part replaces the list.
`WordSize` is the `2^w` at which counter and weight sums wrap; a weight sum that
wraps to 0 is the panic of `% 0` (`Places = {}`). `HealthAwareSelection` puts
checker and requests over the one set of marks that `HealthStatus` declares for both.

### Resolver

One call at a time, because a call leaves nothing behind. `AskNext` is one
round of the loop of `resolve_priority`; `Reply` is one future of `join_all`, in
any order, the last one running the merge. `Before` and `At` are the stable sort of
`new`. An instance carries the registry it is from, which
stands for its metadata. Between any two answers a registry may change, fail or
recover (`Change`); `moments` (history) collects what each one held during the call.

### K8sDiscovery, NacosToken, RegistryCall

`K8sDiscovery` is one call: `FetchServiceTcpFilter`, `FetchCoreEndpoints`,
`FetchEndpointSlices` (only if the Endpoints offer nothing), each of which may
fail (`GetFails`, the `?` of the code), while `Write` changes the three objects.
The filter of targets, the protocols left out and the conditions of endpoints are
operators; ports and targets carry what the code reads of them. A 404 is an
empty object, as in the code.

`NacosToken` is one registry with credentials: `Ask` reads the slot and sends,
`Answered` is the first answer (a refusal leads to a login and to `AskAgain`, any
other failure ends the call), `Tick`, `Refreshed` and `RefreshFails` are the refresh
task. A token is worth something (`live`) or not; the server ends tokens as it
likes (`Expire`), wherever they are, and may be ill (`Falter`), when it may answer
anything. The answer to an older login may be stored over a newer token.

`RegistryCall` is `resolve_priority` over both: Kubernetes first, Nacos when it
failed or has nothing, followed for one request beside other queries.

### HotReload

Time runs in ticks of 100 ms. The watcher's thread takes one event, sleeps
`DEBOUNCE`, loads, stores; the rebuild task sleeps `POLL`, compares the slot's
address with the one it remembers, and compiles. Configs live at `Addresses`: a
new config may get the address of one that nothing holds any more, which is what
makes the comparison delicate. A file content is loadable or not, compilable or
not, with or without registries; a half-written file is a content of its own.
`ReadyStatus` is `/ready`.

### Routing, ConfigTools

`Routing` has the pure functions of matcher, router and forwarding: `Matches`,
`EvaluationOrder`, `Resolve`, `RewritePath`, `UpstreamPath`, `Answered` (the headers
of the answer), `Compiles`. A path is the sequence of its characters, because
`strip_prefix` is about characters and not segments; a glob or a regex is the set
of the paths its library accepts.

`ConfigTools` has the commands as functions of a file: `StrictFindings`,
`DiffAppConfigs` and `NoDrift`, `RouteExplain`, `Doctor`, `CheckConfig`, beside what they
speak for: `Loads`, `Builds`, `ResolverBuilds`, `RunServer`, `Ready`,
`ApplyLocalOverrides`. Its behaviours are those of an operator who edits one file and
keeps a copy of an earlier version, so that every file and every pair of files of
the instance is a state. A "world" is what doctor and start find around them.

### WsRelay

`Read`, `ReadError`, `Send`, `SendError` per direction are the two loops, a sent
close or any error ends the relay for both (`select!`). Sockets hold `Room` frames,
so that a send may have to wait while the other loop ends. The sides speak, close,
break and take frames as they like. Frames are numbered, their contents do not
matter.

## 3. What the runs check

The bounds are those at which every branch of the code is taken and two actors
can overtake each other.

| Run | Instance | Shows |
|---|---|---|
| `breaker_calls` | 3 requests, 1 upstream, threshold 2, recovery 2 s, clock set back once by 1 s, 0 or 1 retries | the breaker's atomics match the history (`CounterMatchesHistory`), refuses exactly in the recovery time (`OpenRefuses`, `RefusesOnlyWhenOpen`), attempts are noted once (`AttemptsNotedOnce`), refinement of `AbstractBreaker` |
| `proxy_requests` | 2 requests, 4 plugin entries of which 2 are built, 3 rules (URL, service, neither), threshold 1, recovery 2 s, 1 retry | `CountedOnce`, `PluginsUnwind`, the calls are those of `UpstreamCall` (`ImplementsCalls`), `NeverShutForGood`, `RetryLoopEnds` |
| `health_marks` | 2 instances listed by 2 services behind 1 or 2 routes, thresholds 3 and 2 | `MarksFollowProbes`, `MarksMoveOnRuns`, `ProbedOncePerRound`, `DeadGetsMarked`, `RecoveredGetsCleared` |
| `selection` | 2 requests, 4 modes, weights 2 and 0 (counts as 1), a list that names an instance twice, word size 4 so that counter and sum wrap | `AvoidsMarked`, `FairShare` |
| `selection_drains` | checker (thresholds 2 and 1) and 1 request | `TrafficDrains`; the checker is one that `InstanceSelection` allows (`ImplementsSelection`) |
| `resolve` | 3 registries with priorities 2, 1, 1, 4 answers each, up to 2 changes during a call | `PriorityHonoured`, `FailsOnlyIfAllEmpty`, `MergeKeepsAll`, `FirstEntryWins` |
| `registry_calls` | 2 queries, refresh task, 2 Services, 3 Endpoints, 3 slice lists, one write during a call | `NothingMeansNothing`, `FoundAsListed`, `CallsRecover` |
| `reload` | 4 contents, 3 addresses, poll 200 ms up to 200 ms late, debounce 500 ms, up to 2 events waiting | `Settled`, `LagsByOne`, `EditsTakeEffect` |
| `config_tools` | all files of up to 2 routes out of 8 rules, each beside all earlier ones; 45 requests, 10 worlds | `ShadowReportsExactly`, `StripReportedExactly`, `DiffSeesRouting`, `ExplainAgrees`, `AdviceLeads`, `DoctorSpeaks`, `RedirectedGoLocal` |
| `ws_relay` | up to 3 frames per side and a close, sockets of 2 frames | `GoodbyeDelivers` |

Why the bounds are enough. Breaker: upstreams do not touch each other's
entries, so one is enough; three requests are one more than the threshold, so a
late outcome can arrive after a trip, and after a trip and a probe. Handler:
requests meet in the breaker only, where `ImplementsCalls` leads back to
`breaker_calls`; two plugins give an order and its reverse; with a recovery of 2 s something can happen
between a trip and its end. Health: instances meet
only in `seen_keys` and lists, two services give a shared instance; the thresholds
differ from each other and from 1. Selection: the counter is shared by two
requests; more requests add turns of the same kind. Resolver: two registries of
equal priority and one declared out of order; two changes let an instance move
from one registry to another during a call. Registry calls: a second query and the
refresh task let two logins overtake each other; one write can fall between any
two of the three questions, and `RegistryCallProofs` covers any number. Reload: two
addresses can be held at once (slot and task), the third is the free one. Tools:
the findings are about pairs of rules. Relay: three frames fill the socket's two
places and the loop's hand.

Two more runs are expected to fail. Each states a sentence of the repository that
the code does not keep:

| Run | Sentence | What happens |
|---|---|---|
| `strict_shadow` | `docs/check-config-strict-schema.md` 26: "Broader rule is evaluated before a narrower one it fully covers" | `header_constraints_cover` has its operands the wrong way round: an earlier rule with more header conditions is said to cover a later one with fewer, which still gets requests |
| `reload_failed_rebuild` | `docs/operations-runbook.md` 35: "the previous config and resolver stay active" | a config that loads but does not compile stays in the slot beside the old routes |

Five more such sentences stand as definitions at the end of their modules. TLC
refutes each when it is made an invariant of the run that is named there:

| Definition | Sentence | What happens |
|---|---|---|
| `OneProbeAtATime` (`UpstreamCall`) | `circuit_breaker.rs` 14: "one probe request is allowed" | every request that comes after the recovery time passes until one reports |
| `TrippedByUpstream` (`UpstreamCall`) | `config/model.rs` 62: "consecutive upstream failures" | without retries a client's broken body counts as an upstream failure |
| `OverridesStay` (`HotReload`) | `docs/getting-started.md` 70: "Redirect a route to your local service" | the first reload drops the local overrides |
| `NotReadyOnlyIfUnhealthy` (`HotReload`) | `handlers.rs` 189: 503 "when every configured registry reports Unhealthy" | a reload that adds the first registry makes `/ready` answer 503, because the resolver is that of startup |
| `PluginErrorsCounted` (`ProxyHandler`) | `docs/adr/002-fr6-plugin-sdk-design.md` 102: failures "increment `failure_reasons["plugin_error"]`" | nothing is counted |

The premises of some properties are findings of the same kind, met while the
property was being stated:

* `DiffSeesRouting` needs unique ids and unique priorities: `config-diff` compares
  by id, of one id the last, and says nothing of two files that differ in the order
  of rules of one priority.
* `StripReportedExactly` leaves out the rule of all paths, `ShadowReportsExactly` pairs
  that both have header conditions (see `strict_shadow`). A prefix shorter than
  the strip_prefix, such as `/a` with strip `/a/b`, is reported as
  `STRIP_PREFIX_UNREACHABLE` although some of its requests are stripped: the property
  states what the check does report, requests that go on unstripped.
* `ShadowReportsExactly` and `StripReportedExactly` are about rules that some request can
  meet: `RequestsAssumption` says that the requests of the instance tell the rules apart
  and that no rule has an empty table of headers. A file may have `headers: {}`, which
  the check takes for a condition and the router does not, or `methods: []`, which no
  request meets: there the findings are not exact.
* `AdviceLeads` needs a rule without other header conditions: the command that is
  suggested for a wrong method drops the headers of the request.
* `DoctorSpeaks` needs rules that compile and plugins that build: doctor passes on
  a file the server will not start with.
* `RedirectedGoLocal` needs unique ids: an override goes to the first route of its id.
  `route-explain` knows no overrides at all.
* `GoodbyeDelivers` excepts the close frame when the other loop has a frame for the
  closed side in hand: sending it fails first and ends the relay.
* `CallsRecover` allows finitely many more failures: the answer to an older login
  can be stored over a newer token.

Explored with TLC and not kept as runs: an edit between startup's load and the
start of the watcher is not seen until the next edit (`EarlyEdits = TRUE` in the
`reload` instance violates `EditsTakeEffect`); a poll 400 ms late can miss a reload
(`MaxLate = 4` violates `Settled`); a success that was under way when the breaker
tripped closes it early; weights near 2^64 give wrong shares, or the panic above.

## 4. Fairness

* `UpstreamCall`, `ProxyHandler`: the clock runs, and a send ends (the HTTP client
  has a timeout, `server/state.rs` 48-52). Nothing is assumed of clients and plugins:
  they need not send their bodies, return, or send requests at all.
* `HealthChecker`: weak fairness of the task as a whole. It is one loop that
  only awaits a timer and HTTP calls with timeouts. Instances, registries and
  reloads need not do anything.
* `HealthAwareSelection`: the same; requests need not progress.
* `RegistryCall`: weak fairness of the steps of the call that is followed, as each
  of its HTTP calls ends by the client's timeout. The refresh task need never
  tick, the server need not be well, the other requests need not progress. That
  the server is well from some moment on is a premise of `CallsRecover`.
* `HotReload`: startup ends, time passes, the thread and the task are
  scheduled. The editor need not do anything. How late a poll may be is the
  bound `MaxLate`, not fairness.
* `WsRelay`: the upgrade ends and each loop is polled when it can go on. That a
  receiver keeps taking its frames is a premise of `GoodbyeDelivers`, not fairness.
  Deadlock is not checked there: the relay ends.
* `Resolver` and `ConfigTools` have safety properties only.

Weak fairness is enough everywhere: each fair action, once enabled, stays
enabled until taken.

## 5. Proofs

TLAPS checks every theorem below for all values of the constants, from the
named assumptions on them. `BreakerAssumption`, `CallAssumption`, `HandlerAssumption`,
`HealthAssumption`, `SelectionAssumption`, `ReloadAssumption`, `ResolverAssumption`,
`CallersAssumption`, `PortAssumption` and `ToolsAssumption` only give types,
non-membership of the null values, finite sets, that a port of Endpoints has a
number, that the pattern of a rule determines what it accepts, and that upper case
stays upper case; `DrainAssumption` says that requests choose from what the registries
list. `RequestsAssumption` is the one that says more; see section 3. Every safety
invariant, every action property and every refinement that the passing runs check is
a theorem, by name.

**DataLemmas.** What the others need of numbers, orders and sequences. `SetInduction`
is induction: a set of naturals that has 0 and each successor has them all, so a
claim about every n is proved by naming the set of the n it holds for. `Ranks` and
`PlacesInOrder` say that a finite set under a strict order can be counted off in that
order, which is what the stable sorts of the code do. `RecursionOverSubsets`,
`LeftRecursion` and `RecursionUpTo` say that the recursive functions the models and the
folds are defined by exist and are what they seem to be. `WindowCount`: t successive
numbers have each remainder by t once.

**UpstreamCallProofs.** `TypeCorrect`. `HistoryCorrect`: the counter alone is not
inductive; `HistoryInv` says that the counter, up to the threshold, *is* the
length of the run of failures the window of outcomes ends with
(`TrailingRun`), and that the stamp is the time of the latest failure
(`StampIsLatest`). From it `OpenRefusesAlways` and `RefusesOnlyThen`, which
speak of single steps. `AttemptsCounted` needs `RetryInv`: which phases have noted
how many outcomes. `BreakerImplements`: initial states map to initial states and
each step to a step of `AbstractBreaker` or a stutter, with the two invariants.

**ProxyHandlerProofs.** `HandlerImplementsCalls`: each of the handler's steps is a
step of `UpstreamCall` or leaves the calls alone, so `ProxySpec` implements `Spec`
for every chain of plugins and every set of rules. Through it the theorems above
hold of the whole server; `HandlerKeepsHistory` draws that conclusion for the two
invariants. `EndingsCounted` is `CountedOnce`: `AccountInv` says for each stage what a
request has counted so far, and ties each ending to the result of the call that led
to it; what the breaker noted of that call comes from `AttemptsNotedOnce`.
`ChainUnwinds` is `PluginsUnwind`, for every set of plugins, every order among them and
every way each may end: by `UnwindInv`, `met` is the part of the chain up to the plugin
the request is at, and `unwound` the part of its reverse that has returned.

**HealthCheckerProofs.** `HealthTypeCorrect`. `SharedInstanceCountsOnce` from
`RoundInv` (`probed` is the characteristic function of `seen_keys`).
`RunsDecideMarks` and `MarksMoveOnlyOnRuns` from `CountersInv`: each of the two
counters is the length, up to its threshold, of the run of its outcome
(`CountsRun`). The lemmas `SlideProperties`, `RunGrows` and `RunBreaks` say
what one more outcome does to a window and a counter, once for failures and
successes; `RecordStep` applies them to the two handlers.

Of the requests that select: `MarkedAvoided` is `AvoidsMarked` in every mode; by
`ScanFits`, a scan that has come to position n has kept every instance before it that
was clear all along and left out every one that was marked all along. `SharesFair` is
`FairShare` for all weights and word sizes: by `ShareFits`, the picks of a run are the
turns of successive values of the counter (`TurnOf`), which has not wrapped meanwhile;
sums up to the word size have not wrapped either (`SumsUnwrapped`), so a place is picked
exactly when the counter's remainder falls into its share (`TurnFallsIn`), and
`WindowCount` counts the picks. `SelectionOverChecker` is the refinement
`ImplementsSelection`: the checker moves at most one mark in a step, and what a request
remembers agrees with the marks (`StayedFits`). `CheckerUndisturbed` is the other side,
so that in the composition the theorems about either part hold of the whole;
`PromisesOverChecker` draws that conclusion for the selection.

**ResolverProofs.** `PriorityOrderHonoured` and `FailsOnlyWhenEmpty`: every registry the loop
has passed was empty or failed at some moment of the call, and so were those in front
of the one that answered. `MergeComplete` and `MergeFirstWins`: the fold over the
answers is followed entry by entry (`FoldMerges`); it keeps the first of the entries
with one key in the configured order (`IsMerged`), and each answer it folds was what
its registry held at some moment of the call (`RepliesHeld`), in whatever order the
answers came and however often the registries changed.

**ConfigToolsProofs.** All seven properties of the commands, for all sets of rules,
requests and worlds and files of any length. The invariant is only that files are made
of the rules (`FilesKept`); the rest is about the functions. `ResolveFirst`: the router
takes the matching rule that comes first by priority and then by place, by the ranks
of `DataLemmas`. `OverridesFold`: the overrides redirect the first route of each id and
leave the others. `CoversTakes` and `TakesCovers`: a rule that `strict_check` says is
covered gets no request, and one that gets none is said to be covered, the second
from `RequestsAssumption`.

**HotReloadProofs.** `ReloadTypeCorrect`. `PollsMissNothing`: if
`POLL + MaxLate < DEBOUNCE`, comparing addresses misses no reload. The argument:
`SeenInv` says that a slot the task has not seen implies a watcher that has not
slept as long as the last poll is old (`Waiting`), so a second store, the only
thing that could bring the remembered address back, comes after the next poll.
`RoutesLagByOne`: if moreover `POLL + MaxLate + MaxRebuild < DEBOUNCE`, the routes
are at most one reload behind. Both conditions hold in the code (200 ms
against 500 ms) unless the runtime is starved for 300 ms.

**RegistryCallProofs.** `CoreInstances` and `SliceInstances`: what the code makes of
Endpoints or slices through the port filter is the set of what they offer for the
Service the filter is of. `EmptyMeansNothing` and `AnswerIsOneListing` from
`CallInv`: at each point of the call, the filter is that of one moment's Service, and
what has been found, or found to be nothing, is what one moment's object gives. Any
number of writes may fall between the questions, and Nacos may do anything.

Only model-checked: the properties under fairness (`NeverShutForGood`,
`RetryLoopEnds`, `DeadGetsMarked`, `RecoveredGetsCleared`, `TrafficDrains`,
`EditsTakeEffect`, `CallsRecover`, `GoodbyeDelivers`), since the prover has neither
liveness rules nor ENABLED.

## 6. Assumptions and what is left out

* `handle_event` compares the event's path with the path on the command line
  (`config/watcher.rs` 45); the model assumes that they match, which depends on the
  notification library.
* Marks of instances that leave a registry stay (`server/health_checker.rs` 56), and
  meet whoever gets the address next; instances keep their addresses in the model.
* Each breaker operation is atomic because `entry` and `get` lock the shard of the
  key for as long as the returned guard lives; the round-robin counter is one
  `fetch_add`; the marks are read by one map lookup each.
* Counters of u32/u64/usize other than `rr` and the weight sum are saturated
  where the code compares them; their wrap (2^32 failures) is out of range.
* JSON, text output and metrics rendering are layout. The engines of regex and
  glob, TLS, and the parsing of YAML, URLs and API objects are libraries: a value
  that does not parse is a value of its own.
* Not modelled: `init`, `config-snapshot`, `smoke-proxy` and `replay` (sequential
  programs that copy files or call endpoints and print); the health probes of the
  registries and the Kubernetes constructor (one GET, or files read once); the
  substitution of `${VAR}` (text); the graceful shutdown (axum's); scripts, tools
  and benches.

Met while reading and outside the models' detail: an answer's headers are put into
the map by `insert`, so that of several `Set-Cookie` lines the last remains
(`proxy/http_proxy.rs` 67-69; `Answered` has it so); `x-request-id` is added to the
client's own although the comment at line 41 says "overwrite"; the accept
key of a WebSocket upgrade is a constant; a comment
(`registry/k8s.rs` 543) calls the slices the fallback when Endpoints are
"empty/unavailable", but an error there fails the call instead of falling back; the token task sleeps a fixed
interval, and only logs the one worked out from the ttl.

## 7. Plan

1. `WsRelay`: the frames that reach a side are a prefix of those sent, proved.
2. Abstract specifications worth stating: a request's outcome as one atomic
   decision over its snapshots (`ProxyHandler` implements it), and a registry
   token that is valid or not (`NacosToken` implements it).
3. A composition of `HotReload` with `ProxyHandler`: rule and settings of one request
   at most one reload apart.
