------------------------------ MODULE ConfigTools ------------------------------
(***************************************************************************)
(* The commands that judge a configuration without serving it: check-      *)
(* config --strict (config/strict_check.rs), config-diff and config-drift  *)
(* (config/diff.rs), route-explain and doctor (main.rs), and the start of  *)
(* the server they are asked about.  The operator edits one file and keeps *)
(* a copy of an earlier one; every command is a function of what it reads. *)
(***************************************************************************)
EXTENDS Routing

CONSTANTS Rules,      \* the rules the operator writes
          Servers,    \* contents of `server:`, functions on field names
          Registries, \* contents of `registries:`, sequences of sources
          MaxRoutes,  \* bound on the routes of a file
          Requests,   \* the requests asked about
          Lines,      \* header lines of an upstream's answer
          Inspected,  \* the number of rules explained without --verbose
          Overrides,  \* contents of --local-override, sequences of [id, url]
          Worlds      \* what the commands find around them, see Doctor

VARIABLES file, \* the configuration in the file, [server, registries, log, routes]
          copy  \* the configuration compared with it

vars == <<file, copy>>

\* A source: [kind, addr]; an address or URL "garbled" does not parse.

Optional == {"methods", "headers", "strip", "url", "service", "adds"}

\* RoutingRule: a field of Optional has at most one value; maps and lists are finite.
IsRule(rule) ==
  /\ rule = [id |-> rule.id, kind |-> rule.kind, value |-> rule.value,
              accepts |-> rule.accepts, valid |-> rule.valid, methods |-> rule.methods,
              headers |-> rule.headers, strip |-> rule.strip, url |-> rule.url,
              service |-> rule.service, adds |-> rule.adds, priority |-> rule.priority]
  /\ rule.kind \in {"exact", "prefix", "glob", "regex"} /\ rule.priority \in Nat
  /\ \A f \in Optional : \A x, y \in rule[f] : x = y
  /\ \A p \in {rule.value} \cup rule.strip : p \in Seq(STRING)
  /\ \A l \in rule.methods : l \in Seq(STRING)
  /\ \A map \in rule.headers \cup rule.adds :
       /\ map = [n \in DOMAIN map |-> map[n]] /\ IsFiniteSet(DOMAIN map)
       /\ \A n \in DOMAIN map : map[n] # "unreadable"

\* The pattern of a rule says all that compiling it tells, and upper case stays so.
ASSUME ToolsAssumption ==
  /\ \A rule \in Rules :
       /\ IsRule(rule)
       /\ \A l \in rule.methods : \A k \in DOMAIN l : Upper(Upper(l[k])) = Upper(l[k])
  /\ \A a, b \in Rules :
       a.kind = b.kind /\ a.value = b.value => a.accepts = b.accepts /\ a.valid = b.valid
  /\ \A r \in Requests :
       r.path \in Seq(STRING) /\ Upper(Upper(r.method)) = Upper(r.method)
  /\ \A g \in Registries : g \in Seq([kind : STRING, addr : STRING])
  /\ \A o \in Overrides : o \in Seq([id : STRING, url : STRING])
  /\ MaxRoutes \in Nat /\ Inspected \in Nat

\* The requests tell a rule from the next: of the rules of a plain path that some request
\* meets, one is met at its own path, below it, by each of its methods or by one no rule
\* lists, and without headers.  A rule to be stripped is met; no rule has an empty table
\* of headers.
AskedEnough ==
  \A rule \in Rules :
    LET asked == {r \in Requests : Matches(rule, r)}
    IN /\ rule.kind = "prefix" /\ rule.strip # {} => asked # {}
       /\ rule.headers # {} => DOMAIN SomeOf(rule.headers) # {}
       /\ rule.kind \in {"exact", "prefix"} /\ asked # {} =>
            /\ \E r \in asked : r.path = rule.value
            /\ rule.kind = "prefix" => \E r \in asked : r.path # rule.value
            /\ \A l \in rule.methods : \A k \in DOMAIN l :
                 \E r \in asked : Upper(r.method) = Upper(l[k])
            /\ rule.methods = {} => \E r \in asked :
                 \A other \in Rules : \A l \in other.methods : \A k \in DOMAIN l :
                   Upper(l[k]) # Upper(r.method)
            /\ rule.headers = {} => \E r \in asked : DOMAIN r.headers = {}

ASSUME RequestsAssumption == AskedEnough

-----------------------------------------------------------------------------
(* Mutated forms, for checking that the properties can fail. *)

\* The shadowing check takes the rules in the order of the file.
Before_file(routes, i, j) == i < j

\* The strip check has its operands the wrong way round.
StripApplies_swapped(prefix, strip) == IsPrefix(prefix, strip)

\* Routes are compared by their paths, methods and targets only.
RouteValue_short(rule) == <<rule.kind, rule.value, rule.methods, rule.url, rule.service>>

\* The suggested call keeps the method that was refused.
SampleMethod_kept(rule, method) == Upper(method)

\* A route with instances counts as reachable.
RouteReached_listed(config, route, world) ==
  IF route.url # {} THEN SomeOf(route.url) \in world.reach
  ELSE config.registries # <<>> /\ world.lists[SomeOf(route.service)] \notin {{}, {<<>>}}

\* A route that was redirected is not redirected again.
Redirect_once(routes, entry) ==
  [k \in DOMAIN routes |->
     IF routes[k].id = entry.id /\ routes[k].service # {}
     THEN [routes[k] EXCEPT !.url = {entry.url}, !.service = {}] ELSE routes[k]]

-----------------------------------------------------------------------------
(* Loading: load_config, validate_config and apply_local_overrides *)

PatternValid(rule) == rule.kind \in {"glob", "regex"} => rule.valid

Loads(config) ==
  \A k \in DOMAIN config.routes :
    Target(config.routes[k]) # {} /\ PatternValid(config.routes[k])

\* Each entry goes to the first route of its id.
Redirect(routes, entry) ==
  LET named == {k \in DOMAIN routes : routes[k].id = entry.id}
  IN IF named = {} THEN routes
     ELSE LET first == CHOOSE k \in named : \A h \in named : k <= h
          IN [routes EXCEPT ![first].url = {entry.url}, ![first].service = {}]

ApplyLocalOverrides(routes, entries) == FoldLeft(Redirect, routes, entries)

-----------------------------------------------------------------------------
(* check-config --strict *)

MethodConstraintsCover(left, right) ==
  left # {} => /\ right # {}
               /\ \A r \in DOMAIN SomeOf(right) : \E l \in DOMAIN SomeOf(left) :
                    Upper(SomeOf(left)[l]) = Upper(SomeOf(right)[r])

\* Every condition of the right one must be one of the left one.
HeaderConstraintsCover(left, right) ==
  left # {} => /\ right # {}
               /\ \A n \in DOMAIN SomeOf(right) :
                    n \in DOMAIN SomeOf(left) /\ SomeOf(left)[n] = SomeOf(right)[n]

PathMatcherCovers(left, right) ==
  \/ left.kind = "prefix" /\ right.kind \in {"prefix", "exact"} /\ IsPrefix(left.value, right.value)
  \/ left.kind = "exact" /\ right.kind = "exact" /\ left.value = right.value

\* routing_evaluation_order_indices: a sort of its own, by priority.
Before(routes, i, j) ==
  \/ routes[i].priority < routes[j].priority
  \/ routes[i].priority = routes[j].priority /\ i < j

Shadows(routes, i, j) ==
  /\ Before(routes, i, j)
  /\ MethodConstraintsCover(routes[i].methods, routes[j].methods)
  /\ HeaderConstraintsCover(routes[i].headers, routes[j].headers)
  /\ PathMatcherCovers(routes[i], routes[j])

Shadowed(routes) == {p \in (DOMAIN routes) \X (DOMAIN routes) : Shadows(routes, p[1], p[2])}

Alike(a, b) == \A f \in {"kind", "value", "methods", "headers"} : a[f] = b[f]

Identical(routes) ==
  {p \in (DOMAIN routes) \X (DOMAIN routes) :
     p[1] < p[2] /\ Alike(routes[p[1]], routes[p[2]])}

DuplicateIds(routes) ==
  {routes[i].id : i \in {k \in DOMAIN routes :
                           \E h \in DOMAIN routes \ {k} : routes[h].id = routes[k].id}}

StripApplies(prefix, strip) == IsPrefix(strip, prefix)

StripUnreachable(rule) ==
  /\ rule.kind = "prefix" /\ rule.value # <<"/">>
  /\ rule.strip # {} /\ SomeOf(rule.strip) # <<>>
  /\ ~StripApplies(rule.value, SomeOf(rule.strip))

StrictFindings(routes) ==
  (IF routes = <<>> THEN {<<"ROUTES_EMPTY">>} ELSE {})
    \cup {<<"DUPLICATE_ROUTE_ID", id>> : id \in DuplicateIds(routes)}
    \cup {<<"IDENTICAL_MATCHERS", routes[p[1]].id, routes[p[2]].id>> : p \in Identical(routes)}
    \cup {<<"RULE_SHADOWED", routes[p[1]].id, routes[p[2]].id>> : p \in Shadowed(routes)}
    \cup {<<"UPSTREAM_AND_SERVICE_ID", routes[k].id>> :
            k \in {h \in DOMAIN routes : routes[h].url # {} /\ routes[h].service # {}}}
    \cup {<<"STRIP_PREFIX_UNREACHABLE", routes[k].id>> :
            k \in {h \in DOMAIN routes : StripUnreachable(routes[h])}}

\* build_resolver stops at the first registry that cannot be set up.
ResolverBuilds(config, world) == \A k \in DOMAIN config.registries : world.starts[config.registries[k].kind]

\* Exit 0 of check-config and of check-config --strict.
CheckConfig(config, world) ==
  Loads(config) /\ Builds(config.routes) /\ ResolverBuilds(config, world)

CheckConfigStrict(config, world) ==
  CheckConfig(config, world) /\ StrictFindings(config.routes) = {}

-----------------------------------------------------------------------------
(* config-diff and config-drift *)

\* The leaves at which two objects differ.
DiffLeaves(section, a, b) ==
  {<<section, f, "modified">> : f \in {g \in DOMAIN a \cap DOMAIN b : a[g] # b[g]}}
    \cup {<<section, f, "removed">> : f \in DOMAIN a \ DOMAIN b}
    \cup {<<section, f, "added">> : f \in DOMAIN b \ DOMAIN a}

RouteValue(rule) ==
  <<rule.kind, rule.value, rule.methods, rule.headers, rule.service, rule.url, rule.strip,
    rule.adds, rule.priority>>

\* Of the rules of one id a map keeps the last.
RoutesById(routes) ==
  [id \in {routes[k].id : k \in DOMAIN routes} |->
     RouteValue(routes[CHOOSE k \in DOMAIN routes :
                         /\ routes[k].id = id
                         /\ \A h \in DOMAIN routes : routes[h].id = id => h <= k])]

DiffAppConfigs(left, right) ==
  DiffLeaves("server", left.server, right.server)
    \cup (IF left.log = right.log THEN {} ELSE {<<"log_level", "", "modified">>})
    \cup (IF left.registries = right.registries THEN {} ELSE {<<"registries", "sources", "modified">>})
    \cup DiffLeaves("routes", RoutesById(left.routes), RoutesById(right.routes))

\* Exit 0 of config-drift; config-diff is the case of one profile.
NoDrift(base, profiles) ==
  /\ Loads(base)
  /\ \A p \in profiles : Loads(p) /\ DiffAppConfigs(base, p) = {}

-----------------------------------------------------------------------------
(* route-explain *)

MethodOk(rule, method) ==
  rule.methods = {} \/ \E k \in DOMAIN SomeOf(rule.methods) :
                         Upper(SomeOf(rule.methods)[k]) = Upper(method)

\* The conditions on headers that fail, by the code each is given.
HeaderIssues(rule, headers) ==
  IF rule.headers = {} THEN {}
  ELSE LET cond == SomeOf(rule.headers)
           Code(n) == IF HeaderName(n) = {} THEN "RULE_HEADER_NAME_INVALID"
                      ELSE IF SomeOf(HeaderName(n)) \notin DOMAIN headers THEN "HEADER_MISSING"
                      ELSE IF headers[SomeOf(HeaderName(n))] # cond[n] THEN "HEADER_VALUE_MISMATCH"
                      ELSE "ok"
       IN {<<Code(n), n>> : n \in {m \in DOMAIN cond : Code(m) # "ok"}}

SampleMethod(rule, method) ==
  IF SomeOf(rule.methods) = <<>> THEN "GET" ELSE Upper(Head(SomeOf(rule.methods)))

\* explain_rule_mismatch: the flags and the suggestions [code, call], `call` being
\* the request of the suggested command, which carries no header but the named one.
Mismatch(rule, request) ==
  LET Call(method, headers) == [path |-> request.path, method |-> method, headers |-> headers]
      same == Call(Upper(request.method), << >>)
      bad == HeaderIssues(rule, request.headers)
      pathOk == PathMatches(rule, request.path)
      methodOk == MethodOk(rule, request.method)
  IN [id |-> rule.id, path |-> pathOk, method |-> methodOk, headers |-> bad = {},
      suggestions |->
        (IF pathOk THEN {} ELSE {[code |-> "PATH_MISMATCH", call |-> same]})
          \cup (IF methodOk THEN {}
                ELSE {[code |-> "METHOD_MISMATCH",
                       call |-> Call(SampleMethod(rule, request.method), << >>)]})
          \cup {[code |-> b[1],
                 call |-> IF HeaderName(b[2]) = {} THEN same
                          ELSE Call(Upper(request.method),
                                    [n \in {SomeOf(HeaderName(b[2]))} |->
                                       SomeOf(rule.headers)[b[2]]])] : b \in bad}]

\* merge_remediation_outline: for each code the first rule that suggests it.
Outline(rows) ==
  LET Gives(k, code) == \E s \in rows[k].suggestions : s.code = code
  IN [code \in {s.code : s \in UNION {rows[k].suggestions : k \in DOMAIN rows}} |->
        rows[CHOOSE k \in DOMAIN rows :
               Gives(k, code) /\ \A h \in DOMAIN rows : Gives(h, code) => k <= h].id]

\* Exit 0 with the rule met, or exit 1 with the rules that came nearest.
RouteExplain(config, request, verbose) ==
  LET rules == Snapshot(config.routes)
      hit == Resolve(rules, request)
      shown == IF verbose THEN rules ELSE SubSeq(rules, 1, IF Len(rules) < Inspected THEN Len(rules) ELSE Inspected)
      rows == [k \in DOMAIN shown |-> Mismatch(shown[k], request)]
  IN IF hit # {}
     THEN [exit |-> 0, id |-> SomeOf(hit).id, target |-> Target(SomeOf(hit)),
           path |-> RewritePath(SomeOf(hit), request.path), headers |-> SomeOf(hit).adds]
     ELSE [exit |-> 1, rows |-> rows, outline |-> Outline(rows)]

-----------------------------------------------------------------------------
(* doctor and the start of the server.  A world is                          *)
(*   [portFree, watchable, starts, health, reach, lists]:                   *)
(* `starts` and `health` by kind of registry, `reach` the addresses that    *)
(* take a connection, `lists` the instances of each service, {} for an error. *)

\* run_server: the step at which the start ends.
RunServer(config, entries, world) ==
  CASE ~Loads(config)                                              -> "load"
    [] ~ResolverBuilds(config, world)                              -> "registries"
    [] ~Builds(ApplyLocalOverrides(config.routes, entries))        -> "router"
    [] ~world.watchable                                            -> "watcher"
    [] config.server.plugins = "bad"                               -> "plugins"
    [] ~world.portFree                                             -> "bind"
    [] OTHER                                                       -> "listening"

Unhealthy(config, world) ==
  {k \in DOMAIN config.registries : world.health[config.registries[k].kind] = "unhealthy"}

Ready(config, world) ==
  config.registries = <<>> \/ Unhealthy(config, world) # DOMAIN config.registries

\* The registry endpoints that do not answer; a mock has none.
DeadRegistries(config, world) ==
  {k \in DOMAIN config.registries :
     config.registries[k].kind # "mock" /\ config.registries[k].addr \notin world.reach \ {"garbled"}}

\* MultiRegistryResolver::resolve; without a registry it fails.
Found(config, service, world) == IF config.registries = <<>> THEN {} ELSE world.lists[service]

\* Of a service one of the first three instances must answer.
RouteReached(config, route, world) ==
  IF route.url # {} THEN SomeOf(route.url) \in world.reach \ {"garbled"}
  ELSE LET found == Found(config, SomeOf(route.service), world)
       IN \E insts \in found : \E k \in DOMAIN insts : k <= 3 /\ insts[k] \in world.reach

\* Exit 0 of doctor.
Doctor(config, probe, world) ==
  /\ Loads(config)
  /\ world.portFree
  /\ ResolverBuilds(config, world)
  /\ Unhealthy(config, world) = {}
  /\ probe => /\ DeadRegistries(config, world) = {}
              /\ \A k \in DOMAIN config.routes : RouteReached(config, config.routes[k], world)

-----------------------------------------------------------------------------
(* The operator at work *)

ToolsInit ==
  /\ file \in {[server |-> s, registries |-> g, log |-> "info", routes |-> <<>>] :
                 s \in Servers, g \in Registries}
  /\ copy = file

AddRoute(rule) ==
  /\ Len(file.routes) < MaxRoutes
  /\ file' = [file EXCEPT !.routes = Append(@, rule)]
  /\ UNCHANGED copy

DropRoute(k) ==
  /\ file' = [file EXCEPT !.routes = RemoveAt(@, k)]
  /\ UNCHANGED copy

\* Two neighbours change places.
SwapRoutes(k) ==
  /\ k + 1 \in DOMAIN file.routes
  /\ file' = [file EXCEPT !.routes[k] = file.routes[k + 1], !.routes[k + 1] = file.routes[k]]
  /\ UNCHANGED copy

EditSettings(server, registries) ==
  /\ file' = [file EXCEPT !.server = server, !.registries = registries]
  /\ UNCHANGED copy

KeepCopy ==
  /\ copy' = file
  /\ UNCHANGED file

ToolsNext ==
  \/ \E rule \in Rules : AddRoute(rule)
  \/ \E k \in DOMAIN file.routes : DropRoute(k) \/ SwapRoutes(k)
  \/ \E s \in Servers, g \in Registries : EditSettings(s, g)
  \/ KeepCopy

ToolsSpec == ToolsInit /\ [][ToolsNext]_vars

-----------------------------------------------------------------------------
(* Properties *)

UniqueIds(routes) == DuplicateIds(routes) = {}

\* Of two rules without glob or regex, at most one of them with conditions on
\* headers, check-config --strict reports the later one as shadowed exactly when the
\* router puts the other one first and that one takes every request the later one
\* could: the check has its own order of evaluation and its own idea of covering.
ShadowReportsExactly ==
  LET routes == file.routes
      place == EvaluationOrder(routes)
      Earlier(i, j) == \E a, b \in DOMAIN place : a < b /\ place[a] = i /\ place[b] = j
      Literal(k) == routes[k].kind \in {"exact", "prefix"}
      Reachable(k) == \E r \in Requests : Matches(routes[k], r)
  IN \A i, j \in DOMAIN routes :
       i # j /\ Literal(i) /\ Literal(j) /\ Reachable(j)
         /\ (routes[i].headers = {} \/ routes[j].headers = {}) =>
         (<<i, j>> \in Shadowed(routes) <=>
            Earlier(i, j) /\ \A r \in Requests : Matches(routes[j], r) => Matches(routes[i], r))

\* check-config --strict reports a strip_prefix of a prefix rule (but for the rule
\* of all paths) exactly when some request of the rule goes on unstripped.
StripReportedExactly ==
  \A k \in DOMAIN file.routes :
    LET rule == file.routes[k]
        unstripped == {r \in Requests : Matches(rule, r) /\ RewritePath(rule, r.path) = r.path}
    IN rule.kind = "prefix" /\ rule.value # <<"/">> /\ rule.strip \notin {{}, {<<>>}} =>
         (StripUnreachable(rule) <=> unstripped # {})

\* Two files that config-diff calls identical route every request alike, when no id
\* is used twice and no two rules have one priority: the comparison is by id and
\* does not see the order of the rules.
DiffSeesRouting ==
  /\ NoDrift(copy, {file})
  /\ UniqueIds(copy.routes) /\ UniqueIds(file.routes)
  /\ \A i, j \in DOMAIN file.routes : i # j => file.routes[i].priority # file.routes[j].priority
  => \A r \in Requests : Resolve(Snapshot(copy.routes), r) = Resolve(Snapshot(file.routes), r)

\* route-explain tells what the proxy does: it exits 0 exactly for the requests some
\* rule of the file matches, names the target, the path (without the slash the proxy
\* puts back) and the headers the client gets whatever the upstream answers; else
\* each rule it shows has a failing part and a suggestion, worked out by code of its own.
ExplainAgrees ==
  Loads(file) /\ Builds(file.routes) => \A r \in Requests, verbose \in BOOLEAN :
    LET e == RouteExplain(file, r, verbose)
        matching == {k \in DOMAIN file.routes : Matches(file.routes[k], r)}
        Speaks(rule) ==
          /\ e.id = rule.id /\ e.target = Target(rule)
          /\ UpstreamPath(rule, r.path) \in {e.path, <<"/">> \o e.path}
          /\ \A own \in e.headers, l \in Lines : Restrict(Answered(rule, l), DOMAIN own) = own
    IN /\ (e.exit = 0) <=> matching # {}
       /\ e.exit = 0 => \E k \in matching : Speaks(file.routes[k])
       /\ e.exit = 1 => \A k \in DOMAIN e.rows :
            ~(e.rows[k].path /\ e.rows[k].method /\ e.rows[k].headers) /\ e.rows[k].suggestions # {}

\* A suggestion that is the only one for its rule, and whose rule asks for nothing
\* the suggested command leaves out, leads to a route when it is followed.
AdviceLeads ==
  Loads(file) /\ Builds(file.routes) => \A r \in Requests :
    LET e == RouteExplain(file, r, TRUE)
        rules == Snapshot(file.routes)
    IN e.exit = 1 => \A k \in DOMAIN e.rows :
         /\ Cardinality(e.rows[k].suggestions) = 1
         /\ rules[k].methods # {<<>>}
         => \A s \in e.rows[k].suggestions :
              \/ s.code \in {"PATH_MISMATCH", "RULE_HEADER_NAME_INVALID"}
              \/ rules[k].headers # {} /\ DOMAIN SomeOf(rules[k].headers) # DOMAIN s.call.headers
              \/ RouteExplain(file, s.call, FALSE).exit = 0

\* A doctor that passes with --probe-upstream speaks for the server: if the rules
\* compile and the plugins build, which it does not try, the server started in the
\* same surroundings listens, is ready, and sends no request to a target that none
\* answers for.
DoctorSpeaks ==
  \A w \in Worlds :
    Doctor(file, TRUE, w) /\ Builds(file.routes) /\ file.server.plugins # "bad" /\ w.watchable =>
      /\ RunServer(file, <<>>, w) = "listening"
      /\ Ready(file, w)
      /\ \A r \in Requests : \A rule \in Resolve(Snapshot(file.routes), r) :
           LET targets == IF rule.url # {} THEN rule.url
                          ELSE UNION {Range(l) : l \in Found(file, SomeOf(rule.service), w)}
           IN targets \cap w.reach # {}

\* --local-override changes where requests go and never which rule they meet; a rule
\* whose id is its own goes where the last entry for it says.
RedirectedGoLocal ==
  Loads(file) => \A o \in Overrides, r \in Requests :
    LET before == Resolve(Snapshot(file.routes), r)
        after == Resolve(Snapshot(ApplyLocalOverrides(file.routes, o)), r)
        for == {k \in DOMAIN o : before # {} /\ o[k].id = SomeOf(before).id}
    IN /\ {rule.id : rule \in before} = {rule.id : rule \in after}
       /\ UniqueIds(file.routes) /\ before # {} =>
            Target(SomeOf(after)) =
              IF for = {} THEN Target(SomeOf(before))
              ELSE {o[CHOOSE k \in for : \A h \in for : h <= k].url}

\* RULE_SHADOWED is reported when a "broader rule is evaluated before a narrower one
\* it fully covers": then the other rule gets no request.
ShadowedGetsNothing ==
  \A p \in Shadowed(file.routes) : \A r \in Requests :
    Matches(file.routes[p[2]], r) => Matches(file.routes[p[1]], r)
=============================================================================
