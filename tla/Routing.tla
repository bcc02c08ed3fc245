-------------------------------- MODULE Routing --------------------------------
(***************************************************************************)
(* routing/matcher.rs, routing/router.rs and the header and URL work of    *)
(* proxy/http_proxy.rs: functions of a list of rules and a request, each   *)
(* the value the Rust function returns.  A path is the sequence of its     *)
(* characters, "/" included; an Option is the empty set or a singleton; a  *)
(* glob or regex is the set of the paths it accepts, all that the library  *)
(* tells of it.                                                            *)
(***************************************************************************)
EXTENDS Naturals, Sequences, FiniteSets, SequencesExt, Functions

CONSTANTS Upper(_),      \* to_uppercase of a method name
          HeaderName(_), \* the name HeaderName::from_bytes makes of it, or none
          HopByHop       \* the header names is_hop_by_hop lists

\* A rule as it stands in the file; `kind` is "exact", "prefix", "glob", "regex".
\*   [id, kind, value, accepts, valid, methods, headers, strip, url, service,
\*    adds, priority]
\* A request: [path, method, headers], its headers a function on the names sent.
\* The value "unreadable" is one that to_str refuses.

SomeOf(option) == CHOOSE x \in option : TRUE
Readable(value) == IF value = "unreadable" THEN "" ELSE value

\* HeaderMap::insert of each header of `own` replaces what `map` has of that name.
Inserted(own, map) ==
  [n \in DOMAIN own \cup DOMAIN map |-> IF n \in DOMAIN own THEN own[n] ELSE map[n]]

-----------------------------------------------------------------------------
(* Mutated forms, for checking that the properties can fail. *)

\* The rule's own headers are put on before those of the upstream.
Answered_reversed(rule, lines) ==
  LET Put(line, map) == IF line[1] \in HopByHop THEN map ELSE Inserted(line[1] :> line[2], map)
      own == IF rule.adds = {} THEN << >> ELSE SomeOf(rule.adds)
  IN FoldSeq(Put, own, lines)

-----------------------------------------------------------------------------
(* Matching *)

PathMatches(rule, path) ==
  CASE rule.kind = "exact" -> rule.value = path
    [] rule.kind = "prefix" -> IsPrefix(rule.value, path)
    [] OTHER -> path \in rule.accepts

MethodMatches(rule, method) ==
  rule.methods # {} =>
    \E k \in DOMAIN SomeOf(rule.methods) : Upper(SomeOf(rule.methods)[k]) = Upper(method)

\* An absent header never matches, one that cannot be read counts as empty.
HeadersMatch(rule, headers) ==
  rule.headers # {} =>
    \A name \in DOMAIN SomeOf(rule.headers) :
      \E n \in HeaderName(name) \cap DOMAIN headers :
        Readable(headers[n]) = SomeOf(rule.headers)[name]

Matches(rule, request) ==
  /\ PathMatches(rule, request.path)
  /\ MethodMatches(rule, request.method)
  /\ HeadersMatch(rule, request.headers)

\* is_forbidden_config_response_header and the validity of names and values.
AddsAllowed(rule) ==
  rule.adds # {} =>
    \A name \in DOMAIN SomeOf(rule.adds) :
      HeaderName(name) # {} /\ HeaderName(name) \cap (HopByHop \cup {"content-length"}) = {}

Compiles(rule) == (rule.kind \in {"glob", "regex"} => rule.valid) /\ AddsAllowed(rule)

-----------------------------------------------------------------------------
(* The router *)

\* Stable sort by priority.
Precedes(routes, i, j) ==
  \/ routes[i].priority < routes[j].priority
  \/ routes[i].priority = routes[j].priority /\ i < j

\* The positions of `routes` in evaluation order.
EvaluationOrder(routes) ==
  [k \in DOMAIN routes |->
     CHOOSE i \in DOMAIN routes :
       Cardinality({j \in DOMAIN routes : Precedes(routes, j, i)}) = k - 1]

Builds(routes) == \A i \in DOMAIN routes : Compiles(routes[i])

Snapshot(routes) == [k \in DOMAIN routes |-> routes[EvaluationOrder(routes)[k]]]

\* The first rule of a snapshot that matches, if any.
Resolve(rules, request) ==
  LET hits == {k \in DOMAIN rules : Matches(rules[k], request)}
  IN IF hits = {} THEN {} ELSE {rules[CHOOSE k \in hits : \A h \in hits : k <= h]}

-----------------------------------------------------------------------------
(* Forwarding *)

RewritePath(rule, path) ==
  IF rule.strip = {} \/ ~IsPrefix(SomeOf(rule.strip), path) THEN path
  ELSE IF SomeOf(rule.strip) = path THEN <<"/">>
  ELSE SubSeq(path, Len(SomeOf(rule.strip)) + 1, Len(path))

\* build_upstream_url and build_ws_url put the slash back.
UpstreamPath(rule, path) ==
  LET p == RewritePath(rule, path)
  IN IF p # <<>> /\ Head(p) = "/" THEN p ELSE <<"/">> \o p

\* proxy_handler: upstream_url wins over service_id.
Target(rule) == IF rule.url # {} THEN rule.url ELSE rule.service

\* The headers of the answer: those of the upstream, then the rule's own.
Answered(rule, lines) ==
  LET Put(line, map) == IF line[1] \in HopByHop THEN map ELSE Inserted(line[1] :> line[2], map)
      upstream == FoldSeq(Put, << >>, lines)
  IN IF rule.adds = {} THEN upstream ELSE Inserted(SomeOf(rule.adds), upstream)
=============================================================================
