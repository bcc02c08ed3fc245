--------------------------- MODULE ConfigToolsProofs ---------------------------
(***************************************************************************)
(* What the commands say of a file is what the router and the server do    *)
(* with it, for any rules, files of any length, and any requests.          *)
(***************************************************************************)
EXTENDS ConfigTools, DataLemmas

-----------------------------------------------------------------------------
(* The files the commands read *)

\* A list of rules, the redirected ones among them.
IsRoutes(routes) ==
  /\ Len(routes) \in Nat /\ DOMAIN routes = 1..Len(routes)
  /\ routes = [k \in DOMAIN routes |-> routes[k]]
  /\ \A k \in DOMAIN routes : IsRule(routes[k])

IsFile(config) ==
  /\ config = [server |-> config.server, registries |-> config.registries,
               log |-> config.log, routes |-> config.routes]
  /\ config.server \in Servers /\ config.registries \in Registries
  /\ config.routes \in Seq(Rules)

FilesKept == IsFile(file) /\ IsFile(copy)

\* The routes of a file are such a list.
LEMMA FileRoutes ==
  ASSUME NEW config, IsFile(config)
  PROVE  /\ IsRoutes(config.routes)
         /\ \A k \in DOMAIN config.routes : config.routes[k] \in Rules
<1>1. config.routes \in Seq(Rules)
  BY DEF IsFile
<1>2. /\ Len(config.routes) \in Nat /\ DOMAIN config.routes = 1..Len(config.routes)
      /\ \A k \in DOMAIN config.routes : config.routes[k] \in Rules
  BY <1>1, LenProperties, ElementOfSeq
<1>3. config.routes = [k \in DOMAIN config.routes |-> config.routes[k]]
  BY <1>1, <1>2
<1> QED
  BY <1>2, <1>3, ToolsAssumption DEF IsRoutes

\* An edit of the routes leaves a file.
LEMMA RoutesEdited ==
  ASSUME IsFile(file), NEW routes \in Seq(Rules),
         file' = [file EXCEPT !.routes = routes]
  PROVE  IsFile(file')
BY DEF IsFile

LEMMA EditKeepsFile ==
  ASSUME FilesKept, ToolsNext
  PROVE  FilesKept'
<1>1. IsFile(file) /\ file.routes \in Seq(Rules) /\ Len(file.routes) \in Nat
      /\ DOMAIN file.routes = 1..Len(file.routes)
      /\ \A k \in DOMAIN file.routes : file.routes[k] \in Rules
  <2>1. IsFile(file) /\ file.routes \in Seq(Rules)
    BY DEF FilesKept, IsFile
  <2> QED
    BY <2>1, LenProperties, ElementOfSeq
<1>2. ASSUME NEW rule \in Rules, AddRoute(rule)
      PROVE  FilesKept'
  <2>1. Append(file.routes, rule) \in Seq(Rules)
    BY <1>1, AppendProperties
  <2>2. file' = [file EXCEPT !.routes = Append(file.routes, rule)] /\ copy' = copy
    BY <1>2 DEF AddRoute
  <2> QED
    BY <1>1, <2>1, <2>2, RoutesEdited DEF FilesKept
<1>3. ASSUME NEW k \in DOMAIN file.routes, DropRoute(k)
      PROVE  FilesKept'
  <2>1. SubSeq(file.routes, 1, k - 1) \in Seq(Rules)
        /\ SubSeq(file.routes, k + 1, Len(file.routes)) \in Seq(Rules)
    BY <1>1
  <2>2. RemoveAt(file.routes, k) \in Seq(Rules)
    BY <2>1, ConcatProperties DEF RemoveAt
  <2>3. file' = [file EXCEPT !.routes = RemoveAt(file.routes, k)] /\ copy' = copy
    BY <1>3 DEF DropRoute
  <2> QED
    BY <1>1, <2>2, <2>3, RoutesEdited DEF FilesKept
<1>4. ASSUME NEW k \in DOMAIN file.routes, SwapRoutes(k)
      PROVE  FilesKept'
  <2> DEFINE one == [file.routes EXCEPT ![k] = file.routes[k + 1]]
             both == [one EXCEPT ![k + 1] = file.routes[k]]
  <2>1. k \in 1..Len(file.routes) /\ k + 1 \in 1..Len(file.routes)
    BY <1>1, <1>4 DEF SwapRoutes
  <2>2. one \in Seq(Rules) /\ Len(one) = Len(file.routes)
    BY <1>1, <2>1, ExceptSeq
  <2>3. both \in Seq(Rules)
    BY <1>1, <2>1, <2>2, ExceptSeq
  <2>4. file' = [file EXCEPT !.routes = both] /\ copy' = copy
    BY <1>1, <1>4 DEF SwapRoutes, IsFile
  <2> QED
    BY <1>1, <2>3, <2>4, RoutesEdited DEF FilesKept
<1>5. ASSUME NEW s \in Servers, NEW g \in Registries, EditSettings(s, g)
      PROVE  FilesKept'
  BY <1>5 DEF EditSettings, FilesKept, IsFile
<1>6. CASE KeepCopy
  BY <1>6 DEF KeepCopy, FilesKept
<1> QED
  BY <1>2, <1>3, <1>4, <1>5, <1>6 DEF ToolsNext

\* Whatever the operator does, the commands read lists of rules.
LEMMA FilesStay == ToolsSpec => []FilesKept
<1>1. ToolsInit => FilesKept
  <2>1. <<>> \in Seq(Rules)
    OBVIOUS
  <2>2. ASSUME NEW s \in Servers, NEW g \in Registries, copy = file,
               file = [server |-> s, registries |-> g, log |-> "info", routes |-> <<>>]
        PROVE  FilesKept
    BY <2>1, <2>2 DEF FilesKept, IsFile
  <2> QED
    BY <2>2 DEF ToolsInit
<1>2. FilesKept /\ UNCHANGED vars => FilesKept'
  BY DEF FilesKept, vars
<1> QED
  BY <1>1, <1>2, EditKeepsFile, PTL DEF ToolsSpec

-----------------------------------------------------------------------------
(* The router *)

Preceding(routes) == {pair \in (DOMAIN routes) \X (DOMAIN routes) : Precedes(routes, pair[1], pair[2])}

LEMMA PrecedingOrders ==
  ASSUME NEW routes, IsRoutes(routes)
  PROVE  /\ StrictlyOrders(Preceding(routes), DOMAIN routes)
         /\ Cardinality(DOMAIN routes) = Len(routes)
<1>1. Len(routes) \in Nat /\ DOMAIN routes = 1..Len(routes)
      /\ \A k \in DOMAIN routes : k \in Nat /\ routes[k].priority \in Nat
  BY DEF IsRoutes, IsRule
<1>2. IsFiniteSet(DOMAIN routes) /\ Cardinality(DOMAIN routes) = Len(routes)
  BY <1>1, FS_Interval
<1>3. \A i, j \in DOMAIN routes : <<i, j>> \in Preceding(routes) <=> Precedes(routes, i, j)
  BY DEF Preceding
<1>4. \A i \in DOMAIN routes : ~Precedes(routes, i, i)
  BY <1>1 DEF Precedes
<1>5. \A i, j \in DOMAIN routes : i = j \/ Precedes(routes, i, j) \/ Precedes(routes, j, i)
  BY <1>1 DEF Precedes
<1>6. \A i, j, k \in DOMAIN routes :
         Precedes(routes, i, j) /\ Precedes(routes, j, k) => Precedes(routes, i, k)
  BY <1>1 DEF Precedes
<1> QED
  BY <1>2, <1>3, <1>4, <1>5, <1>6 DEF StrictlyOrders

\* The router tries every rule of the file once, in the order of Precedes.
LEMMA EvaluationPlaces ==
  ASSUME NEW routes, IsRoutes(routes)
  PROVE  /\ EvaluationOrder(routes) \in [DOMAIN routes -> DOMAIN routes]
         /\ \A k, l \in DOMAIN routes :
              k < l <=> Precedes(routes, EvaluationOrder(routes)[k], EvaluationOrder(routes)[l])
         /\ \A i \in DOMAIN routes : \E k \in DOMAIN routes : EvaluationOrder(routes)[k] = i
<1> DEFINE D == DOMAIN routes
           R == Preceding(routes)
           place == EvaluationOrder(routes)
<1> HIDE DEF D, R, place
<1>1. D = 1..Cardinality(D) /\ StrictlyOrders(R, D)
  BY PrecedingOrders DEF IsRoutes, D, R
<1>2. \A i \in D : {j \in D : Precedes(routes, j, i)} = {j \in D : <<j, i>> \in R}
  BY DEF Preceding, D, R
<1>3. \A i \in D : Cardinality({j \in D : Precedes(routes, j, i)}) = Rank(R, D, i)
  BY <1>2 DEF Rank
<1>4. place = InPlaces(R, D)
  BY <1>1, <1>3 DEF EvaluationOrder, InPlaces, D, place
<1>5. /\ place \in [D -> D]
      /\ \A k, l \in D : k < l <=> <<place[k], place[l]>> \in R
      /\ \A i \in D : \E k \in D : place[k] = i
  <2>1. PICK n : n = Cardinality(D)
    OBVIOUS
  <2>2. /\ place \in [1..n -> D]
        /\ \A k, l \in 1..n : k < l <=> <<place[k], place[l]>> \in R
        /\ \A i \in D : \E k \in 1..n : place[k] = i
    BY <1>1, <1>4, <2>1, PlacesInOrder
  <2>3. 1..n = D
    BY <1>1, <2>1
  <2> QED
    BY <2>2, <2>3
<1>6. \A i, j \in D : <<i, j>> \in R <=> Precedes(routes, i, j)
  BY DEF Preceding, D, R
<1> QED
  BY <1>5, <1>6 DEF D, place

\* Rule i of the file is the first that matches.
MetFirst(routes, request, i) ==
  /\ i \in DOMAIN routes /\ Matches(routes[i], request)
  /\ \A j \in DOMAIN routes :
       j # i /\ Matches(routes[j], request) => Precedes(routes, i, j)

NoneMatches(routes, request) == \A i \in DOMAIN routes : ~Matches(routes[i], request)

ResolvesFirst(routes, request) ==
  \/ NoneMatches(routes, request) /\ Resolve(Snapshot(routes), request) = {}
  \/ \E i : MetFirst(routes, request, i) /\ Resolve(Snapshot(routes), request) = {routes[i]}

\* Resolve gives that rule, or nothing if none matches.
LEMMA ResolveFirst ==
  ASSUME NEW routes, IsRoutes(routes), NEW request
  PROVE  ResolvesFirst(routes, request)
<1> DEFINE D == DOMAIN routes
           place == EvaluationOrder(routes)
           rules == Snapshot(routes)
           hits == {k \in DOMAIN rules : Matches(rules[k], request)}
           first == CHOOSE k \in hits : \A h \in hits : k <= h
<1>0. D \subseteq Nat
  BY DEF IsRoutes
<1>1. /\ place \in [D -> D]
      /\ \A k, l \in D : k < l <=> Precedes(routes, place[k], place[l])
      /\ \A i \in D : \E k \in D : place[k] = i
  BY EvaluationPlaces
<1> HIDE DEF place
<1>2. DOMAIN rules = D /\ \A k \in D : rules[k] = routes[place[k]]
  BY DEF Snapshot, place
<1> HIDE DEF rules
<1>3. Resolve(rules, request) = IF hits = {} THEN {} ELSE {rules[first]}
  BY DEF Resolve
<1>4. hits \subseteq D /\ \A k \in D : k \in hits <=> Matches(routes[place[k]], request)
  BY <1>2
<1> HIDE DEF hits
<1>5. CASE hits = {}
  <2>1. NoneMatches(routes, request)
    BY <1>1, <1>4, <1>5 DEF NoneMatches
  <2> QED
    BY <1>3, <1>5, <2>1 DEF ResolvesFirst, rules
<1>6. CASE hits # {}
  <2>1. PICK h \in hits : h \in Nat
    BY <1>0, <1>4, <1>6
  <2>2. \E k \in Nat : k \in hits /\ \A j \in Nat : j < k => j \notin hits
    BY <2>1, LeastNatural
  <2>3. \E k \in hits : \A j \in hits : k <= j
    BY <1>0, <1>4, <2>2
  <2>4. first \in hits /\ \A j \in hits : first <= j
    BY <2>3
  <2> HIDE DEF first
  <2>5. first \in D /\ place[first] \in D /\ rules[first] = routes[place[first]]
    BY <1>1, <1>2, <1>4, <2>4
  <2>6. ASSUME NEW j \in D, j # place[first], Matches(routes[j], request)
        PROVE  Precedes(routes, place[first], j)
    <3>1. PICK k \in D : place[k] = j
      BY <1>1
    <3>2. k \in hits /\ k # first
      BY <1>4, <2>6, <3>1
    <3>3. first < k
      BY <1>0, <2>4, <2>5, <3>2
    <3> QED
      BY <1>1, <2>5, <3>1, <3>3
  <2>7. MetFirst(routes, request, place[first])
    BY <1>4, <2>4, <2>5, <2>6 DEF MetFirst
  <2>8. Resolve(rules, request) = {routes[place[first]]}
    BY <1>3, <1>6, <2>5
  <2> QED
    BY <2>7, <2>8 DEF ResolvesFirst, rules
<1> QED
  BY <1>5, <1>6

-----------------------------------------------------------------------------
(* route-explain *)

\* A rule without a failing part would match.
LEMMA NoIssueMatches ==
  ASSUME NEW rule, IsRule(rule), NEW headers, HeaderIssues(rule, headers) = {}
  PROVE  HeadersMatch(rule, headers)
<1> SUFFICES ASSUME rule.headers # {}, NEW name \in DOMAIN SomeOf(rule.headers)
             PROVE  \E n \in HeaderName(name) \cap DOMAIN headers :
                      Readable(headers[n]) = SomeOf(rule.headers)[name]
  BY DEF HeadersMatch
<1> DEFINE cond == SomeOf(rule.headers)
           n == SomeOf(HeaderName(name))
           Code(m) == IF HeaderName(m) = {} THEN "RULE_HEADER_NAME_INVALID"
                      ELSE IF SomeOf(HeaderName(m)) \notin DOMAIN headers THEN "HEADER_MISSING"
                      ELSE IF headers[SomeOf(HeaderName(m))] # cond[m] THEN "HEADER_VALUE_MISMATCH"
                      ELSE "ok"
<1>1. {<<Code(m), m>> : m \in {l \in DOMAIN cond : Code(l) # "ok"}} = {}
  BY DEF HeaderIssues
<1>2. Code(name) = "ok"
  <2> HIDE DEF Code, cond
  <2>1. name \in DOMAIN cond
    BY DEF cond
  <2> QED
    BY <1>1, <2>1
<1>3. HeaderName(name) # {} /\ n \in DOMAIN headers /\ headers[n] = cond[name]
  BY <1>2
<1>4. n \in HeaderName(name)
  BY <1>3 DEF SomeOf
<1>5. cond[name] # "unreadable"
  <2>1. cond \in rule.headers
    BY DEF SomeOf
  <2> QED
    BY <2>1 DEF IsRule
<1> QED
  BY <1>3, <1>4, <1>5 DEF Readable

\* The suggestions of a row by the part that fails.
PathAdvice(rule, request) ==
  IF PathMatches(rule, request.path) THEN {}
  ELSE {[code |-> "PATH_MISMATCH",
         call |-> [path |-> request.path, method |-> Upper(request.method), headers |-> << >>]]}

MethodAdvice(rule, request) ==
  IF MethodOk(rule, request.method) THEN {}
  ELSE {[code |-> "METHOD_MISMATCH",
         call |-> [path |-> request.path, method |-> SampleMethod(rule, request.method),
                   headers |-> << >>]]}

HeaderCall(rule, request, issue) ==
  IF HeaderName(issue[2]) = {}
  THEN [path |-> request.path, method |-> Upper(request.method), headers |-> << >>]
  ELSE [path |-> request.path, method |-> Upper(request.method),
        headers |-> [n \in {SomeOf(HeaderName(issue[2]))} |-> SomeOf(rule.headers)[issue[2]]]]

HeaderAdvice(rule, request) ==
  {[code |-> b[1], call |-> HeaderCall(rule, request, b)] :
     b \in HeaderIssues(rule, request.headers)}

LEMMA AdviceParts ==
  ASSUME NEW rule, NEW request
  PROVE  Mismatch(rule, request).suggestions =
           PathAdvice(rule, request) \cup MethodAdvice(rule, request)
             \cup HeaderAdvice(rule, request)
BY DEF Mismatch, PathAdvice, MethodAdvice, HeaderAdvice, HeaderCall

\* A row whose rule did not match has a failing part and a suggestion.
LEMMA RowTells ==
  ASSUME NEW rule, IsRule(rule), NEW request
  PROVE  LET row == Mismatch(rule, request) IN
         /\ row.path /\ row.method /\ row.headers => Matches(rule, request)
         /\ ~(row.path /\ row.method /\ row.headers) => row.suggestions # {}
<1> DEFINE row == Mismatch(rule, request)
<1>1. /\ row.path = PathMatches(rule, request.path)
      /\ row.method = MethodOk(rule, request.method)
      /\ row.headers = (HeaderIssues(rule, request.headers) = {})
  BY DEF Mismatch
<1>2. MethodOk(rule, request.method) => MethodMatches(rule, request.method)
  BY DEF MethodOk, MethodMatches
<1>3. ~PathMatches(rule, request.path) => PathAdvice(rule, request) # {}
  BY DEF PathAdvice
<1>4. ~MethodOk(rule, request.method) => MethodAdvice(rule, request) # {}
  BY DEF MethodAdvice
<1>5. HeaderIssues(rule, request.headers) # {} => HeaderAdvice(rule, request) # {}
  BY DEF HeaderAdvice
<1>6. \/ PathAdvice(rule, request) # {} \/ MethodAdvice(rule, request) # {}
      \/ HeaderAdvice(rule, request) # {}
      => row.suggestions # {}
  BY AdviceParts
<1> QED
  BY <1>1, <1>2, <1>3, <1>4, <1>5, <1>6, NoIssueMatches DEF Matches

\* The headers a rule adds reach the client whatever the upstream answers.
LEMMA OwnHeadersStay ==
  ASSUME NEW rule, IsRule(rule), NEW own \in rule.adds, NEW lines
  PROVE  Restrict(Answered(rule, lines), DOMAIN own) = own
<1>1. SomeOf(rule.adds) = own
  BY DEF IsRule, Optional, SomeOf
<1>2. PICK upstream : Answered(rule, lines) = Inserted(own, upstream)
  BY <1>1 DEF Answered
<1>3. own = [n \in DOMAIN own |-> own[n]]
  BY DEF IsRule
<1>4. \A n \in DOMAIN own : Inserted(own, upstream)[n] = own[n]
  BY DEF Inserted
<1> QED
  BY <1>2, <1>3, <1>4 DEF Restrict

\* A snapshot has the rules of the file.
LEMMA SnapshotFacts ==
  ASSUME NEW routes, IsRoutes(routes)
  PROVE  /\ DOMAIN Snapshot(routes) = DOMAIN routes
         /\ Len(Snapshot(routes)) = Len(routes)
         /\ \A k \in DOMAIN routes : \E i \in DOMAIN routes : Snapshot(routes)[k] = routes[i]
<1>1. DOMAIN Snapshot(routes) = DOMAIN routes
  BY DEF Snapshot
<1>2. Len(routes) \in Nat /\ DOMAIN routes = 1..Len(routes)
  BY DEF IsRoutes
<1>3. Snapshot(routes) = [k \in 1..Len(routes) |-> routes[EvaluationOrder(routes)[k]]]
  BY <1>2 DEF Snapshot
<1>4. Len(Snapshot(routes)) = Len(routes)
  BY <1>2, <1>3
<1>5. \A k \in DOMAIN routes : EvaluationOrder(routes)[k] \in DOMAIN routes
  BY EvaluationPlaces
<1> QED
  BY <1>1, <1>4, <1>5 DEF Snapshot

\* One question to route-explain and what the router does with it.
LEMMA OneExplanation ==
  ASSUME NEW config, IsFile(config), NEW request, NEW verbose \in BOOLEAN
  PROVE  LET e == RouteExplain(config, request, verbose) IN
         \/ /\ e.exit = 0
            /\ \E k \in DOMAIN config.routes :
                 /\ MetFirst(config.routes, request, k)
                 /\ e.id = config.routes[k].id /\ e.target = Target(config.routes[k])
                 /\ e.path = RewritePath(config.routes[k], request.path)
                 /\ e.headers = config.routes[k].adds
         \/ /\ e.exit = 1 /\ NoneMatches(config.routes, request)
            /\ DOMAIN e.rows \subseteq DOMAIN config.routes
            /\ verbose => DOMAIN e.rows = DOMAIN config.routes
            /\ \A k \in DOMAIN e.rows :
                 e.rows[k] = Mismatch(Snapshot(config.routes)[k], request)
<1> DEFINE routes == config.routes
           rules == Snapshot(routes)
           short == SubSeq(rules, 1, IF Len(rules) < Inspected THEN Len(rules) ELSE Inspected)
           shown == IF verbose THEN rules ELSE short
           rows == [k \in DOMAIN shown |-> Mismatch(shown[k], request)]
           e == RouteExplain(config, request, verbose)
<1> HIDE DEF rows
<1>1. IsRoutes(routes)
  BY FileRoutes
<1>2. CASE NoneMatches(routes, request) /\ Resolve(rules, request) = {}
  <2>1. e = [exit |-> 1, rows |-> rows, outline |-> Outline(rows)]
    BY <1>2 DEF RouteExplain, rows
  <2>2. e.exit = 1 /\ e.rows = rows
    BY <2>1
  <2>3. DOMAIN rules = DOMAIN routes /\ Len(rules) = Len(routes)
        /\ DOMAIN routes = 1..Len(routes) /\ Len(routes) \in Nat
    BY <1>1, SnapshotFacts DEF IsRoutes
  <2>4. DOMAIN short \subseteq DOMAIN routes /\ \A k \in DOMAIN short : short[k] = rules[k]
    <3> HIDE DEF rules
    <3> QED
      BY <2>3, ToolsAssumption DEF short
  <2> HIDE DEF short
  <2>5. DOMAIN shown \subseteq DOMAIN routes /\ (verbose => DOMAIN shown = DOMAIN routes)
        /\ \A k \in DOMAIN shown : shown[k] = rules[k]
    BY <2>3, <2>4
  <2>6. DOMAIN rows = DOMAIN shown /\ \A k \in DOMAIN shown : rows[k] = Mismatch(shown[k], request)
    <3> HIDE DEF shown
    <3> QED
      BY DEF rows
  <2> HIDE DEF shown
  <2> QED
    BY <1>2, <2>2, <2>5, <2>6
<1>3. ASSUME NEW i, MetFirst(routes, request, i), Resolve(rules, request) = {routes[i]}
      PROVE  /\ e.exit = 0 /\ e.id = routes[i].id /\ e.target = Target(routes[i])
             /\ e.path = RewritePath(routes[i], request.path) /\ e.headers = routes[i].adds
             /\ i \in DOMAIN routes
  <2>1. SomeOf({routes[i]}) = routes[i]
    BY DEF SomeOf
  <2>2. e = [exit |-> 0, id |-> routes[i].id, target |-> Target(routes[i]),
             path |-> RewritePath(routes[i], request.path), headers |-> routes[i].adds]
    BY <1>3, <2>1 DEF RouteExplain
  <2> QED
    BY <1>3, <2>2 DEF MetFirst
<1> QED
  BY <1>1, <1>2, <1>3, ResolveFirst DEF ResolvesFirst

LEMMA ExplainSuffices == FilesKept => ExplainAgrees
<1> SUFFICES ASSUME FilesKept, NEW r \in Requests, NEW verbose \in BOOLEAN
             PROVE  LET e == RouteExplain(file, r, verbose)
                        matching == {k \in DOMAIN file.routes : Matches(file.routes[k], r)}
                        Speaks(rule) ==
                          /\ e.id = rule.id /\ e.target = Target(rule)
                          /\ UpstreamPath(rule, r.path) \in {e.path, <<"/">> \o e.path}
                          /\ \A own \in e.headers, l \in Lines :
                               Restrict(Answered(rule, l), DOMAIN own) = own
                    IN /\ (e.exit = 0) <=> matching # {}
                       /\ e.exit = 0 => \E k \in matching : Speaks(file.routes[k])
                       /\ e.exit = 1 => \A k \in DOMAIN e.rows :
                            /\ ~(e.rows[k].path /\ e.rows[k].method /\ e.rows[k].headers)
                            /\ e.rows[k].suggestions # {}
  BY DEF ExplainAgrees
<1> DEFINE e == RouteExplain(file, r, verbose)
           routes == file.routes
           Speaks(rule) ==
             /\ e.id = rule.id /\ e.target = Target(rule)
             /\ UpstreamPath(rule, r.path) \in {e.path, <<"/">> \o e.path}
             /\ \A own \in e.headers, l \in Lines : Restrict(Answered(rule, l), DOMAIN own) = own
<1> HIDE DEF e
<1>1. IsFile(file) /\ IsRoutes(routes)
  BY FileRoutes DEF FilesKept
<1>2. CASE /\ e.exit = 1 /\ NoneMatches(routes, r)
           /\ DOMAIN e.rows \subseteq DOMAIN routes
           /\ \A k \in DOMAIN e.rows : e.rows[k] = Mismatch(Snapshot(routes)[k], r)
  <2>1. ASSUME NEW k \in DOMAIN e.rows
        PROVE  /\ ~(e.rows[k].path /\ e.rows[k].method /\ e.rows[k].headers)
               /\ e.rows[k].suggestions # {}
    <3>1. PICK i \in DOMAIN routes : Snapshot(routes)[k] = routes[i]
      BY <1>1, <1>2, SnapshotFacts
    <3>2. ~Matches(routes[i], r) /\ IsRule(routes[i])
      BY <1>1, <1>2 DEF NoneMatches, IsRoutes
    <3>3. e.rows[k] = Mismatch(routes[i], r)
      BY <1>2, <3>1
    <3> QED
      BY <3>2, <3>3, RowTells
  <2> QED
    BY <1>2, <2>1 DEF NoneMatches, e
<1>3. ASSUME NEW k \in DOMAIN routes, MetFirst(routes, r, k), e.exit = 0,
             e.id = routes[k].id, e.target = Target(routes[k]),
             e.path = RewritePath(routes[k], r.path), e.headers = routes[k].adds
      PROVE  Matches(routes[k], r) /\ Speaks(routes[k])
  <2>1. IsRule(routes[k])
    BY <1>1 DEF IsRoutes
  <2>2. UpstreamPath(routes[k], r.path) \in {e.path, <<"/">> \o e.path}
    BY <1>3 DEF UpstreamPath
  <2>3. \A own \in e.headers, l \in Lines : Restrict(Answered(routes[k], l), DOMAIN own) = own
    BY <1>3, <2>1, OwnHeadersStay
  <2> QED
    BY <1>3, <2>2, <2>3 DEF MetFirst
<1>4. \/ /\ e.exit = 0
         /\ \E k \in DOMAIN routes :
              /\ MetFirst(routes, r, k)
              /\ e.id = routes[k].id /\ e.target = Target(routes[k])
              /\ e.path = RewritePath(routes[k], r.path) /\ e.headers = routes[k].adds
      \/ /\ e.exit = 1 /\ NoneMatches(routes, r)
         /\ DOMAIN e.rows \subseteq DOMAIN routes
         /\ \A k \in DOMAIN e.rows : e.rows[k] = Mismatch(Snapshot(routes)[k], r)
  BY <1>1, OneExplanation DEF e
<1>5. CASE \E k \in DOMAIN routes : e.exit = 0 /\ Matches(routes[k], r) /\ Speaks(routes[k])
  BY <1>5 DEF e
<1> QED
  BY <1>2, <1>3, <1>4, <1>5

\* route-explain tells what the proxy does with a request (ExplainAgrees), for any file,
\* any request and any answer of the upstream.
THEOREM ExplanationsTrue == ToolsSpec => []ExplainAgrees
BY FilesStay, ExplainSuffices, PTL

-----------------------------------------------------------------------------
(* The suggestions of route-explain *)

\* What an issue says of its condition.
LEMMA IssueFacts ==
  ASSUME NEW rule, NEW headers, NEW b \in HeaderIssues(rule, headers)
  PROVE  /\ rule.headers # {} /\ b[2] \in DOMAIN SomeOf(rule.headers)
         /\ b[1] \in {"RULE_HEADER_NAME_INVALID", "HEADER_MISSING", "HEADER_VALUE_MISMATCH"}
         /\ HeaderName(b[2]) = {} => b[1] = "RULE_HEADER_NAME_INVALID"
BY DEF HeaderIssues

LEMMA AdviceFinite ==
  ASSUME NEW rule, IsRule(rule), NEW request
  PROVE  IsFiniteSet(Mismatch(rule, request).suggestions)
<1> DEFINE bad == HeaderIssues(rule, request.headers)
           advice == [b \in bad |-> [code |-> b[1], call |-> HeaderCall(rule, request, b)]]
<1>1. IsFiniteSet(bad)
  <2>1. CASE rule.headers = {}
    <3>1. bad = {}
      BY <2>1 DEF HeaderIssues
    <3> QED
      BY <3>1, FS_EmptySet
  <2>2. CASE rule.headers # {}
    <3> DEFINE cond == SomeOf(rule.headers)
               headers == request.headers
               Code(n) == IF HeaderName(n) = {} THEN "RULE_HEADER_NAME_INVALID"
                          ELSE IF SomeOf(HeaderName(n)) \notin DOMAIN headers THEN "HEADER_MISSING"
                          ELSE IF headers[SomeOf(HeaderName(n))] # cond[n]
                          THEN "HEADER_VALUE_MISMATCH" ELSE "ok"
               some == {m \in DOMAIN cond : Code(m) # "ok"}
               issue == [n \in some |-> <<Code(n), n>>]
    <3>1. cond \in rule.headers
      BY <2>2 DEF SomeOf
    <3>2. IsFiniteSet(DOMAIN cond)
      BY <3>1 DEF IsRule
    <3>3. bad = {<<Code(n), n>> : n \in some}
      BY <2>2 DEF HeaderIssues
    <3> HIDE DEF Code, cond
    <3>4. IsFiniteSet(some)
      BY <3>2, FS_Subset
    <3> HIDE DEF some
    <3>5. bad = {issue[n] : n \in some}
      BY <3>3
    <3> HIDE DEF issue
    <3> QED
      BY <3>4, <3>5, FiniteImage
  <2> QED
    BY <2>1, <2>2
<1> HIDE DEF bad
<1>2. HeaderAdvice(rule, request) = {advice[b] : b \in bad}
  BY DEF HeaderAdvice, bad
<1> HIDE DEF advice
<1>3. IsFiniteSet(HeaderAdvice(rule, request))
  BY <1>1, <1>2, FiniteImage
<1>4. IsFiniteSet(PathAdvice(rule, request)) /\ IsFiniteSet(MethodAdvice(rule, request))
  BY FS_EmptySet, FS_Singleton DEF PathAdvice, MethodAdvice
<1>5. IsFiniteSet(PathAdvice(rule, request) \cup MethodAdvice(rule, request))
  BY <1>4, FS_Union
<1>6. IsFiniteSet((PathAdvice(rule, request) \cup MethodAdvice(rule, request))
                    \cup HeaderAdvice(rule, request))
  BY <1>3, <1>5, FS_Union
<1> QED
  BY <1>6, AdviceParts

\* The only suggestion for a rule, if it is one the rule can be met by, is met by it.
LEMMA AdviceFits ==
  ASSUME NEW rule \in Rules, NEW request \in Requests,
         Cardinality(Mismatch(rule, request).suggestions) = 1, rule.methods # {<<>>},
         NEW s \in Mismatch(rule, request).suggestions,
         s.code \notin {"PATH_MISMATCH", "RULE_HEADER_NAME_INVALID"},
         rule.headers = {} \/ DOMAIN SomeOf(rule.headers) = DOMAIN s.call.headers
  PROVE  Matches(rule, s.call)
<1> DEFINE all == Mismatch(rule, request).suggestions
           path == PathAdvice(rule, request)
           method == MethodAdvice(rule, request)
           header == HeaderAdvice(rule, request)
           cond == SomeOf(rule.headers)
<1>1. IsRule(rule) /\ Upper(Upper(request.method)) = Upper(request.method)
  BY ToolsAssumption
<1>2. all = path \cup method \cup header
  BY AdviceParts
<1>3. all = {s}
  <2>1. IsFiniteSet(all)
    BY <1>1, AdviceFinite
  <2> HIDE DEF all
  <2>2. \E x : all = {x}
    BY <2>1, FS_Singleton DEF all
  <2> QED
    BY <2>2 DEF all
<1>4. PathMatches(rule, request.path)
  <2> SUFFICES ASSUME ~PathMatches(rule, request.path) PROVE FALSE
    OBVIOUS
  <2>1. PICK x \in path : x.code = "PATH_MISMATCH"
    BY DEF PathAdvice
  <2> HIDE DEF path, all
  <2> QED
    BY <1>2, <1>3, <2>1
<1>5. ASSUME NEW b \in HeaderIssues(rule, request.headers)
      PROVE  s = [code |-> b[1], call |-> HeaderCall(rule, request, b)]
  BY <1>2, <1>3 DEF HeaderAdvice
<1>6. CASE ~MethodOk(rule, request.method)
  <2>1. s = [code |-> "METHOD_MISMATCH",
             call |-> [path |-> request.path, method |-> SampleMethod(rule, request.method),
                       headers |-> << >>]]
    BY <1>2, <1>3, <1>6 DEF MethodAdvice
  <2> DEFINE list == SomeOf(rule.methods)
  <2>2. list \in rule.methods
    BY <1>6 DEF MethodOk, SomeOf
  <2>3. list \in Seq(STRING) /\ list # <<>>
        /\ \A k \in DOMAIN list : Upper(Upper(list[k])) = Upper(list[k])
    BY <1>1, <2>2, ToolsAssumption DEF IsRule, Optional
  <2> HIDE DEF list
  <2>4. 1 \in DOMAIN list /\ Head(list) = list[1]
    BY <2>3
  <2>5. SampleMethod(rule, request.method) = Upper(list[1])
    BY <2>3, <2>4 DEF SampleMethod, list
  <2>6. MethodMatches(rule, s.call.method)
    <3>1. Upper(list[1]) = Upper(s.call.method)
      BY <2>1, <2>3, <2>4, <2>5
    <3> QED
      BY <2>4, <3>1 DEF MethodMatches, list
  <2>7. HeadersMatch(rule, s.call.headers)
    <3>1. DOMAIN s.call.headers = {}
      BY <2>1
    <3> QED
      BY <3>1 DEF HeadersMatch
  <2> QED
    BY <1>4, <2>1, <2>6, <2>7 DEF Matches
<1>7. CASE MethodOk(rule, request.method)
  <2>1. method = {} /\ path = {}
    BY <1>4, <1>7 DEF MethodAdvice, PathAdvice
  <2>2. PICK b \in HeaderIssues(rule, request.headers) :
          s = [code |-> b[1], call |-> HeaderCall(rule, request, b)]
    BY <1>2, <2>1 DEF HeaderAdvice
  <2> DEFINE name == b[2]
             sent == SomeOf(HeaderName(name))
  <2>3. rule.headers # {} /\ name \in DOMAIN cond /\ HeaderName(name) # {}
    BY <2>2, IssueFacts
  <2>4. s.call = [path |-> request.path, method |-> Upper(request.method),
                  headers |-> [n \in {sent} |-> cond[name]]]
    BY <2>2, <2>3 DEF HeaderCall
  <2>5. MethodMatches(rule, s.call.method)
    <3>1. s.call.method = Upper(request.method)
      BY <2>4
    <3> QED
      BY <1>1, <1>7, <3>1 DEF MethodOk, MethodMatches
  <2>6. DOMAIN cond = {sent} /\ name = sent /\ sent \in HeaderName(name)
    <3>1. DOMAIN s.call.headers = {sent}
      BY <2>4
    <3>2. sent \in HeaderName(name)
      BY <2>3 DEF SomeOf
    <3> QED
      BY <2>3, <3>1, <3>2
  <2>7. cond[name] # "unreadable"
    <3>1. cond \in rule.headers
      BY <2>3 DEF SomeOf
    <3> QED
      BY <1>1, <2>3, <3>1 DEF IsRule
  <2>8. HeadersMatch(rule, s.call.headers)
    <3>1. sent \in DOMAIN s.call.headers /\ s.call.headers[sent] = cond[name]
      BY <2>4
    <3>2. Readable(s.call.headers[sent]) = cond[name]
      BY <2>7, <3>1 DEF Readable
    <3> QED
      BY <2>6, <3>1, <3>2 DEF HeadersMatch
  <2>9. s.call.path = request.path
    BY <2>4
  <2> QED
    BY <1>4, <2>5, <2>8, <2>9 DEF Matches
<1> QED
  BY <1>6, <1>7

LEMMA AdviceSuffices == FilesKept => AdviceLeads
<1> SUFFICES ASSUME FilesKept, NEW r \in Requests
             PROVE  LET e == RouteExplain(file, r, TRUE)
                        rules == Snapshot(file.routes)
                    IN e.exit = 1 => \A k \in DOMAIN e.rows :
                         /\ Cardinality(e.rows[k].suggestions) = 1
                         /\ rules[k].methods # {<<>>}
                         => \A s \in e.rows[k].suggestions :
                              \/ s.code \in {"PATH_MISMATCH", "RULE_HEADER_NAME_INVALID"}
                              \/ /\ rules[k].headers # {}
                                 /\ DOMAIN SomeOf(rules[k].headers) # DOMAIN s.call.headers
                              \/ RouteExplain(file, s.call, FALSE).exit = 0
  BY DEF AdviceLeads
<1> DEFINE e == RouteExplain(file, r, TRUE)
           routes == file.routes
           rules == Snapshot(routes)
<1>1. IsFile(file) /\ IsRoutes(routes) /\ \A k \in DOMAIN routes : routes[k] \in Rules
  BY FileRoutes DEF FilesKept
<1> HIDE DEF rules, e
<1>2. \/ e.exit = 0
      \/ /\ e.exit = 1 /\ DOMAIN e.rows \subseteq DOMAIN routes
         /\ \A k \in DOMAIN e.rows : e.rows[k] = Mismatch(rules[k], r)
  BY <1>1, OneExplanation DEF rules, e
<1>3. ASSUME e.exit = 1, NEW k \in DOMAIN e.rows,
             Cardinality(e.rows[k].suggestions) = 1, rules[k].methods # {<<>>},
             NEW s \in e.rows[k].suggestions,
             s.code \notin {"PATH_MISMATCH", "RULE_HEADER_NAME_INVALID"},
             ~(rules[k].headers # {} /\ DOMAIN SomeOf(rules[k].headers) # DOMAIN s.call.headers)
      PROVE  RouteExplain(file, s.call, FALSE).exit = 0
  <2>1. PICK i \in DOMAIN routes : rules[k] = routes[i]
    BY <1>1, <1>2, <1>3, SnapshotFacts DEF rules
  <2>2. e.rows[k] = Mismatch(routes[i], r) /\ routes[i] \in Rules
    BY <1>1, <1>2, <1>3, <2>1
  <2>3. Matches(routes[i], s.call)
    BY <1>3, <2>1, <2>2, AdviceFits
  <2>4. ~NoneMatches(routes, s.call)
    BY <2>3 DEF NoneMatches
  <2> QED
    BY <1>1, <2>4, OneExplanation
<1> QED
  BY <1>3 DEF e, rules

\* A suggestion of route-explain that stands alone leads to a route (AdviceLeads), for any
\* file and any request, if upper case is stable.
THEOREM AdviceFollowed == ToolsSpec => []AdviceLeads
BY FilesStay, AdviceSuffices, PTL

-----------------------------------------------------------------------------
(* Local overrides *)

Entry == [id : STRING, url : STRING]

\* A rule with another target.
Retarget(rule, url, service) ==
  [id |-> rule.id, kind |-> rule.kind, value |-> rule.value, accepts |-> rule.accepts,
   valid |-> rule.valid, methods |-> rule.methods, headers |-> rule.headers,
   strip |-> rule.strip, url |-> url, service |-> service, adds |-> rule.adds,
   priority |-> rule.priority]

Urls(routes, o) == {routes[i].url : i \in DOMAIN routes} \cup {{o[k].url} : k \in DOMAIN o}
Services(routes) == {routes[i].service : i \in DOMAIN routes} \cup {{}}

\* Rule i of routes with a target some rule or some entry of o names.
Targets(routes, o, i) ==
  {Retarget(routes[i], u, s) : u \in Urls(routes, o), s \in Services(routes)}

Redirections(routes, o) ==
  {t \in [DOMAIN routes -> UNION {Targets(routes, o, i) : i \in DOMAIN routes}] :
     \A i \in DOMAIN routes : t[i] \in Targets(routes, o, i)}

\* The target takes no part in matching, ordering and compiling.
LEMMA RetargetFacts ==
  ASSUME NEW rule, NEW u, NEW s
  PROVE  /\ IsRule(rule) => rule = Retarget(rule, rule.url, rule.service)
         /\ IsRule(rule) /\ (\A x, y \in u : x = y) /\ (\A x, y \in s : x = y)
              => IsRule(Retarget(rule, u, s))
         /\ Retarget(rule, u, s).url = u /\ Retarget(rule, u, s).service = s
         /\ Retarget(rule, u, s).id = rule.id
         /\ Retarget(rule, u, s).priority = rule.priority
         /\ \A r : Matches(Retarget(rule, u, s), r) <=> Matches(rule, r)
         /\ Compiles(Retarget(rule, u, s)) <=> Compiles(rule)
<1> DEFINE new == Retarget(rule, u, s)
<1>1. IsRule(rule) => rule = Retarget(rule, rule.url, rule.service)
  BY DEF IsRule, Retarget
<1>2. /\ new.id = rule.id /\ new.kind = rule.kind /\ new.value = rule.value
      /\ new.accepts = rule.accepts /\ new.valid = rule.valid /\ new.methods = rule.methods
      /\ new.headers = rule.headers /\ new.strip = rule.strip /\ new.url = u
      /\ new.service = s /\ new.adds = rule.adds /\ new.priority = rule.priority
  BY DEF Retarget
<1>3. new = [id |-> new.id, kind |-> new.kind, value |-> new.value,
             accepts |-> new.accepts, valid |-> new.valid, methods |-> new.methods,
             headers |-> new.headers, strip |-> new.strip, url |-> new.url,
             service |-> new.service, adds |-> new.adds, priority |-> new.priority]
  BY DEF Retarget
<1> HIDE DEF new
<1>4. ASSUME IsRule(rule), \A x, y \in u : x = y, \A x, y \in s : x = y
      PROVE  IsRule(new)
  <2>1. \A f \in Optional : new[f] = rule[f] \/ new[f] = u \/ new[f] = s
    BY <1>2 DEF Optional
  <2>2. \A f \in Optional : \A x, y \in new[f] : x = y
    BY <1>4, <2>1 DEF IsRule
  <2> QED
    BY <1>2, <1>3, <1>4, <2>2 DEF IsRule
<1>5. \A r : Matches(new, r) <=> Matches(rule, r)
  BY <1>2 DEF Matches, PathMatches, MethodMatches, HeadersMatch
<1>6. Compiles(new) <=> Compiles(rule)
  BY <1>2 DEF Compiles, AddsAllowed
<1> QED
  BY <1>1, <1>2, <1>4, <1>5, <1>6 DEF new

\* What Redirect does to the rule it finds.
Redirected(rule, url) == [[rule EXCEPT !.url = url] EXCEPT !.service = {}]

\* A rule that was redirected before is redirected like one that was not.
LEMMA RetargetAgain ==
  ASSUME NEW rule, NEW u, NEW s, NEW url,
         NEW t, NEW k, t[k] = Retarget(rule, u, s)
  PROVE  Redirected(t[k], url) = Retarget(rule, url, {})
<1> DEFINE Fields == {"id", "kind", "value", "accepts", "valid", "methods", "headers", "strip",
                      "url", "service", "adds", "priority"}
           one == [t[k] EXCEPT !.url = url]
           both == [one EXCEPT !.service = {}]
           new == Retarget(rule, url, {})
<1>1. /\ t[k] = [f \in Fields |-> t[k][f]] /\ new = [f \in Fields |-> new[f]]
  BY DEF Retarget
<1>2. \A f \in Fields : new[f] = IF f = "url" THEN url ELSE IF f = "service" THEN {} ELSE t[k][f]
  BY DEF Retarget
<1> HIDE DEF new
<1>3. one = [f \in Fields |-> IF f = "url" THEN url ELSE t[k][f]]
  BY <1>1
<1> HIDE DEF one
<1>4. both = [f \in Fields |-> IF f = "service" THEN {} ELSE one[f]]
  BY <1>3
<1>5. \A f \in Fields : both[f] = new[f]
  BY <1>2, <1>3, <1>4
<1> HIDE DEF both, Fields
<1>6. both = [f \in Fields |-> new[f]]
  BY <1>4, <1>5
<1>7. both = new
  BY <1>1, <1>6
<1> QED
  BY <1>7 DEF both, one, new, Redirected

\* One entry of the overrides: it redirects a rule of its id, and the only such rule.
LEMMA RedirectOne ==
  ASSUME NEW routes, IsRoutes(routes), NEW o \in Seq(Entry), NEW x \in 1..Len(o),
         NEW t \in Redirections(routes, o)
  PROVE  /\ Redirect(t, o[x]) \in Redirections(routes, o)
         /\ \A i \in DOMAIN routes :
              \/ Redirect(t, o[x])[i] = t[i] /\ routes[i].id # o[x].id
              \/ Redirect(t, o[x])[i] = Retarget(routes[i], {o[x].url}, {})
                   /\ routes[i].id = o[x].id
              \/ \E h \in DOMAIN routes : h # i /\ routes[h].id = o[x].id
                   /\ routes[i].id = o[x].id /\ Redirect(t, o[x])[i] = t[i]
<1> DEFINE D == DOMAIN routes
           e == o[x]
           named == {k \in DOMAIN t : t[k].id = e.id}
           first == CHOOSE k \in named : \A h \in named : k <= h
           new == Redirect(t, e)
<1>1. D \subseteq Nat /\ DOMAIN t = D /\ x \in DOMAIN o
      /\ \A i \in D : t[i] \in Targets(routes, o, i) /\ t[i].id = routes[i].id
  BY RetargetFacts DEF IsRoutes, Redirections, Targets
<1> HIDE DEF e
<1>2. CASE named = {}
  <2>1. new = t
    BY <1>2 DEF Redirect
  <2>2. \A i \in D : routes[i].id # e.id
    BY <1>1, <1>2
  <2> QED
    BY <2>1, <2>2 DEF e
<1>3. CASE named # {}
  <2>1. first \in named
    <3>1. PICK nr \in Nat : nr \in named
      BY <1>1, <1>3
    <3>2. \E k \in Nat : k \in named /\ \A j \in Nat : j < k => j \notin named
      <4> HIDE DEF named
      <4> QED
        BY <3>1, LeastNatural
    <3>3. \E k \in named : \A h \in named : k <= h
      <4>1. named \subseteq Nat
        BY <1>1
      <4> HIDE DEF named
      <4> QED
        BY <3>2, <4>1
    <3> QED
      BY <3>3
  <2>2. new = [t EXCEPT ![first].url = {e.url}, ![first].service = {}]
    BY <1>3 DEF Redirect
  <2> HIDE DEF first
  <2>3. first \in D /\ routes[first].id = e.id
    BY <1>1, <2>1
  <2> HIDE DEF named
  <2>4. PICK u \in Urls(routes, o), s \in Services(routes) :
          t[first] = Retarget(routes[first], u, s)
    BY <1>1, <2>3 DEF Targets
  <2>5. new = [t EXCEPT ![first] = Redirected(t[first], {e.url})]
    BY <2>2, <2>3, <1>1 DEF Redirections, Redirected
  <2>6. Redirected(t[first], {e.url}) = Retarget(routes[first], {e.url}, {})
    BY <2>4, RetargetAgain
  <2>7. DOMAIN new = D /\ new[first] = Retarget(routes[first], {e.url}, {})
        /\ \A i \in D \ {first} : new[i] = t[i]
    BY <1>1, <2>3, <2>5, <2>6 DEF Redirections
  <2>8. {e.url} \in Urls(routes, o) /\ {} \in Services(routes)
    BY <1>1 DEF Urls, Services, e
  <2>9. \A i \in D : new[i] \in Targets(routes, o, i)
    BY <1>1, <2>3, <2>7, <2>8 DEF Targets
  <2>10. new \in Redirections(routes, o)
    <3>1. new = [i \in D |-> new[i]]
      BY <1>1, <2>5 DEF Redirections
    <3> HIDE DEF new
    <3> QED
      BY <2>9, <3>1 DEF Redirections
  <2> QED
    BY <2>3, <2>7, <2>10 DEF e
<1> QED
  BY <1>2, <1>3

SameIdSameRule(routes) == \A i, j \in DOMAIN routes : routes[i].id = routes[j].id => i = j

\* What DUPLICATE_ROUTE_ID stands for.
LEMMA IdsTellRules ==
  ASSUME NEW routes
  PROVE  UniqueIds(routes) => SameIdSameRule(routes)
<1> SUFFICES ASSUME UniqueIds(routes), NEW i \in DOMAIN routes, NEW j \in DOMAIN routes,
                    routes[i].id = routes[j].id, i # j
             PROVE  FALSE
  BY DEF SameIdSameRule
<1>1. i \in {k \in DOMAIN routes : \E h \in DOMAIN routes \ {k} : routes[h].id = routes[k].id}
  OBVIOUS
<1> QED
  BY <1>1 DEF UniqueIds, DuplicateIds

\* What t is after the first k entries of o: a rule no entry names is as it was, and a
\* rule whose id is its own goes where the last entry for it says.
IsRedirected(t, routes, o, k) ==
  /\ t \in Redirections(routes, o)
  /\ \A i \in DOMAIN routes : (\A j \in 1..k : o[j].id # routes[i].id) => t[i] = routes[i]
  /\ SameIdSameRule(routes) => \A i \in DOMAIN routes, j \in 1..k :
       /\ o[j].id = routes[i].id
       /\ \A h \in 1..k : h > j => o[h].id # routes[i].id
       => t[i] = Retarget(routes[i], {o[j].url}, {})

\* One entry more.
LEMMA RedirectNext ==
  ASSUME NEW routes, IsRoutes(routes), NEW o \in Seq(Entry), NEW k \in Nat,
         k + 1 \in 1..Len(o), NEW t, IsRedirected(t, routes, o, k)
  PROVE  IsRedirected(Redirect(t, o[k + 1]), routes, o, k + 1)
<1> DEFINE new == Redirect(t, o[k + 1])
           e == o[k + 1]
<1>1. /\ new \in Redirections(routes, o)
      /\ \A i \in DOMAIN routes :
           \/ new[i] = t[i] /\ routes[i].id # e.id
           \/ new[i] = Retarget(routes[i], {e.url}, {}) /\ routes[i].id = e.id
           \/ \E h \in DOMAIN routes : h # i /\ routes[h].id = e.id
                /\ routes[i].id = e.id /\ new[i] = t[i]
  BY RedirectOne DEF IsRedirected
<1> HIDE DEF new
<1>2. ASSUME NEW i \in DOMAIN routes, \A j \in 1..(k + 1) : o[j].id # routes[i].id
      PROVE  new[i] = routes[i]
  <2>1. e.id # routes[i].id /\ \A j \in 1..k : o[j].id # routes[i].id
    BY <1>2
  <2> QED
    BY <1>1, <2>1 DEF IsRedirected
<1>3. ASSUME SameIdSameRule(routes), NEW i \in DOMAIN routes, NEW j \in 1..(k + 1),
             o[j].id = routes[i].id,
             \A h \in 1..(k + 1) : h > j => o[h].id # routes[i].id
      PROVE  new[i] = Retarget(routes[i], {o[j].url}, {})
  <2>1. CASE j = k + 1
    <3>1. routes[i].id = e.id
      BY <1>3, <2>1
    <3>2. ~(\E h \in DOMAIN routes : h # i /\ routes[h].id = e.id)
      BY <1>3, <3>1 DEF SameIdSameRule
    <3>3. new[i] = Retarget(routes[i], {e.url}, {})
      BY <1>1, <3>1, <3>2
    <3> QED
      BY <2>1, <3>3
  <2>2. CASE j # k + 1
    <3>1. j \in 1..k /\ k + 1 > j /\ k + 1 \in 1..(k + 1)
      BY <2>2
    <3>2. e.id # routes[i].id
      BY <1>3, <3>1
    <3>3. \A h \in 1..k : h > j => o[h].id # routes[i].id
      BY <1>3
    <3>4. t[i] = Retarget(routes[i], {o[j].url}, {})
      BY <1>3, <3>1, <3>3 DEF IsRedirected
    <3> QED
      BY <1>1, <3>2, <3>4
  <2> QED
    BY <2>1, <2>2
<1> QED
  BY <1>1, <1>2, <1>3 DEF IsRedirected, new

\* All entries, one after the other.
LEMMA OverridesFold ==
  ASSUME NEW routes, IsRoutes(routes), NEW o \in Seq(Entry)
  PROVE  IsRedirected(ApplyLocalOverrides(routes, o), routes, o, Len(o))
<1> DEFINE n == Len(o)
           Lists == Redirections(routes, o)
           Eq(g) == g = [s \in SUBSET (DOMAIN o) |->
                           IF s = {} THEN routes ELSE Redirect(g[s \ {Max(s)}], o[Max(s)])]
           iter == CHOOSE g : Eq(g)
           step == [p \in (1..n) \X Lists |-> Redirect(p[2], o[p[1]])]
<1>1. n \in Nat /\ DOMAIN o = 1..n
  BY LenProperties
<1>2. ApplyLocalOverrides(routes, o) = iter[DOMAIN o]
  BY DEF ApplyLocalOverrides, FoldLeft, MapThenFoldSet
<1>3. \A x \in 1..n, t \in Lists :
        step[<<x, t>>] = Redirect(t, o[x]) /\ step[<<x, t>>] \in Lists
  <2>1. \A x \in 1..n, t \in Lists : Redirect(t, o[x]) \in Lists
    BY RedirectOne
  <2> QED
    BY <2>1
<1>4. routes \in Lists
  <2>1. \A i \in DOMAIN routes : routes[i] \in Targets(routes, o, i)
    <3> SUFFICES ASSUME NEW i \in DOMAIN routes
                 PROVE  routes[i] \in Targets(routes, o, i)
      OBVIOUS
    <3>1. routes[i] = Retarget(routes[i], routes[i].url, routes[i].service)
      BY RetargetFacts DEF IsRoutes
    <3>2. routes[i].url \in Urls(routes, o) /\ routes[i].service \in Services(routes)
      BY DEF Urls, Services
    <3> QED
      BY <3>1, <3>2 DEF Targets
  <2>2. routes = [i \in DOMAIN routes |-> routes[i]]
    BY DEF IsRoutes
  <2> QED
    BY <2>1, <2>2 DEF Redirections
<1> HIDE DEF step, Lists, iter
<1>5. HasLeftFold(Lists, n, routes, step)
  BY <1>1, <1>3, <1>4, LeftRecursion DEF LeftFoldable
<1>6. PICK f \in [0..n -> Lists], h \in [SUBSET (1..n) -> Lists] :
        /\ FoldsLeft(f, n, routes, step)
        /\ SolvesLeft(h, n, routes, step)
        /\ \A g : SolvesLeftIn(g, Lists, n, routes, step) => g[1..n] = f[n]
  BY <1>5 DEF HasLeftFold
<1>7. \A s \in SUBSET (1..n) : s # {} => Max(s) \in 1..n
  BY <1>1, GreatestOfInterval
<1>8. Eq(h)
  <2>1. ASSUME NEW s \in SUBSET (1..n)
        PROVE  h[s] = IF s = {} THEN routes ELSE Redirect(h[s \ {Max(s)}], o[Max(s)])
    <3>1. h[s \ {Max(s)}] \in Lists
      OBVIOUS
    <3> QED
      BY <1>3, <1>6, <1>7, <3>1 DEF SolvesLeft
  <2> QED
    BY <1>1, <2>1
<1>9. Eq(iter)
  <2> HIDE DEF Eq
  <2> QED
    BY <1>8 DEF iter
<1>10. SolvesLeftIn(iter, Lists, n, routes, step)
  <2>1. \A s \in SUBSET (1..n) :
          iter[s] = IF s = {} THEN routes ELSE Redirect(iter[s \ {Max(s)}], o[Max(s)])
    BY <1>1, <1>9
  <2> QED
    BY <1>3, <1>7, <2>1 DEF SolvesLeftIn
<1>11. iter[1..n] = f[n]
  BY <1>6, <1>10
<1> DEFINE Good == {k \in Nat : k \in 0..n => IsRedirected(f[k], routes, o, k)}
<1>12. 0 \in Good
  <2>1. f[0] = routes /\ 1..0 = {}
    BY <1>6 DEF FoldsLeft
  <2>2. IsRedirected(routes, routes, o, 0)
    BY <1>4, <2>1 DEF IsRedirected, Lists
  <2> QED
    BY <2>1, <2>2
<1>13. ASSUME NEW k \in Nat, k \in Good
       PROVE  k + 1 \in Good
  <2> SUFFICES ASSUME k + 1 \in 0..n
               PROVE  IsRedirected(f[k + 1], routes, o, k + 1)
    OBVIOUS
  <2>1. k \in 0..n /\ k + 1 \in 1..n /\ (k + 1) - 1 = k
    BY <1>1
  <2>2. IsRedirected(f[k], routes, o, k) /\ f[k] \in Lists
    BY <1>13, <2>1
  <2>3. f[k + 1] = step[<<k + 1, f[k]>>]
    BY <1>6, <2>1 DEF FoldsLeft
  <2>4. f[k + 1] = Redirect(f[k], o[k + 1])
    BY <1>3, <2>1, <2>2, <2>3
  <2> QED
    BY <2>1, <2>2, <2>4, RedirectNext
<1>14. Nat \subseteq Good
  <2> HIDE DEF Good
  <2> QED
    BY <1>12, <1>13, SetInduction
<1>15. IsRedirected(f[n], routes, o, n)
  BY <1>1, <1>14
<1> QED
  BY <1>1, <1>2, <1>11, <1>15

\* The overrides keep all of a rule but its target.
LEMMA OverriddenRules ==
  ASSUME NEW routes, IsRoutes(routes), NEW o \in Seq(Entry), NEW t \in Redirections(routes, o)
  PROVE  /\ IsRoutes(t) /\ DOMAIN t = DOMAIN routes
         /\ \A i \in DOMAIN routes :
              /\ t[i].id = routes[i].id /\ t[i].priority = routes[i].priority
              /\ \A r : Matches(t[i], r) <=> Matches(routes[i], r)
              /\ Compiles(t[i]) <=> Compiles(routes[i])
<1>1. Len(routes) \in Nat /\ DOMAIN routes = 1..Len(routes)
      /\ \A i \in DOMAIN routes : IsRule(routes[i])
  BY DEF IsRoutes
<1>2. /\ DOMAIN t = DOMAIN routes /\ t = [i \in DOMAIN t |-> t[i]]
      /\ \A i \in DOMAIN routes : t[i] \in Targets(routes, o, i)
  BY DEF Redirections
<1>3. Len(t) = Len(routes)
  <2>1. t \in [1..Len(routes) -> {t[i] : i \in 1..Len(routes)}]
    BY <1>1 DEF Redirections
  <2>2. t \in Seq({t[i] : i \in 1..Len(routes)})
    BY <1>1, <2>1
  <2> QED
    BY <1>1, <1>2, <2>2, LenProperties
<1>4. ASSUME NEW i \in DOMAIN routes
      PROVE  /\ IsRule(t[i])
             /\ t[i].id = routes[i].id /\ t[i].priority = routes[i].priority
             /\ \A r : Matches(t[i], r) <=> Matches(routes[i], r)
             /\ Compiles(t[i]) <=> Compiles(routes[i])
  <2>1. PICK u \in Urls(routes, o), s \in Services(routes) : t[i] = Retarget(routes[i], u, s)
    BY <1>2 DEF Targets
  <2>2. (\A x, y \in u : x = y) /\ (\A x, y \in s : x = y)
    <3>1. \A h \in DOMAIN routes : /\ \A x, y \in routes[h].url : x = y
                                   /\ \A x, y \in routes[h].service : x = y
      BY <1>1 DEF IsRule, Optional
    <3> QED
      BY <3>1 DEF Urls, Services
  <2>3. IsRule(routes[i])
    BY <1>1
  <2> QED
    BY <2>1, <2>2, <2>3, RetargetFacts
<1> QED
  BY <1>1, <1>2, <1>3, <1>4 DEF IsRoutes

\* Two lists whose rules have the same order and match alike meet the same rule.
LEMMA SamePlaceMet ==
  ASSUME NEW a, IsRoutes(a), NEW b, IsRoutes(b), DOMAIN b = DOMAIN a, NEW r,
         \A i \in DOMAIN a : b[i].priority = a[i].priority /\ (Matches(b[i], r) <=> Matches(a[i], r))
  PROVE  \/ Resolve(Snapshot(a), r) = {} /\ Resolve(Snapshot(b), r) = {}
         \/ \E i \in DOMAIN a : Resolve(Snapshot(a), r) = {a[i]} /\ Resolve(Snapshot(b), r) = {b[i]}
<1>1. ResolvesFirst(a, r) /\ ResolvesFirst(b, r)
  BY ResolveFirst
<1>2. NoneMatches(a, r) <=> NoneMatches(b, r)
  BY DEF NoneMatches
<1>3. \A i : MetFirst(a, r, i) => ~NoneMatches(a, r)
  BY DEF MetFirst, NoneMatches
<1>4. \A i : MetFirst(b, r, i) => MetFirst(a, r, i)
  BY DEF MetFirst, Precedes
<1>5. ASSUME NEW i, NEW j, MetFirst(a, r, i), MetFirst(a, r, j)
      PROVE  i = j
  <2>1. i \in Nat /\ j \in Nat /\ a[i].priority \in Nat /\ a[j].priority \in Nat
    BY <1>5 DEF MetFirst, IsRoutes, IsRule
  <2> QED
    BY <1>5, <2>1 DEF MetFirst, Precedes
<1>6. \A i : MetFirst(a, r, i) => i \in DOMAIN a
  BY DEF MetFirst
<1>7. CASE NoneMatches(a, r)
  BY <1>1, <1>2, <1>3, <1>4, <1>7 DEF ResolvesFirst
<1>8. CASE ~NoneMatches(a, r)
  <2>1. PICK i : MetFirst(a, r, i) /\ Resolve(Snapshot(a), r) = {a[i]}
    BY <1>1, <1>8 DEF ResolvesFirst
  <2>2. PICK j : MetFirst(b, r, j) /\ Resolve(Snapshot(b), r) = {b[j]}
    BY <1>1, <1>2, <1>8 DEF ResolvesFirst
  <2>3. i = j
    BY <1>4, <1>5, <2>1, <2>2
  <2> QED
    BY <1>6, <2>1, <2>2, <2>3
<1> QED
  BY <1>7, <1>8

LEMMA OverridesSuffice == FilesKept => RedirectedGoLocal
<1> SUFFICES ASSUME FilesKept, NEW o \in Overrides, NEW r \in Requests
             PROVE  LET before == Resolve(Snapshot(file.routes), r)
                        after == Resolve(Snapshot(ApplyLocalOverrides(file.routes, o)), r)
                        for == {k \in DOMAIN o : before # {} /\ o[k].id = SomeOf(before).id}
                    IN /\ {rule.id : rule \in before} = {rule.id : rule \in after}
                       /\ UniqueIds(file.routes) /\ before # {} =>
                            Target(SomeOf(after)) =
                              IF for = {} THEN Target(SomeOf(before))
                              ELSE {o[CHOOSE k \in for : \A h \in for : h <= k].url}
  BY DEF RedirectedGoLocal
<1> DEFINE routes == file.routes
           t == ApplyLocalOverrides(routes, o)
           before == Resolve(Snapshot(routes), r)
           after == Resolve(Snapshot(t), r)
           for == {k \in DOMAIN o : before # {} /\ o[k].id = SomeOf(before).id}
           last == CHOOSE k \in for : \A h \in for : h <= k
<1> HIDE DEF t, routes
<1>1. IsRoutes(routes) /\ o \in Seq(Entry)
  BY FileRoutes, ToolsAssumption DEF FilesKept, Entry, routes
<1>2. Len(o) \in Nat /\ DOMAIN o = 1..Len(o)
  BY <1>1, LenProperties
<1>3. IsRedirected(t, routes, o, Len(o))
  BY <1>1, OverridesFold DEF t
<1>4. /\ IsRoutes(t) /\ DOMAIN t = DOMAIN routes
      /\ \A i \in DOMAIN routes :
           /\ t[i].id = routes[i].id /\ t[i].priority = routes[i].priority
           /\ Matches(t[i], r) <=> Matches(routes[i], r)
  BY <1>1, <1>3, OverriddenRules DEF IsRedirected
<1>5. \/ before = {} /\ after = {}
      \/ \E i \in DOMAIN routes : before = {routes[i]} /\ after = {t[i]}
  BY <1>1, <1>4, SamePlaceMet
<1> HIDE DEF before, after
<1>6. {rule.id : rule \in before} = {rule.id : rule \in after}
  BY <1>4, <1>5
<1>7. ASSUME UniqueIds(routes), before # {}
      PROVE  Target(SomeOf(after)) = IF for = {} THEN Target(SomeOf(before)) ELSE {o[last].url}
  <2>1. PICK i \in DOMAIN routes : before = {routes[i]} /\ after = {t[i]}
    BY <1>5, <1>7
  <2>2. SomeOf(before) = routes[i] /\ SomeOf(after) = t[i]
    BY <2>1 DEF SomeOf
  <2>3. for = {k \in 1..Len(o) : o[k].id = routes[i].id}
    BY <1>2, <1>7, <2>2
  <2>4. CASE for = {}
    <3>1. \A j \in 1..Len(o) : o[j].id # routes[i].id
      BY <2>3, <2>4
    <3>2. t[i] = routes[i]
      BY <1>3, <3>1 DEF IsRedirected
    <3> QED
      BY <2>2, <2>4, <3>2
  <2>5. CASE for # {}
    <3>1. for \in SUBSET (1..Len(o))
      BY <2>3
    <3> HIDE DEF for
    <3>2. Max(for) \in for /\ \A h \in for : h <= Max(for)
      BY <1>2, <2>5, <3>1, GreatestOfInterval
    <3>3. last \in for /\ \A h \in for : h <= last
      BY <3>2
    <3> HIDE DEF last
    <3>4. last \in 1..Len(o) /\ o[last].id = routes[i].id
      BY <2>3, <3>3
    <3>5. \A h \in 1..Len(o) : h > last => o[h].id # routes[i].id
      BY <1>2, <2>3, <3>3, <3>4
    <3>6. SameIdSameRule(routes)
      BY <1>7, IdsTellRules
    <3>7. t[i] = Retarget(routes[i], {o[last].url}, {})
      BY <1>3, <3>4, <3>5, <3>6 DEF IsRedirected
    <3>8. Target(t[i]) = {o[last].url}
      BY <3>7, RetargetFacts DEF Target
    <3> QED
      BY <2>2, <2>5, <3>8
  <2> QED
    BY <2>4, <2>5
<1> QED
  BY <1>6, <1>7 DEF before, after, t, routes

\* The overrides move targets and nothing else, and the last entry for an id is the one
\* that counts (RedirectedGoLocal), for lists of entries of any length.
THEOREM OverridesGoLocal == ToolsSpec => []RedirectedGoLocal
BY FilesStay, OverridesSuffice, PTL

-----------------------------------------------------------------------------
(* doctor *)

\* Overrides leave the rules of a file that compiles compiling.
LEMMA OverriddenCompile ==
  ASSUME NEW routes, IsRoutes(routes), NEW o \in Seq(Entry)
  PROVE  Builds(ApplyLocalOverrides(routes, o)) <=> Builds(routes)
<1>1. ApplyLocalOverrides(routes, o) \in Redirections(routes, o)
  BY OverridesFold DEF IsRedirected
<1> QED
  BY <1>1, OverriddenRules DEF Builds

\* A route that doctor finds reachable has a target that answers.
LEMMA ReachedAnswers ==
  ASSUME NEW config, NEW rule, NEW w, RouteReached(config, rule, w)
  PROVE  LET targets == IF rule.url # {} THEN rule.url
                        ELSE UNION {Range(l) : l \in Found(config, SomeOf(rule.service), w)}
         IN targets \cap w.reach # {}
<1>1. CASE rule.url # {}
  <2>1. SomeOf(rule.url) \in rule.url
    BY <1>1 DEF SomeOf
  <2> QED
    BY <1>1, <2>1 DEF RouteReached
<1>2. CASE rule.url = {}
  <2> DEFINE found == Found(config, SomeOf(rule.service), w)
  <2>1. \E insts \in found : \E k \in DOMAIN insts : insts[k] \in w.reach
    BY <1>2 DEF RouteReached
  <2> HIDE DEF found
  <2>2. PICK insts \in found : \E k \in DOMAIN insts : insts[k] \in w.reach
    BY <2>1
  <2>3. PICK k \in DOMAIN insts : insts[k] \in w.reach
    BY <2>2
  <2>4. insts[k] \in UNION {Range(l) : l \in found}
    BY DEF Range
  <2> QED
    BY <1>2, <2>3, <2>4 DEF found
<1> QED
  BY <1>1, <1>2

LEMMA DoctorSuffices == FilesKept => DoctorSpeaks
<1> SUFFICES ASSUME FilesKept, NEW w \in Worlds, Doctor(file, TRUE, w), Builds(file.routes),
                    file.server.plugins # "bad", w.watchable
             PROVE  /\ RunServer(file, <<>>, w) = "listening"
                    /\ Ready(file, w)
                    /\ \A r \in Requests : \A rule \in Resolve(Snapshot(file.routes), r) :
                         LET targets == IF rule.url # {} THEN rule.url
                                        ELSE UNION {Range(l) : l \in Found(file, SomeOf(rule.service), w)}
                         IN targets \cap w.reach # {}
  BY DEF DoctorSpeaks
<1>1. /\ Loads(file) /\ w.portFree /\ ResolverBuilds(file, w) /\ Unhealthy(file, w) = {}
      /\ \A k \in DOMAIN file.routes : RouteReached(file, file.routes[k], w)
  BY DEF Doctor
<1>2. IsRoutes(file.routes)
  BY FileRoutes DEF FilesKept
<1>3. RunServer(file, <<>>, w) = "listening"
  <2>1. <<>> \in Seq(Entry)
    OBVIOUS
  <2>2. Builds(ApplyLocalOverrides(file.routes, <<>>))
    BY <1>2, <2>1, OverriddenCompile
  <2> QED
    BY <1>1, <2>2 DEF RunServer
<1>4. Ready(file, w)
  <2>1. file.registries \in Seq([kind : STRING, addr : STRING])
    BY ToolsAssumption DEF FilesKept, IsFile
  <2>2. file.registries = <<>> \/ DOMAIN file.registries # {}
    <3>1. CASE Len(file.registries) = 0
      BY <2>1, <3>1, EmptySeq
    <3>2. CASE Len(file.registries) # 0
      <4>1. 1 \in DOMAIN file.registries
        BY <2>1, <3>2, LenProperties
      <4> QED
        BY <4>1
    <3> QED
      BY <3>1, <3>2
  <2> QED
    BY <1>1, <2>2 DEF Ready
<1>5. ASSUME NEW r \in Requests, NEW rule \in Resolve(Snapshot(file.routes), r)
      PROVE  LET targets == IF rule.url # {} THEN rule.url
                            ELSE UNION {Range(l) : l \in Found(file, SomeOf(rule.service), w)}
             IN targets \cap w.reach # {}
  <2>1. ResolvesFirst(file.routes, r)
    BY <1>2, ResolveFirst
  <2>2. PICK i \in DOMAIN file.routes : rule = file.routes[i]
    BY <1>5, <2>1 DEF ResolvesFirst, MetFirst
  <2>3. RouteReached(file, rule, w)
    BY <1>1, <2>2
  <2> QED
    BY <2>3, ReachedAnswers
<1> QED
  BY <1>3, <1>4, <1>5

\* A doctor that passes speaks for the server that is then started (DoctorSpeaks), for
\* any file and any surroundings.
THEOREM DoctorTellsTrue == ToolsSpec => []DoctorSpeaks
BY FilesStay, DoctorSuffices, PTL

-----------------------------------------------------------------------------
(* config-diff and config-drift *)

\* Every rule of a is in b.
RulesIn(a, b) == \A i \in DOMAIN a : \E j \in DOMAIN b : b[j] = a[i]

\* A map by id has the value of each rule, when no id is used twice.
LEMMA ByIdFacts ==
  ASSUME NEW routes, IsRoutes(routes), SameIdSameRule(routes)
  PROVE  /\ DOMAIN RoutesById(routes) = {routes[k].id : k \in DOMAIN routes}
         /\ \A k \in DOMAIN routes : RoutesById(routes)[routes[k].id] = RouteValue(routes[k])
<1>1. ASSUME NEW k \in DOMAIN routes
      PROVE  RoutesById(routes)[routes[k].id] = RouteValue(routes[k])
  <2> DEFINE id == routes[k].id
             last == CHOOSE l \in DOMAIN routes :
                       /\ routes[l].id = id
                       /\ \A h \in DOMAIN routes : routes[h].id = id => h <= l
  <2>1. RoutesById(routes)[id] = RouteValue(routes[last])
    BY DEF RoutesById
  <2>2. k \in Nat /\ \A h \in DOMAIN routes : routes[h].id = id => h = k
    BY DEF SameIdSameRule, IsRoutes
  <2>3. last = k
    BY <2>2
  <2> HIDE DEF last
  <2> QED
    BY <2>1, <2>3
<1> QED
  BY <1>1 DEF RoutesById

\* Two rules with one id and one value are one rule: the pattern says the rest.
LEMMA ValueTellsRule ==
  ASSUME NEW a \in Rules, NEW b \in Rules, a.id = b.id, RouteValue(a) = RouteValue(b)
  PROVE  a = b
<1>1. IsRule(a) /\ IsRule(b)
      /\ (a.kind = b.kind /\ a.value = b.value => a.accepts = b.accepts /\ a.valid = b.valid)
  BY ToolsAssumption
<1>2. /\ a.kind = b.kind /\ a.value = b.value /\ a.methods = b.methods
      /\ a.headers = b.headers /\ a.service = b.service /\ a.url = b.url
      /\ a.strip = b.strip /\ a.adds = b.adds /\ a.priority = b.priority
  BY DEF RouteValue
<1>3. a = [id |-> a.id, kind |-> a.kind, value |-> a.value,
           accepts |-> a.accepts, valid |-> a.valid, methods |-> a.methods,
           headers |-> a.headers, strip |-> a.strip, url |-> a.url,
           service |-> a.service, adds |-> a.adds, priority |-> a.priority]
  BY <1>1 DEF IsRule
<1>4. b = [id |-> b.id, kind |-> b.kind, value |-> b.value,
           accepts |-> b.accepts, valid |-> b.valid, methods |-> b.methods,
           headers |-> b.headers, strip |-> b.strip, url |-> b.url,
           service |-> b.service, adds |-> b.adds, priority |-> b.priority]
  BY <1>1 DEF IsRule
<1> QED
  BY <1>1, <1>2, <1>3, <1>4

\* No leaf differs: the two maps are the same.
LEMMA NoLeavesSame ==
  ASSUME NEW section, NEW a, NEW b, DiffLeaves(section, a, b) = {}
  PROVE  DOMAIN a = DOMAIN b /\ \A x \in DOMAIN a : a[x] = b[x]
BY DEF DiffLeaves

\* Files that config-diff calls identical have the same rules.
LEMMA IdenticalRules ==
  ASSUME NEW a, IsFile(a), NEW b, IsFile(b), DiffAppConfigs(a, b) = {},
         SameIdSameRule(a.routes), SameIdSameRule(b.routes)
  PROVE  RulesIn(a.routes, b.routes) /\ RulesIn(b.routes, a.routes)
<1> DEFINE x == RoutesById(a.routes)
           y == RoutesById(b.routes)
<1>1. DOMAIN x = DOMAIN y /\ \A id \in DOMAIN x : x[id] = y[id]
  <2>1. DiffLeaves("routes", x, y) = {}
    BY DEF DiffAppConfigs
  <2> HIDE DEF x, y
  <2> QED
    BY <2>1, NoLeavesSame
<1>2. /\ DOMAIN x = {a.routes[k].id : k \in DOMAIN a.routes}
      /\ \A k \in DOMAIN a.routes : x[a.routes[k].id] = RouteValue(a.routes[k])
      /\ DOMAIN y = {b.routes[k].id : k \in DOMAIN b.routes}
      /\ \A k \in DOMAIN b.routes : y[b.routes[k].id] = RouteValue(b.routes[k])
  BY FileRoutes, ByIdFacts
<1>3. /\ \A k \in DOMAIN a.routes : a.routes[k] \in Rules
      /\ \A k \in DOMAIN b.routes : b.routes[k] \in Rules
  BY FileRoutes
<1> HIDE DEF x, y
<1>4. ASSUME NEW i \in DOMAIN a.routes
      PROVE  \E j \in DOMAIN b.routes : b.routes[j] = a.routes[i]
  <2>1. PICK j \in DOMAIN b.routes : b.routes[j].id = a.routes[i].id
    <3>1. a.routes[i].id \in DOMAIN x
      BY <1>2
    <3>2. a.routes[i].id \in {b.routes[k].id : k \in DOMAIN b.routes}
      BY <1>1, <1>2, <3>1
    <3> QED
      BY <3>2
  <2>2. RouteValue(b.routes[j]) = RouteValue(a.routes[i])
    BY <1>1, <1>2, <2>1
  <2> QED
    BY <1>3, <2>1, <2>2, ValueTellsRule
<1>5. ASSUME NEW j \in DOMAIN b.routes
      PROVE  \E i \in DOMAIN a.routes : a.routes[i] = b.routes[j]
  <2>1. PICK i \in DOMAIN a.routes : a.routes[i].id = b.routes[j].id
    <3>1. b.routes[j].id \in DOMAIN y
      BY <1>2
    <3>2. b.routes[j].id \in {a.routes[k].id : k \in DOMAIN a.routes}
      BY <1>1, <1>2, <3>1
    <3> QED
      BY <3>2
  <2>2. RouteValue(a.routes[i]) = RouteValue(b.routes[j])
    BY <1>1, <1>2, <2>1
  <2> QED
    BY <1>3, <2>1, <2>2, ValueTellsRule
<1> QED
  BY <1>4, <1>5 DEF RulesIn

\* Of the same rules the router meets the same, when no two have one priority.
LEMMA SameRulesMet ==
  ASSUME NEW a, IsRoutes(a), NEW b, IsRoutes(b), RulesIn(a, b), RulesIn(b, a), NEW r,
         \A i, j \in DOMAIN b : i # j => b[i].priority # b[j].priority
  PROVE  Resolve(Snapshot(a), r) = Resolve(Snapshot(b), r)
<1>1. ResolvesFirst(a, r) /\ ResolvesFirst(b, r)
  BY ResolveFirst
<1>2. NoneMatches(a, r) <=> NoneMatches(b, r)
  BY DEF NoneMatches, RulesIn
<1>3. \A i : MetFirst(a, r, i) => ~NoneMatches(a, r)
  BY DEF MetFirst, NoneMatches
<1>4. \A i : MetFirst(b, r, i) => ~NoneMatches(b, r)
  BY DEF MetFirst, NoneMatches
<1>5. ASSUME NEW i, MetFirst(a, r, i), NEW j, MetFirst(b, r, j)
      PROVE  a[i] = b[j]
  <2>1. i \in DOMAIN a /\ j \in DOMAIN b /\ Matches(a[i], r) /\ Matches(b[j], r)
    BY <1>5 DEF MetFirst
  <2>2. PICK k \in DOMAIN b : b[k] = a[i]
    BY <2>1 DEF RulesIn
  <2>3. PICK l \in DOMAIN a : a[l] = b[j]
    BY <2>1 DEF RulesIn
  <2>4. \A h \in DOMAIN b : b[h].priority \in Nat
    BY DEF IsRoutes, IsRule
  <2>5. CASE k = j
    BY <2>2, <2>5
  <2>6. CASE k # j
    <3>1. Precedes(b, j, k)
      BY <1>5, <2>1, <2>2, <2>6 DEF MetFirst
    <3>2. b[j].priority < b[k].priority
      BY <2>1, <2>4, <2>6, <3>1 DEF Precedes
    <3>3. l # i
      BY <2>2, <2>3, <3>2, <2>1, <2>4
    <3>4. Precedes(a, i, l)
      BY <1>5, <2>1, <2>3, <3>3 DEF MetFirst
    <3>5. a[i].priority <= a[l].priority
      BY <2>1, <2>2, <2>3, <2>4, <3>4 DEF Precedes
    <3> QED
      BY <2>1, <2>2, <2>3, <2>4, <3>2, <3>5
  <2> QED
    BY <2>5, <2>6
<1> QED
  BY <1>1, <1>2, <1>3, <1>4, <1>5 DEF ResolvesFirst

LEMMA DiffSuffices == FilesKept => DiffSeesRouting
<1> SUFFICES ASSUME FilesKept, NoDrift(copy, {file}),
                    UniqueIds(copy.routes), UniqueIds(file.routes),
                    \A i, j \in DOMAIN file.routes :
                      i # j => file.routes[i].priority # file.routes[j].priority,
                    NEW r \in Requests
             PROVE  Resolve(Snapshot(copy.routes), r) = Resolve(Snapshot(file.routes), r)
  BY DEF DiffSeesRouting
<1>1. DiffAppConfigs(copy, file) = {}
  BY DEF NoDrift
<1>2. IsFile(copy) /\ IsFile(file) /\ IsRoutes(copy.routes) /\ IsRoutes(file.routes)
  BY FileRoutes DEF FilesKept
<1>3. SameIdSameRule(copy.routes) /\ SameIdSameRule(file.routes)
  BY IdsTellRules
<1>4. RulesIn(copy.routes, file.routes) /\ RulesIn(file.routes, copy.routes)
  BY <1>1, <1>2, <1>3, IdenticalRules
<1> QED
  BY <1>2, <1>3, <1>4, SameRulesMet

\* Files without a difference route every request alike (DiffSeesRouting), whatever the
\* order of their rules, if a rule's pattern determines what compiling it tells.
THEOREM DiffTellsRouting == ToolsSpec => []DiffSeesRouting
BY FilesStay, DiffSuffices, PTL

-----------------------------------------------------------------------------
(* check-config --strict *)

Literal(rule) == rule.kind \in {"exact", "prefix"}

Asked(rule) == {r \in Requests : Matches(rule, r)}

\* What the strict check asks of two rules, the order apart.
Covers(a, b) ==
  /\ MethodConstraintsCover(a.methods, b.methods)
  /\ HeaderConstraintsCover(a.headers, b.headers)
  /\ PathMatcherCovers(a, b)

\* A rule that is found to cover another takes each of its requests.
LEMMA CoversTakes ==
  ASSUME NEW a, IsRule(a), NEW b, IsRule(b), Literal(a), Literal(b), Covers(a, b),
         a.headers = {} \/ b.headers = {}, NEW r, r.path \in Seq(STRING), Matches(b, r)
  PROVE  Matches(a, r)
<1>1. a.value \in Seq(STRING) /\ b.value \in Seq(STRING)
  BY DEF IsRule
<1>2. PathMatches(a, r.path)
  <2>1. CASE a.kind = "prefix"
    <3>1. IsPrefix(a.value, b.value) /\ PathMatches(b, r.path)
      BY <2>1 DEF Covers, PathMatcherCovers, Matches
    <3>2. IsPrefix(a.value, r.path)
      <4>1. CASE b.kind = "exact"
        BY <3>1, <4>1 DEF PathMatches
      <4>2. CASE b.kind = "prefix"
        <5>1. IsPrefix(b.value, r.path)
          BY <3>1, <4>2 DEF PathMatches
        <5> QED
          BY <1>1, <3>1, <5>1, PrefixTransitive
      <4> QED
        BY <4>1, <4>2 DEF Literal
    <3> QED
      BY <2>1, <3>2 DEF PathMatches
  <2>2. CASE a.kind = "exact"
    BY <2>2 DEF Covers, PathMatcherCovers, Matches, PathMatches
  <2> QED
    BY <2>1, <2>2 DEF Literal
<1>3. MethodMatches(a, r.method)
  <2> SUFFICES ASSUME a.methods # {}
               PROVE  \E k \in DOMAIN SomeOf(a.methods) :
                        Upper(SomeOf(a.methods)[k]) = Upper(r.method)
    BY DEF MethodMatches
  <2>1. /\ b.methods # {}
        /\ \A k \in DOMAIN SomeOf(b.methods) : \E l \in DOMAIN SomeOf(a.methods) :
             Upper(SomeOf(a.methods)[l]) = Upper(SomeOf(b.methods)[k])
    BY DEF Covers, MethodConstraintsCover
  <2>2. PICK k \in DOMAIN SomeOf(b.methods) : Upper(SomeOf(b.methods)[k]) = Upper(r.method)
    BY <2>1 DEF Matches, MethodMatches
  <2> QED
    BY <2>1, <2>2
<1>4. HeadersMatch(a, r.headers)
  BY DEF Covers, HeaderConstraintsCover, HeadersMatch
<1> QED
  BY <1>2, <1>3, <1>4 DEF Matches

\* A rule that takes each request of another is found to cover it.
LEMMA TakesCovers ==
  ASSUME NEW a \in Rules, NEW b \in Rules, Literal(a), Literal(b),
         a.headers = {} \/ b.headers = {}, Asked(b) # {},
         \A r \in Requests : Matches(b, r) => Matches(a, r)
  PROVE  Covers(a, b)
<1>1. /\ \E r \in Asked(b) : r.path = b.value
      /\ b.kind = "prefix" => \E r \in Asked(b) : r.path # b.value
      /\ \A l \in b.methods : \A k \in DOMAIN l : \E r \in Asked(b) : Upper(r.method) = Upper(l[k])
      /\ b.methods = {} => \E r \in Asked(b) :
           \A other \in Rules : \A l \in other.methods : \A k \in DOMAIN l :
             Upper(l[k]) # Upper(r.method)
      /\ b.headers = {} => \E r \in Asked(b) : DOMAIN r.headers = {}
  BY RequestsAssumption DEF AskedEnough, Asked, Literal
<1>2. \A r \in Asked(b) : Matches(a, r)
  BY DEF Asked
<1>3. PathMatcherCovers(a, b)
  <2>1. PICK r \in Asked(b) : r.path = b.value
    BY <1>1
  <2>2. PathMatches(a, b.value)
    BY <1>2, <2>1 DEF Matches
  <2>3. CASE a.kind = "prefix"
    BY <2>2, <2>3 DEF PathMatches, PathMatcherCovers, Literal
  <2>4. CASE a.kind = "exact"
    <3>1. a.value = b.value
      BY <2>2, <2>4 DEF PathMatches
    <3>2. b.kind # "prefix"
      BY <1>1, <1>2, <2>4, <3>1 DEF Matches, PathMatches
    <3> QED
      BY <2>4, <3>1, <3>2 DEF PathMatcherCovers, Literal
  <2> QED
    BY <2>3, <2>4 DEF Literal
<1>4. MethodConstraintsCover(a.methods, b.methods)
  <2> SUFFICES ASSUME a.methods # {}
               PROVE  /\ b.methods # {}
                      /\ \A k \in DOMAIN SomeOf(b.methods) : \E l \in DOMAIN SomeOf(a.methods) :
                           Upper(SomeOf(a.methods)[l]) = Upper(SomeOf(b.methods)[k])
    BY DEF MethodConstraintsCover
  <2>1. \A r \in Asked(b) : \E l \in DOMAIN SomeOf(a.methods) :
          Upper(SomeOf(a.methods)[l]) = Upper(r.method)
    BY <1>2 DEF Matches, MethodMatches
  <2>2. SomeOf(a.methods) \in a.methods
    BY DEF SomeOf
  <2>3. b.methods # {}
    BY <1>1, <2>1, <2>2
  <2>4. SomeOf(b.methods) \in b.methods
    BY <2>3 DEF SomeOf
  <2>5. ASSUME NEW k \in DOMAIN SomeOf(b.methods)
        PROVE  \E l \in DOMAIN SomeOf(a.methods) :
                 Upper(SomeOf(a.methods)[l]) = Upper(SomeOf(b.methods)[k])
    <3>1. PICK r \in Asked(b) : Upper(r.method) = Upper(SomeOf(b.methods)[k])
      BY <1>1, <2>4
    <3> QED
      BY <2>1, <3>1
  <2> QED
    BY <2>3, <2>5
<1>5. HeaderConstraintsCover(a.headers, b.headers)
  <2>1. a.headers = {}
    <3> SUFFICES ASSUME a.headers # {}
                 PROVE  FALSE
      OBVIOUS
    <3>1. PICK r \in Asked(b) : DOMAIN r.headers = {}
      BY <1>1
    <3>2. DOMAIN SomeOf(a.headers) # {}
      BY RequestsAssumption DEF AskedEnough
    <3>3. HeadersMatch(a, r.headers)
      BY <1>2 DEF Matches
    <3> QED
      BY <3>1, <3>2, <3>3 DEF HeadersMatch
  <2> QED
    BY <2>1 DEF HeaderConstraintsCover
<1> QED
  BY <1>3, <1>4, <1>5 DEF Covers

LEMMA ShadowSuffices == FilesKept => ShadowReportsExactly
<1> DEFINE routes == file.routes
           place == EvaluationOrder(routes)
           Earlier(i, j) == \E a, b \in DOMAIN place : a < b /\ place[a] = i /\ place[b] = j
<1> SUFFICES ASSUME FilesKept,
                    NEW i \in DOMAIN routes, NEW j \in DOMAIN routes, i # j,
                    Literal(routes[i]), Literal(routes[j]),
                    \E r \in Requests : Matches(routes[j], r),
                    routes[i].headers = {} \/ routes[j].headers = {}
             PROVE  <<i, j>> \in Shadowed(routes) <=>
                      Earlier(i, j) /\ \A r \in Requests : Matches(routes[j], r) => Matches(routes[i], r)
  BY DEF ShadowReportsExactly, Literal
<1>1. IsRoutes(routes) /\ \A k \in DOMAIN routes : routes[k] \in Rules /\ IsRule(routes[k])
  BY FileRoutes DEF FilesKept, IsRoutes
<1>2. <<i, j>> \in Shadowed(routes) <=> Precedes(routes, i, j) /\ Covers(routes[i], routes[j])
  BY DEF Shadowed, Shadows, Before, Precedes, Covers
<1>3. /\ DOMAIN place = DOMAIN routes
      /\ \A k, l \in DOMAIN routes : k < l <=> Precedes(routes, place[k], place[l])
      /\ \A h \in DOMAIN routes : \E k \in DOMAIN routes : place[k] = h
  BY <1>1, EvaluationPlaces
<1> HIDE DEF routes, place
<1>4. Earlier(i, j) <=> Precedes(routes, i, j)
  BY <1>3
<1>5. ASSUME Covers(routes[i], routes[j]), NEW r \in Requests, Matches(routes[j], r)
      PROVE  Matches(routes[i], r)
  BY <1>1, <1>5, CoversTakes, ToolsAssumption
<1>6. ASSUME \A r \in Requests : Matches(routes[j], r) => Matches(routes[i], r)
      PROVE  Covers(routes[i], routes[j])
  BY <1>1, <1>6, TakesCovers DEF Asked
<1> QED
  BY <1>2, <1>4, <1>5, <1>6

\* RULE_SHADOWED is said of two rules exactly when it is so (ShadowReportsExactly), for
\* rules, files and requests without bound, if the requests tell the rules apart.
THEOREM ShadowedToldExactly == ToolsSpec => []ShadowReportsExactly
BY FilesStay, ShadowSuffices, PTL

\* A strip prefix that begins the prefix of its rule is cut off each path.
LEMMA StripCuts ==
  ASSUME NEW rule, IsRule(rule), rule.kind = "prefix", rule.value # <<"/">>,
         rule.strip # {}, SomeOf(rule.strip) # <<>>, IsPrefix(SomeOf(rule.strip), rule.value),
         NEW path \in Seq(STRING), PathMatches(rule, path)
  PROVE  RewritePath(rule, path) # path
<1> DEFINE strip == SomeOf(rule.strip)
<1>1. strip \in Seq(STRING) /\ rule.value \in Seq(STRING)
  <2>1. strip \in rule.strip
    BY DEF SomeOf
  <2> QED
    BY <2>1 DEF IsRule
<1>2. IsPrefix(rule.value, path)
  BY DEF PathMatches
<1> HIDE DEF strip
<1>3. IsPrefix(strip, path) /\ strip # <<>> /\ IsPrefix(strip, rule.value)
  BY <1>1, <1>2, PrefixTransitive DEF strip
<1>4. Len(strip) \in Nat /\ Len(strip) # 0 /\ Len(path) \in Nat /\ Len(strip) <= Len(path)
      /\ Len(strip) <= Len(rule.value) /\ Len(rule.value) <= Len(path) /\ Len(rule.value) \in Nat
  BY <1>1, <1>2, <1>3, PrefixEntries, LenProperties, EmptySeq
<1>5. CASE strip = path
  <2>1. RewritePath(rule, path) = <<"/">>
    BY <1>3, <1>5 DEF RewritePath, strip
  <2>2. rule.value = path
    <3>1. Len(rule.value) = Len(path) /\ \A k \in 1..Len(rule.value) : rule.value[k] = path[k]
      BY <1>1, <1>2, <1>4, <1>5, PrefixEntries
    <3> QED
      BY <1>1, <3>1, SeqEqual
  <2> QED
    BY <2>1, <2>2
<1>6. CASE strip # path
  <2>1. RewritePath(rule, path) = SubSeq(path, Len(strip) + 1, Len(path))
    BY <1>3, <1>6 DEF RewritePath, strip
  <2>2. Len(SubSeq(path, Len(strip) + 1, Len(path))) = Len(path) - Len(strip)
    BY <1>4
  <2> QED
    BY <1>4, <2>1, <2>2
<1> QED
  BY <1>5, <1>6

LEMMA StripSuffices == FilesKept => StripReportedExactly
<1> SUFFICES ASSUME FilesKept, NEW k \in DOMAIN file.routes, file.routes[k].kind = "prefix",
                    file.routes[k].value # <<"/">>, file.routes[k].strip \notin {{}, {<<>>}}
             PROVE  StripUnreachable(file.routes[k]) <=>
                      {r \in Requests : Matches(file.routes[k], r)
                                          /\ RewritePath(file.routes[k], r.path) = r.path} # {}
  BY DEF StripReportedExactly
<1> DEFINE rule == file.routes[k]
           strip == SomeOf(rule.strip)
<1>1. rule \in Rules /\ IsRule(rule)
  BY FileRoutes DEF FilesKept, IsRoutes
<1>2. rule.kind = "prefix" /\ rule.value # <<"/">> /\ rule.strip # {} /\ strip # <<>>
  <2>1. rule.strip # {} /\ strip \in rule.strip
    BY DEF SomeOf
  <2>2. \A x, y \in rule.strip : x = y
    BY <1>1 DEF IsRule, Optional
  <2>3. strip = <<>> => rule.strip = {<<>>}
    <3> HIDE DEF strip, rule
    <3> QED
      BY <2>1, <2>2
  <2> QED
    BY <2>1, <2>3
<1> HIDE DEF rule
<1>3. StripUnreachable(rule) <=> ~IsPrefix(strip, rule.value)
  BY <1>2 DEF StripUnreachable, StripApplies
<1>4. ASSUME ~IsPrefix(strip, rule.value)
      PROVE  \E r \in Requests : Matches(rule, r) /\ RewritePath(rule, r.path) = r.path
  <2>1. PICK r \in Requests : Matches(rule, r) /\ r.path = rule.value
    BY <1>1, <1>2, RequestsAssumption DEF AskedEnough
  <2>2. RewritePath(rule, r.path) = r.path
    BY <1>4, <2>1 DEF RewritePath
  <2> QED
    BY <2>1, <2>2
<1>5. ASSUME NEW r \in Requests, Matches(rule, r), RewritePath(rule, r.path) = r.path
      PROVE  ~IsPrefix(strip, rule.value)
  BY <1>1, <1>2, <1>5, StripCuts, ToolsAssumption DEF Matches
<1> QED
  BY <1>3, <1>4, <1>5 DEF rule

\* STRIP_PREFIX_UNREACHABLE is said of a rule exactly when some request of it goes on
\* unstripped (StripReportedExactly), for strip prefixes and paths of any length.
THEOREM StripToldExactly == ToolsSpec => []StripReportedExactly
BY FilesStay, StripSuffices, PTL
=============================================================================
