---------------------------- MODULE MCConfigTools ----------------------------
(***************************************************************************)
(* ConfigTools over files of up to two routes, drawn from rules that cover *)
(* each other, clash in id or priority, do not load or do not compile.     *)
(***************************************************************************)
EXTENDS ConfigTools

MCUpper(m) == IF m = "get" THEN "GET" ELSE m
MCHeaderName(n) ==
  CASE n = "bad name" -> {}
    [] n = "X-Env"    -> {"x-env"}
    [] OTHER          -> {n}

A == <<"/", "a">>
AB == <<"/", "a", "/", "b">>
ABC == <<"/", "a", "/", "b", "/", "c">>
Z == <<"/", "z">>

\* A rule with the defaults of the file's format, on which the others are variations.
Plain(id, kind, value, priority) ==
  [id |-> id, kind |-> kind, value |-> value, accepts |-> {}, valid |-> TRUE,
   methods |-> {}, headers |-> {}, strip |-> {}, url |-> {}, service |-> {"orders"},
   adds |-> {}, priority |-> priority]

MCRules ==
  { Plain("a", "prefix", A, 10),
    [Plain("b", "exact", AB, 10) EXCEPT !.url = {"near:80"}, !.service = {}],
    [Plain("b", "prefix", A, 5) EXCEPT !.methods = {<<"GET", "PUT">>}, !.strip = {AB}],
    [Plain("c", "prefix", <<"/">>, 20) EXCEPT !.methods = {<<"get">>}, !.url = {"garbled"}],
    [Plain("a", "prefix", A, 5) EXCEPT !.headers = {"X-Env" :> "1"}, !.strip = {A},
       !.adds = {"x-gate" :> "1"}],
    [Plain("e", "prefix", A, 1) EXCEPT !.headers = {"X-Env" :> "1" @@ "x-b" :> "2"},
       !.adds = {"te" :> "1"}],
    [Plain("f", "glob", <<"/", "*">>, 5) EXCEPT !.accepts = {A, Z}, !.url = {"far:80"}],
    [Plain("g", "exact", AB, 1) EXCEPT !.headers = {"bad name" :> "1"}, !.service = {}] }

MCServers == {[port |-> 8080, plugins |-> p] : p \in {"none", "bad"}}
MCRegistries == { <<>>, <<[kind |-> "nacos", addr |-> "reg:8848"], [kind |-> "mock", addr |-> "none"]>> }

MCRequests ==
  {[path |-> p, method |-> m, headers |-> h] :
     p \in {<<"/">>, A, AB, ABC, Z}, m \in {"GET", "PUT", "POST"},
     h \in {<< >>, "x-env" :> "1", "x-env" :> "2" @@ "x-b" :> "2"}}

MCLines == { <<>>, << <<"x-gate", "0">>, <<"te", "x">>, <<"x-gate", "2">> >> }

MCOverrides ==
  { <<>>, <<[id |-> "b", url |-> "near:80"], [id |-> "a", url |-> "far:80"],
            [id |-> "b", url |-> "far:80"], [id |-> "q", url |-> "near:80"]>> }

\* All is well; a registry down; one that cannot be set up; the port taken; an
\* address that answers no more; instances that do not answer until the fourth.
Well == [portFree |-> TRUE, watchable |-> TRUE, starts |-> [k \in {"nacos", "mock"} |-> TRUE],
         health |-> [k \in {"nacos", "mock"} |-> "healthy"],
         reach |-> {"reg:8848", "near:80", "far:80", "i1"}, lists |-> ("orders" :> {<<"i1">>})]
MCWorlds ==
  { Well,
    [Well EXCEPT !.health["nacos"] = "unhealthy"],
    [Well EXCEPT !.health = [k \in {"nacos", "mock"} |-> "unhealthy"]],
    [Well EXCEPT !.health["mock"] = "degraded", !.lists["orders"] = {<<"i4", "i5", "i1">>}],
    [Well EXCEPT !.starts["nacos"] = FALSE],
    [Well EXCEPT !.portFree = FALSE],
    [Well EXCEPT !.reach = @ \ {"near:80"}],
    [Well EXCEPT !.lists["orders"] = {}],
    [Well EXCEPT !.lists["orders"] = {<<"i4">>}],
    [Well EXCEPT !.lists["orders"] = {<<"i4", "i5", "i6", "i1">>}] }
=============================================================================
