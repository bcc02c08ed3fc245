---------------------------- MODULE MCProxyHandler ----------------------------
(* A small instance of ProxyHandler for TLC. *)
EXTENDS ProxyHandler

\* Two live plugins out of order, a disabled and an unknown one.
MCPluginConfigs ==
  <<[name |-> "response-headers", enabled |-> TRUE, order |-> 2],
    [name |-> "request-logger", enabled |-> TRUE, order |-> 1],
    [name |-> "request-headers", enabled |-> FALSE, order |-> 3],
    [name |-> "mystery", enabled |-> TRUE, order |-> 0]>>

MCKnownNames == {"request-logger", "request-headers", "response-headers"}

MCRuleTarget == [rule \in Rules |-> CASE rule = "direct" -> "url"
                                     [] rule = "lookup" -> "service"
                                     [] OTHER -> "nothing"]
=============================================================================
