---------------------------- MODULE MCRegistryCall ----------------------------
(* A small instance of RegistryCall for TLC. *)
EXTENDS RegistryCall

CONSTANTS c1, c2

Http == [number |-> "8080", name |-> "http", proto |-> "TCP"]
Admin == [number |-> "9090", name |-> "admin", proto |-> "none"]
Metrics == [number |-> "7070", name |-> "metrics", proto |-> "TCP"]
Dns == [number |-> "8080", name |-> "dns", proto |-> "UDP"]

\* A Service that names no target, and one that names a port by its number, one by
\* its name and a UDP port.
MCServices ==
  { {[proto |-> "TCP", target |-> <<>>]},
    {[proto |-> "TCP", target |-> <<"number", "8080">>],
     [proto |-> "none", target |-> <<"name", "admin">>],
     [proto |-> "UDP", target |-> <<"name", "metrics">>]} }

MCCores ==
  { {}, {[addresses |-> {"a", "b"}, ports |-> {Http, Metrics}], [addresses |-> {"b"}, ports |-> {Admin}]},
    {[addresses |-> {"b"}, ports |-> {Dns, Metrics}], [addresses |-> {"a"}, ports |-> {}]} }

Endpoint(addresses, ready, serving) == [addresses |-> addresses, ready |-> ready, serving |-> serving]

MCSliceLists ==
  { {}, {[endpoints |-> {Endpoint({"a"}, "yes", "none"), Endpoint({"b"}, "yes", "no")},
          ports |-> {Http, Metrics, [Admin EXCEPT !.number = "none"]}]},
    {[endpoints |-> {Endpoint({"b"}, "none", "none"), Endpoint({"a"}, "no", "yes")}, ports |-> {Dns, Admin}],
     [endpoints |-> {}, ports |-> {Http}]} }
=============================================================================
