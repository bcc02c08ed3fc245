----------------------------- MODULE K8sDiscovery -----------------------------
(***************************************************************************)
(* registry/k8s.rs: one call of K8sRegistry::get_healthy_instances.  It    *)
(* asks the API server three times, for the Service, for its Endpoints and,*)
(* when these offer nothing, for its EndpointSlices, while the cluster     *)
(* goes on changing.  An object that is not there (404) is one that is     *)
(* empty.  The registry keeps nothing between calls.                       *)
(***************************************************************************)
EXTENDS Naturals, FiniteSets

CONSTANTS Services,  \* values of spec.ports: sets of [proto, target]
          Cores,     \* values of Endpoints: sets of [addresses, ports]
          SliceLists \* values of the EndpointSlice list: sets of [endpoints, ports]

\* A port of Endpoints always has its number: a plain u16 in the code.
ASSUME PortAssumption == \A core \in Cores : \A s \in core : \A p \in s.ports : p.number # "none"

\* A target is <<"number", n>>, <<"name", n>> or <<>>; a port of an endpoint is
\* [number, name, proto], of a slice perhaps with the number "none"; an endpoint of
\* a slice is [addresses, ready, serving], each condition "yes", "no" or "none".

VARIABLES cluster, \* what the API server holds, [service, core, slices], during a call
          asking,  \* "idle", "service", "core", "slices", or the end, "ok" or "failed"
          filter,  \* ServiceTcpFilter: the targets allowed
          found,   \* the host:port pairs of an Ok
          moments, \* history: what each object was during the call
          troubled \* history: some answer to the call was an error

k8sVars == <<cluster, asking, filter, found, moments, troubled>>

Clusters == [service : Services, core : Cores, slices : SliceLists]

Unwatched == [service |-> {}, core |-> {}, slices |-> {}]

K8sInit ==
  /\ cluster = Unwatched /\ moments = Unwatched
  /\ asking = "idle"
  /\ filter = {}
  /\ found = {}
  /\ troubled = FALSE

-----------------------------------------------------------------------------
(* What is made of the objects *)

Excluded(proto) == proto \in {"UDP", "SCTP"}

\* A number beyond u16 or an empty name is no target.
FromServicePorts(ports) ==
  {p.target : p \in {q \in ports : ~Excluded(q.proto)}}
    \ {<<>>, <<"number", "beyond u16">>, <<"name", "">>}

\* A filter without targets lets every port through.
Allows(targets, port) ==
  targets = {} \/ <<"number", port.number>> \in targets \/ <<"name", port.name>> \in targets

Open(ports, targets) ==
  {p.number : p \in {q \in ports : ~Excluded(q.proto) /\ q.number # "none" /\ Allows(targets, q)}}

EndpointsToInstances(subsets, targets) ==
  UNION {s.addresses \X Open(s.ports, targets) : s \in subsets}

Accepting(slice) == {e \in slice.endpoints : e.ready # "no" /\ e.serving # "no"}

EndpointSlicesToInstances(slices, targets) ==
  UNION {UNION {e.addresses \X Open(s.ports, targets) : e \in Accepting(s)} : s \in slices}

-----------------------------------------------------------------------------
(* The call *)

\* Between calls the objects may have become anything.
Start ==
  /\ asking' = "service"
  /\ \E c \in Clusters :
       /\ cluster' = c
       /\ moments' = [object \in DOMAIN c |-> {c[object]}]
  /\ UNCHANGED <<filter, found, troubled>>

\* The caller has the answer, or is gone.
Done ==
  /\ asking' = "idle"
  /\ cluster' = Unwatched /\ moments' = Unwatched
  /\ filter' = {} /\ found' = {}
  /\ troubled' = FALSE

\* Mutated form: Endpoints that cannot be had are as good as empty.
GetFails_lenient ==
  /\ asking \in {"service", "core", "slices"}
  /\ asking' = IF asking = "core" THEN "slices" ELSE "failed"
  /\ troubled' = TRUE
  /\ UNCHANGED <<cluster, filter, found, moments>>

\* No answer, a refusal, another status or a body that does not parse: `?`.
GetFails ==
  /\ asking \in {"service", "core", "slices"}
  /\ asking' = "failed"
  /\ troubled' = TRUE
  /\ UNCHANGED <<cluster, filter, found, moments>>

FetchServiceTcpFilter ==
  /\ asking = "service"
  /\ asking' = "core"
  /\ filter' = FromServicePorts(cluster.service)
  /\ UNCHANGED <<cluster, found, moments, troubled>>

FetchCoreEndpoints ==
  /\ asking = "core"
  /\ found' = EndpointsToInstances(cluster.core, filter)
  /\ asking' = IF found' = {} THEN "slices" ELSE "ok"
  /\ UNCHANGED <<cluster, filter, moments, troubled>>

\* Mutated form: the slices are taken as they come.
FetchEndpointSlices_unfiltered ==
  /\ asking = "slices"
  /\ found' = EndpointSlicesToInstances(cluster.slices, {})
  /\ asking' = "ok"
  /\ UNCHANGED <<cluster, filter, moments, troubled>>

FetchEndpointSlices ==
  /\ asking = "slices"
  /\ found' = EndpointSlicesToInstances(cluster.slices, filter)
  /\ asking' = "ok"
  /\ UNCHANGED <<cluster, filter, moments, troubled>>

K8sCall == GetFails \/ FetchServiceTcpFilter \/ FetchCoreEndpoints \/ FetchEndpointSlices

\* The cluster's controllers write one object.
Write(object, value) ==
  /\ asking \in {"service", "core", "slices"}
  /\ cluster' = [cluster EXCEPT ![object] = value]
  /\ moments' = [moments EXCEPT ![object] = @ \cup {value}]
  /\ UNCHANGED <<asking, filter, found, troubled>>

-----------------------------------------------------------------------------
(* Properties *)

\* The service's TCP traffic for a port like p is meant to go there.
Serves(ports, p) ==
  LET tcp == {q \in ports : q.proto \notin {"UDP", "SCTP"}}
      named == {q.target : q \in tcp} \ {<<>>, <<"number", "beyond u16">>, <<"name", "">>}
  IN /\ p.proto \notin {"UDP", "SCTP"}
     /\ named # {} => \E t \in named : t \in {<<"number", p.number>>, <<"name", p.name>>}

\* An instance that Endpoints, or EndpointSlices, offer for a service.
CoreOffers(core, ports, inst) ==
  \E s \in core, p \in UNION {t.ports : t \in core} :
    p \in s.ports /\ inst[1] \in s.addresses /\ p.number = inst[2] /\ Serves(ports, p)

SlicesOffer(slices, ports, inst) ==
  \E s \in slices : \E p \in s.ports, e \in s.endpoints :
    /\ inst[1] \in e.addresses /\ "no" \notin {e.ready, e.serving}
    /\ p.number = inst[2] /\ inst[2] # "none" /\ Serves(ports, p)

CoreAddresses(core) == UNION {s.addresses : s \in core}
SliceAddresses(slices) == UNION {UNION {e.addresses : e \in s.endpoints} : s \in slices}
Addresses ==
  (UNION {CoreAddresses(core) : core \in Cores}) \cup (UNION {SliceAddresses(l) : l \in SliceLists})
Numbers == UNION {UNION {{p.number : p \in s.ports} : s \in l} : l \in Cores \cup SliceLists}

\* An empty answer means that there is nothing: no part of the call failed and,
\* unless the Service changed under way, Endpoints offered nothing at some moment of
\* the call and the slices at some moment too. Neither an error nor an instance that
\* one of the two lists all the time is taken for "none".
NothingMeansNothing ==
  asking = "ok" /\ found = {} =>
    /\ ~troubled
    /\ \A ports \in moments.service : moments.service = {ports} =>
         /\ \E core \in moments.core : \A i \in Addresses \X Numbers : ~CoreOffers(core, ports, i)
         /\ \E l \in moments.slices : \A i \in Addresses \X Numbers : ~SlicesOffer(l, ports, i)

\* The instances of an answer are those of one object at one moment, picked for the
\* Service as it was at one moment, all of them: nothing is mixed or left out.
FoundAsListed ==
  asking = "ok" /\ found # {} =>
    \E ports \in moments.service :
      \/ \E core \in moments.core :
           found = {i \in Addresses \X Numbers : CoreOffers(core, ports, i)}
      \/ \E l \in moments.slices :
           found = {i \in Addresses \X Numbers : SlicesOffer(l, ports, i)}
=============================================================================
