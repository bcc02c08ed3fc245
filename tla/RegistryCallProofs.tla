-------------------------- MODULE RegistryCallProofs --------------------------
(***************************************************************************)
(* What an answer of the Kubernetes registry stands for, in a cluster that *)
(* changes between the three questions of a call.                          *)
(***************************************************************************)
EXTENDS RegistryCall, TLAPS

-----------------------------------------------------------------------------
(* What is made of one object, against what the object offers *)

\* The port filter lets through what the Service is meant to be served by.
LEMMA ServesIsAllowed ==
  ASSUME NEW ports, NEW p
  PROVE  Serves(ports, p) <=> ~Excluded(p.proto) /\ Allows(FromServicePorts(ports), p)
BY DEF Serves, Excluded, Allows, FromServicePorts

\* The addresses and port numbers of objects are among those listed.
LEMMA CoreAddress ==
  ASSUME NEW core \in Cores, NEW s \in core, NEW a \in s.addresses
  PROVE  a \in Addresses
<1>1. a \in CoreAddresses(core)
  BY DEF CoreAddresses
<1> QED
  BY <1>1 DEF Addresses

LEMMA SliceAddress ==
  ASSUME NEW slices \in SliceLists, NEW s \in slices, NEW e \in s.endpoints, NEW a \in e.addresses
  PROVE  a \in Addresses
<1>1. a \in UNION {f.addresses : f \in s.endpoints}
  OBVIOUS
<1>2. a \in SliceAddresses(slices)
  BY <1>1 DEF SliceAddresses
<1>3. a \in UNION {SliceAddresses(l) : l \in SliceLists}
  BY <1>2
<1> QED
  BY <1>3 DEF Addresses

LEMMA NumberListed ==
  ASSUME NEW l \in Cores \cup SliceLists, NEW s \in l, NEW p \in s.ports
  PROVE  p.number \in Numbers
<1>1. p.number \in {q.number : q \in s.ports}
  OBVIOUS
<1>2. p.number \in UNION {{q.number : q \in t.ports} : t \in l}
  BY <1>1
<1> QED
  BY <1>2 DEF Numbers

\* The instances made of Endpoints are those they offer, for any Service.
LEMMA CoreInstances ==
  ASSUME NEW core \in Cores, NEW ports
  PROVE  EndpointsToInstances(core, FromServicePorts(ports))
           = {i \in Addresses \X Numbers : CoreOffers(core, ports, i)}
<1> DEFINE targets == FromServicePorts(ports)
<1>1. ASSUME NEW i \in EndpointsToInstances(core, targets)
      PROVE  i \in Addresses \X Numbers /\ CoreOffers(core, ports, i)
  <2>1. PICK s \in core : i \in s.addresses \X Open(s.ports, targets)
    BY <1>1 DEF EndpointsToInstances
  <2>2. PICK p \in s.ports : ~Excluded(p.proto) /\ Allows(targets, p) /\ i[2] = p.number
    BY <2>1 DEF Open
  <2>3. Serves(ports, p)
    BY <2>2, ServesIsAllowed
  <2>4. i[1] \in Addresses
    BY <2>1, CoreAddress
  <2>5. i[2] \in Numbers
    BY <2>2, NumberListed
  <2> QED
    BY <2>1, <2>2, <2>3, <2>4, <2>5 DEF CoreOffers
<1>2. ASSUME NEW i \in Addresses \X Numbers, CoreOffers(core, ports, i)
      PROVE  i \in EndpointsToInstances(core, targets)
  <2>1. PICK s \in core, p \in UNION {t.ports : t \in core} :
          p \in s.ports /\ i[1] \in s.addresses /\ p.number = i[2] /\ Serves(ports, p)
    BY <1>2 DEF CoreOffers
  <2>2. p.number # "none"
    BY <2>1, PortAssumption
  <2>3. i[2] \in Open(s.ports, targets)
    BY <2>1, <2>2, ServesIsAllowed DEF Open
  <2> QED
    BY <2>1, <2>3 DEF EndpointsToInstances
<1> QED
  BY <1>1, <1>2

\* The same of EndpointSlices.
LEMMA SliceInstances ==
  ASSUME NEW slices \in SliceLists, NEW ports
  PROVE  EndpointSlicesToInstances(slices, FromServicePorts(ports))
           = {i \in Addresses \X Numbers : SlicesOffer(slices, ports, i)}
<1> DEFINE targets == FromServicePorts(ports)
<1>1. ASSUME NEW i \in EndpointSlicesToInstances(slices, targets)
      PROVE  i \in Addresses \X Numbers /\ SlicesOffer(slices, ports, i)
  <2>1. PICK s \in slices : i \in UNION {e.addresses \X Open(s.ports, targets) : e \in Accepting(s)}
    BY <1>1 DEF EndpointSlicesToInstances
  <2>2. PICK e \in Accepting(s) : i \in e.addresses \X Open(s.ports, targets)
    BY <2>1
  <2>3. e \in s.endpoints /\ "no" \notin {e.ready, e.serving}
    BY <2>2 DEF Accepting
  <2>4. PICK p \in s.ports :
          ~Excluded(p.proto) /\ p.number # "none" /\ Allows(targets, p) /\ i[2] = p.number
    BY <2>2 DEF Open
  <2>5. Serves(ports, p)
    BY <2>4, ServesIsAllowed
  <2>6. i[1] \in Addresses
    BY <2>2, <2>3, SliceAddress
  <2>7. i[2] \in Numbers
    BY <2>4, NumberListed
  <2> QED
    BY <2>2, <2>3, <2>4, <2>5, <2>6, <2>7 DEF SlicesOffer
<1>2. ASSUME NEW i \in Addresses \X Numbers, SlicesOffer(slices, ports, i)
      PROVE  i \in EndpointSlicesToInstances(slices, targets)
  <2>1. PICK s \in slices : \E p \in s.ports, e \in s.endpoints :
          /\ i[1] \in e.addresses /\ "no" \notin {e.ready, e.serving}
          /\ p.number = i[2] /\ i[2] # "none" /\ Serves(ports, p)
    BY <1>2 DEF SlicesOffer
  <2>2. PICK p \in s.ports, e \in s.endpoints :
          /\ i[1] \in e.addresses /\ "no" \notin {e.ready, e.serving}
          /\ p.number = i[2] /\ i[2] # "none" /\ Serves(ports, p)
    BY <2>1
  <2>3. e \in Accepting(s)
    BY <2>2 DEF Accepting
  <2>4. i[2] \in Open(s.ports, targets)
    BY <2>2, ServesIsAllowed DEF Open
  <2>5. i \in UNION {f.addresses \X Open(s.ports, targets) : f \in Accepting(s)}
    BY <2>2, <2>3, <2>4
  <2> QED
    BY <2>1, <2>5 DEF EndpointSlicesToInstances
<1> QED
  BY <1>1, <1>2

-----------------------------------------------------------------------------
(* The invariant of a call: what has been read is what some moment of the call held *)

Offered(instances) ==
  \/ \E core \in moments.core : instances = EndpointsToInstances(core, filter)
  \/ \E l \in moments.slices : instances = EndpointSlicesToInstances(l, filter)

NoneInCore == \E core \in moments.core : EndpointsToInstances(core, filter) = {}
NoneInSlices == \E l \in moments.slices : EndpointSlicesToInstances(l, filter) = {}

\* What the API server holds is among what it held during the call.
MomentsInv ==
  /\ moments \in [service : SUBSET Services, core : SUBSET Cores, slices : SUBSET SliceLists]
  /\ asking \in {"service", "core", "slices"} =>
       /\ cluster.service \in moments.service
       /\ cluster.core \in moments.core
       /\ cluster.slices \in moments.slices

ReadInv ==
  /\ asking # "failed" => troubled = FALSE
  /\ asking \in {"core", "slices", "ok"} =>
       \E ports \in moments.service : filter = FromServicePorts(ports)
  /\ asking = "slices" => NoneInCore
  /\ asking = "ok" => IF found = {} THEN NoneInCore /\ NoneInSlices ELSE Offered(found)

CallInv == MomentsInv /\ ReadInv

LEMMA CallInvInit == K8sInit => CallInv
BY DEF K8sInit, CallInv, MomentsInv, ReadInv, Unwatched

\* A new call watches the objects as they are.
LEMMA StartKeeps ==
  ASSUME CallInv, asking = "idle", Start
  PROVE  CallInv'
<1>1. PICK c \in Clusters :
        cluster' = c /\ moments' = [object \in DOMAIN c |-> {c[object]}]
  BY DEF Start
<1>2. moments' = [service |-> {c.service}, core |-> {c.core}, slices |-> {c.slices}]
  BY <1>1 DEF Clusters
<1>3. MomentsInv'
  BY <1>1, <1>2 DEF MomentsInv, Clusters
<1>4. asking' = "service" /\ troubled' = troubled
  BY DEF Start
<1> QED
  BY <1>3, <1>4 DEF CallInv, ReadInv

\* An object written under way joins what its moments hold.
LEMMA WriteKeeps ==
  ASSUME CallInv, NEW object, NEW value, Write(object, value),
         \/ object = "service" /\ value \in Services
         \/ object = "core" /\ value \in Cores
         \/ object = "slices" /\ value \in SliceLists
  PROVE  CallInv'
<1>1. /\ asking' = asking /\ filter' = filter /\ found' = found /\ troubled' = troubled
      /\ asking \in {"service", "core", "slices"}
  BY DEF Write
<1>2. /\ moments' = [moments EXCEPT ![object] = @ \cup {value}]
      /\ cluster' = [cluster EXCEPT ![object] = value]
  BY DEF Write
<1>3. MomentsInv'
  BY <1>1, <1>2 DEF MomentsInv, CallInv
<1>4. /\ moments.service \subseteq moments'.service
      /\ moments.core \subseteq moments'.core
      /\ moments.slices \subseteq moments'.slices
  BY <1>2 DEF MomentsInv, CallInv
<1>5. ReadInv'
  BY <1>1, <1>4 DEF CallInv, ReadInv, NoneInCore
<1> QED
  BY <1>3, <1>5 DEF CallInv

\* Each answer is made of what the cluster holds when it is given.
LEMMA AskingKeeps ==
  ASSUME CallInv, K8sCall
  PROVE  CallInv'
<1>1. MomentsInv'
  BY DEF CallInv, MomentsInv, K8sCall, GetFails, FetchServiceTcpFilter, FetchCoreEndpoints,
         FetchEndpointSlices
<1>2. ReadInv'
  <2>1. CASE GetFails
    BY <2>1 DEF GetFails, CallInv, ReadInv
  <2>2. CASE FetchServiceTcpFilter
    BY <2>2 DEF FetchServiceTcpFilter, CallInv, MomentsInv, ReadInv
  <2>3. CASE FetchCoreEndpoints
    <3>1. /\ found' = EndpointsToInstances(cluster.core, filter)
          /\ cluster.core \in moments'.core
          /\ filter' = filter /\ moments' = moments /\ troubled' = troubled
          /\ asking = "core"
          /\ asking' = IF found' = {} THEN "slices" ELSE "ok"
      BY <2>3 DEF FetchCoreEndpoints, CallInv, MomentsInv
    <3>2. CASE found' = {}
      BY <3>1, <3>2 DEF CallInv, ReadInv, NoneInCore
    <3>3. CASE found' # {}
      BY <3>1, <3>3 DEF CallInv, ReadInv, Offered
    <3> QED
      BY <3>2, <3>3
  <2>4. CASE FetchEndpointSlices
    <3>1. /\ found' = EndpointSlicesToInstances(cluster.slices, filter)
          /\ cluster.slices \in moments'.slices
          /\ filter' = filter /\ moments' = moments /\ troubled' = troubled
          /\ asking = "slices" /\ asking' = "ok"
      BY <2>4 DEF FetchEndpointSlices, CallInv, MomentsInv
    <3>5. \E l \in moments'.slices : found' = EndpointSlicesToInstances(l, filter')
      BY <3>1
    <3>2. NoneInCore'
      BY <3>1 DEF CallInv, ReadInv, NoneInCore
    <3>3. found' = {} => NoneInSlices'
      BY <3>5 DEF NoneInSlices
    <3>4. Offered(found)'
      BY <3>5 DEF Offered
    <3> QED
      BY <3>1, <3>2, <3>3, <3>4 DEF CallInv, ReadInv
  <2> QED
    BY <2>1, <2>2, <2>3, <2>4 DEF K8sCall
<1> QED
  BY <1>1, <1>2 DEF CallInv

LEMMA DoneKeeps ==
  ASSUME CallInv, Done
  PROVE  CallInv'
BY DEF Done, CallInv, MomentsInv, ReadInv, Unwatched

\* The registry in front of Nacos is not touched by what Nacos does.
LEMMA CallInvStep ==
  ASSUME CallInv, [CallNext]_callVars
  PROVE  CallInv'
<1>1. CASE Resolve
  BY <1>1, StartKeeps DEF Resolve
<1>2. CASE AskKubernetes
  BY <1>2, AskingKeeps DEF AskKubernetes
<1>3. CASE UseFound \/ FallThrough \/ GiveUp
  BY <1>3, DoneKeeps DEF UseFound, FallThrough, GiveUp
<1>4. CASE WriteObject
  BY <1>4, WriteKeeps DEF WriteObject
<1>5. CASE UNCHANGED k8sVars
  BY <1>5 DEF k8sVars, CallInv, MomentsInv, ReadInv, NoneInCore, NoneInSlices, Offered
<1> QED
  BY <1>1, <1>2, <1>3, <1>4, <1>5 DEF CallNext, FollowedCall, callVars

LEMMA CallInvHolds == CallSpec => []CallInv
<1>1. CallInit => CallInv
  BY CallInvInit DEF CallInit
<1>2. CallInv /\ [CallNext]_callVars => CallInv'
  BY CallInvStep
<1> QED
  BY <1>1, <1>2, PTL DEF CallSpec

-----------------------------------------------------------------------------
(* The theorems *)

\* An empty answer of the Kubernetes registry means that there is nothing
\* (NothingMeansNothing), whatever is written between the three questions.
THEOREM EmptyMeansNothing == CallSpec => []NothingMeansNothing
<1>1. CallInv => NothingMeansNothing
  <2> SUFFICES ASSUME CallInv, asking = "ok", found = {}
               PROVE  /\ ~troubled
                      /\ \A ports \in moments.service : moments.service = {ports} =>
                           /\ \E core \in moments.core : \A i \in Addresses \X Numbers : ~CoreOffers(core, ports, i)
                           /\ \E l \in moments.slices : \A i \in Addresses \X Numbers : ~SlicesOffer(l, ports, i)
    BY DEF NothingMeansNothing
  <2>1. ~troubled
    BY DEF CallInv, ReadInv
  <2>2. ASSUME NEW ports \in moments.service, moments.service = {ports}
        PROVE  /\ \E core \in moments.core : \A i \in Addresses \X Numbers : ~CoreOffers(core, ports, i)
               /\ \E l \in moments.slices : \A i \in Addresses \X Numbers : ~SlicesOffer(l, ports, i)
    <3>1. filter = FromServicePorts(ports)
      BY <2>2 DEF CallInv, ReadInv
    <3>2. PICK core \in moments.core : EndpointsToInstances(core, filter) = {}
      BY DEF CallInv, ReadInv, NoneInCore
    <3>3. PICK l \in moments.slices : EndpointSlicesToInstances(l, filter) = {}
      BY DEF CallInv, ReadInv, NoneInSlices
    <3>4. core \in Cores /\ l \in SliceLists
      BY DEF CallInv, MomentsInv
    <3>5. \A i \in Addresses \X Numbers : ~CoreOffers(core, ports, i)
      BY <3>1, <3>2, <3>4, CoreInstances
    <3>6. \A i \in Addresses \X Numbers : ~SlicesOffer(l, ports, i)
      BY <3>1, <3>3, <3>4, SliceInstances
    <3> QED
      BY <3>5, <3>6
  <2> QED
    BY <2>1, <2>2
<1> QED
  BY <1>1, CallInvHolds, PTL

\* An answer with instances is one listing, whole, for the Service as it was at one
\* moment (FoundAsListed), whatever is written between the three questions.
THEOREM AnswerIsOneListing == CallSpec => []FoundAsListed
<1>1. CallInv => FoundAsListed
  <2> SUFFICES ASSUME CallInv, asking = "ok", found # {}
               PROVE  \E ports \in moments.service :
                        \/ \E core \in moments.core :
                             found = {i \in Addresses \X Numbers : CoreOffers(core, ports, i)}
                        \/ \E l \in moments.slices :
                             found = {i \in Addresses \X Numbers : SlicesOffer(l, ports, i)}
    BY DEF FoundAsListed
  <2>1. PICK ports \in moments.service : filter = FromServicePorts(ports)
    BY DEF CallInv, ReadInv
  <2>2. moments.core \subseteq Cores /\ moments.slices \subseteq SliceLists
    BY DEF CallInv, MomentsInv
  <2>3. CASE \E core \in moments.core : found = EndpointsToInstances(core, filter)
    BY <2>1, <2>2, <2>3, CoreInstances
  <2>4. CASE \E l \in moments.slices : found = EndpointSlicesToInstances(l, filter)
    BY <2>1, <2>2, <2>4, SliceInstances
  <2> QED
    BY <2>3, <2>4 DEF CallInv, ReadInv, Offered
<1> QED
  BY <1>1, CallInvHolds, PTL
=============================================================================
