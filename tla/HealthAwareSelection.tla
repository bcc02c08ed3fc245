------------------------- MODULE HealthAwareSelection -------------------------
(***************************************************************************)
(* The checker of HealthChecker and the requests of InstanceSelection over *)
(* one set of marks: the requests resolve the listings the checker also    *)
(* resolves, each at its own moment, and read the marks between any two    *)
(* steps of a round.                                                       *)
(***************************************************************************)
EXTENDS HealthChecker, InstanceSelection

\* What resolve answers a request is a listing; it fails when there is none.
ASSUME DrainAssumption == Lists = Listings \ {<<>>}

selectionOnly == <<rr, phase, svc, list, mode, healthy, next, chosen, share>>
checkerOnly == <<worldVars, taskVars, fail_counts, ok_counts, outcomes>>
drainVars == <<healthVars, selectionOnly, stayed>>

DrainInit == HealthInit /\ SelectionInit

CheckerStep == HealthNext /\ Observe /\ UNCHANGED selectionOnly

\* proxy_handler: what the registry answers is a list without the empty one.
RequestStep ==
  /\ \E r \in Requests :
       \/ SelectionStep(r)
       \/ \E s \in Services, m \in Modes :
            listing[s] # <<>> /\ Begin(r, s, listing[s], m)
  /\ UNCHANGED checkerOnly

DrainNext == CheckerStep \/ RequestStep

DrainSpec == DrainInit /\ [][DrainNext]_drainVars /\ WF_drainVars(Task /\ CheckerStep)

-----------------------------------------------------------------------------
\* The checker moves one mark at a time: the selection keeps its properties
\* over the real checker.
ImplementsSelection == SelectionSpec

\* Traffic drains: when an instance stays down while another instance of the
\* same service stays up, both listed, there comes a time after which no
\* request for the service is sent to the dead one, in any selection mode.
TrafficDrains ==
  \A i, j \in Instances, s \in Services :
    <>[](~up[i] /\ up[j] /\ Listed(i, s) /\ Listed(j, s)) =>
      <>[][\A r \in Requests :
             Picks(r) /\ svc[r] = s => chosen'[r] # i]_drainVars
=============================================================================
