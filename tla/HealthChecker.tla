--------------------------- MODULE HealthChecker ---------------------------
(***************************************************************************)
(* server/health_checker.rs: one background task that probes every         *)
(* instance behind the configured services, round after round, and the     *)
(* marks (HealthStatus.unhealthy) that instance selection reads.           *)
(*                                                                         *)
(* The task is the only writer of the marks and readers see nothing else   *)
(* of HealthStatus, so recording one probe is one step.  The environment   *)
(* moves between any two steps: instances fail and recover, registries     *)
(* list other instances, the config is reloaded.                           *)
(***************************************************************************)
EXTENDS HealthStatus, Integers, FiniteSets

CONSTANTS Listings,            \* what a registry may answer: sequences of instances
          RouteChoices,        \* the service ids of the routes, one per reload
          unhealthy_threshold, \* of HealthCheckConfig
          healthy_threshold

ASSUME HealthAssumption ==
  /\ unhealthy_threshold \in Nat
  /\ healthy_threshold \in Nat
  /\ Listings \subseteq Seq(Instances)
  /\ RouteChoices \subseteq Seq(Services)

VARIABLES up,          \* instances that answer their health path with 2xx in time
          listing,     \* what resolve answers for a service, << >> when it fails
          routes,      \* service_id of each route of the config slot
          task,        \* "sleeping", "resolving" or "probing"
          todoRoutes,  \* routes of this round still to resolve
          todoInsts,   \* instances of the current route still to probe
          seen_keys,   \* instances already met in this round
          fail_counts, \* consecutive failures, saturated at unhealthy_threshold
          ok_counts,   \* consecutive successes, saturated at healthy_threshold
          outcomes,    \* history: the latest probe results of an instance
          probed       \* history: probes of each instance in this round

worldVars == <<up, listing, routes>>
statusVars == <<unhealthy, fail_counts, ok_counts, outcomes>>
taskVars == <<task, todoRoutes, todoInsts, seen_keys, probed>>
healthVars == <<up, listing, routes, task, todoRoutes, todoInsts, seen_keys, probed,
                unhealthy, fail_counts, ok_counts, outcomes>>

MaxOf(a, b) == IF a >= b THEN a ELSE b
MinOf(a, b) == IF a <= b THEN a ELSE b

FailRun == MaxOf(unhealthy_threshold, 1)
OkRun == MaxOf(healthy_threshold, 1)
WindowLength == MaxOf(FailRun, OkRun)

HealthInit ==
  /\ up \in [Instances -> BOOLEAN]
  /\ listing \in [Services -> Listings]
  /\ routes \in RouteChoices
  /\ task = "sleeping"
  /\ todoRoutes = <<>>
  /\ todoInsts = <<>>
  /\ seen_keys = {}
  /\ unhealthy = {}
  /\ fail_counts = [i \in Instances |-> 0]
  /\ ok_counts = [i \in Instances |-> 0]
  /\ outcomes = [i \in Instances |-> <<>>]
  /\ probed = [i \in Instances |-> 0]

-----------------------------------------------------------------------------
(* HealthStatus; a removed counter is a counter at 0. *)

\* A window of the latest WindowLength values.
Slide(seq, value) == Append(IF Len(seq) < WindowLength THEN seq ELSE Tail(seq), value)

Remember(i, ok) == outcomes' = [outcomes EXCEPT ![i] = Slide(outcomes[i], ok)]

-----------------------------------------------------------------------------
(* Mutated forms, for checking that the properties can fail. *)

\* A failure does not end the run of successes.
record_failure_keeps_ok(i) ==
  LET count == fail_counts[i] + 1 IN
  /\ fail_counts' = [fail_counts EXCEPT ![i] = MinOf(count, unhealthy_threshold)]
  /\ unhealthy' = IF count >= unhealthy_threshold THEN unhealthy \cup {i} ELSE unhealthy
  /\ UNCHANGED ok_counts
  /\ Remember(i, FALSE)

\* Off by one: one success more than healthy_threshold is asked for, which a
\* counter that is compared with > never counts.
record_success_off_by_one(i) ==
  LET count == ok_counts[i] + 1 IN
  /\ fail_counts' = [fail_counts EXCEPT ![i] = 0]
  /\ ok_counts' = [ok_counts EXCEPT ![i] = MinOf(count, healthy_threshold)]
  /\ unhealthy' = IF count > healthy_threshold THEN unhealthy \ {i} ELSE unhealthy
  /\ Remember(i, TRUE)

-----------------------------------------------------------------------------
record_success(i) ==
  LET count == ok_counts[i] + 1 IN
  /\ fail_counts' = [fail_counts EXCEPT ![i] = 0]
  /\ ok_counts' = [ok_counts EXCEPT ![i] = MinOf(count, healthy_threshold)]
  /\ unhealthy' = IF count >= healthy_threshold THEN unhealthy \ {i} ELSE unhealthy
  /\ Remember(i, TRUE)

record_failure(i) ==
  LET count == fail_counts[i] + 1 IN
  /\ ok_counts' = [ok_counts EXCEPT ![i] = 0]
  /\ fail_counts' = [fail_counts EXCEPT ![i] = MinOf(count, unhealthy_threshold)]
  /\ unhealthy' = IF count >= unhealthy_threshold THEN unhealthy \cup {i} ELSE unhealthy
  /\ Remember(i, FALSE)

-----------------------------------------------------------------------------
(* The task *)

\* The interval is over; probe_all loads the config once for the round.
StartRound ==
  /\ task = "sleeping"
  /\ task' = "resolving"
  /\ todoRoutes' = routes
  /\ seen_keys' = {}
  /\ probed' = [i \in Instances |-> 0]
  /\ UNCHANGED <<worldVars, statusVars, todoInsts>>

\* Mutated form: the first route that does not resolve ends the round.
ResolveRoute_gives_up ==
  /\ task = "resolving"
  /\ todoRoutes # <<>>
  /\ todoInsts' = listing[Head(todoRoutes)]
  /\ todoRoutes' = IF todoInsts' = <<>> THEN <<>> ELSE Tail(todoRoutes)
  /\ task' = IF todoInsts' = <<>> THEN "resolving" ELSE "probing"
  /\ UNCHANGED <<worldVars, statusVars, seen_keys, probed>>

\* resolve of the next route's service; an error skips the route.
ResolveRoute ==
  /\ task = "resolving"
  /\ todoRoutes # <<>>
  /\ todoRoutes' = Tail(todoRoutes)
  /\ todoInsts' = listing[Head(todoRoutes)]
  /\ task' = IF todoInsts' = <<>> THEN "resolving" ELSE "probing"
  /\ UNCHANGED <<worldVars, statusVars, seen_keys, probed>>

\* Mutated form: the last instance of a list is looked for once more.
AfterProbe_off_by_one ==
  /\ todoInsts' = Tail(todoInsts)
  /\ task' = IF Len(todoInsts) = 0 THEN "resolving" ELSE "probing"
  /\ UNCHANGED <<worldVars, todoRoutes>>

AfterProbe ==
  /\ todoInsts' = Tail(todoInsts)
  /\ task' = IF Len(todoInsts) = 1 THEN "resolving" ELSE "probing"
  /\ UNCHANGED <<worldVars, todoRoutes>>

SkipSeen ==
  /\ task = "probing"
  /\ Head(todoInsts) \in seen_keys
  /\ AfterProbe
  /\ UNCHANGED <<statusVars, seen_keys, probed>>

\* Mutated form: the set of met instances starts afresh for each route.
Probe_not_remembered ==
  /\ task = "probing"
  /\ LET i == Head(todoInsts) IN
       /\ i \notin seen_keys
       /\ IF up[i] THEN record_success(i) ELSE record_failure(i)
       /\ probed' = [probed EXCEPT ![i] = @ + 1]
  /\ AfterProbe
  /\ UNCHANGED seen_keys

\* Mutated form: marked instances are left out, as selection leaves them out.
Probe_skips_marked ==
  /\ task = "probing"
  /\ LET i == Head(todoInsts) IN
       /\ i \notin seen_keys
       /\ seen_keys' = seen_keys \cup {i}
       /\ IF i \in unhealthy THEN UNCHANGED <<statusVars, probed>>
          ELSE /\ IF up[i] THEN record_success(i) ELSE record_failure(i)
               /\ probed' = [probed EXCEPT ![i] = @ + 1]
  /\ AfterProbe

\* The answer, or its absence, to one GET of the health path.
Probe ==
  /\ task = "probing"
  /\ LET i == Head(todoInsts) IN
       /\ i \notin seen_keys
       /\ seen_keys' = seen_keys \cup {i}
       /\ IF up[i] THEN record_success(i) ELSE record_failure(i)
       /\ probed' = [probed EXCEPT ![i] = @ + 1]
  /\ AfterProbe

\* Mutated form: the marks are forgotten with the round.
EndRound_forgets ==
  /\ task = "resolving"
  /\ todoRoutes = <<>>
  /\ task' = "sleeping"
  /\ unhealthy' = {}
  /\ UNCHANGED <<worldVars, fail_counts, ok_counts, outcomes, todoRoutes, todoInsts,
                 seen_keys, probed>>

EndRound ==
  /\ task = "resolving"
  /\ todoRoutes = <<>>
  /\ task' = "sleeping"
  /\ UNCHANGED <<worldVars, statusVars, todoRoutes, todoInsts, seen_keys, probed>>

Task == StartRound \/ ResolveRoute \/ SkipSeen \/ Probe \/ EndRound

-----------------------------------------------------------------------------
(* The environment *)

ChangeInstance(i) ==
  /\ up' = [up EXCEPT ![i] = ~up[i]]
  /\ UNCHANGED <<listing, routes, taskVars, statusVars>>

ChangeListing(s, l) ==
  /\ listing' = [listing EXCEPT ![s] = l]
  /\ UNCHANGED <<up, routes, taskVars, statusVars>>

\* Hot reload replaces the routes of the config slot.
ReloadRoutes(rs) ==
  /\ routes' = rs
  /\ UNCHANGED <<up, listing, taskVars, statusVars>>

World ==
  \/ \E i \in Instances : ChangeInstance(i)
  \/ \E s \in Services, l \in Listings : ChangeListing(s, l)
  \/ \E rs \in RouteChoices : ReloadRoutes(rs)

HealthNext == Task \/ World

HealthSpec == HealthInit /\ [][HealthNext]_healthVars

\* The task never blocks for good: the interval is a timer, and resolve and
\* the probes run under the clients' timeouts.
FairHealthSpec == HealthSpec /\ WF_healthVars(Task)

-----------------------------------------------------------------------------
(* Properties *)

\* Types; the counters stay within their thresholds.
HealthTypeOK ==
  /\ up \in [Instances -> BOOLEAN]
  /\ listing \in [Services -> Listings]
  /\ routes \in RouteChoices
  /\ task \in {"sleeping", "resolving", "probing"}
  /\ todoRoutes \in Seq(Services)
  /\ todoInsts \in Seq(Instances)
  /\ task = "probing" => todoInsts # <<>>
  /\ seen_keys \subseteq Instances
  /\ unhealthy \subseteq Instances
  /\ fail_counts \in [Instances -> 0..unhealthy_threshold]
  /\ ok_counts \in [Instances -> 0..healthy_threshold]
  /\ outcomes \in [Instances -> Seq(BOOLEAN)]
  /\ probed \in [Instances -> Nat]

EndsWith(seq, n, ok) ==
  /\ Len(seq) >= n
  /\ \A k \in (Len(seq) - n + 1)..Len(seq) : seq[k] = ok

\* The last n probes of i all ended as `ok`.
LastAll(i, n, ok) == EndsWith(outcomes[i], n, ok)

\* Hysteresis, with nothing missed: after unhealthy_threshold failed probes
\* in a row an instance is marked, after healthy_threshold good ones it is
\* not, whatever came before and however rounds, reloads and registry
\* changes interleaved.
MarksFollowProbes ==
  \A i \in Instances :
    /\ LastAll(i, FailRun, FALSE) => i \in unhealthy
    /\ LastAll(i, OkRun, TRUE) => i \notin unhealthy

\* ... and nothing too early: a mark is set only by the probe that completes
\* a run of failures and cleared only by one that completes a run of
\* successes; a single flap, a reload or an empty registry never moves it.
MarksMoveOnRuns ==
  [][\A i \in Instances :
       /\ i \in unhealthy' \ unhealthy => LastAll(i, FailRun, FALSE)'
       /\ i \in unhealthy \ unhealthy' => LastAll(i, OkRun, TRUE)']_healthVars

\* An instance behind several routes counts once per round: seen_keys keeps
\* a shared instance from reaching its threshold in a single round.
ProbedOncePerRound == \A i \in Instances : probed[i] <= 1

\* s stays behind a route and its registry keeps listing i.
Listed(i, s) == s \in Entries(routes) /\ i \in Entries(listing[s])

\* An instance that stays down, and listed by one service of the routes, ends
\* up marked, whatever other services, routes and instances go through ...
DeadGetsMarked ==
  \A i \in Instances, s \in Services :
    <>[](~up[i] /\ Listed(i, s)) => <>[](i \in unhealthy)

\* ... and one that stays up and listed ends up unmarked.
RecoveredGetsCleared ==
  \A i \in Instances, s \in Services :
    <>[](up[i] /\ Listed(i, s)) => <>[](i \notin unhealthy)
=============================================================================
