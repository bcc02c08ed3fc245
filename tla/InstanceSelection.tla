--------------------------- MODULE InstanceSelection ---------------------------
(***************************************************************************)
(* server/handlers.rs: select_service_instance, which turns the instances  *)
(* a registry answered into the one a request is sent to.  Requests select *)
(* on several threads at once: they look up the marks of health_checker.rs *)
(* one instance at a time, while the checker moves them, and they share    *)
(* one atomic counter per service.                                         *)
(***************************************************************************)
EXTENDS HealthStatus, Integers, FiniteSets

CONSTANTS Lists,      \* what resolve answers a request: non-empty sequences
          Weight,     \* the parsed `weight` metadata of an instance, 1 if none
          Modes,      \* the values of instance_selection in use
          Requests,
          WordSize,   \* 2^w: usize arithmetic wraps there
          NoInstance

ASSUME SelectionAssumption ==
  /\ Lists \subseteq Seq(Instances) \ {<<>>}
  /\ Weight \in [Instances -> Nat]
  /\ WordSize \in Nat \ {0}
  /\ NoInstance \notin Instances
  /\ Modes \subseteq {"first", "round_robin", "random", "weighted_round_robin"}

VARIABLES rr,         \* the round-robin counter of a service, 0 without an entry
          phase,      \* "idle" or "scanning"
          svc,        \* service id of the request
          list,       \* the instances it may choose from
          mode,       \* instance_selection as read from the config slot
          healthy,    \* positions of `list` found unmarked so far
          next,       \* position to look up next
          chosen,     \* the instance chosen last, NoInstance after a panic
          stayed,     \* history: the instances marked, and those unmarked,
                      \* ever since the request began to select
          share       \* history: the counted selections of a service over the
                      \* same candidates in the same mode

requestVars == <<phase, svc, list, mode, healthy, next, chosen, stayed>>
selectionVars == <<unhealthy, rr, phase, svc, list, mode, healthy, next, chosen,
                   stayed, share>>

NoShare == [cands |-> <<>>, mode |-> "first", picks |-> <<>>]

SelectionInit ==
  /\ unhealthy = {}
  /\ rr = [s \in Services |-> 0]
  /\ phase = [r \in Requests |-> "idle"]
  /\ svc \in [Requests -> Services]
  /\ list = [r \in Requests |-> <<>>]
  /\ mode = [r \in Requests |-> "first"]
  /\ healthy = [r \in Requests |-> <<>>]
  /\ next = [r \in Requests |-> 1]
  /\ chosen = [r \in Requests |-> NoInstance]
  /\ stayed = [r \in Requests |-> [marked |-> {}, clear |-> {}]]
  /\ share = [s \in Services |-> NoShare]

-----------------------------------------------------------------------------
Cand(r, k) == list[r][k]

\* Mutated form: the marks are not consulted.
Candidates_all(r) == [k \in 1..Len(list[r]) |-> k]

\* Only a proper, non-empty part of the list replaces the list.
Candidates(r) ==
  IF healthy[r] # <<>> /\ Len(healthy[r]) < Len(list[r])
  THEN healthy[r] ELSE [k \in 1..Len(list[r]) |-> k]

WeightAt(r, k) == IF Weight[Cand(r, k)] = 0 THEN 1 ELSE Weight[Cand(r, k)]

\* The weights of the candidates added up from the first one; the sum over
\* usize wraps in a release build.
Cumulative(r) ==
  LET cum[n \in 0..Len(Candidates(r))] ==
        IF n = 0 THEN 0 ELSE (cum[n - 1] + WeightAt(r, Candidates(r)[n])) % WordSize
  IN cum

Total(r) == Cumulative(r)[Len(Candidates(r))]

-----------------------------------------------------------------------------
(* Mutated forms, for checking that the properties can fail. *)

\* idx <= cumulative
PickWeighted_off_by_one(r) ==
  LET n == Len(Candidates(r))
      c == rr[svc[r]] % Total(r)
      hits == {k \in 1..n : c <= Cumulative(r)[k]}
  IN IF hits = {} THEN n ELSE CHOOSE k \in hits : \A h \in hits : k <= h

-----------------------------------------------------------------------------
\* The first candidate whose cumulative weight exceeds the counter, else the last.
PickWeighted(r) ==
  LET n == Len(Candidates(r))
      c == rr[svc[r]] % Total(r)
      hits == {k \in 1..n : c < Cumulative(r)[k]}
  IN IF hits = {} THEN n ELSE CHOOSE k \in hits : \A h \in hits : k <= h

\* fetch_add(1): atomic, wrapping.
CountUp(s) == rr' = [rr EXCEPT ![s] = (rr[s] + 1) % WordSize]

\* The places among the candidates a mode may pick; none is `% 0`, a panic.
Places(r) ==
  LET n == Len(Candidates(r)) IN
  CASE mode[r] = "first" -> {1}
    [] mode[r] = "random" -> 1..n
    [] mode[r] = "round_robin" -> {(rr[svc[r]] % n) + 1}
    [] mode[r] = "weighted_round_robin" -> IF Total(r) = 0 THEN {} ELSE {PickWeighted(r)}

Counted(r) == mode[r] \in {"round_robin", "weighted_round_robin"}

\* One selection more, or the first of a new run of like selections; the
\* counter's way through zero starts a new run as well.
Extend(r, place) ==
  LET s == svc[r]
      cands == [k \in 1..Len(Candidates(r)) |-> Cand(r, Candidates(r)[k])]
      like == share[s].cands = cands /\ share[s].mode = mode[r] /\ rr[s] # 0
      before == IF ~like THEN <<>>
                ELSE IF Len(share[s].picks) < WordSize THEN share[s].picks
                ELSE Tail(share[s].picks)
  IN share' = [share EXCEPT ![s] = [cands |-> cands, mode |-> mode[r],
                                    picks |-> Append(before, place)]]

-----------------------------------------------------------------------------
(* Requests *)

\* resolve answered l; instance_selection is read from the config slot.
Begin(r, s, l, m) ==
  /\ phase[r] = "idle"
  /\ phase' = [phase EXCEPT ![r] = "scanning"]
  /\ svc' = [svc EXCEPT ![r] = s]
  /\ list' = [list EXCEPT ![r] = l]
  /\ mode' = [mode EXCEPT ![r] = m]
  /\ chosen' = [chosen EXCEPT ![r] = NoInstance]
  /\ stayed' = [stayed EXCEPT ![r] = [marked |-> Entries(l) \cap unhealthy,
                                      clear |-> Entries(l) \ unhealthy]]
  /\ UNCHANGED <<unhealthy, rr, healthy, next, share>>

\* is_healthy of one instance of the list.
LookUp(r) ==
  /\ phase[r] = "scanning"
  /\ next[r] <= Len(list[r])
  /\ next' = [next EXCEPT ![r] = next[r] + 1]
  /\ healthy' = IF is_healthy(Cand(r, next[r]))
                THEN [healthy EXCEPT ![r] = Append(healthy[r], next[r])] ELSE healthy
  /\ UNCHANGED <<unhealthy, rr, phase, svc, list, mode, chosen, stayed, share>>

Finish(r, outcome) ==
  /\ phase' = [phase EXCEPT ![r] = "idle"]
  /\ chosen' = [chosen EXCEPT ![r] = outcome]
  /\ list' = [list EXCEPT ![r] = <<>>]
  /\ healthy' = [healthy EXCEPT ![r] = <<>>]
  /\ next' = [next EXCEPT ![r] = 1]
  /\ mode' = [mode EXCEPT ![r] = "first"]
  /\ stayed' = [stayed EXCEPT ![r] = [marked |-> {}, clear |-> {}]]
  /\ UNCHANGED <<unhealthy, svc>>

\* The counter has moved on when `% total` panics.
Select(r) ==
  /\ phase[r] = "scanning"
  /\ next[r] > Len(list[r])
  /\ \/ \E place \in Places(r) :
          /\ Finish(r, Cand(r, Candidates(r)[place]))
          /\ IF Counted(r) THEN Extend(r, place) ELSE UNCHANGED share
     \/ /\ Places(r) = {}
        /\ Finish(r, NoInstance)
        /\ share' = [share EXCEPT ![svc[r]] = NoShare]
  /\ IF Counted(r) THEN CountUp(svc[r]) ELSE UNCHANGED rr

SelectionStep(r) == LookUp(r) \/ Select(r)

\* What remains true of the marks of instances since each request began.
Observe ==
  stayed' = [r \in Requests |-> [marked |-> stayed[r].marked \cap unhealthy',
                                 clear |-> stayed[r].clear \ unhealthy']]

\* The checker marks or clears an instance.
MoveMark(i) ==
  /\ unhealthy' = IF i \in unhealthy THEN unhealthy \ {i} ELSE unhealthy \cup {i}
  /\ Observe
  /\ UNCHANGED <<rr, phase, svc, list, mode, healthy, next, chosen, share>>

SelectionNext ==
  \/ \E r \in Requests : SelectionStep(r)
  \/ \E r \in Requests, s \in Services, l \in Lists, m \in Modes : Begin(r, s, l, m)
  \/ \E i \in Instances : MoveMark(i)

SelectionSpec == SelectionInit /\ [][SelectionNext]_selectionVars

-----------------------------------------------------------------------------
(* Properties *)

\* The step that ends a selection.
Picks(r) == phase[r] = "scanning" /\ phase'[r] = "idle"

\* Whatever the checker does during the scan, a request is not sent to an
\* instance marked all the while if its list holds one unmarked all the while.
AvoidsMarked ==
  [][\A r \in Requests :
       Picks(r) /\ stayed[r].clear # {} => chosen'[r] \notin stayed[r].marked]_selectionVars

ShareOf(s, k) ==
  IF share[s].mode = "round_robin" \/ Weight[share[s].cands[k]] = 0 THEN 1
  ELSE Weight[share[s].cands[k]]

\* The shares of the first k candidates.
Shares(s) ==
  LET sum[k \in 0..Len(share[s].cands)] == IF k = 0 THEN 0 ELSE sum[k - 1] + ShareOf(s, k)
  IN sum

Cycle(s) == Shares(s)[Len(share[s].cands)]

PickedLast(s, n, k) ==
  LET picks == share[s].picks IN
  Cardinality({j \in (Len(picks) - n + 1)..Len(picks) : picks[j] = k})

\* In round robin every candidate gets its turn, in weighted round robin its
\* weight, in each run of as many selections as a full cycle has, however
\* many requests select at once (until the counter wraps).
FairShare ==
  \A s \in Services :
    Len(share[s].picks) >= Cycle(s) =>
      \A k \in 1..Len(share[s].cands) : PickedLast(s, Cycle(s), k) = ShareOf(s, k)

=============================================================================
