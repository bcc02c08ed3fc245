-------------------------- MODULE AbstractBreaker --------------------------
(***************************************************************************)
(* What the circuit breaker promises, with neither counters nor clock: a   *)
(* mode per upstream, and the requests it has let through.                 *)
(*   closed   requests pass                                                *)
(*   open     every request is refused                                     *)
(*   probing  recovery_secs have elapsed; requests pass as probes          *)
(* Only an outcome of a request that was let through moves a mode in or    *)
(* out of "closed"; time alone moves it only between open and probing.     *)
(***************************************************************************)
CONSTANTS Upstreams, Requests, NoUpstream, Immediate
          \* Immediate: recovery_secs is 0, a tripped breaker probes at once

VARIABLES mode,    \* the mode of each upstream
          flight   \* the upstream a request was let through to, or NoUpstream

abstractVars == <<mode, flight>>

Modes == {"closed", "open", "probing"}

Failed == IF Immediate THEN "probing" ELSE "open"

Init ==
  /\ mode = [u \in Upstreams |-> "closed"]
  /\ flight = [r \in Requests |-> NoUpstream]

Admit(r, u) ==
  /\ flight[r] = NoUpstream
  /\ mode[u] # "open"
  /\ flight' = [flight EXCEPT ![r] = u]
  /\ UNCHANGED mode

Succeed(r, u) ==
  /\ flight[r] = u
  /\ mode' = [mode EXCEPT ![u] = "closed"]
  /\ flight' = [flight EXCEPT ![r] = NoUpstream]

\* A failed attempt; the request may go on with another one.
Fail(r, u) ==
  /\ flight[r] = u
  /\ \E m \in {Failed} \cup ({mode[u]} \cap {"closed"}) :
       mode' = [mode EXCEPT ![u] = m]
  /\ \/ UNCHANGED flight
     \/ flight' = [flight EXCEPT ![r] = NoUpstream]

\* A request that ends without telling the breaker.
Leave(r) ==
  /\ flight' = [flight EXCEPT ![r] = NoUpstream]
  /\ UNCHANGED mode

Clock ==
  /\ mode' \in [Upstreams -> Modes]
  /\ \A u \in Upstreams : mode[u] = "closed" <=> mode'[u] = "closed"
  /\ UNCHANGED flight

Next ==
  \/ \E r \in Requests, u \in Upstreams : Admit(r, u) \/ Succeed(r, u) \/ Fail(r, u)
  \/ \E r \in Requests : Leave(r)
  \/ Clock

Spec == Init /\ [][Next]_abstractVars
=============================================================================
