--------------------------- MODULE CircuitBreaker ---------------------------
(***************************************************************************)
(* server/circuit_breaker.rs: CircuitBreakerMap, one counter of            *)
(* consecutive failures and one opening time stamp per upstream.  Each     *)
(* operation holds the DashMap shard of its key, so it is one step.        *)
(*                                                                         *)
(* The stamp is only ever read as  now_secs() - open_since , so the model  *)
(* keeps that difference, in wall-clock seconds: it grows with the clock,  *)
(* shrinks when the clock is set back, and is 0 after a stamp.  Elapsed is *)
(* exact up to ElapsedCap, beyond which no comparison can tell two values  *)
(* apart; failures is exact up to Threshold for the same reason.           *)
(***************************************************************************)
EXTENDS Integers

CONSTANTS Upstreams,      \* upstream base URLs, the keys of the map
          Threshold,      \* circuit_breaker_threshold, 0 disables the breaker
          RecoverySecs,   \* circuit_breaker_recovery_secs
          MaxSkew         \* bound: total seconds the wall clock is set back

ASSUME BreakerAssumption ==
  /\ Threshold \in Nat
  /\ RecoverySecs \in Nat
  /\ MaxSkew \in Nat

VARIABLES failures,  \* consecutive_failures, saturated at Threshold
          elapsed,   \* now_secs() - open_since_epoch_secs, see above
          skew       \* seconds the clock has been set back so far

breakerVars == <<failures, elapsed, skew>>

\* After MaxSkew set-backs a difference of ElapsedCap still reads as recovered.
ElapsedCap == RecoverySecs + MaxSkew

\* A key without an entry behaves as a fresh entry: no failure, stamp 0.
BreakerInit ==
  /\ failures = [u \in Upstreams |-> 0]
  /\ elapsed = [u \in Upstreams |-> ElapsedCap]
  /\ skew = 0

\* saturating_sub: a stamp in the future reads as zero seconds ago.
SinceOpen(u) == IF elapsed[u] < 0 THEN 0 ELSE elapsed[u]

Tripped(u) == Threshold > 0 /\ failures[u] >= Threshold

-----------------------------------------------------------------------------
(* Mutated forms, for checking that the properties can fail. *)

\* Plain subtraction instead of saturating_sub: a future stamp reads as huge.
allow_wrapping(u) ==
  \/ Threshold = 0
  \/ failures[u] < Threshold
  \/ elapsed[u] >= RecoverySecs
  \/ elapsed[u] < 0

\* The success path forgets the counter.
record_success_no_reset(u) ==
  /\ elapsed' = IF Threshold = 0 THEN elapsed ELSE [elapsed EXCEPT ![u] = ElapsedCap]
  /\ UNCHANGED <<failures, skew>>

\* The stamp is written only by the failure that trips the breaker.
record_failure_stamp_once(u) ==
  /\ failures' = IF failures[u] < Threshold
                   THEN [failures EXCEPT ![u] = failures[u] + 1] ELSE failures
  /\ elapsed' = IF failures[u] + 1 = Threshold
                  THEN [elapsed EXCEPT ![u] = 0] ELSE elapsed
  /\ UNCHANGED skew

-----------------------------------------------------------------------------
allow(u) ==
  \/ Threshold = 0
  \/ failures[u] < Threshold
  \/ SinceOpen(u) >= RecoverySecs

\* Resets both fields; a stamp of 0 lies in the distant past.
record_success(u) ==
  /\ failures' = IF Threshold = 0 THEN failures ELSE [failures EXCEPT ![u] = 0]
  /\ elapsed' = IF Threshold = 0 THEN elapsed ELSE [elapsed EXCEPT ![u] = ElapsedCap]
  /\ UNCHANGED skew

\* Every failure at or above the threshold renews the stamp.
record_failure(u) ==
  /\ failures' = IF failures[u] < Threshold
                   THEN [failures EXCEPT ![u] = failures[u] + 1] ELSE failures
  /\ elapsed' = IF Threshold > 0 /\ failures[u] + 1 >= Threshold
                  THEN [elapsed EXCEPT ![u] = 0] ELSE elapsed
  /\ UNCHANGED skew

\* One second passes on the wall clock.
Tick ==
  /\ elapsed' = [u \in Upstreams |->
                   IF elapsed[u] < ElapsedCap THEN elapsed[u] + 1 ELSE elapsed[u]]
  /\ UNCHANGED <<failures, skew>>

\* SystemTime is not monotonic: the clock is set back by one second.
StepBack ==
  /\ skew < MaxSkew
  /\ skew' = skew + 1
  /\ elapsed' = [u \in Upstreams |-> elapsed[u] - 1]
  /\ UNCHANGED failures

BreakerTypeOK ==
  /\ failures \in [Upstreams -> 0..Threshold]
  /\ skew \in 0..MaxSkew
  /\ elapsed \in [Upstreams -> (-skew)..ElapsedCap]
=============================================================================
