----------------------------- MODULE HealthStatus -----------------------------
(***************************************************************************)
(* server/health_checker.rs: HealthStatus, what the health checker and the *)
(* requests share: the marks.                                              *)
(***************************************************************************)
EXTENDS Sequences, Naturals

CONSTANTS Services,  \* service ids
          Instances  \* host:port keys

VARIABLE unhealthy  \* the marks

is_healthy(i) == i \notin unhealthy

Entries(seq) == {seq[k] : k \in 1..Len(seq)}
=============================================================================
