--------------------------- MODULE MCHealthChecker ---------------------------
(* Small instances of HealthChecker for TLC. *)
EXTENDS HealthChecker

CONSTANTS i1, i2, s1, s2

\* Both services may list the same instance.
MCListings == {<<>>, <<i1>>, <<i2, i1>>}
MCRoutes == {<<s1, s2>>, <<s2>>}
=============================================================================
