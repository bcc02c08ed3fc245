----------------------------- MODULE MCResolver -----------------------------
(* A small instance of Resolver for TLC. *)
EXTENDS Resolver

CONSTANTS a, b

\* Two registries of the same priority, declared after one of lower standing.
MCSources == <<2, 1, 1>>
\* The last one lists an address twice, as a registry may.
MCListings == {<<>>, <<a>>, <<b, a, b>>}
=============================================================================
