------------------------ MODULE MCHealthAwareSelection ------------------------
(* A small instance of HealthAwareSelection for TLC. *)
EXTENDS HealthAwareSelection

CONSTANTS i1, i2, s1

MCListings == {<<>>, <<i1, i2>>}
MCLists == {<<i1, i2>>}
MCRoutes == {<<s1>>}
MCWeights == [i \in Instances |-> 1]
=============================================================================
