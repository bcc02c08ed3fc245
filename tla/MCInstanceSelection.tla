------------------------- MODULE MCInstanceSelection -------------------------
(* A small instance of InstanceSelection for TLC. *)
EXTENDS InstanceSelection, TLC

CONSTANTS i1, i2

\* Weights add up to 3, and to WordSize = 4 where a registry lists i1 twice.
MCLists == {<<i1, i2>>, <<i1, i1>>}
MCWeights == [i \in Instances |-> IF i = i1 THEN 2 ELSE 0]
SelectionSymmetry == Permutations(Requests)
=============================================================================
