--------------------------- MODULE MCUpstreamCall ---------------------------
(* Small instances of UpstreamCall for TLC. *)
EXTENDS UpstreamCall, TLC

\* The slots are interchangeable; sound for the runs without liveness.
RequestSymmetry == Permutations(Requests)
=============================================================================
