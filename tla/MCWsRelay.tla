------------------------------- MODULE MCWsRelay -------------------------------
(* A small instance of WsRelay for TLC. *)
EXTENDS WsRelay
=============================================================================
