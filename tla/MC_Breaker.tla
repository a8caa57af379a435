---------------------------- MODULE MC_Breaker ----------------------------
(* Model-checking instance of Breaker. *)
EXTENDS Breaker

CONSTANTS worker, request, stream

ThreeCallers == {worker, request, stream}
=============================================================================
