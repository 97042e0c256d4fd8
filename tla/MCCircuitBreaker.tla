-------------------------- MODULE MCCircuitBreaker --------------------------
(* A small instance of CircuitBreaker for TLC.  It checks liveness, so the  *)
(* callers are not declared symmetric.                                      *)
EXTENDS CircuitBreaker, TLC
=============================================================================
