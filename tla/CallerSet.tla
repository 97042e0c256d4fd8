----------------------------- MODULE CallerSet ------------------------------
(* The goroutines that share the values of src/resilience: a bulkhead, a    *)
(* circuit breaker, or an executor with both.                               *)

CONSTANT Callers
=============================================================================
