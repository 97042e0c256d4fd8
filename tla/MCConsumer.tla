----------------------------- MODULE MCConsumer -----------------------------
(* Small instances of IdempotentConsumer for TLC.                           *)
EXTENDS IdempotentConsumer, TLC

\* Neither workers nor messages are told apart, and no run on this module
\* checks liveness.
Symmetry == Permutations(Workers) \cup Permutations(Msgs)
=============================================================================
