----------------------------- MODULE MCExecutor -----------------------------
(* A small instance of Executor for TLC.                                    *)
EXTENDS Executor
=============================================================================
