----------------------------- MODULE MCRedisLock -----------------------------
(* Small instances of RedisLock for TLC.                                    *)
EXTENDS RedisLock, TLC

Symmetry == Permutations(Locks)
=============================================================================
