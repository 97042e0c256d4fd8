--------------------------- MODULE MCRateLimiter ----------------------------
(* A small instance of RateLimiter for TLC: one client with more requests   *)
(* than its burst, and another client.                                      *)
EXTENDS RateLimiter

CONSTANTS r1, r2, r3, ip1, ip2

MCRequests == {r1, r2, r3}
MCClientIP == [r \in MCRequests |-> IF r = r3 THEN ip2 ELSE ip1]
=============================================================================
