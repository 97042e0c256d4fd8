---------------------------- MODULE RateLimiter -----------------------------
(***************************************************************************)
(* RateLimiter and EndpointRateLimiter (src/middleware/ratelimit.go) for   *)
(* one endpoint.  Every Configure makes a limiter with a cleanup goroutine *)
(* and puts it in the map; a limiter holds a token bucket per client IP,   *)
(* and a cleanup drops its buckets.  A request keeps the limiter and the   *)
(* bucket it has read while the maps change under it.                      *)
(*                                                                         *)
(* The clock ticks every 10 seconds and tokens are counted in sixths, so   *)
(* requestsPerMinute is the number of sixths a bucket gains in a tick.     *)
(***************************************************************************)
EXTENDS Integers, FiniteSets

CONSTANTS
    Requests,       \* HTTP requests to the endpoint
    ClientIP,       \* the IP of each request
    ConfiguredRPM, ConfiguredBurst, \* Configure at start-up
    DefaultRPM,     \* the default Limit applies
    MaxTime,        \* bound: ticks
    MaxCleanups     \* bound: cleanups of one limiter

ASSUME RateLimiterAssumption ==
    /\ ConfiguredRPM \in Nat /\ DefaultRPM \in Nat
    /\ ConfiguredBurst \in Nat
    /\ MaxTime \in Nat /\ MaxCleanups \in Nat
    /\ IsFiniteSet(Requests)

IPs == {ClientIP[r] : r \in Requests}
Token == 6

\* At most one limiter from start-up and one per request.
Limiters == 1..(Cardinality(Requests) + 1)
Generations == 0..MaxCleanups
Buckets == Limiters \X Generations \X IPs

VARIABLES
    configured, \* the endpoint was configured at start-up
    now,
    made,       \* limiters made so far; the map holds the last one
    gen,        \* per limiter: the maps of buckets dropped so far
    running,    \* the limiters whose cleanup goroutine runs
    done,       \* the limiters whose channel is closed
    shutdown,   \* Shutdown was called
    bucket,     \* the buckets that exist
    tokens,     \* per bucket
    served, refused, \* ghosts, per limiter, generation and client: answers
    pc,         \* per request: its step in Limit
    limiter, ipLimiter \* per request: the limiter and the bucket it has read

limiterVars == <<configured, made, gen, running, done, shutdown>>
vars ==
    <<limiterVars, now, bucket, tokens, served, refused, pc, limiter, ipLimiter>>

\* rps is at least 0.1
Rate ==
    LET rpm == IF configured THEN ConfiguredRPM ELSE DefaultRPM
    IN  IF rpm < Token THEN Token ELSE rpm
Burst == IF configured THEN ConfiguredBurst ELSE DefaultRPM \div 10 + 1

Init ==
    /\ configured \in BOOLEAN
    /\ now = 0
    /\ made = IF configured THEN 1 ELSE 0
    /\ running = 1..made
    /\ gen = [l \in Limiters |-> 0]
    /\ done = {} /\ shutdown = FALSE
    /\ bucket = {}
    /\ tokens = [b \in Buckets |-> 0]
    /\ served = [b \in Buckets |-> 0]
    /\ refused = [b \in Buckets |-> 0]
    /\ pc = [r \in Requests |-> "arrive"]
    /\ limiter = [r \in Requests |-> 0]
    /\ ipLimiter = [r \in Requests |-> <<>>]

-----------------------------------------------------------------------------
(* Limit                                                                    *)

\* The first read of the map.
Lookup_NotChecked(r) ==
    /\ pc[r] = "arrive"
    /\ pc' = [pc EXCEPT ![r] = "configure"]
    /\ UNCHANGED <<limiterVars, now, bucket, tokens, served, refused, limiter, ipLimiter>>
Lookup(r) ==
    /\ pc[r] = "arrive"
    /\ pc' = [pc EXCEPT ![r] = IF made = 0 THEN "configure" ELSE "get"]
    /\ limiter' = [limiter EXCEPT ![r] = made]
    /\ UNCHANGED <<limiterVars, now, bucket, tokens, served, refused, ipLimiter>>

\* Configure replaces whatever the map holds; its limiter's goroutine starts.
Configure(r) ==
    /\ pc[r] = "configure"
    /\ made' = made + 1
    /\ running' = running \cup {made'}
    /\ pc' = [pc EXCEPT ![r] = "reread"]
    /\ UNCHANGED <<configured, gen, done, shutdown, now, bucket, tokens, served,
                   refused, limiter, ipLimiter>>

Reread(r) ==
    /\ pc[r] = "reread"
    /\ limiter' = [limiter EXCEPT ![r] = made]
    /\ pc' = [pc EXCEPT ![r] = "get"]
    /\ UNCHANGED <<limiterVars, now, bucket, tokens, served, refused, ipLimiter>>

\* A new rate.Limiter is full.
getLimiter_Shared(r) ==
    LET b == <<limiter[r], gen[limiter[r]], CHOOSE ip \in IPs : TRUE>> IN
    /\ pc[r] = "get"
    /\ bucket' = bucket \cup {b}
    /\ tokens' = IF b \in bucket THEN tokens ELSE [tokens EXCEPT ![b] = Token * Burst]
    /\ ipLimiter' = [ipLimiter EXCEPT ![r] = b]
    /\ pc' = [pc EXCEPT ![r] = "allow"]
    /\ UNCHANGED <<limiterVars, now, served, refused, limiter>>
getLimiter_Refills(r) ==
    LET b == <<limiter[r], gen[limiter[r]], ClientIP[r]>> IN
    /\ pc[r] = "get"
    /\ bucket' = bucket \cup {b}
    /\ tokens' = [tokens EXCEPT ![b] = Token * Burst]
    /\ ipLimiter' = [ipLimiter EXCEPT ![r] = b]
    /\ pc' = [pc EXCEPT ![r] = "allow"]
    /\ UNCHANGED <<limiterVars, now, served, refused, limiter>>
getLimiter(r) ==
    LET b == <<limiter[r], gen[limiter[r]], ClientIP[r]>> IN
    /\ pc[r] = "get"
    /\ bucket' = bucket \cup {b}
    /\ tokens' = IF b \in bucket THEN tokens ELSE [tokens EXCEPT ![b] = Token * Burst]
    /\ ipLimiter' = [ipLimiter EXCEPT ![r] = b]
    /\ pc' = [pc EXCEPT ![r] = "allow"]
    /\ UNCHANGED <<limiterVars, now, served, refused, limiter>>

\* rate.Limiter.Allow, then the handler or 429.
Allow(r) ==
    LET b == ipLimiter[r]
        client == <<b[1], b[2], ClientIP[r]>> IN
    /\ pc[r] = "allow"
    /\ \/ /\ tokens[b] >= Token
          /\ tokens' = [tokens EXCEPT ![b] = @ - Token]
          /\ served' = [served EXCEPT ![client] = @ + 1] /\ UNCHANGED refused
       \/ /\ tokens[b] < Token
          /\ refused' = [refused EXCEPT ![client] = @ + 1] /\ UNCHANGED <<tokens, served>>
    /\ pc' = [pc EXCEPT ![r] = "done"]
    /\ UNCHANGED <<limiterVars, now, bucket, limiter, ipLimiter>>

-----------------------------------------------------------------------------
(* The goroutines of CleanupLimiters, and Shutdown.                         *)

\* The ticker of a limiter fires.
Cleanup(l) ==
    /\ l \in running /\ gen[l] < MaxCleanups
    /\ gen' = [gen EXCEPT ![l] = @ + 1]
    /\ UNCHANGED <<configured, made, running, done, shutdown, now, bucket, tokens,
                   served, refused, pc, limiter, ipLimiter>>

CleanupExit(l) ==
    /\ l \in running \cap done
    /\ running' = running \ {l}
    /\ UNCHANGED <<configured, made, gen, done, shutdown, now, bucket, tokens,
                   served, refused, pc, limiter, ipLimiter>>

\* The limiters in the map are shut down; a second call would panic.
Shutdown ==
    /\ ~shutdown /\ shutdown' = TRUE
    /\ done' = {l \in Limiters : l = made}
    /\ UNCHANGED <<configured, made, gen, running, now, bucket, tokens, served,
                   refused, pc, limiter, ipLimiter>>

Refill(t) == IF t + Rate < Token * Burst THEN t + Rate ELSE Token * Burst

Tick ==
    /\ now < MaxTime /\ now' = now + 1
    /\ tokens' = [b \in Buckets |-> IF b \in bucket THEN Refill(tokens[b]) ELSE tokens[b]]
    /\ UNCHANGED <<limiterVars, bucket, served, refused, pc, limiter, ipLimiter>>

RequestStep(r) ==
    Lookup(r) \/ Configure(r) \/ Reread(r) \/ getLimiter(r) \/ Allow(r)

Next ==
    \/ Tick \/ Shutdown
    \/ \E r \in Requests : RequestStep(r)
    \/ \E l \in Limiters : Cleanup(l) \/ CleanupExit(l)

Spec == Init /\ [][Next]_vars

\* A goroutine whose channel is closed is scheduled and leaves.
FairSpec == Spec /\ \A l \in Limiters : WF_vars(CleanupExit(l))

-----------------------------------------------------------------------------
(* Properties.                                                              *)

TypeOK ==
    /\ configured \in BOOLEAN /\ shutdown \in BOOLEAN
    /\ now \in 0..MaxTime
    /\ made \in Limiters \cup {0}
    /\ gen \in [Limiters -> Generations]
    /\ running \subseteq Limiters /\ done \subseteq Limiters
    /\ bucket \subseteq Buckets
    /\ tokens \in [Buckets -> Nat]
    /\ served \in [Buckets -> Nat]
    /\ refused \in [Buckets -> Nat]
    /\ pc \in [Requests -> {"arrive", "configure", "reread", "get", "allow", "done"}]
    /\ limiter \in [Requests -> Limiters \cup {0}]
    /\ ipLimiter \in [Requests -> Buckets \cup {<<>>}]

\* Requests of a client that were served: how many from each of its buckets.
ServedFrom(b) == {b} \X (1..served[b])
Served(ip) == Cardinality(UNION {ServedFrom(b) : b \in {x \in Buckets : x[3] = ip}})

\* The maps of buckets so far: a limiter starts with one and every cleanup
\* replaces it by another.
Maps == {m \in Limiters \X Generations : m[1] <= made /\ m[2] <= gen[m[1]]}
Budgets == Cardinality(Maps)

\* A client gets no more than its budget, a burst and the refill since, once
\* for every limiter that concurrent first requests put in the map and for
\* every cleanup: no other interleaving of lookups, configurations, cleanups
\* and late Allow calls on a dropped bucket gives it a fresh bucket.
ClientBudget ==
    \A ip \in IPs : Token * Served(ip) <= Budgets * (Token * Burst + Rate * now)

\* 429 answers only a client that spent its own burst: whatever other clients
\* do, and whatever the maps went through, Allow refuses on a bucket only
\* after Burst requests of the same client were served from it.
RefusedSpentItsBurst ==
    \A b \in Buckets : refused[b] > 0 => served[b] >= Burst

\* "Shutdown gracefully stops all endpoint limiters": no cleanup goroutine is
\* left of an endpoint that was configured at start-up, however its requests
\* interleave with Shutdown, nor of one whose only limiter was made by a
\* request that raced with no other.  (When first requests race, the limiter
\* that a later Configure replaced is out of Shutdown's reach, as is one that
\* a request makes after it.)
ShutdownStopsAll ==
    /\ shutdown
    /\ \/ configured
       \/ made = 1 /\ 1 \in done /\ \A r \in Requests : pc[r] # "configure"
    ~> running = {}

\* "3 per minute, burst 1": a client of a configured endpoint is served its
\* burst and, in every 10 seconds, a sixth of its requests per minute.
PerMinuteQuota ==
    configured =>
        \A ip \in IPs :
            Token * Served(ip) <= Budgets * (Token * ConfiguredBurst + ConfiguredRPM * now)

=============================================================================
