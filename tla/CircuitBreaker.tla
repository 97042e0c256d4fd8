--------------------------- MODULE CircuitBreaker ---------------------------
(***************************************************************************)
(* CircuitBreaker (src/resilience/circuit_breaker.go), shared by callers   *)
(* whose requests overlap.  Each method runs under the breaker's mutex, so *)
(* it is one action; a request is in flight between beforeRequest and      *)
(* afterRequest.  Times are kept as seconds since the event, up to a cap   *)
(* beyond every timeout, so behaviours need no horizon.  ResetTimeout is   *)
(* given a default and never read, so it is not here.                      *)
(***************************************************************************)
EXTENDS CallerSet, Integers, FiniteSets

CONSTANTS
    ConfigMaxFailures, \* CircuitBreakerConfig.MaxFailures
    ConfigTimeout,     \* CircuitBreakerConfig.Timeout, in seconds
    DefaultMaxFailures, DefaultTimeout,
    FailureCap         \* bound: failures are counted up to this number

WithDefault(config, default) == IF config <= 0 THEN default ELSE config

MaxFailures  == WithDefault(ConfigMaxFailures, DefaultMaxFailures)
Timeout      == WithDefault(ConfigTimeout, DefaultTimeout)

\* The counter is only ever compared with MaxFailures.
ASSUME BreakerAssumption ==
    /\ ConfigMaxFailures \in Int /\ ConfigTimeout \in Int
    /\ DefaultMaxFailures \in Nat \ {0}
    /\ DefaultTimeout \in Nat \ {0}
    /\ FailureCap \in Nat /\ FailureCap >= MaxFailures

VARIABLES
    state,     \* "closed", "open" or "halfopen"
    failures,
    successes,
    sinceFail, \* seconds since lastFailTime
    sinceTry,  \* seconds since lastAttempt
    inFlight,  \* the callers whose request is between before- and afterRequest
    healthy,   \* the service has recovered for good
    streak     \* ghost: results in a row that were successes, up to 3

breakerVars == <<state, failures, successes, sinceFail, sinceTry, inFlight, healthy,
          streak>>

States == {"closed", "open", "halfopen"}
AgeCap == Timeout + 1
Older(age) == IF age < AgeCap THEN age + 1 ELSE age

BreakerInit ==
    /\ state = "closed" /\ failures = 0 /\ successes = 0
    /\ sinceFail = AgeCap /\ sinceTry = AgeCap
    /\ inFlight = {}
    /\ healthy = FALSE /\ streak = 0

BreakerTick ==
    /\ sinceFail' = Older(sinceFail)
    /\ sinceTry' = Older(sinceTry)
    /\ UNCHANGED <<state, failures, successes, inFlight, healthy, streak>>

Recover ==
    /\ ~healthy /\ healthy' = TRUE
    /\ UNCHANGED <<state, failures, successes, sinceFail, sinceTry, inFlight,
                   streak>>

-----------------------------------------------------------------------------
(* beforeRequest: one action for each way it admits a request; a rejection  *)
(* (ErrCircuitOpen, ErrTooManyRequests) changes nothing.                    *)

AdmitClosed(c) ==
    /\ c \notin inFlight /\ state = "closed"
    /\ inFlight' = inFlight \cup {c}
    /\ UNCHANGED <<state, failures, successes, sinceFail, sinceTry, healthy,
                   streak>>

\* The first request after Timeout moves the breaker to half-open.
AdmitOpen_KeepSuccesses(c) ==
    /\ c \notin inFlight /\ state = "open" /\ sinceFail > Timeout
    /\ state' = "halfopen"
    /\ sinceTry' = 0
    /\ inFlight' = inFlight \cup {c}
    /\ UNCHANGED <<failures, successes, sinceFail, healthy, streak>>
AdmitOpen(c) ==
    /\ c \notin inFlight /\ state = "open" /\ sinceFail > Timeout
    /\ state' = "halfopen" /\ successes' = 0
    /\ sinceTry' = 0
    /\ inFlight' = inFlight \cup {c}
    /\ UNCHANGED <<failures, sinceFail, healthy, streak>>

\* In half-open, one request a second.
AdmitHalfOpen(c) ==
    /\ c \notin inFlight /\ state = "halfopen" /\ sinceTry >= 1
    /\ sinceTry' = 0
    /\ inFlight' = inFlight \cup {c}
    /\ UNCHANGED <<state, failures, successes, sinceFail, healthy, streak>>

beforeRequest(c) == AdmitClosed(c) \/ AdmitOpen(c) \/ AdmitHalfOpen(c)

-----------------------------------------------------------------------------
(* afterRequest: the result counts in the state the breaker is in now.      *)

onFailure(c) ==
    /\ c \in inFlight /\ ~healthy
    /\ inFlight' = inFlight \ {c}
    /\ failures' = IF failures < FailureCap THEN failures + 1 ELSE failures
    /\ sinceFail' = 0
    /\ state' = IF state = "halfopen" \/ failures + 1 >= MaxFailures
                THEN "open" ELSE state
    /\ streak' = 0
    /\ UNCHANGED <<successes, sinceTry, healthy>>

\* The third success in half-open closes the breaker.
onSuccess_KeepFailures(c) ==
    /\ c \in inFlight
    /\ inFlight' = inFlight \ {c}
    /\ failures' = IF state = "closed" THEN 0 ELSE failures
    /\ successes' = IF state = "halfopen" THEN successes + 1 ELSE successes
    /\ state' = IF state = "halfopen" /\ successes + 1 >= 3 THEN "closed" ELSE state
    /\ UNCHANGED <<sinceFail, sinceTry, healthy, streak>>
onSuccess_Never(c) ==
    /\ c \in inFlight
    /\ inFlight' = inFlight \ {c}
    /\ failures' = IF state = "closed" THEN 0 ELSE failures
    /\ UNCHANGED <<state, successes, sinceFail, sinceTry, healthy, streak>>
onSuccess(c) ==
    /\ c \in inFlight
    /\ inFlight' = inFlight \ {c}
    /\ \/ /\ state = "closed"
          /\ failures' = 0 /\ UNCHANGED <<state, successes>>
       \/ state = "open" /\ UNCHANGED <<state, failures, successes>>
       \/ /\ state = "halfopen"
          /\ successes' = successes + 1
          /\ \/ successes' >= 3 /\ state' = "closed" /\ failures' = 0
             \/ successes' < 3 /\ UNCHANGED <<state, failures>>
    /\ streak' = IF streak < 3 THEN streak + 1 ELSE 3
    /\ UNCHANGED <<sinceFail, sinceTry, healthy>>

\* The function panics: afterRequest is not deferred and does not run.
Panic(c) ==
    /\ c \in inFlight /\ ~healthy
    /\ inFlight' = inFlight \ {c}
    /\ UNCHANGED <<state, failures, successes, sinceFail, sinceTry, healthy,
                   streak>>

BreakerReset ==
    /\ state' = "closed" /\ failures' = 0 /\ successes' = 0
    /\ UNCHANGED <<sinceFail, sinceTry, inFlight, healthy, streak>>

BreakerNext ==
    \/ BreakerTick \/ Recover \/ BreakerReset
    \/ \E c \in Callers : \/ beforeRequest(c)
                          \/ onFailure(c) \/ onSuccess(c) \/ Panic(c)

BreakerSpec == BreakerInit /\ [][BreakerNext]_breakerVars

\* Time passes, requests keep coming and their functions end.
BreakerFairSpec ==
    /\ BreakerSpec /\ WF_breakerVars(BreakerTick)
    /\ \A c \in Callers : /\ WF_breakerVars(beforeRequest(c))
                          /\ WF_breakerVars(onFailure(c) \/ onSuccess(c))

-----------------------------------------------------------------------------
(* Properties.                                                              *)

BreakerTypeOK ==
    /\ state \in States
    /\ failures \in 0..FailureCap /\ successes \in 0..3
    /\ sinceFail \in 0..AgeCap /\ sinceTry \in 0..AgeCap
    /\ inFlight \subseteq Callers
    /\ healthy \in BOOLEAN
    /\ streak \in 0..3

\* The state and the counter agree: the breaker is closed exactly while fewer
\* than MaxFailures failures are on the counter, through overlapping requests,
\* results that arrive late, panics and resets.  A breaker that closed with
\* failures left on the counter would trip again on its first failure.
ClosedIffBelowMax == state = "closed" <=> failures < MaxFailures

\* "Need 3 consecutive successes to close": the breaker leaves half-open for
\* closed only when the last three results were successes, or by Reset.
ThreeConsecutiveToClose ==
    [][state = "halfopen" /\ state' = "closed" /\ inFlight' # inFlight => streak' = 3]_breakerVars

\* Once the service has recovered the breaker closes again.
Recovers == healthy ~> state = "closed"

=============================================================================
