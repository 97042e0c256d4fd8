------------------------------ MODULE Executor ------------------------------
(***************************************************************************)
(* Executor.ExecuteWithContext (src/resilience/executor.go): a bulkhead    *)
(* around a circuit breaker around Retry (src/resilience/retry.go) around  *)
(* the caller's function, each part optional.  The bulkhead and the        *)
(* breaker are the components' own modules.  Without the other two parts   *)
(* this is a Retry used alone; with a grouped bulkhead it is a bulkhead    *)
(* used alone.  The length of a backoff is left to the scheduler.          *)
(***************************************************************************)
EXTENDS Bulkhead, CircuitBreaker

CONSTANTS ConfigMaxAttempts, DefaultMaxAttempts \* of RetryConfig

ASSUME ExecutorAssumption ==
    /\ ConfigMaxAttempts \in Int
    /\ DefaultMaxAttempts \in Nat \ {0}

VARIABLES
    parts,     \* the parts of the executor that are enabled
    selective, \* RetryConfig.RetryableErrors is not empty
    phase,     \* per caller: its step inside the bulkhead
    attempt,   \* per caller: the attempts the running loop has started
    overrun    \* ghost: attempts started since the breaker last opened

config == <<parts, selective>>
vars == <<bulkheadVars, breakerVars, config, phase, attempt, overrun>>

Phases == {"out", "check", "run", "delay", "succeeded", "failed", "end"}

MaxAttempts ==
    IF ~parts.retry THEN 1
    ELSE IF ConfigMaxAttempts <= 0 THEN DefaultMaxAttempts ELSE ConfigMaxAttempts

Init ==
    /\ BulkheadInit /\ BreakerInit
    /\ parts \in [bulkhead : BOOLEAN, breaker : BOOLEAN, retry : BOOLEAN]
    /\ grouped => parts = [bulkhead |-> TRUE, breaker |-> FALSE, retry |-> FALSE]
    /\ waiting => parts.bulkhead
    /\ selective \in BOOLEAN
    /\ selective => parts = [bulkhead |-> FALSE, breaker |-> FALSE, retry |-> TRUE]
    /\ phase = [c \in Callers |-> "out"]
    /\ attempt = [c \in Callers |-> 0]
    /\ overrun = 0

\* The ghost counts from the step that opens the breaker.
Counting(started) ==
    overrun' = IF state' = "open" THEN overrun + started ELSE 0

Goes(c, to) == phase' = [phase EXCEPT ![c] = to]

-----------------------------------------------------------------------------
(* Time and the breaker's Reset.                                            *)

Tick ==
    /\ parts.breaker /\ BreakerTick
    /\ UNCHANGED <<bulkheadVars, config, phase, attempt, overrun>>

Reset ==
    /\ parts.breaker /\ BreakerReset /\ Counting(0)
    /\ UNCHANGED <<bulkheadVars, config, phase, attempt>>

-----------------------------------------------------------------------------
(* The bulkhead, outermost: what it runs ends when the breaker returns or   *)
(* a panic passes through it.                                               *)

InBulkhead(c) ==
    /\ parts.bulkhead
    /\ \/ Acquire(c) \/ CtxDone(c) \/ Release(c)
       \/ FnEnds(c) /\ phase[c] = "end"
    /\ UNCHANGED <<waiting, grouped, breakerVars, config, phase, attempt, overrun>>

\* The functions inside run once the slot is taken, or at once.
Entered(c) == phase[c] = "out" /\ (parts.bulkhead => st[c] = "in")

-----------------------------------------------------------------------------
(* The circuit breaker.                                                     *)

BeforeRequest(c) ==
    /\ Entered(c)
    /\ IF parts.breaker THEN beforeRequest(c) ELSE UNCHANGED breakerVars
    /\ Goes(c, "check") /\ Counting(0)
    /\ UNCHANGED <<bulkheadVars, config, attempt>>

\* ErrCircuitOpen, ErrTooManyRequests
Rejected_WaitsInHalfOpen(c) ==
    /\ Entered(c) /\ parts.breaker
    /\ state = "open" /\ sinceFail <= Timeout
    /\ Goes(c, "end")
    /\ UNCHANGED <<bulkheadVars, breakerVars, config, attempt, overrun>>
Rejected(c) ==
    /\ Entered(c) /\ parts.breaker
    /\ \/ state = "open" /\ sinceFail <= Timeout
       \/ state = "halfopen" /\ sinceTry < 1
    /\ Goes(c, "end")
    /\ UNCHANGED <<bulkheadVars, breakerVars, config, attempt, overrun>>

\* One result for the whole of Retry.
AfterRequest(c) ==
    /\ phase[c] \in {"succeeded", "failed"}
    /\ IF ~parts.breaker THEN UNCHANGED breakerVars
       ELSE IF phase[c] = "succeeded" THEN onSuccess(c)
       ELSE onFailure(c)
    /\ Goes(c, "end") /\ Counting(0)
    /\ UNCHANGED <<bulkheadVars, config, attempt>>

-----------------------------------------------------------------------------
(* Retry.ExecuteWithContext: the loop of attempts.  A context that is done  *)
(* shows at the first select that looks at it, and ends the call there.     *)

Returns(c, outcome) ==
    /\ Goes(c, outcome)
    /\ attempt' = [attempt EXCEPT ![c] = 0]

\* The select before an attempt; without Retry the function just runs.
Attempt(c) ==
    /\ phase[c] = "check" /\ UNCHANGED breakerVars
    /\ \/ parts.retry /\ Returns(c, "failed") /\ Counting(0)
       \/ /\ Goes(c, "run") /\ attempt' = [attempt EXCEPT ![c] = @ + 1]
          /\ Counting(1)
    /\ UNCHANGED <<bulkheadVars, config>>

isRetryable(err) == ~selective \/ err = "listed"

\* The function returns; "other" is an error not among RetryableErrors.
FnReturns_OneMore(c) ==
    /\ phase[c] = "run"
    /\ \/ Returns(c, "succeeded")
       \/ \E err \in {"listed", "other"} :
              IF isRetryable(err) /\ attempt[c] # MaxAttempts + 1
              THEN Goes(c, "delay") /\ UNCHANGED attempt
              ELSE Returns(c, "failed")
    /\ UNCHANGED <<bulkheadVars, breakerVars, config, overrun>>
FnReturns(c) ==
    /\ phase[c] = "run"
    /\ \/ Returns(c, "succeeded")
       \/ \E err \in {"listed", "other"} :
              IF isRetryable(err) /\ attempt[c] # MaxAttempts
              THEN Goes(c, "delay") /\ UNCHANGED attempt
              ELSE Returns(c, "failed")
    /\ UNCHANGED <<bulkheadVars, breakerVars, config, overrun>>

\* The function panics: of the three, only the bulkhead's release is deferred.
FnPanics(c) ==
    /\ phase[c] = "run"
    /\ IF parts.breaker THEN Panic(c) ELSE UNCHANGED breakerVars
    /\ Returns(c, "end")
    /\ UNCHANGED <<bulkheadVars, config, overrun>>

\* The select between ctx.Done and the backoff.
Delay(c) ==
    /\ phase[c] = "delay"
    /\ \/ Goes(c, "check") /\ UNCHANGED attempt
       \/ Returns(c, "failed")
    /\ UNCHANGED <<bulkheadVars, breakerVars, config, overrun>>

Step(c) ==
    \/ InBulkhead(c) \/ BeforeRequest(c) \/ Rejected(c) \/ AfterRequest(c)
    \/ Attempt(c) \/ FnReturns(c) \/ FnPanics(c) \/ Delay(c)

Next == Tick \/ Reset \/ \E c \in Callers : Step(c)

Spec == Init /\ [][Next]_vars

\* Goroutines run, functions end and timers fire.
FairSpec == Spec /\ \A c \in Callers : WF_vars(Step(c))

-----------------------------------------------------------------------------
(* Properties.                                                              *)

TypeOK ==
    /\ parts \in [bulkhead : BOOLEAN, breaker : BOOLEAN, retry : BOOLEAN]
    /\ st \in [Callers -> Steps]
    /\ handle \in [Callers -> Bulkheads \cup {0}]
    /\ created \in Bulkheads \cup {0}
    /\ sem \in [Bulkheads -> 0..MaxConcurrent]
    /\ active \in [Bulkheads -> Nat]
    /\ rejected \in [Bulkheads -> Nat] /\ total \in [Bulkheads -> Nat]
    /\ gone \in [Bulkheads -> Nat]
    /\ BreakerTypeOK
    /\ phase \in [Callers -> Phases]
    /\ attempt \in [Callers -> 0..MaxAttempts]
    /\ overrun \in Nat

\* The bulkhead "limits the number of concurrent calls to a resource": no
\* more than MaxConcurrent callers are inside it, with a function running or
\* between two attempts, also when several goroutines ask the group for the
\* name before it exists.
ConcurrencyLimit ==
    parts.bulkhead =>
        Cardinality({c \in Callers : st[c] = "in"}) <= MaxConcurrent

\* No slot leaks and every call is accounted for: once the callers of a
\* bulkhead have returned, by whatever path (a rejection of the bulkhead or
\* the breaker, a timeout, the last attempt, a cancelled context, a panic),
\* its slots are free, its counter is back to zero, and each call was served,
\* rejected or cancelled.
NothingLeaks ==
    \A b \in Bulkheads :
        (\A c \in Callers : handle[c] = b => st[c] \in {"call", "done"}) =>
            sem[b] = 0 /\ active[b] = 0 /\ total[b] = rejected[b] + gone[b]

\* "Circuit Breaker -> Retry": the breaker is asked once per call, not per
\* attempt, so calls it let in go on retrying after it opens.  The bulkhead
\* bounds what still reaches the service: the attempts of the callers that
\* were inside with the one whose failure opened the breaker.
OverrunIsBounded ==
    parts.bulkhead /\ parts.breaker =>
        overrun <= (MaxConcurrent - 1) * MaxAttempts

\* Every call returns: no caller waits for a slot, a permission or a backoff
\* for ever, and the slots held through backoffs are given back.
CallReturns ==
    \A c \in Callers :
        <>(IF parts.bulkhead THEN st[c] = "done" ELSE phase[c] = "end")

=============================================================================
