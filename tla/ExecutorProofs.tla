--------------------------- MODULE ExecutorProofs ---------------------------
(***************************************************************************)
(* Proofs about CircuitBreaker, Bulkhead and the Executor that composes    *)
(* them with Retry, for any finite set of callers and any configuration.   *)
(***************************************************************************)
EXTENDS Executor, FiniteSetTheorems, TLAPS

-----------------------------------------------------------------------------
(* The circuit breaker, used alone.                                         *)

\* NewCircuitBreaker leaves no limit at zero.
LEMMA Limits ==
    /\ MaxFailures \in Nat \ {0} /\ Timeout \in Nat \ {0}
    /\ AgeCap \in Nat /\ FailureCap \in Nat /\ FailureCap >= MaxFailures
  BY BreakerAssumption DEF MaxFailures, Timeout, WithDefault, AgeCap

\* In half-open the counter is below three and counts successes in a row.
HalfOpenInv ==
    state = "halfopen" => /\ successes < 3
                          /\ successes <= streak

BreakerInv == BreakerTypeOK /\ ClosedIffBelowMax /\ HalfOpenInv

\* The breaker's invariant holds initially.
LEMMA BreakerInvInit == BreakerInit => BreakerInv
  <1> SUFFICES ASSUME BreakerInit PROVE BreakerInv
    OBVIOUS
  <1>1. BreakerTypeOK
    <2>1. AgeCap \in 0..AgeCap /\ 0 \in 0..FailureCap
      BY Limits
    <2>2. healthy \in BOOLEAN /\ inFlight \subseteq Callers
      BY Zenon DEF BreakerInit
    <2> QED
      BY <2>1, <2>2 DEF BreakerInit, BreakerTypeOK, States
  <1>2. ClosedIffBelowMax /\ HalfOpenInv
    BY Limits DEF BreakerInit, ClosedIffBelowMax, HalfOpenInv
  <1> QED
    BY <1>1, <1>2 DEF BreakerInv

\* Every step of the breaker preserves its invariant.
LEMMA BreakerInvNext == BreakerInv /\ [BreakerNext]_breakerVars => BreakerInv'
  <1> SUFFICES ASSUME BreakerInv, [BreakerNext]_breakerVars PROVE BreakerInv'
    OBVIOUS
  <1> USE Limits DEF BreakerInv, BreakerTypeOK, ClosedIffBelowMax, HalfOpenInv,
                     States
  <1>1. CASE BreakerTick
    BY <1>1 DEF BreakerTick, Older
  <1>2. CASE Recover
    BY <1>2 DEF Recover
  <1>3. CASE BreakerReset
    BY <1>3 DEF BreakerReset
  <1>4. ASSUME NEW c \in Callers, AdmitClosed(c) PROVE BreakerInv'
    BY <1>4 DEF AdmitClosed
  <1>5. ASSUME NEW c \in Callers, AdmitOpen(c) PROVE BreakerInv'
    BY <1>5 DEF AdmitOpen
  <1>6. ASSUME NEW c \in Callers, AdmitHalfOpen(c) PROVE BreakerInv'
    BY <1>6 DEF AdmitHalfOpen
  <1>7. ASSUME NEW c \in Callers, onFailure(c) PROVE BreakerInv'
    BY <1>7 DEF onFailure
  <1>8. ASSUME NEW c \in Callers, onSuccess(c) PROVE BreakerInv'
    BY <1>8 DEF onSuccess
  <1>9. ASSUME NEW c \in Callers, Panic(c) PROVE BreakerInv'
    BY <1>9 DEF Panic
  <1>10. CASE UNCHANGED breakerVars
    BY <1>10 DEF breakerVars
  <1> QED
    BY <1>1, <1>2, <1>3, <1>4, <1>5, <1>6, <1>7, <1>8, <1>9, <1>10
    DEF BreakerNext, beforeRequest

\* The breaker's invariant holds in every reachable state of a breaker.
THEOREM BreakerInvariance == BreakerSpec => []BreakerInv
  BY BreakerInvInit, BreakerInvNext, PTL DEF BreakerSpec

\* The state and the failure counter agree in every reachable state.
THEOREM StateMatchesCounter == BreakerSpec => []ClosedIffBelowMax
  <1>1. BreakerInv => ClosedIffBelowMax
    BY DEF BreakerInv
  <1> QED
    BY <1>1, BreakerInvariance, PTL

\* The breaker closes from half-open only on the third success in a row.
THEOREM ClosesOnThree == BreakerSpec => ThreeConsecutiveToClose
  <1> DEFINE A == state = "halfopen" /\ state' = "closed" /\ inFlight' # inFlight => streak' = 3
  <1>1. BreakerInv /\ [BreakerNext]_breakerVars => A
    <2> SUFFICES ASSUME BreakerInv, [BreakerNext]_breakerVars, state = "halfopen",
                        state' = "closed", inFlight' # inFlight
                 PROVE  streak' = 3
      OBVIOUS
    <2> USE DEF BreakerInv, BreakerTypeOK, HalfOpenInv
    <2>1. ASSUME NEW c \in Callers, onSuccess(c) PROVE streak' = 3
      BY <2>1 DEF onSuccess
    <2>2. ASSUME NEW c \in Callers, onFailure(c) PROVE FALSE
      BY <2>2 DEF onFailure
    <2>3. ASSUME NEW c \in Callers, beforeRequest(c) \/ Panic(c) PROVE FALSE
      BY <2>3 DEF beforeRequest, AdmitClosed, AdmitOpen,
                  AdmitHalfOpen, Panic
    <2>4. ASSUME BreakerTick \/ Recover \/ BreakerReset \/ UNCHANGED breakerVars
          PROVE  FALSE
      BY <2>4 DEF BreakerTick, Recover, BreakerReset, breakerVars
    <2> QED
      BY <2>1, <2>2, <2>3, <2>4 DEF BreakerNext
  <1> QED
    BY <1>1, BreakerInvariance, PTL DEF BreakerSpec, ThreeConsecutiveToClose

-----------------------------------------------------------------------------
(* The breaker inside the executor.                                         *)

\* A step of the executor is a step of its breaker, or leaves it alone.
LEMMA StepsOfBreaker == [Next]_vars => [BreakerNext]_breakerVars
  <1> SUFFICES ASSUME [Next]_vars PROVE [BreakerNext]_breakerVars
    OBVIOUS
  <1>1. UNCHANGED breakerVars => UNCHANGED breakerVars
    BY DEF breakerVars, breakerVars
  <1>2. CASE Tick \/ Reset
    BY <1>2 DEF Tick, Reset, BreakerNext
  <1>3. ASSUME NEW c \in Callers, Step(c)
        PROVE  [BreakerNext]_breakerVars
    <2>1. CASE InBulkhead(c) \/ Rejected(c) \/ Attempt(c) \/ FnReturns(c) \/ Delay(c)
      <3>1. UNCHANGED breakerVars
        BY <2>1 DEF InBulkhead, Rejected, Attempt, FnReturns, Delay, breakerVars
      <3> QED
        BY <1>1, <3>1
    <2>2. CASE BeforeRequest(c)
      BY <1>1, <2>2 DEF BeforeRequest, BreakerNext
    <2>3. CASE AfterRequest(c)
      BY <1>1, <2>3 DEF AfterRequest, BreakerNext
    <2>4. CASE FnPanics(c)
      BY <1>1, <2>4 DEF FnPanics, BreakerNext
    <2> QED
      BY <1>3, <2>1, <2>2, <2>3, <2>4 DEF Step
  <1>4. CASE UNCHANGED vars
    BY <1>1, <1>4 DEF vars, breakerVars
  <1> QED
    BY <1>2, <1>3, <1>4 DEF Next

\* The executor implements a circuit breaker: what retries, panics, rejections
\* and the bulkhead do between two results is invisible to it.
THEOREM ExecutorImplementsBreaker == Spec => BreakerSpec
  <1>1. Init => BreakerInit
    BY DEF Init
  <1> QED
    BY <1>1, StepsOfBreaker, PTL DEF Spec, BreakerSpec

-----------------------------------------------------------------------------
(* The bulkhead: what its counters count.                                   *)

\* The callers whose bulkhead, by h, is b and whose step, by s, is in S.
With(h, s, b, S) == {c \in Callers : h[c] = b /\ s[c] \in S}

Holding == {"granted", "in", "release"}  \* with a value in the channel
Counted == {"in", "release", "freed"}    \* on the active counter
Started == {"acquire", "reject", "granted", "in", "release", "freed"}

\* A group makes one bulkhead, and every caller that has one has this one.
OneBulkhead ==
    /\ created \in {0, 1}
    /\ \A c \in Callers :
        handle[c] = IF st[c] \in {"start", "create"} THEN 0 ELSE 1

Counts ==
    \A b \in Bulkheads :
        /\ sem[b] = Cardinality(With(handle, st, b, Holding))
        /\ active[b] = Cardinality(With(handle, st, b, Counted))
        /\ total[b] = rejected[b] + gone[b] + Cardinality(With(handle, st, b, Started))

BulkheadTypeOK ==
    /\ st \in [Callers -> Steps]
    /\ handle \in [Callers -> Bulkheads \cup {0}]
    /\ created \in Bulkheads \cup {0}
    /\ sem \in [Bulkheads -> 0..MaxConcurrent]
    /\ active \in [Bulkheads -> Nat]
    /\ rejected \in [Bulkheads -> Nat] /\ total \in [Bulkheads -> Nat]
    /\ gone \in [Bulkheads -> Nat]

BulkheadInv == BulkheadTypeOK /\ OneBulkhead /\ Counts

\* There is a first bulkhead, and it has room.
LEMMA Sizes ==
    /\ Cardinality(Callers) \in Nat /\ 1 \in Bulkheads
    /\ MaxConcurrent \in Nat \ {0}
    /\ \A b \in Bulkheads : b \in Nat \ {0}
  <1>1. Cardinality(Callers) \in Nat /\ Cardinality(Callers) # 0
    BY BulkheadAssumption, FS_CardinalityType, FS_EmptySet
  <1> QED
    BY <1>1, BulkheadAssumption DEF Bulkheads, MaxConcurrent

\* A set of callers, with one of them more or less.
LEMMA CallerCount ==
    ASSUME NEW E \in SUBSET Callers, NEW c \in Callers
    PROVE  /\ IsFiniteSet(E) /\ Cardinality(E) \in Nat
           /\ c \in E => Cardinality(E \ {c}) = Cardinality(E) - 1
           /\ c \notin E => Cardinality(E \cup {c}) = Cardinality(E) + 1
  <1>1. IsFiniteSet(E)
    BY BulkheadAssumption, FS_Subset
  <1> QED
    BY <1>1, FS_CardinalityType, FS_RemoveElement, FS_AddElement

\* BulkheadGroup.Get: the second look under the lock keeps it at one bulkhead.
LEMMA GetKeeps ==
    ASSUME BulkheadInv, NEW c \in Callers, Get(c) \/ Create(c)
    PROVE  BulkheadInv'
  <1> USE DEF BulkheadInv, Get, Create, Goto
  <1>1. PICK to \in {"create", "call"} :
            /\ st' = [st EXCEPT ![c] = to] /\ st[c] \in {"start", "create"}
            /\ handle' = IF to = "call" THEN [handle EXCEPT ![c] = created'] ELSE handle
            /\ UNCHANGED <<sem, active, rejected, total, gone>>
    OBVIOUS
  <1>2. created' \in {0, 1} /\ (to = "call" => created' = 1)
    BY <1>1 DEF OneBulkhead, BulkheadTypeOK
  <1>3. OneBulkhead'
    BY <1>1, <1>2 DEF OneBulkhead, BulkheadTypeOK
  <1>4. BulkheadTypeOK'
    BY <1>1, <1>2, Sizes DEF BulkheadTypeOK, Steps
  <1>5. ASSUME NEW b, NEW T, {"start", "create", "call"} \cap T = {}
        PROVE  With(handle', st', b, T) = With(handle, st, b, T)
    <2>1. st[c] \notin T /\ st'[c] \notin T
      BY <1>1, <1>5 DEF BulkheadTypeOK
    <2>2. \A x \in Callers \ {c} : st'[x] = st[x] /\ handle'[x] = handle[x]
      BY <1>1 DEF BulkheadTypeOK
    <2> QED
      BY <2>1, <2>2 DEF With
  <1>6. \A b : /\ With(handle', st', b, Holding) = With(handle, st, b, Holding)
               /\ With(handle', st', b, Counted) = With(handle, st, b, Counted)
               /\ With(handle', st', b, Started) = With(handle, st, b, Started)
    <2>1. /\ {"start", "create", "call"} \cap Holding = {}
          /\ {"start", "create", "call"} \cap Counted = {}
          /\ {"start", "create", "call"} \cap Started = {}
      BY DEF Holding, Counted, Started
    <2> QED
      BY <1>5, <2>1
  <1>7. Counts'
    BY Zenon, <1>1, <1>6 DEF Counts
  <1> QED
    BY <1>3, <1>4, <1>7

\* The steps of ExecuteWithContext move a value or a count together with the
\* caller.
LEMMA CallKeeps ==
    ASSUME BulkheadInv, NEW c \in Callers,
           \/ Call(c) \/ Send(c) \/ Full(c) \/ CountReject(c) \/ CtxDone(c)
           \/ CountActive(c) \/ FnEnds(c) \/ Receive(c) \/ CountRelease(c)
    PROVE  BulkheadInv'
  <1> DEFINE H(b) == Cardinality(With(handle, st, b, Holding))
             A(b) == Cardinality(With(handle, st, b, Counted))
             S(b) == Cardinality(With(handle, st, b, Started))
  <1>1. BulkheadTypeOK /\ OneBulkhead /\ Counts
    BY DEF BulkheadInv
  <1>2. PICK to \in Steps : st' = [st EXCEPT ![c] = to] /\ to \notin {"start", "create"}
    BY DEF Call, Send, Full, CountReject, CtxDone, CountActive, FnEnds, Receive, CountRelease,
           Goto, Steps
  <1>3. UNCHANGED <<handle, created>> /\ st[c] \notin {"start", "create"}
    BY DEF Call, Send, Full, CountReject, CtxDone, CountActive, FnEnds, Receive, CountRelease
  <1>4. OneBulkhead' /\ handle[c] = 1
    BY <1>1, <1>2, <1>3 DEF OneBulkhead, BulkheadTypeOK
  <1>5. 1 \in Bulkheads /\ MaxConcurrent \in Nat
    BY Sizes
  <1>a. ASSUME NEW b, NEW T
        PROVE  LET n == Cardinality(With(handle, st, b, T))
                   m == Cardinality(With(handle', st', b, T))
               IN  /\ n \in Nat /\ m \in Nat
                   /\ b # 1 => m = n
                   /\ b = 1 => m = n + (IF st'[c] \in T THEN 1 ELSE 0)
                                     - (IF st[c] \in T THEN 1 ELSE 0)
    <2> DEFINE E == With(handle, st, b, T)
               F == With(handle', st', b, T)
    <2>1. \A x \in Callers \ {c} : st'[x] = st[x]
      BY <1>1, <1>2 DEF BulkheadTypeOK
    <2>2. handle' = handle /\ handle[c] = 1
      BY <1>3, <1>4
    <2>3. E \in SUBSET Callers /\ F \in SUBSET Callers
      BY DEF With
    <2>4. b # 1 \/ (st[c] \in T <=> st'[c] \in T) => F = E
      BY <2>1, <2>2 DEF With
    <2>5. b = 1 /\ st[c] \in T /\ st'[c] \notin T => c \in E /\ F = E \ {c}
      BY <2>1, <2>2 DEF With
    <2>6. b = 1 /\ st[c] \notin T /\ st'[c] \in T => c \notin E /\ F = E \cup {c}
      BY <2>1, <2>2 DEF With
    <2> HIDE DEF E, F
    <2>7. /\ Cardinality(E) \in Nat /\ Cardinality(F) \in Nat
          /\ F = E => Cardinality(F) = Cardinality(E)
          /\ c \in E /\ F = E \ {c} => Cardinality(F) = Cardinality(E) - 1
          /\ c \notin E /\ F = E \cup {c} => Cardinality(F) = Cardinality(E) + 1
      BY Zenon, <2>3, CallerCount
    <2>8. /\ b # 1 => Cardinality(F) = Cardinality(E)
          /\ b = 1 => Cardinality(F) = Cardinality(E) + (IF st'[c] \in T THEN 1 ELSE 0)
                                         - (IF st[c] \in T THEN 1 ELSE 0)
      <3>1. CASE b # 1 \/ (st[c] \in T <=> st'[c] \in T)
        BY ONLY <2>4, <2>7, <3>1
      <3>2. CASE b = 1 /\ st[c] \in T /\ st'[c] \notin T
        BY ONLY <2>5, <2>7, <3>2
      <3>3. CASE b = 1 /\ st[c] \notin T /\ st'[c] \in T
        BY ONLY <2>6, <2>7, <3>3
      <3> QED
        BY <3>1, <3>2, <3>3
    <2> QED
      BY <2>7, <2>8 DEF E, F
  <1>6. \A b :
            /\ H(b) \in Nat /\ A(b) \in Nat /\ S(b) \in Nat
            /\ H(b)' \in Nat /\ A(b)' \in Nat /\ S(b)' \in Nat
            /\ b # 1 => H(b)' = H(b) /\ A(b)' = A(b) /\ S(b)' = S(b)
    BY <1>a
  <1>7. /\ H(1)' = H(1) + (IF st'[c] \in Holding THEN 1 ELSE 0) - (IF st[c] \in Holding THEN 1 ELSE 0)
        /\ A(1)' = A(1) + (IF st'[c] \in Counted THEN 1 ELSE 0) - (IF st[c] \in Counted THEN 1 ELSE 0)
        /\ S(1)' = S(1) + (IF st'[c] \in Started THEN 1 ELSE 0) - (IF st[c] \in Started THEN 1 ELSE 0)
    BY <1>a
  <1>8. /\ sem[1] = H(1) /\ active[1] = A(1) /\ total[1] = rejected[1] + gone[1] + S(1)
        /\ sem[1] \in 0..MaxConcurrent /\ active[1] \in Nat /\ total[1] \in Nat
        /\ rejected[1] \in Nat /\ gone[1] \in Nat
    BY <1>1, <1>5 DEF Counts, BulkheadTypeOK
  <1>9. st' = [st EXCEPT ![c] = st'[c]]
    BY <1>1, <1>2 DEF BulkheadTypeOK
  <1>10. /\ sem'[1] = H(1)' /\ active'[1] = A(1)' /\ total'[1] = rejected'[1] + gone'[1] + S(1)'
         /\ sem'[1] \in 0..MaxConcurrent /\ active'[1] \in Nat /\ total'[1] \in Nat
         /\ rejected'[1] \in Nat /\ gone'[1] \in Nat
    <2> HIDE DEF H, A, S
    <2> USE <1>1, <1>3, <1>4, <1>5, <1>6, <1>7, <1>8, <1>9
        DEF BulkheadTypeOK, Goto, Holding, Counted, Started
    <2>1. CASE Call(c)
      BY <2>1 DEF Call
    <2>2. CASE Send(c)
      BY <2>2 DEF Send
    <2>3. CASE Full(c) \/ FnEnds(c)
      BY <2>3 DEF Full, FnEnds
    <2>4. CASE CountReject(c)
      BY <2>4 DEF CountReject
    <2>5. CASE CtxDone(c)
      BY <2>5 DEF CtxDone
    <2>6. CASE CountActive(c)
      BY <2>6 DEF CountActive
    <2>7. CASE Receive(c)
      BY <2>7 DEF Receive
    <2>8. CASE CountRelease(c)
      BY <2>8 DEF CountRelease
    <2> QED
      BY <2>1, <2>2, <2>3, <2>4, <2>5, <2>6, <2>7, <2>8
  <1>11. /\ \A b \in Bulkheads \ {1} :
                /\ sem'[b] = sem[b] /\ active'[b] = active[b] /\ total'[b] = total[b]
                /\ rejected'[b] = rejected[b] /\ gone'[b] = gone[b]
         /\ DOMAIN sem' = Bulkheads /\ sem' = [b \in Bulkheads |-> sem'[b]]
         /\ active' = [b \in Bulkheads |-> active'[b]]
         /\ total' = [b \in Bulkheads |-> total'[b]]
         /\ rejected' = [b \in Bulkheads |-> rejected'[b]]
         /\ gone' = [b \in Bulkheads |-> gone'[b]]
    BY <1>1, <1>4, <1>5
    DEF BulkheadTypeOK, Call, Send, Full, CountReject, CtxDone, CountActive, FnEnds, Receive,
        CountRelease
  <1>12. Counts'
    <2> SUFFICES ASSUME NEW b \in Bulkheads
                 PROVE  /\ sem'[b] = H(b)' /\ active'[b] = A(b)'
                        /\ total'[b] = rejected'[b] + gone'[b] + S(b)'
      BY DEF Counts
    <2>1. CASE b = 1
      BY <1>10, <2>1
    <2>2. CASE b # 1
      BY <1>1, <1>6, <1>11, <2>2 DEF Counts
    <2> QED
      BY <2>1, <2>2
  <1>13. BulkheadTypeOK'
    <2>1. \A b \in Bulkheads : /\ sem'[b] \in 0..MaxConcurrent /\ active'[b] \in Nat
                               /\ total'[b] \in Nat /\ rejected'[b] \in Nat /\ gone'[b] \in Nat
      BY <1>1, <1>10, <1>11 DEF BulkheadTypeOK
    <2>2. /\ sem' \in [Bulkheads -> 0..MaxConcurrent] /\ active' \in [Bulkheads -> Nat]
          /\ total' \in [Bulkheads -> Nat] /\ rejected' \in [Bulkheads -> Nat]
          /\ gone' \in [Bulkheads -> Nat]
      BY <1>11, <2>1
    <2> QED
      BY <1>1, <1>2, <1>3, <2>2 DEF BulkheadTypeOK
  <1> QED
    BY <1>4, <1>12, <1>13 DEF BulkheadInv

-----------------------------------------------------------------------------
(* The calls inside the bulkhead.                                           *)

Looping == {"check", "run", "delay"} \* in Retry's loop

CallTypeOK ==
    /\ parts \in [bulkhead : BOOLEAN, breaker : BOOLEAN, retry : BOOLEAN]
    /\ phase \in [Callers -> Phases]
    /\ attempt \in [Callers -> 0..MaxAttempts]
    /\ overrun \in Nat
    /\ ~parts.breaker => state = "closed"

\* A call between the breaker's two ends holds its slot; a loop that goes on
\* has an attempt left, and one that has ended has none on its count.
Inside ==
    \A c \in Callers :
        /\ parts.bulkhead /\ phase[c] \in Looping \cup {"succeeded", "failed"} => st[c] = "in"
        /\ phase[c] \in {"check", "delay"} => attempt[c] < MaxAttempts
        /\ phase[c] \notin Looping => attempt[c] = 0

\* The attempts that the loops now running may still start.
Pending ==
    {p \in Callers \X (1..MaxAttempts) : phase[p[1]] \in Looping /\ p[2] > attempt[p[1]]}

\* What was started since the breaker opened and what may still be started
\* stays within the attempts of the callers that were inside then.
Budget ==
    /\ state # "open" => overrun = 0
    /\ parts.bulkhead /\ state = "open" =>
            overrun + Cardinality(Pending) <= (MaxConcurrent - 1) * MaxAttempts

CallInv == CallTypeOK /\ Inside /\ Budget

ExecutorInv == BulkheadInv /\ BreakerInv /\ CallInv

\* Retry makes at least one attempt.
LEMMA AtLeastOneAttempt ==
    ASSUME parts \in [bulkhead : BOOLEAN, breaker : BOOLEAN, retry : BOOLEAN]
    PROVE  MaxAttempts \in Nat \ {0}
  BY ExecutorAssumption DEF MaxAttempts

\* Sets of attempts are finite; a part of one is no larger, and without one of
\* its attempts it is smaller by one.
LEMMA AttemptCount ==
    ASSUME NEW n \in Nat, NEW P \in SUBSET (Callers \X (1..n))
    PROVE  /\ IsFiniteSet(P) /\ Cardinality(P) \in Nat
           /\ \A Q \in SUBSET P : Cardinality(Q) \in Nat /\ Cardinality(Q) <= Cardinality(P)
           /\ \A p \in P : Cardinality(P \ {p}) = Cardinality(P) - 1
  <1>1. IsFiniteSet(1..n)
    BY FS_Interval
  <1>2. IsFiniteSet(Callers \X (1..n))
    BY <1>1, BulkheadAssumption, FS_Product
  <1>3. IsFiniteSet(P)
    BY <1>2, FS_Subset
  <1> QED
    BY <1>3, FS_Subset, FS_CardinalityType, FS_RemoveElement

\* While the breaker's state and the count stay, the budget is kept when no
\* attempt is added to those that may still start.
LEMMA BudgetKept ==
    ASSUME CallInv, UNCHANGED <<parts, state, overrun>>, Pending' \subseteq Pending
    PROVE  Budget'
  <1>1. MaxAttempts' = MaxAttempts /\ MaxAttempts \in Nat
    BY AtLeastOneAttempt DEF MaxAttempts, CallInv, CallTypeOK
  <1>2. Pending \in SUBSET (Callers \X (1..MaxAttempts))
    BY DEF Pending
  <1>3. /\ Cardinality(Pending) \in Nat /\ Cardinality(Pending') \in Nat
        /\ Cardinality(Pending') <= Cardinality(Pending)
    BY <1>1, <1>2, AttemptCount
  <1>4. overrun \in Nat /\ (MaxConcurrent - 1) * MaxAttempts \in Nat
    BY <1>1, Sizes DEF CallInv, CallTypeOK
  <1>5. /\ state # "open" => overrun = 0
        /\ parts.bulkhead /\ state = "open" =>
            overrun + Cardinality(Pending) <= (MaxConcurrent - 1) * MaxAttempts
    BY DEF CallInv, Budget
  <1>6. parts.bulkhead /\ state = "open" =>
            overrun + Cardinality(Pending') <= (MaxConcurrent - 1) * MaxAttempts
    BY ONLY <1>3, <1>4, <1>5
  <1> QED
    BY <1>1, <1>5, <1>6 DEF Budget

\* Rejected, FnReturns, FnPanics and Delay start nothing.
LEMMA QuietStepKeeps ==
    ASSUME CallInv, BulkheadInv, NEW c \in Callers,
           Rejected(c) \/ FnReturns(c) \/ FnPanics(c) \/ Delay(c)
    PROVE  CallInv'
  <1>1. CallTypeOK /\ Inside
    BY DEF CallInv
  <1>2. UNCHANGED <<parts, state, overrun, st>>
    BY DEF Rejected, FnReturns, FnPanics, Delay, bulkheadVars, breakerVars, config,
           Panic
  <1>3. MaxAttempts' = MaxAttempts /\ MaxAttempts \in Nat \ {0}
    BY <1>1, <1>2, AtLeastOneAttempt DEF MaxAttempts, CallTypeOK
  <1>4. PICK to \in Phases, n \in 0..MaxAttempts :
            /\ phase' = [phase EXCEPT ![c] = to] /\ attempt' = [attempt EXCEPT ![c] = n]
            /\ \/ to \in {"end", "succeeded", "failed"} /\ n = 0
               \/ /\ to = "delay" /\ phase[c] = "run" /\ n = attempt[c] /\ n < MaxAttempts
               \/ /\ to = "check" /\ phase[c] = "delay" /\ n = attempt[c]
            /\ to \in {"succeeded", "failed"} => phase[c] \in Looping
    <2> USE <1>1, <1>3 DEF CallTypeOK, Goes, Returns, Phases, Looping
    <2>1. CASE Rejected(c)
      <3>1. attempt[c] = 0 /\ attempt' = [attempt EXCEPT ![c] = 0]
        BY <2>1 DEF Rejected, Entered, Inside
      <3> QED
        BY <2>1, <3>1 DEF Rejected
    <2>2. CASE FnReturns(c)
      BY <2>2 DEF FnReturns
    <2>3. CASE FnPanics(c)
      <3>1. phase' = [phase EXCEPT ![c] = "end"] /\ attempt' = [attempt EXCEPT ![c] = 0]
        BY <2>3 DEF FnPanics
      <3>2. "end" \in Phases /\ 0 \in 0..MaxAttempts
        OBVIOUS
      <3> QED
        BY ONLY Zenon, <3>1, <3>2
    <2>4. CASE Delay(c)
      BY <2>4 DEF Delay
    <2> QED
      BY <2>1, <2>2, <2>3, <2>4
  <1>5. CallTypeOK'
    BY <1>1, <1>2, <1>3, <1>4 DEF CallTypeOK
  <1>6. Inside'
    BY <1>1, <1>2, <1>3, <1>4 DEF Inside, CallTypeOK, Looping
  <1>7. Pending' \subseteq Pending
    BY <1>1, <1>3, <1>4 DEF Pending, CallTypeOK, Looping
  <1> QED
    BY <1>2, <1>5, <1>6, <1>7, BudgetKept DEF CallInv

\* BeforeRequest: the breaker lets no call in while it stays open.
LEMMA BeforeRequestKeeps ==
    ASSUME CallInv, BulkheadInv, NEW c \in Callers, BeforeRequest(c)
    PROVE  CallInv'
  <1>1. CallTypeOK /\ Inside
    BY DEF CallInv
  <1>2. /\ UNCHANGED <<parts, st, attempt>> /\ phase' = [phase EXCEPT ![c] = "check"]
        /\ phase[c] = "out" /\ (parts.bulkhead => st[c] = "in")
        /\ overrun' = IF state' = "open" THEN overrun + 0 ELSE 0
    BY DEF BeforeRequest, Entered, Goes, Counting, bulkheadVars, config
  <1>3. MaxAttempts' = MaxAttempts /\ MaxAttempts \in Nat \ {0}
    BY <1>1, <1>2, AtLeastOneAttempt DEF MaxAttempts, CallTypeOK
  <1>4. state' # "open" /\ (~parts.breaker => state' = "closed")
    BY <1>1 DEF BeforeRequest, CallTypeOK, breakerVars, beforeRequest,
                AdmitClosed, AdmitOpen, AdmitHalfOpen
  <1>5. CallTypeOK'
    BY <1>1, <1>2, <1>3, <1>4 DEF CallTypeOK, Phases
  <1>6. Inside'
    BY <1>1, <1>2, <1>3 DEF Inside, CallTypeOK, Looping
  <1>7. Budget'
    BY <1>2, <1>4 DEF Budget
  <1> QED
    BY <1>5, <1>6, <1>7 DEF CallInv

\* Attempt: what it starts is no longer pending.
LEMMA AttemptKeeps ==
    ASSUME CallInv, BulkheadInv, NEW c \in Callers, Attempt(c)
    PROVE  CallInv'
  <1>1. CallTypeOK /\ Inside
    BY DEF CallInv
  <1>2. UNCHANGED <<parts, st, state>> /\ phase[c] = "check"
    BY DEF Attempt, bulkheadVars, config, breakerVars
  <1>3. MaxAttempts' = MaxAttempts /\ MaxAttempts \in Nat \ {0}
    BY <1>1, <1>2, AtLeastOneAttempt DEF MaxAttempts, CallTypeOK
  <1>4. overrun \in Nat /\ attempt[c] \in Nat /\ attempt[c] < MaxAttempts
    BY <1>1, <1>2, <1>3 DEF CallTypeOK, Inside
  <1>5. CASE /\ phase' = [phase EXCEPT ![c] = "failed"] /\ attempt' = [attempt EXCEPT ![c] = 0]
             /\ overrun' = IF state' = "open" THEN overrun + 0 ELSE 0
    <2>1. UNCHANGED overrun
      BY <1>2, <1>4, <1>5 DEF CallInv, Budget
    <2>2. CallTypeOK'
      BY <1>1, <1>2, <1>3, <1>5, <2>1 DEF CallTypeOK, Phases
    <2>3. Inside'
      BY <1>1, <1>2, <1>3, <1>5 DEF Inside, CallTypeOK, Looping
    <2>4. Pending' \subseteq Pending
      BY <1>1, <1>3, <1>5 DEF Pending, CallTypeOK, Looping
    <2> QED
      BY <1>2, <2>1, <2>2, <2>3, <2>4, BudgetKept DEF CallInv
  <1>6. CASE /\ phase' = [phase EXCEPT ![c] = "run"]
             /\ attempt' = [attempt EXCEPT ![c] = attempt[c] + 1]
             /\ overrun' = IF state' = "open" THEN overrun + 1 ELSE 0
    <2>1. overrun' \in Nat
      BY <1>4, <1>6
    <2>2. CallTypeOK'
      BY <1>1, <1>2, <1>3, <1>4, <1>6, <2>1 DEF CallTypeOK, Phases
    <2>3. Inside'
      BY <1>1, <1>2, <1>3, <1>4, <1>6 DEF Inside, CallTypeOK, Looping
    <2> DEFINE p == <<c, attempt[c] + 1>>
    <2>4. Pending \in SUBSET (Callers \X (1..MaxAttempts)) /\ p \in Pending
      BY <1>2, <1>3, <1>4 DEF Pending, Looping
    <2>5. Pending' = Pending \ {p}
      <3>1. \A q \in Callers \X (1..MaxAttempts) : q \in Pending' <=> q \in Pending \ {p}
        <4> SUFFICES ASSUME NEW d \in Callers, NEW k \in 1..MaxAttempts
                     PROVE  <<d, k>> \in Pending' <=> <<d, k>> \in Pending \ {p}
          OBVIOUS
        <4>1. /\ <<d, k>> \in Pending' <=> phase'[d] \in Looping /\ k > attempt'[d]
              /\ <<d, k>> \in Pending <=> phase[d] \in Looping /\ k > attempt[d]
              /\ <<d, k>> = p <=> d = c /\ k = attempt[c] + 1
          BY <1>3 DEF Pending
        <4>2. CASE d = c
          BY <1>1, <1>2, <1>3, <1>4, <1>6, <4>1, <4>2 DEF CallTypeOK, Looping
        <4>3. CASE d # c
          BY <1>1, <1>6, <4>1, <4>3 DEF CallTypeOK
        <4> QED
          BY <4>2, <4>3
      <3>2. Pending' \subseteq Callers \X (1..MaxAttempts)
        BY <1>3 DEF Pending
      <3> QED
        BY <2>4, <3>1, <3>2
    <2> HIDE DEF p
    <2>6. Cardinality(Pending') = Cardinality(Pending) - 1 /\ Cardinality(Pending) \in Nat
      BY <1>3, <2>4, <2>5, AttemptCount
    <2>7. (MaxConcurrent - 1) * MaxAttempts \in Nat
      BY <1>3, Sizes
    <2>8. parts.bulkhead /\ state = "open" =>
            overrun + Cardinality(Pending) <= (MaxConcurrent - 1) * MaxAttempts
      BY DEF CallInv, Budget
    <2>9. Budget'
      <3>1. CASE state # "open"
        BY <1>2, <1>6, <3>1 DEF Budget
      <3>2. CASE state = "open" /\ parts.bulkhead
        <4>1. overrun' = overrun + 1
          BY <1>2, <1>6, <3>2
        <4>2. overrun' + Cardinality(Pending') <= (MaxConcurrent - 1) * MaxAttempts
          BY ONLY <1>4, <2>6, <2>7, <2>8, <3>2, <4>1
        <4> QED
          BY <1>2, <1>3, <3>2, <4>2 DEF Budget
      <3>3. CASE state = "open" /\ ~parts.bulkhead
        BY <1>2, <3>3 DEF Budget
      <3> QED
        BY <3>1, <3>2, <3>3
    <2> QED
      BY <2>2, <2>3, <2>9 DEF CallInv
  <1> QED
    BY <1>5, <1>6 DEF Attempt, Returns, Goes, Counting

\* AfterRequest: when a failure opens the breaker, the loops still running are
\* those of other callers inside the bulkhead.
LEMMA AfterRequestKeeps ==
    ASSUME CallInv, BulkheadInv, NEW c \in Callers, AfterRequest(c)
    PROVE  CallInv'
  <1>1. CallTypeOK /\ Inside
    BY DEF CallInv
  <1>2. /\ UNCHANGED <<parts, st, attempt>> /\ phase' = [phase EXCEPT ![c] = "end"]
        /\ phase[c] \in {"succeeded", "failed"}
        /\ overrun' = IF state' = "open" THEN overrun + 0 ELSE 0
    BY DEF AfterRequest, Goes, Counting, bulkheadVars, config
  <1>3. MaxAttempts' = MaxAttempts /\ MaxAttempts \in Nat \ {0}
    BY <1>1, <1>2, AtLeastOneAttempt DEF MaxAttempts, CallTypeOK
  <1>4. overrun \in Nat /\ (~parts.breaker => state' = "closed")
    BY <1>1 DEF AfterRequest, breakerVars, CallTypeOK
  <1>5. CallTypeOK'
    BY <1>1, <1>2, <1>3, <1>4 DEF CallTypeOK, Phases
  <1>6. Inside'
    BY <1>1, <1>2, <1>3 DEF Inside, CallTypeOK, Looping
  <1>7. CASE state' = state
    <2>1. UNCHANGED overrun
      BY <1>2, <1>4, <1>7 DEF CallInv, Budget
    <2>2. Pending' \subseteq Pending
      BY <1>1, <1>2, <1>3 DEF Pending, CallTypeOK, Looping
    <2> QED
      BY <1>2, <1>5, <1>6, <1>7, <2>1, <2>2, BudgetKept DEF CallInv
  <1>8. CASE state' # state /\ state' # "open"
    BY <1>2, <1>5, <1>6, <1>8 DEF CallInv, Budget
  <1>9. CASE state # "open" /\ state' = "open" /\ ~parts.bulkhead
    BY <1>2, <1>5, <1>6, <1>9 DEF CallInv, Budget
  <1>10. CASE state # "open" /\ state' = "open" /\ parts.bulkhead
    <2> DEFINE In == {d \in Callers : st[d] = "in"}
    <2>1. overrun' = 0
      BY <1>2, <1>4, <1>10 DEF CallInv, Budget
    <2>2. In \in SUBSET Callers /\ c \in In
      BY <1>1, <1>2, <1>10 DEF Inside
    <2>3. In \in SUBSET With(handle, st, 1, Holding)
      BY DEF BulkheadInv, OneBulkhead, With, Holding
    <2>4. Pending' \in SUBSET ((In \ {c}) \X (1..MaxAttempts))
      BY <1>1, <1>2, <1>3, <1>10 DEF Pending, Inside, CallTypeOK, Looping
    <2> HIDE DEF In
    <2>5. Cardinality(In) \in Nat /\ Cardinality(In) <= MaxConcurrent
      <3>1. With(handle, st, 1, Holding) \in SUBSET Callers
        BY DEF With
      <3>2. IsFiniteSet(With(handle, st, 1, Holding))
        BY Zenon, <3>1, CallerCount
      <3>3. /\ Cardinality(In) \in Nat
            /\ Cardinality(In) <= Cardinality(With(handle, st, 1, Holding))
        BY <2>3, <3>2, FS_Subset, FS_CardinalityType
      <3>4. Cardinality(With(handle, st, 1, Holding)) \in 0..MaxConcurrent
        BY Sizes DEF BulkheadInv, BulkheadTypeOK, Counts
      <3> QED
        BY <3>3, <3>4, Sizes
    <2>6. IsFiniteSet(In \ {c}) /\ Cardinality(In \ {c}) = Cardinality(In) - 1
      <3>1. In \ {c} \in SUBSET Callers
        BY <2>2
      <3> QED
        BY <2>2, <3>1, CallerCount
    <2>7. /\ IsFiniteSet((In \ {c}) \X (1..MaxAttempts))
          /\ Cardinality((In \ {c}) \X (1..MaxAttempts)) = (Cardinality(In) - 1) * MaxAttempts
      <3>1. IsFiniteSet(1..MaxAttempts) /\ Cardinality(1..MaxAttempts) = MaxAttempts
        BY <1>3, FS_Interval
      <3>2. /\ IsFiniteSet((In \ {c}) \X (1..MaxAttempts))
            /\ Cardinality((In \ {c}) \X (1..MaxAttempts))
                    = Cardinality(In \ {c}) * Cardinality(1..MaxAttempts)
        BY ONLY Zenon, <2>6, <3>1, FS_Product
      <3> QED
        BY ONLY <2>6, <3>1, <3>2
    <2>8. /\ Cardinality(Pending') \in Nat
          /\ Cardinality(Pending') <= (Cardinality(In) - 1) * MaxAttempts
      BY <2>4, <2>7, FS_Subset, FS_CardinalityType
    <2>9. (Cardinality(In) - 1) * MaxAttempts <= (MaxConcurrent - 1) * MaxAttempts
      <3>1. PICK d \in Nat : MaxConcurrent = Cardinality(In) + d
        <4>1. MaxConcurrent - Cardinality(In) \in Nat
          BY <2>5, Sizes
        <4> QED
          BY <2>5, <4>1, Sizes
      <3>2. (MaxConcurrent - 1) * MaxAttempts
                = (Cardinality(In) - 1) * MaxAttempts + d * MaxAttempts
        BY <1>3, <2>5, <3>1
      <3>3. d * MaxAttempts \in Nat /\ (Cardinality(In) - 1) * MaxAttempts \in Int
        BY <1>3, <2>5
      <3> QED
        BY <3>2, <3>3
    <2>10. overrun' + Cardinality(Pending') <= (MaxConcurrent - 1) * MaxAttempts
      <3>1. (MaxConcurrent - 1) * MaxAttempts \in Int /\ (Cardinality(In) - 1) * MaxAttempts \in Int
        BY <1>3, <2>5, Sizes
      <3> QED
        BY ONLY <2>1, <2>8, <2>9, <3>1
    <2>11. Budget'
      BY <1>3, <1>10, <2>10 DEF Budget
    <2> QED
      BY <1>5, <1>6, <2>11 DEF CallInv
  <1> QED
    BY <1>7, <1>8, <1>9, <1>10

\* Tick, Reset, the bulkhead's steps and stuttering leave the calls alone.
LEMMA OtherStepKeeps ==
    ASSUME CallInv, BulkheadInv,
           Tick \/ Reset \/ (\E c \in Callers : InBulkhead(c)) \/ UNCHANGED vars
    PROVE  CallInv'
  <1>1. CallTypeOK /\ Inside
    BY DEF CallInv
  <1>2. UNCHANGED <<parts, phase, attempt>>
    BY DEF Tick, Reset, InBulkhead, vars, config
  <1>3. MaxAttempts' = MaxAttempts /\ Pending' = Pending
    BY <1>2 DEF MaxAttempts, Pending
  <1>4. CASE Reset
    <2>1. overrun' = 0 /\ state' = "closed" /\ UNCHANGED st
      BY <1>4 DEF Reset, Counting, BreakerReset, bulkheadVars
    <2> QED
      BY <1>1, <1>2, <1>3, <2>1 DEF CallInv, CallTypeOK, Inside, Budget
  <1>5. CASE Tick \/ UNCHANGED vars
    <2>1. UNCHANGED <<overrun, state, st>>
      BY <1>5 DEF Tick, BreakerTick, vars, bulkheadVars, breakerVars
    <2> QED
      BY <1>1, <1>2, <1>3, <2>1, BudgetKept DEF CallInv, CallTypeOK, Inside
  <1>6. ASSUME NEW c \in Callers, InBulkhead(c)
        PROVE  CallInv'
    <2>1. UNCHANGED <<overrun, state>>
      BY <1>6 DEF InBulkhead, breakerVars
    <2>2. phase[c] \notin Looping \cup {"succeeded", "failed"}
      <3>1. parts.bulkhead /\ (st[c] # "in" \/ phase[c] = "end")
        BY Zenon, <1>6 DEF InBulkhead, Acquire, Release, Get, Create, Call, Send, Full, CountReject,
                    CountActive, CtxDone, Receive, CountRelease
      <3> QED
        BY <1>1, <3>1 DEF Inside, Looping
    <2>3. \A d \in Callers \ {c} : st'[d] = st[d]
      BY Zenon, <1>6 DEF InBulkhead, Acquire, Release, Get, Create, Call, Send, Full, CountReject,
                  CountActive, CtxDone, Receive, CountRelease, FnEnds, Goto, BulkheadInv,
                  BulkheadTypeOK
    <2>4. Inside'
      BY <1>1, <1>2, <1>3, <2>2, <2>3 DEF Inside
    <2>5. CallTypeOK'
      BY <1>1, <1>2, <1>3, <2>1 DEF CallTypeOK
    <2> QED
      BY <1>2, <1>3, <2>1, <2>4, <2>5, BudgetKept DEF CallInv
  <1> QED
    BY <1>4, <1>5, <1>6

-----------------------------------------------------------------------------
(* The theorems about the executor.                                         *)

\* Nobody is inside the bulkhead at first, and the breaker is closed.
LEMMA ExecutorInit == Init => ExecutorInv
  <1> SUFFICES ASSUME Init PROVE ExecutorInv
    OBVIOUS
  <1>1. BulkheadInit /\ BreakerInit
    BY DEF Init
  <1>2. BreakerInv /\ state = "closed"
    BY <1>1, BreakerInvInit DEF BreakerInit
  <1>3. BulkheadTypeOK /\ OneBulkhead
    <2>1. 0 \in 0..MaxConcurrent
      BY Sizes
    <2> QED
      BY <1>1, <2>1, Sizes DEF BulkheadInit, BulkheadTypeOK, OneBulkhead, Steps
  <1>4. Counts
    <2>1. \A b : /\ With(handle, st, b, Holding) = {} /\ With(handle, st, b, Counted) = {}
                 /\ With(handle, st, b, Started) = {}
      BY <1>1 DEF BulkheadInit, With, Holding, Counted, Started
    <2>2. Cardinality({}) = 0
      BY FS_EmptySet
    <2> QED
      BY <1>1, <2>1, <2>2 DEF Counts, BulkheadInit
  <1>5. CallInv
    <2>1. parts \in [bulkhead : BOOLEAN, breaker : BOOLEAN, retry : BOOLEAN]
      BY DEF Init
    <2>2. 0 \in 0..MaxAttempts
      BY <2>1, AtLeastOneAttempt
    <2> QED
      BY <1>2, <2>1, <2>2 DEF Init, CallInv, CallTypeOK, Inside, Budget, Phases, Looping
  <1> QED
    BY <1>2, <1>3, <1>4, <1>5 DEF ExecutorInv, BulkheadInv

\* Every step preserves the invariant.
LEMMA ExecutorNext == ExecutorInv /\ [Next]_vars => ExecutorInv'
  <1> SUFFICES ASSUME ExecutorInv, [Next]_vars PROVE ExecutorInv'
    OBVIOUS
  <1>1. BulkheadInv /\ BreakerInv /\ CallInv
    BY DEF ExecutorInv
  <1>2. BreakerInv'
    BY <1>1, StepsOfBreaker, BreakerInvNext
  <1>3. CallInv'
    BY <1>1, OtherStepKeeps, QuietStepKeeps, BeforeRequestKeeps, AttemptKeeps,
       AfterRequestKeeps DEF Next, Step
  <1>4. UNCHANGED bulkheadVars => BulkheadInv'
    BY <1>1 DEF bulkheadVars, BulkheadInv, BulkheadTypeOK, OneBulkhead, Counts
  <1>5. \/ UNCHANGED bulkheadVars
        \/ \E c \in Callers : InBulkhead(c)
    BY DEF Next, Step, Tick, Reset, BeforeRequest, Rejected, AfterRequest, Attempt, FnReturns,
           FnPanics, Delay, vars
  <1>6. ASSUME NEW c \in Callers, InBulkhead(c)
        PROVE  BulkheadInv'
    BY <1>1, <1>6, GetKeeps, CallKeeps DEF InBulkhead, Acquire, Release
  <1> QED
    BY <1>2, <1>3, <1>4, <1>5, <1>6 DEF ExecutorInv

\* The invariant of the executor holds in every reachable state.
THEOREM ExecutorInvariance == Spec => []ExecutorInv
  BY ExecutorInit, ExecutorNext, PTL DEF Spec

\* Every variable keeps its type; in particular the semaphore is never over
\* its capacity and never below zero.
THEOREM TypeCorrect == Spec => []TypeOK
  <1>1. ExecutorInv => TypeOK
    BY DEF ExecutorInv, BulkheadInv, BulkheadTypeOK, BreakerInv, CallInv, CallTypeOK, TypeOK
  <1> QED
    BY ExecutorInvariance, <1>1, PTL

\* No more than MaxConcurrent callers are inside the bulkhead.
THEOREM ConcurrencyLimitHolds == Spec => []ConcurrencyLimit
  <1>1. ExecutorInv => ConcurrencyLimit
    <2> SUFFICES ASSUME ExecutorInv
                 PROVE  Cardinality({c \in Callers : st[c] = "in"}) <= MaxConcurrent
      BY DEF ConcurrencyLimit
    <2> DEFINE In == {c \in Callers : st[c] = "in"}
               Held == With(handle, st, 1, Holding)
    <2>1. In \in SUBSET Held /\ Held \in SUBSET Callers
      BY DEF ExecutorInv, BulkheadInv, OneBulkhead, With, Holding
    <2>2. Cardinality(Held) \in 0..MaxConcurrent
      BY Sizes DEF ExecutorInv, BulkheadInv, BulkheadTypeOK, Counts
    <2> HIDE DEF In, Held
    <2>3. IsFiniteSet(Held)
      BY <2>1, BulkheadAssumption, FS_Subset
    <2>4. Cardinality(In) \in Nat /\ Cardinality(In) <= Cardinality(Held)
      BY <2>1, <2>3, FS_Subset, FS_CardinalityType
    <2>5. Cardinality(In) <= MaxConcurrent
      BY <2>2, <2>4, Sizes
    <2> QED
      BY <2>5 DEF In
  <1> QED
    BY ExecutorInvariance, <1>1, PTL

\* No slot and no count of a bulkhead leaks, by whatever path its callers
\* returned.
THEOREM NothingLeaksHolds == Spec => []NothingLeaks
  <1>1. ExecutorInv => NothingLeaks
    <2> SUFFICES ASSUME ExecutorInv, NEW b \in Bulkheads,
                        \A c \in Callers : handle[c] = b => st[c] \in {"call", "done"}
                 PROVE  sem[b] = 0 /\ active[b] = 0 /\ total[b] = rejected[b] + gone[b]
      BY DEF NothingLeaks
    <2>1. /\ With(handle, st, b, Holding) = {} /\ With(handle, st, b, Counted) = {}
          /\ With(handle, st, b, Started) = {}
      BY DEF With, Holding, Counted, Started
    <2>2. Cardinality({}) = 0
      BY FS_EmptySet
    <2>3. /\ sem[b] = 0 /\ active[b] = 0 /\ total[b] = rejected[b] + gone[b] + 0
          /\ rejected[b] \in Nat /\ gone[b] \in Nat
      BY Zenon, <2>1, <2>2 DEF ExecutorInv, BulkheadInv, BulkheadTypeOK, Counts
    <2> QED
      BY <2>3
  <1> QED
    BY ExecutorInvariance, <1>1, PTL

\* After the breaker has opened, no more attempts reach the service than the
\* other callers inside the bulkhead had.
THEOREM OverrunIsBoundedHolds == Spec => []OverrunIsBounded
  <1>1. ExecutorInv => OverrunIsBounded
    <2> SUFFICES ASSUME ExecutorInv, parts.bulkhead
                 PROVE  overrun <= (MaxConcurrent - 1) * MaxAttempts
      BY DEF OverrunIsBounded
    <2>1. CallTypeOK /\ Budget
      BY DEF ExecutorInv, CallInv
    <2>2. MaxAttempts \in Nat /\ overrun \in Nat /\ (MaxConcurrent - 1) * MaxAttempts \in Nat
      BY <2>1, AtLeastOneAttempt, Sizes DEF CallTypeOK
    <2>3. Pending \in SUBSET (Callers \X (1..MaxAttempts))
      BY DEF Pending
    <2>4. Cardinality(Pending) \in Nat
      BY <2>2, <2>3, AttemptCount
    <2>5. \/ overrun = 0
          \/ overrun + Cardinality(Pending) <= (MaxConcurrent - 1) * MaxAttempts
      BY <2>1 DEF Budget
    <2> QED
      BY ONLY <2>2, <2>4, <2>5
  <1> QED
    BY ExecutorInvariance, <1>1, PTL
=============================================================================
