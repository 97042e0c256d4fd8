----------------------------- MODULE LimitProofs -----------------------------
(***************************************************************************)
(* Proofs about the two components that limit who gets through: RedisLock, *)
(* for any callers, TTL, extensions, retries and number of faults, and     *)
(* RateLimiter, for any finite set of requests, any clients, any rates and *)
(* bursts and any number of cleanups.  They share no state.                *)
(***************************************************************************)
EXTENDS RedisLock, RateLimiter, FiniteSetTheorems, TLAPS

-----------------------------------------------------------------------------
(* The Redis lock.                                                          *)

\* An attempt of AcquireWithRetry is made only while the loop has one left.
LockTypeInv ==
    /\ LockTypeOK
    /\ \A l \in Locks : lockPc[l] = "try" /\ ~once[l] => attempts[l] < MaxRetries
    /\ \A l \in Locks : lockPc[l] = "idle" => attempts[l] = 0

\* Types, and the bound on the attempts, are preserved by every step.
LEMMA NextLockTypeInv == LockTypeInv /\ [LockNext]_lockVars => LockTypeInv'
<1> SUFFICES ASSUME LockTypeInv, [LockNext]_lockVars PROVE LockTypeInv'
  OBVIOUS
<1> USE LockAssumption DEF LockTypeInv, LockTypeOK, LockPCs
<1>1. CASE LockTick
  BY <1>1 DEF LockTick, Less, callerVars
<1>2. ASSUME NEW l \in Locks, Call(l) \/ Cancel(l) \/ Step(l) \/ Crash(l)
      PROVE  LockTypeInv'
  <2>1. CASE Call(l)
    BY <2>1 DEF Call, Goes, keyVars
  <2>2. CASE Cancel(l)
    BY <2>2 DEF Cancel, keyVars
  <2>3. CASE TryAcquire(l)
    BY <2>3 DEF TryAcquire, SetNX, Goes, keyVars
  <2>4. CASE TryAcquireError(l)
    BY <2>4 DEF TryAcquireError, Goes, Fault, keyVars
  <2>5. CASE TryAcquireReplyLost(l)
    BY <2>5 DEF TryAcquireReplyLost, SetNX, Goes, Fault, keyVars
  <2>6. CASE RetryDelay(l)
    BY <2>6 DEF RetryDelay, Goes, keyVars
  <2>7. CASE FnReturns(l)
    BY <2>7 DEF FnReturns, Goes, keyVars
  <2>8. CASE ReleaseLock(l)
    BY <2>8 DEF ReleaseLock, DelIfOwned, Goes, keyVars
  <2>9. CASE ReleaseError(l)
    BY <2>9 DEF ReleaseError, Goes, Fault, keyVars
  <2>10. CASE Crash(l)
    BY <2>10 DEF Crash, Goes, Fault, keyVars
  <2> QED BY <1>2, <2>1, <2>2, <2>3, <2>4, <2>5, <2>6, <2>7, <2>8, <2>9, <2>10 DEF Step
<1>3. ASSUME NEW l \in Locks, NEW ms \in Extensions, Extend(l, ms)
      PROVE  LockTypeInv'
  BY <1>3 DEF Extend, PExpire, Goes, keyVars
<1>4. CASE UNCHANGED lockVars
  BY <1>4 DEF lockVars, keyVars, callerVars
<1> QED BY <1>1, <1>2, <1>3, <1>4 DEF LockNext

\* What makes the lock safe: the key exists exactly while its TTL runs, and a
\* caller within the TTL it was granted owns the key, with that TTL.
KeyInv ==
    /\ owner = NoLock <=> ttl = 0
    /\ \A l \in Locks : Live(l) => owner = l /\ ttl = left[l]

\* The key's invariant is preserved by every step.
LEMMA NextKeyInv == LockTypeOK /\ KeyInv /\ [LockNext]_lockVars => KeyInv'
<1> SUFFICES ASSUME LockTypeOK /\ KeyInv, [LockNext]_lockVars PROVE KeyInv'
  OBVIOUS
<1> USE LockAssumption DEF LockTypeOK, KeyInv, Live, InSection
<1>1. CASE LockTick
  BY <1>1 DEF LockTick, Less, callerVars
<1>2. ASSUME NEW l \in Locks, Call(l) \/ Cancel(l) \/ Step(l) \/ Crash(l)
      PROVE  KeyInv'
  <2>1. CASE Call(l)
    BY <2>1 DEF Call, Goes, keyVars
  <2>2. CASE Cancel(l)
    BY <2>2 DEF Cancel, keyVars
  <2>3. CASE TryAcquire(l)
    BY <2>3 DEF TryAcquire, SetNX, Goes, keyVars
  <2>4. CASE TryAcquireError(l)
    BY <2>4 DEF TryAcquireError, Goes, Fault, keyVars
  <2>5. CASE TryAcquireReplyLost(l)
    BY <2>5 DEF TryAcquireReplyLost, SetNX, Goes, Fault, keyVars
  <2>6. CASE RetryDelay(l)
    BY <2>6 DEF RetryDelay, Goes, keyVars
  <2>7. CASE FnReturns(l)
    BY <2>7 DEF FnReturns, Goes, keyVars
  <2>8. CASE ReleaseLock(l)
    BY <2>8 DEF ReleaseLock, DelIfOwned, Goes, keyVars
  <2>9. CASE ReleaseError(l)
    BY <2>9 DEF ReleaseError, Goes, Fault, keyVars
  <2>10. CASE Crash(l)
    BY <2>10 DEF Crash, Goes, Fault, keyVars
  <2> QED BY <1>2, <2>1, <2>2, <2>3, <2>4, <2>5, <2>6, <2>7, <2>8, <2>9, <2>10 DEF Step
<1>3. ASSUME NEW l \in Locks, NEW ms \in Extensions, Extend(l, ms)
      PROVE  KeyInv'
  BY <1>3 DEF Extend, PExpire, Goes, keyVars
<1>4. CASE UNCHANGED lockVars
  BY <1>4 DEF lockVars, keyVars, callerVars
<1> QED BY <1>1, <1>2, <1>3, <1>4 DEF LockNext

LockInv == LockTypeInv /\ KeyInv

\* The inductive invariant holds in every reachable state.
THEOREM LockInvariance == LockSpec => []LockInv
<1>1. LockInit => LockInv
  BY LockAssumption DEF LockInit, LockInv, LockTypeInv, LockTypeOK, LockPCs, KeyInv, Live, InSection
<1>2. LockInv /\ [LockNext]_lockVars => LockInv'
  BY NextLockTypeInv, NextKeyInv DEF LockInv, LockTypeInv
<1> QED BY <1>1, <1>2, PTL DEF LockSpec

\* Type correctness; in particular AcquireWithRetry never makes more than
\* maxRetries attempts.
THEOREM LockTypeCorrect == LockSpec => []LockTypeOK
<1>1. LockInv => LockTypeOK
  BY DEF LockInv, LockTypeInv
<1> QED BY <1>1, LockInvariance, PTL

\* Mutual exclusion within the granted TTLs, for every TTL, every set of
\* extensions and any number of crashes and failed commands.
THEOREM MutualExclusion == LockSpec => []LiveHoldersExclude
<1>1. LockInv => LiveHoldersExclude
  BY DEF LockInv, KeyInv, LiveHoldersExclude
<1> QED BY <1>1, LockInvariance, PTL

\* A lock that has not expired is given up only by its owner's own call: the
\* comparison in the scripts of ReleaseLock and Extend protects it from a holder
\* whose TTL has run out.
THEOREM OwnerOnly == LockSpec => OnlyOwnerGivesUp
<1> DEFINE Own(l) == /\ owner' = NoLock
                     /\ lockPc[l] \in {"hold", "release"}
                     /\ \A k \in Locks \ {l} : lockPc'[k] = lockPc[k] /\ left'[k] = left[k]
           Kept == \A l \in Locks : owner = l /\ owner' # l /\ ttl > 1 => Own(l)
<1>1. LockInv /\ [LockNext]_lockVars => Kept
  <2> SUFFICES ASSUME LockInv, [LockNext]_lockVars, NEW h \in Locks,
                      owner = h, owner' # h, ttl > 1
               PROVE  Own(h)
    OBVIOUS
  <2> USE LockAssumption DEF LockInv, LockTypeInv, LockTypeOK
  <2>1. CASE LockTick
    BY <2>1 DEF LockTick
  <2>2. ASSUME NEW l \in Locks, Call(l) \/ Cancel(l) \/ Step(l) \/ Crash(l)
        PROVE  Own(h)
    <3>1. CASE ReleaseLock(l)
      <4>1. l = h /\ owner' = NoLock
        BY <3>1 DEF ReleaseLock, DelIfOwned, keyVars
      <4> QED
        BY <3>1, <4>1 DEF ReleaseLock, DelIfOwned, Goes
    <3>2. CASE TryAcquire(l) \/ TryAcquireReplyLost(l)
      BY <3>2 DEF TryAcquire, TryAcquireReplyLost, SetNX, keyVars
    <3>3. ASSUME \/ Call(l) \/ Cancel(l) \/ Crash(l) \/ TryAcquireError(l)
                 \/ RetryDelay(l) \/ FnReturns(l) \/ ReleaseError(l)
          PROVE  FALSE
      BY <3>3 DEF Call, Cancel, Crash, TryAcquireError, RetryDelay, FnReturns,
                  ReleaseError, keyVars
    <3> QED BY <2>2, <3>1, <3>2, <3>3 DEF Step
  <2>3. ASSUME NEW l \in Locks, NEW ms \in Extensions, Extend(l, ms)
        PROVE  Own(h)
    <3>1. l = h /\ owner' = NoLock /\ UNCHANGED lockPc /\ lockPc[l] = "hold"
      BY <2>3 DEF Extend, PExpire, keyVars
    <3>2. left' = [left EXCEPT ![l] = ms]
      BY <2>3, <3>1 DEF Extend, PExpire, keyVars
    <3> QED
      BY <3>1, <3>2
  <2>4. CASE UNCHANGED lockVars
    BY <2>4 DEF lockVars, keyVars
  <2> QED BY <2>1, <2>2, <2>3, <2>4 DEF LockNext
<1> QED BY <1>1, LockInvariance, PTL DEF LockSpec, OnlyOwnerGivesUp

-----------------------------------------------------------------------------
(* The rate limiter.                                                        *)

\* The requests that have not yet made a limiter, and may still make one.
Early == {r \in Requests : pc[r] \in {"arrive", "configure"}}

\* A limiter is only read from the map after it was put there.
ReadsMap ==
    /\ \A r \in Requests : pc[r] = "reread" => made > 0
    /\ \A r \in Requests : pc[r] = "get" => limiter[r] \in 1..made

\* A request that is about to call Allow holds a bucket of its own client.
HoldsOwn ==
    \A r \in Requests :
        pc[r] = "allow" => ipLimiter[r] \in bucket /\ ipLimiter[r][3] = ClientIP[r]

\* A bucket belongs to a map that its limiter has or had.
InMaps == \A b \in bucket : b[1] <= made /\ b[2] <= gen[b[1]]

\* What a bucket lets through: its burst before it is empty, and never more
\* than the burst and what has flowed in since the clock started.
Earned == Rate * now
Conserves ==
    /\ \A b \in Buckets \ bucket : served[b] = 0 /\ refused[b] = 0
    /\ \A b \in bucket :
        /\ tokens[b] <= Token * Burst
        /\ tokens[b] + Token * served[b] >= Token * Burst
        /\ tokens[b] + Token * served[b] <= Token * Burst + Earned

LimitInv ==
    /\ TypeOK /\ made + Cardinality(Early) <= Cardinality(Requests) + 1
    /\ ReadsMap /\ HoldsOwn /\ InMaps /\ Conserves /\ RefusedSpentItsBurst

-----------------------------------------------------------------------------
(* The configuration.                                                       *)

\* The rate and the burst are numbers, and only the configuration decides
\* them.
LEMMA Numbers ==
    ASSUME configured \in BOOLEAN
    PROVE  /\ Rate \in Nat /\ Burst \in Nat /\ Token * Burst \in Nat
           /\ Cardinality(Requests) \in Nat
  <1>1. Cardinality(Requests) \in Nat
    BY RateLimiterAssumption, FS_CardinalityType
  <1>2. Rate \in Nat
    BY RateLimiterAssumption DEF Rate, Token
  <1>3. DefaultRPM \div 10 + 1 \in Nat
    BY RateLimiterAssumption
  <1>4. Burst \in Nat
    BY <1>3, RateLimiterAssumption DEF Burst
  <1>5. Token * Burst \in Nat
    BY <1>4 DEF Token
  <1> QED
    BY <1>1, <1>2, <1>4, <1>5

\* A set of requests is finite, and smaller by one without one of them.
LEMMA RequestCount ==
    ASSUME NEW E \in SUBSET Requests
    PROVE  /\ IsFiniteSet(E) /\ Cardinality(E) \in Nat
           /\ Cardinality(E) <= Cardinality(Requests)
           /\ \A r \in E : Cardinality(E \ {r}) = Cardinality(E) - 1
  <1>1. IsFiniteSet(E) /\ Cardinality(E) <= Cardinality(Requests)
    BY RateLimiterAssumption, FS_Subset
  <1> QED
    BY <1>1, FS_CardinalityType, FS_RemoveElement

\* Early of the next state, where its requests change their step.
LEMMA EarlyNext ==
    ASSUME TypeOK, NEW r \in Requests, NEW s, pc' = [pc EXCEPT ![r] = s]
    PROVE  /\ Early \in SUBSET Requests /\ Early' \in SUBSET Requests
           /\ r \in Early /\ s \notin {"arrive", "configure"} => Early' = Early \ {r}
           /\ r \in Early /\ s \in {"arrive", "configure"} => Early' = Early
           /\ r \notin Early /\ s \notin {"arrive", "configure"} => Early' = Early
  BY DEF Early, TypeOK

-----------------------------------------------------------------------------
(* The initial state, and the steps of a request.                           *)

\* Initially there is no bucket and no request has been answered.
LEMMA LimitInit == Init => LimitInv
  <1> SUFFICES ASSUME Init PROVE LimitInv
    OBVIOUS
  <1> USE DEF Init
  <1>1. configured \in BOOLEAN
    OBVIOUS
  <1>2. /\ Cardinality(Requests) \in Nat /\ 0 \in Generations
        /\ made \in Limiters \cup {0} /\ running \subseteq Limiters
    <2>1. Cardinality(Requests) \in Nat
      BY <1>1, Numbers
    <2>2. 1 \in Limiters /\ 0 \in Generations
      BY <2>1, RateLimiterAssumption DEF Limiters, Generations
    <2>3. made \in {0, 1} /\ running = 1..made
      OBVIOUS
    <2>4. running \subseteq {1}
      BY <2>3
    <2> QED
      BY <2>1, <2>2, <2>3, <2>4
  <1>3. TypeOK
    <2>1. 0 \in 0..MaxTime
      BY RateLimiterAssumption
    <2> QED
      BY Zenon, <1>1, <1>2, <2>1 DEF TypeOK
  <1>4. made + Cardinality(Early) <= Cardinality(Requests) + 1
    <2>1. made \in {0, 1}
      OBVIOUS
    <2>2. Early \in SUBSET Requests
      BY DEF Early
    <2>3. Cardinality(Early) \in Nat /\ Cardinality(Early) <= Cardinality(Requests)
      BY <2>2, RequestCount
    <2> QED
      BY ONLY <2>1, <2>3, <1>2
  <1>5. ReadsMap /\ HoldsOwn /\ InMaps /\ Conserves /\ RefusedSpentItsBurst
    BY <1>3 DEF ReadsMap, HoldsOwn, InMaps, Conserves, RefusedSpentItsBurst, TypeOK
  <1> QED
    BY <1>3, <1>4, <1>5 DEF LimitInv

\* The steps that leave the buckets and what they served alone.
LEMMA BucketsKept ==
    ASSUME LimitInv, UNCHANGED <<configured, now, bucket, tokens, served, refused>>
    PROVE  Conserves' /\ RefusedSpentItsBurst'
  <1>1. Rate' = Rate /\ Burst' = Burst
    BY DEF Rate, Burst
  <1> QED
    BY <1>1 DEF LimitInv, Conserves, RefusedSpentItsBurst, Earned

\* Limit's two reads of the map, and Configure, which replaces its limiter.
LEMMA LookupKeeps ==
    ASSUME LimitInv, NEW r \in Requests, Lookup(r) \/ Reread(r) \/ Configure(r)
    PROVE  LimitInv'
  <1>1. TypeOK /\ ReadsMap /\ HoldsOwn /\ InMaps
    BY DEF LimitInv
  <1>2. /\ Cardinality(Requests) \in Nat
        /\ Cardinality(Early) \in Nat /\ made \in Nat
        /\ made + Cardinality(Early) <= Cardinality(Requests) + 1
    <2>1. Early \in SUBSET Requests
      BY DEF Early
    <2>2. Cardinality(Early) \in Nat
      BY <2>1, RequestCount
    <2> QED
      BY <1>1, <2>2, Numbers DEF LimitInv, TypeOK, Limiters
  <1>3. UNCHANGED <<configured, gen, done, shutdown, now, bucket, tokens, served,
                    refused, ipLimiter>>
    BY DEF Lookup, Reread, Configure, limiterVars
  <1>4. Conserves' /\ RefusedSpentItsBurst'
    BY <1>3, BucketsKept
  <1>5. CASE Lookup(r)
    <2>1. /\ r \in Early /\ UNCHANGED <<made, running>>
          /\ pc' = [pc EXCEPT ![r] = IF made = 0 THEN "configure" ELSE "get"]
          /\ limiter' = [limiter EXCEPT ![r] = made]
      BY <1>1, <1>5 DEF Lookup, limiterVars, Early, TypeOK
    <2>2. TypeOK'
      BY <1>1, <1>3, <2>1 DEF TypeOK
    <2>3. Cardinality(Early') <= Cardinality(Early) /\ Cardinality(Early') \in Nat
      <3>1. Early' \in SUBSET Requests /\ Early \in SUBSET Requests
        BY DEF Early
      <3>2. Early' = Early \/ Early' = Early \ {r}
        BY Zenon, <1>1, <2>1, EarlyNext
      <3> QED
        BY <1>2, <2>1, <3>1, <3>2, RequestCount
    <2>4. ReadsMap'
      BY <1>1, <1>2, <2>1 DEF ReadsMap, TypeOK
    <2>5. HoldsOwn' /\ InMaps'
      BY <1>1, <1>3, <2>1 DEF HoldsOwn, InMaps, TypeOK
    <2>7. (made + Cardinality(Early) <= Cardinality(Requests) + 1)'
      BY ONLY <1>2, <2>1, <2>3
    <2> QED
      BY <1>4, <2>2, <2>4, <2>5, <2>7 DEF LimitInv
  <1>6. CASE Reread(r)
    <2>1. /\ pc[r] = "reread" /\ UNCHANGED <<made, running>>
          /\ pc' = [pc EXCEPT ![r] = "get"]
          /\ limiter' = [limiter EXCEPT ![r] = made]
      BY <1>6 DEF Reread, limiterVars
    <2>2. TypeOK'
      BY <1>1, <1>3, <2>1 DEF TypeOK
    <2>3. Early' = Early
      BY <1>1, <2>1, EarlyNext DEF Early
    <2>4. ReadsMap'
      BY <1>1, <1>2, <2>1 DEF ReadsMap, TypeOK
    <2>5. HoldsOwn' /\ InMaps'
      BY <1>1, <1>3, <2>1 DEF HoldsOwn, InMaps, TypeOK
    <2> QED
      BY <1>2, <1>4, <2>1, <2>2, <2>3, <2>4, <2>5 DEF LimitInv
  <1>7. CASE Configure(r)
    <2>1. /\ pc[r] = "configure" /\ r \in Early
          /\ made' = made + 1 /\ running' = running \cup {made'}
          /\ pc' = [pc EXCEPT ![r] = "reread"] /\ UNCHANGED limiter
      BY <1>7 DEF Configure, Early
    <2>2. Cardinality(Early') = Cardinality(Early) - 1 /\ Cardinality(Early') \in Nat
      <3>1. Early' \in SUBSET Requests /\ Early \in SUBSET Requests
        BY DEF Early
      <3>2. Early' = Early \ {r}
        BY <1>1, <2>1 DEF Early, TypeOK
      <3> QED
        BY <2>1, <3>1, <3>2, RequestCount
    <2>3. (made + Cardinality(Early) <= Cardinality(Requests) + 1)'
      BY ONLY <1>2, <2>1, <2>2
    <2>4. made' \in Limiters
      BY ONLY <1>2, <2>1, <2>2 DEF Limiters
    <2>5. TypeOK'
      BY <1>1, <1>3, <2>1, <2>4 DEF TypeOK
    <2>6. ReadsMap'
      BY <1>1, <1>2, <2>1 DEF ReadsMap, TypeOK
    <2>7. HoldsOwn'
      BY <1>1, <1>3, <2>1 DEF HoldsOwn, TypeOK
    <2>8. InMaps'
      BY <1>1, <1>2, <1>3, <2>1 DEF InMaps, TypeOK, Buckets, Limiters
    <2> QED
      BY <1>4, <2>3, <2>5, <2>6, <2>7, <2>8 DEF LimitInv
  <1> QED
    BY <1>5, <1>6, <1>7

\* getLimiter: a new bucket is full, an old one is left alone, and it is in
\* the current map of its limiter under the client of the request.
LEMMA GetLimiterKeeps ==
    ASSUME LimitInv, NEW r \in Requests, getLimiter(r)
    PROVE  LimitInv'
  <1> DEFINE b == <<limiter[r], gen[limiter[r]], ClientIP[r]>>
  <1>1. TypeOK /\ ReadsMap /\ HoldsOwn /\ InMaps /\ Conserves /\ RefusedSpentItsBurst
    BY DEF LimitInv
  <1>2. /\ pc[r] = "get" /\ bucket' = bucket \cup {b}
        /\ tokens' = IF b \in bucket THEN tokens ELSE [tokens EXCEPT ![b] = Token * Burst]
        /\ ipLimiter' = [ipLimiter EXCEPT ![r] = b]
        /\ pc' = [pc EXCEPT ![r] = "allow"]
        /\ UNCHANGED <<configured, made, gen, running, done, shutdown, now, served,
                       refused, limiter>>
    BY DEF getLimiter, limiterVars
  <1>3. /\ limiter[r] \in 1..made /\ limiter[r] \in Limiters
        /\ gen[limiter[r]] \in Generations
    <2>1. limiter[r] \in 1..made
      BY <1>1, <1>2 DEF ReadsMap
    <2>2. limiter[r] \in Limiters
      BY <1>1, <2>1 DEF TypeOK, Limiters
    <2> QED
      BY <1>1, <2>1, <2>2 DEF TypeOK
  <1>4. b \in Buckets
    BY <1>3 DEF Buckets, IPs
  <1>5. b[1] = limiter[r] /\ b[2] = gen[limiter[r]] /\ b[3] = ClientIP[r]
    OBVIOUS
  <1> HIDE DEF b
  <1>6. configured \in BOOLEAN /\ Token * Burst \in Nat /\ Rate \in Nat /\ now \in Nat
    BY <1>1, Numbers DEF TypeOK
  <1>7. Rate' = Rate /\ Burst' = Burst /\ Earned' = Earned /\ Earned \in Nat
    <2>1. Rate' = Rate /\ Burst' = Burst
      BY <1>2 DEF Rate, Burst
    <2> QED
      BY <1>2, <1>6, <2>1 DEF Earned
  <1>8. TypeOK'
    <2>1. tokens' \in [Buckets -> Nat]
      BY <1>1, <1>2, <1>4, <1>6 DEF TypeOK
    <2> QED
      BY <1>1, <1>2, <1>4, <2>1 DEF TypeOK
  <1>9. Early' = Early
    BY <1>1, <1>2 DEF Early, TypeOK
  <1>10. ReadsMap'
    BY <1>1, <1>2 DEF ReadsMap, TypeOK
  <1>11. HoldsOwn'
    BY <1>1, <1>2, <1>5 DEF HoldsOwn, TypeOK
  <1>12. InMaps'
    <2>1. b[1] <= made /\ b[2] <= gen[b[1]]
      BY <1>1, <1>3, <1>5 DEF TypeOK, Generations
    <2> QED
      BY <1>1, <1>2, <2>1 DEF InMaps
  <1>13. Conserves'
    <2>1. \A x \in Buckets \ bucket' : served'[x] = 0 /\ refused'[x] = 0
      BY <1>1, <1>2 DEF Conserves
    <2>2. ASSUME NEW x \in bucket'
          PROVE  /\ tokens'[x] <= Token * Burst
                 /\ tokens'[x] + Token * served'[x] >= Token * Burst
                 /\ tokens'[x] + Token * served'[x] <= Token * Burst + Earned
      <3>1. CASE x \in bucket
        <4>1. tokens'[x] = tokens[x]
          BY <1>1, <1>2, <1>4, <3>1 DEF TypeOK
        <4> QED
          BY <1>1, <1>2, <3>1, <4>1 DEF Conserves
      <3>2. CASE x \notin bucket
        <4>1. x = b /\ b \notin bucket
          BY <1>2, <3>2
        <4>2. tokens'[x] = Token * Burst /\ served'[x] = 0
          BY <1>1, <1>2, <1>4, <4>1 DEF Conserves, TypeOK
        <4>3. Token * 0 = 0
          BY DEF Token
        <4> QED
          BY ONLY <1>6, <1>7, <4>2, <4>3
      <3> QED
        BY <3>1, <3>2
    <2> QED
      BY <1>7, <2>1, <2>2 DEF Conserves
  <1>14. RefusedSpentItsBurst'
    BY <1>1, <1>2, <1>7 DEF RefusedSpentItsBurst
  <1> QED
    BY <1>2, <1>8, <1>9, <1>10, <1>11, <1>12, <1>13, <1>14 DEF LimitInv

\* Allow: a token is spent, or there is none, and then the bucket has served
\* its burst.
LEMMA AllowKeeps ==
    ASSUME LimitInv, NEW r \in Requests, Allow(r)
    PROVE  LimitInv'
  <1> DEFINE b == ipLimiter[r]
  <1>1. TypeOK /\ ReadsMap /\ HoldsOwn /\ InMaps /\ Conserves /\ RefusedSpentItsBurst
    BY DEF LimitInv
  <1>2. pc[r] = "allow"
    BY DEF Allow
  <1>3. b \in bucket /\ b \in Buckets /\ b[3] = ClientIP[r]
    BY <1>1, <1>2 DEF HoldsOwn, TypeOK
  <1>4. b = <<b[1], b[2], ClientIP[r]>>
    BY <1>3 DEF Buckets
  <1>5. /\ pc' = [pc EXCEPT ![r] = "done"]
        /\ UNCHANGED <<configured, made, gen, running, done, shutdown, now, bucket,
                       limiter, ipLimiter>>
        /\ \/ /\ tokens[b] >= Token
              /\ tokens' = [tokens EXCEPT ![b] = tokens[b] - Token]
              /\ served' = [served EXCEPT ![b] = served[b] + 1] /\ UNCHANGED refused
           \/ /\ tokens[b] < Token
              /\ refused' = [refused EXCEPT ![b] = refused[b] + 1]
              /\ UNCHANGED <<tokens, served>>
    BY <1>4 DEF Allow, limiterVars
  <1> HIDE DEF b
  <1>6. /\ Token * Burst \in Nat /\ Burst \in Nat /\ Rate \in Nat /\ now \in Nat
        /\ tokens[b] \in Nat /\ served[b] \in Nat /\ refused[b] \in Nat
    BY <1>1, <1>3, Numbers DEF TypeOK
  <1>7. Rate' = Rate /\ Burst' = Burst /\ Earned' = Earned /\ Earned \in Nat
    <2>1. Rate' = Rate /\ Burst' = Burst
      BY <1>5 DEF Rate, Burst
    <2> QED
      BY <1>5, <1>6, <2>1 DEF Earned
  <1>8. TypeOK'
    <2>0. /\ tokens \in [Buckets -> Nat] /\ served \in [Buckets -> Nat]
          /\ refused \in [Buckets -> Nat] /\ served[b] + 1 \in Nat
          /\ refused[b] + 1 \in Nat /\ (tokens[b] >= Token => tokens[b] - Token \in Nat)
      BY <1>1, <1>6 DEF TypeOK, Token
    <2>1. /\ tokens' \in [Buckets -> Nat] /\ served' \in [Buckets -> Nat]
          /\ refused' \in [Buckets -> Nat]
      BY ONLY <1>5, <2>0
    <2> QED
      BY <1>1, <1>5, <2>1 DEF TypeOK
  <1>9. Early' = Early /\ ReadsMap' /\ HoldsOwn' /\ InMaps'
    BY <1>1, <1>2, <1>5 DEF Early, ReadsMap, HoldsOwn, InMaps, TypeOK
  <1>10. /\ tokens[b] <= Token * Burst
         /\ tokens[b] + Token * served[b] >= Token * Burst
         /\ tokens[b] + Token * served[b] <= Token * Burst + Earned
    BY <1>1, <1>3 DEF Conserves
  <1>11. Conserves'
    <2>1. \A x \in Buckets \ bucket' : served'[x] = 0 /\ refused'[x] = 0
      BY <1>1, <1>3, <1>5 DEF Conserves, TypeOK
    <2>2. ASSUME NEW x \in bucket'
          PROVE  /\ tokens'[x] <= Token * Burst
                 /\ tokens'[x] + Token * served'[x] >= Token * Burst
                 /\ tokens'[x] + Token * served'[x] <= Token * Burst + Earned
      <3>1. CASE x # b
        <4>1. x \in bucket /\ tokens'[x] = tokens[x] /\ served'[x] = served[x]
          BY <1>1, <1>5, <3>1 DEF TypeOK
        <4> QED
          BY <1>1, <4>1 DEF Conserves
      <3>2. CASE x = b
        <4>1. \/ tokens'[x] = tokens[b] /\ served'[x] = served[b]
              \/ tokens'[x] = tokens[b] - Token /\ served'[x] = served[b] + 1
          BY <1>1, <1>3, <1>5, <3>2 DEF TypeOK
        <4> QED
          BY ONLY <1>6, <1>7, <1>10, <4>1 DEF Token
      <3> QED
        BY <3>1, <3>2
    <2> QED
      BY <1>7, <2>1, <2>2 DEF Conserves
  <1>12. RefusedSpentItsBurst'
    <2> SUFFICES ASSUME NEW x \in Buckets, refused'[x] > 0 PROVE served'[x] >= Burst
      BY <1>7 DEF RefusedSpentItsBurst
    <2>1. CASE x # b
      BY <1>1, <1>5, <2>1 DEF RefusedSpentItsBurst, TypeOK
    <2>2. CASE x = b /\ tokens[b] < Token
      <3>1. served'[x] = served[b]
        BY <1>5, <1>6, <2>2 DEF Token
      <3> QED
        BY ONLY <1>6, <1>10, <2>2, <3>1 DEF Token
    <2>3. CASE x = b /\ tokens[b] >= Token
      <3>1. refused'[x] = refused[b] /\ served'[x] = served[b] + 1
        BY <1>1, <1>3, <1>5, <1>6, <2>3 DEF Token, TypeOK
      <3>2. refused[b] > 0 => served[b] >= Burst
        BY <1>1, <1>3 DEF RefusedSpentItsBurst
      <3> QED
        BY <1>6, <3>1, <3>2
    <2> QED
      BY <1>6, <2>1, <2>2, <2>3 DEF Token
  <1> QED
    BY <1>5, <1>8, <1>9, <1>11, <1>12 DEF LimitInv

-----------------------------------------------------------------------------
(* The clock, the cleanups and Shutdown.                                    *)

\* Tick: what flows into a bucket is at most Rate, and stops at the burst.
LEMMA TickKeeps ==
    ASSUME LimitInv, Tick
    PROVE  LimitInv'
  <1>1. TypeOK /\ ReadsMap /\ HoldsOwn /\ InMaps /\ Conserves /\ RefusedSpentItsBurst
    BY DEF LimitInv
  <1>2. /\ now < MaxTime /\ now' = now + 1
        /\ tokens' = [b \in Buckets |-> IF b \in bucket THEN Refill(tokens[b]) ELSE tokens[b]]
        /\ UNCHANGED <<configured, made, gen, running, done, shutdown, bucket, served,
                       refused, pc, limiter, ipLimiter>>
    BY DEF Tick, limiterVars
  <1>3. Token * Burst \in Nat /\ Rate \in Nat /\ now \in Nat
    BY <1>1, Numbers DEF TypeOK
  <1>4. Rate' = Rate /\ Burst' = Burst
    BY <1>2 DEF Rate, Burst
  <1>5. Earned' = Earned + Rate /\ Earned \in Nat
    BY <1>2, <1>3, <1>4 DEF Earned
  <1>6. \A n \in Nat :
            /\ n <= Token * Burst => Refill(n) <= Token * Burst /\ Refill(n) <= n + Rate
            /\ n <= Refill(n) \/ Token * Burst <= Refill(n)
            /\ Refill(n) \in Nat
    BY <1>3 DEF Refill
  <1>7. TypeOK'
    <2>1. tokens' \in [Buckets -> Nat]
      BY <1>1, <1>2, <1>6 DEF TypeOK
    <2>2. now' \in 0..MaxTime
      BY <1>1, <1>2, RateLimiterAssumption DEF TypeOK
    <2> QED
      BY <1>1, <1>2, <2>1, <2>2 DEF TypeOK
  <1>8. Early' = Early /\ ReadsMap' /\ HoldsOwn' /\ InMaps' /\ RefusedSpentItsBurst'
    BY <1>1, <1>2, <1>4 DEF Early, ReadsMap, HoldsOwn, InMaps, RefusedSpentItsBurst
  <1>9. Conserves'
    <2>1. \A x \in Buckets \ bucket' : served'[x] = 0 /\ refused'[x] = 0
      BY <1>1, <1>2 DEF Conserves
    <2>2. ASSUME NEW x \in bucket'
          PROVE  /\ tokens'[x] <= Token * Burst
                 /\ tokens'[x] + Token * served'[x] >= Token * Burst
                 /\ tokens'[x] + Token * served'[x] <= Token * Burst + Earned + Rate
      <3>1. x \in bucket /\ x \in Buckets
        BY <1>1, <1>2 DEF TypeOK
      <3>2. /\ tokens'[x] = Refill(tokens[x]) /\ served'[x] = served[x]
            /\ tokens[x] \in Nat /\ served[x] \in Nat
        BY <1>1, <1>2, <3>1 DEF TypeOK
      <3>3. /\ tokens[x] <= Token * Burst
            /\ tokens[x] + Token * served[x] >= Token * Burst
            /\ tokens[x] + Token * served[x] <= Token * Burst + Earned
        BY <1>1, <3>1 DEF Conserves
      <3> QED
        BY ONLY <1>3, <1>5, <1>6, <3>2, <3>3 DEF Token
    <2> QED
      BY <1>3, <1>4, <1>5, <2>1, <2>2 DEF Conserves
  <1> QED
    BY <1>2, <1>7, <1>8, <1>9 DEF LimitInv

\* A cleanup starts a new map of its limiter and drops no count; Shutdown and
\* the exit of a goroutine touch no bucket.
LEMMA CleanupKeeps ==
    ASSUME LimitInv,
           \/ \E l \in Limiters : Cleanup(l) \/ CleanupExit(l)
           \/ Shutdown
           \/ UNCHANGED vars
    PROVE  LimitInv'
  <1>1. TypeOK /\ ReadsMap /\ HoldsOwn /\ InMaps
    BY DEF LimitInv
  <1>2. UNCHANGED <<configured, made, now, bucket, tokens, served, refused, pc, limiter,
                    ipLimiter>>
    BY DEF Cleanup, CleanupExit, Shutdown, vars, limiterVars
  <1>3. Conserves' /\ RefusedSpentItsBurst'
    BY <1>2, BucketsKept
  <1>4. Early' = Early /\ ReadsMap' /\ HoldsOwn'
    BY Zenon, <1>1, <1>2 DEF Early, ReadsMap, HoldsOwn
  <1>5. ASSUME NEW l \in Limiters, Cleanup(l)
        PROVE  TypeOK' /\ InMaps'
    <2>1. /\ gen[l] < MaxCleanups /\ gen' = [gen EXCEPT ![l] = gen[l] + 1]
          /\ UNCHANGED <<running, done, shutdown>>
      BY <1>5 DEF Cleanup
    <2>2. gen[l] \in Nat /\ gen[l] + 1 \in Generations
      BY <1>1, <2>1, RateLimiterAssumption DEF TypeOK, Generations
    <2>3. TypeOK'
      BY <1>1, <1>2, <2>1, <2>2 DEF TypeOK
    <2>4. \A m \in Limiters : gen[m] \in Nat /\ gen'[m] \in Nat /\ gen[m] <= gen'[m]
      BY <1>1, <2>1, <2>2 DEF TypeOK, Generations
    <2>5. InMaps'
      <3> SUFFICES ASSUME NEW b \in bucket' PROVE b[1] <= made' /\ b[2] <= gen'[b[1]]
        BY DEF InMaps
      <3>1. b[1] \in Limiters /\ b[2] \in Nat
        BY <1>1, <1>2 DEF TypeOK, Buckets, Generations
      <3>2. b[1] <= made /\ b[2] <= gen[b[1]]
        BY <1>1, <1>2 DEF InMaps
      <3> QED
        BY <1>2, <2>4, <3>1, <3>2
    <2> QED
      BY <2>3, <2>5
  <1>6. ASSUME NEW l \in Limiters, CleanupExit(l)
        PROVE  TypeOK' /\ InMaps'
    BY <1>1, <1>2, <1>6 DEF CleanupExit, TypeOK, InMaps
  <1>7. ASSUME Shutdown
        PROVE  TypeOK' /\ InMaps'
    BY <1>1, <1>2, <1>7 DEF Shutdown, TypeOK, InMaps
  <1>8. ASSUME UNCHANGED vars
        PROVE  TypeOK' /\ InMaps'
    BY <1>1, <1>2, <1>8 DEF vars, limiterVars, TypeOK, InMaps
  <1>9. TypeOK' /\ InMaps'
    BY <1>5, <1>6, <1>7, <1>8
  <1> QED
    BY <1>2, <1>3, <1>4, <1>9 DEF LimitInv

-----------------------------------------------------------------------------
(* The theorems.                                                            *)

\* LimitInv holds of every reachable state.
THEOREM Invariance == Spec => []LimitInv
  <1>1. LimitInv /\ [Next]_vars => LimitInv'
    BY LookupKeeps, GetLimiterKeeps, AllowKeeps, TickKeeps, CleanupKeeps DEF Next, RequestStep
  <1> QED
    BY LimitInit, <1>1, PTL DEF Spec

\* Every variable keeps its type: there are never more limiters than one from
\* start-up and one per request.
THEOREM TypeCorrect == Spec => []TypeOK
  <1>1. LimitInv => TypeOK
    BY DEF LimitInv
  <1> QED
    BY Invariance, <1>1, PTL

\* 429 answers only a client that has had its burst from the same bucket.
THEOREM RefusedSpentItsBurstHolds == Spec => []RefusedSpentItsBurst
  <1>1. LimitInv => RefusedSpentItsBurst
    BY DEF LimitInv
  <1> QED
    BY Invariance, <1>1, PTL

\* A multiple of a smaller number is smaller.
LEMMA Multiples ==
    ASSUME NEW m \in Nat, NEW k \in Nat, NEW n \in Nat, Token * k <= n
    PROVE  Token * (m * k) <= m * n
  <1>1. PICK d \in Nat : n = Token * k + d
    <2>1. n - Token * k \in Nat /\ n = Token * k + (n - Token * k)
      BY DEF Token
    <2> QED
      BY <2>1
  <1>2. m * n = Token * (m * k) + m * d
    BY <1>1 DEF Token
  <1>3. m * d \in Nat /\ m * k \in Nat
    OBVIOUS
  <1> QED
    BY <1>2, <1>3 DEF Token

\* Each answer is told apart by the map of its bucket and its number in that
\* bucket, and a bucket gives no more than its burst and the refill.
LEMMA BudgetFollows == LimitInv => ClientBudget
  <1> SUFFICES ASSUME LimitInv, NEW ip \in IPs
               PROVE  Token * Served(ip) <= Budgets * (Token * Burst + Rate * now)
    BY DEF ClientBudget
  <1> DEFINE X == Token * Burst + Rate * now
             K == X \div 6
             S == UNION {ServedFrom(b) : b \in {x \in Buckets : x[3] = ip}}
             f == [s \in S |-> <<<<s[1][1], s[1][2]>>, s[2]>>]
  <1>1. TypeOK /\ InMaps /\ Conserves
    BY DEF LimitInv
  <1>2. Token * Burst \in Nat /\ Rate * now \in Nat /\ Cardinality(Requests) \in Nat
    BY <1>1, Numbers DEF TypeOK
  <1>3. X \in Nat /\ K \in Nat /\ Token * K <= X /\ \A n \in Nat : Token * n <= X => n <= K
    <2>1. X \in Nat
      BY <1>2
    <2> HIDE DEF X
    <2> QED
      BY <2>1 DEF Token
  <1>4. \A b \in Buckets : served[b] \in 0..K /\ (served[b] > 0 => b \in bucket)
    <2> SUFFICES ASSUME NEW b \in Buckets
                 PROVE  served[b] \in 0..K /\ (served[b] > 0 => b \in bucket)
      OBVIOUS
    <2>1. served[b] \in Nat /\ tokens[b] \in Nat
      BY <1>1 DEF TypeOK
    <2>2. CASE b \notin bucket
      BY <1>1, <1>3, <2>2 DEF Conserves
    <2>3. CASE b \in bucket
      <3>1. tokens[b] + Token * served[b] <= X
        BY <1>1, <2>3 DEF Conserves, Earned
      <3>2. Token * served[b] <= X
        BY ONLY <1>3, <2>1, <3>1 DEF Token
      <3> QED
        BY <1>3, <2>1, <2>3, <3>2
    <2> QED
      BY <2>2, <2>3
  <1> HIDE DEF K, X
  <1>5. IsFiniteSet(Maps) /\ Cardinality(Maps) \in Nat
    <2>1. IsFiniteSet(Limiters) /\ IsFiniteSet(Generations)
      <3>1. Cardinality(Requests) + 1 \in Int /\ MaxCleanups \in Int
        BY <1>2, RateLimiterAssumption
      <3> QED
        BY <3>1, FS_Interval DEF Limiters, Generations
    <2>2. IsFiniteSet(Limiters \X Generations)
      BY <2>1, FS_Product
    <2>3. Maps \subseteq Limiters \X Generations
      BY DEF Maps
    <2> QED
      BY <2>2, <2>3, FS_Subset, FS_CardinalityType
  <1>6. \A s \in S : /\ s = <<s[1], s[2]>> /\ s[1] \in Buckets /\ s[1][3] = ip
                     /\ s[2] \in 1..served[s[1]]
    BY DEF ServedFrom
  <1>7. \A s \in S : <<s[1][1], s[1][2]>> \in Maps /\ s[2] \in 1..K
    <2> SUFFICES ASSUME NEW s \in S PROVE <<s[1][1], s[1][2]>> \in Maps /\ s[2] \in 1..K
      BY Zenon
    <2>1. s[1] \in Buckets /\ s[2] \in 1..served[s[1]] /\ served[s[1]] \in 0..K
      BY <1>4, <1>6
    <2>2. s[1] \in bucket /\ s[2] \in 1..K
      BY <1>3, <1>4, <2>1
    <2>3. s[1][1] <= made /\ s[1][2] <= gen[s[1][1]]
      BY <1>1, <2>2 DEF InMaps
    <2> QED
      BY <2>1, <2>2, <2>3 DEF Maps, Buckets
  <1> HIDE DEF S
  <1>8. f \in [S -> Maps \X (1..K)]
    BY <1>7
  <1>9. \A s, t \in S : f[s] = f[t] => s = t
    <2> SUFFICES ASSUME NEW s \in S, NEW t \in S, f[s] = f[t] PROVE s = t
      OBVIOUS
    <2>1. s[1][1] = t[1][1] /\ s[1][2] = t[1][2] /\ s[2] = t[2]
      OBVIOUS
    <2>2. s[1][3] = t[1][3]
      BY <1>6
    <2>3. s[1] = t[1]
      BY <1>6, <2>1, <2>2 DEF Buckets
    <2> QED
      BY <1>6, <2>1, <2>3
  <1>10. /\ IsFiniteSet(Maps \X (1..K))
         /\ Cardinality(Maps \X (1..K)) = Cardinality(Maps) * K
    <2>1. IsFiniteSet(1..K) /\ Cardinality(1..K) = K
      BY <1>3, FS_Interval
    <2> QED
      BY Zenon, <1>5, <2>1, FS_Product
  <1>11. Cardinality(S) <= Cardinality(Maps) * K /\ Cardinality(S) \in Nat
    <2> HIDE DEF f
    <2>1. f \in Injection(S, Maps \X (1..K))
      BY <1>8, <1>9 DEF Injection, IsInjective
    <2>2. IsFiniteSet(S) /\ Cardinality(S) <= Cardinality(Maps \X (1..K))
      BY <1>10, <2>1, FS_Injection
    <2> QED
      BY <1>10, <2>2, FS_CardinalityType
  <1>12. Token * (Cardinality(Maps) * K) <= Cardinality(Maps) * X
    BY <1>3, <1>5, Multiples
  <1>13. Token * Cardinality(S) <= Cardinality(Maps) * X
    <2>1. Cardinality(Maps) * K \in Nat /\ Cardinality(Maps) * X \in Nat
      BY <1>3, <1>5
    <2> QED
      BY ONLY <1>11, <1>12, <2>1 DEF Token
  <1> QED
    BY <1>13 DEF Served, Budgets, S, X

\* No interleaving of lookups, configurations, cleanups and late Allow calls
\* gives a client more than one burst and its refill for each map of buckets.
THEOREM ClientBudgetHolds == Spec => []ClientBudget
  BY Invariance, BudgetFollows, PTL
=============================================================================
