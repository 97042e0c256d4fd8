------------------------------ MODULE RedisLock ------------------------------
(***************************************************************************)
(* The Redis lock of src/lock: one key, the RedisLock values that compete  *)
(* for it (each made by NewRedisLock with a fresh uuid and used once), the *)
(* TTL of the key and the calls of WithLock, TryLock and Extend.           *)
(*                                                                         *)
(* Time is kept as what is left of the key's TTL, so behaviours need no    *)
(* horizon.  A command may fail before or after Redis executed it, and the *)
(* process may die at any point.                                           *)
(***************************************************************************)
EXTENDS Integers

CONSTANTS
    Locks,      \* the RedisLock values, one uuid each
    NoLock,     \* the key does not exist
    TTL,        \* the ttl passed to NewRedisLock
    Extensions, \* the arguments of Extend, in milliseconds, rounded down
    MaxRetries, \* AcquireWithRetry's maxRetries
    MaxFaults   \* bound: failed commands and crashes

ASSUME LockAssumption ==
    /\ NoLock \notin Locks
    /\ TTL \in Nat \ {0}
    /\ Extensions \subseteq Nat
    /\ MaxRetries \in Nat
    /\ MaxFaults \in Nat

VARIABLES
    owner,    \* the value of the key
    ttl,      \* what is left of its TTL
    lockPc,   \* per lock: where its caller stands
    once,     \* per lock: TryAcquire rather than AcquireWithRetry
    attempts, \* per lock: SETNX calls that found the key taken
    ctxDone,  \* per lock: the caller's context is cancelled
    left,     \* ghost, per lock: what is left of the TTL it was granted
    faults    \* faults so far, at most MaxFaults

keyVars    == <<owner, ttl>>
callerVars == <<lockPc, once, attempts, ctxDone>>
lockVars   == <<keyVars, callerVars, left, faults>>

LockPCs == {"idle", "try", "wait", "hold", "release", "returned", "dead"}

LockInit ==
    /\ owner = NoLock /\ ttl = 0
    /\ lockPc = [l \in Locks |-> "idle"]
    /\ once = [l \in Locks |-> FALSE]
    /\ attempts = [l \in Locks |-> 0]
    /\ ctxDone = [l \in Locks |-> FALSE]
    /\ left = [l \in Locks |-> 0]
    /\ faults = 0

Fault == faults < MaxFaults /\ faults' = faults + 1

Goes(l, to) == lockPc' = [lockPc EXCEPT ![l] = to]

-----------------------------------------------------------------------------
(* Redis (external): the key and its expiry.                                *)

Less(n) == IF n > 0 THEN n - 1 ELSE 0

LockTick ==
    /\ ttl > 0
    /\ ttl' = ttl - 1
    /\ owner' = IF ttl = 1 THEN NoLock ELSE owner
    /\ left' = [l \in Locks |-> Less(left[l])]
    /\ UNCHANGED <<callerVars, faults>>

\* SET key value NX PX ttl; it reports whether the key was set.
SetNX_Overwrites(l) ==
    /\ owner' = l /\ ttl' = TTL
    /\ left' = [left EXCEPT ![l] = TTL]
SetNX_NoExpiry(l) ==
    \/ /\ owner = NoLock
       /\ owner' = l /\ ttl' = 0
       /\ left' = [left EXCEPT ![l] = TTL]
    \/ owner # NoLock /\ UNCHANGED <<keyVars, left>>
SetNX(l) ==
    \/ /\ owner = NoLock
       /\ owner' = l /\ ttl' = TTL
       /\ left' = [left EXCEPT ![l] = TTL]
    \/ owner # NoLock /\ UNCHANGED <<keyVars, left>>

\* Release's script: delete the key only if it holds our value.
DelIfOwned_Always(l) ==
    /\ owner' = NoLock /\ ttl' = 0
    /\ left' = [left EXCEPT ![l] = 0]
DelIfOwned(l) ==
    /\ left' = [left EXCEPT ![l] = 0]
    /\ IF owner = l THEN owner' = NoLock /\ ttl' = 0 ELSE UNCHANGED keyVars

\* Extend's script, for a key that holds our value.  PEXPIRE with 0 deletes it.
PExpire(l, ms) ==
    /\ left' = [left EXCEPT ![l] = ms]
    /\ owner' = IF ms = 0 THEN NoLock ELSE l
    /\ ttl' = ms

-----------------------------------------------------------------------------
(* The callers.                                                             *)

\* WithLock, Lock (AcquireWithRetry) or TryLock (TryAcquire).
Call(l) ==
    /\ lockPc[l] = "idle"
    /\ \E b \in BOOLEAN :
        /\ once' = [once EXCEPT ![l] = b]
        /\ Goes(l, IF b \/ MaxRetries > 0 THEN "try" ELSE "returned")
    /\ UNCHANGED <<keyVars, attempts, ctxDone, left, faults>>

Cancel(l) ==
    /\ ~ctxDone[l] /\ lockPc[l] \notin {"returned", "dead"}
    /\ ctxDone' = [ctxDone EXCEPT ![l] = TRUE]
    /\ UNCHANGED <<keyVars, lockPc, once, attempts, left, faults>>

\* One SETNX: the lock is ours, or the caller waits (TryAcquire: returns).
TryAcquire(l) ==
    /\ lockPc[l] = "try" /\ ~ctxDone[l]
    /\ SetNX(l)
    /\ \/ owner = NoLock /\ Goes(l, "hold") /\ UNCHANGED attempts
       \/ owner # NoLock /\ once[l] /\ Goes(l, "returned") /\ UNCHANGED attempts
       \/ /\ owner # NoLock /\ ~once[l] /\ Goes(l, "wait")
          /\ attempts' = [attempts EXCEPT ![l] = @ + 1]
    /\ UNCHANGED <<once, ctxDone, faults>>

\* SETNX fails before it reached Redis, as it does on a cancelled context.
TryAcquireError(l) ==
    /\ lockPc[l] = "try"
    /\ \/ ctxDone[l] /\ UNCHANGED faults
       \/ ~ctxDone[l] /\ Fault
    /\ Goes(l, "returned")
    /\ UNCHANGED <<keyVars, once, attempts, ctxDone, left>>

\* Redis executed SETNX but the reply was lost: the caller gets an error, and
\* nobody knows that it holds the key.
TryAcquireReplyLost(l) ==
    /\ lockPc[l] = "try" /\ ~ctxDone[l]
    /\ Fault
    /\ SetNX(l)
    /\ Goes(l, "returned")
    /\ UNCHANGED <<once, attempts, ctxDone>>

\* AcquireWithRetry: the wait between two attempts, or after the last one.
RetryDelay(l) ==
    /\ lockPc[l] = "wait"
    /\ \/ Goes(l, IF attempts[l] < MaxRetries THEN "try" ELSE "returned")
       \/ ctxDone[l] /\ Goes(l, "returned")
    /\ UNCHANGED <<keyVars, once, attempts, ctxDone, left, faults>>

\* Extend; the holder of a lock that is no longer its own stops (ErrLockNotHeld).
Extend(l, ms) ==
    /\ lockPc[l] = "hold" /\ ~ctxDone[l]
    /\ \/ owner = l /\ PExpire(l, ms) /\ UNCHANGED lockPc
       \/ owner # l /\ Goes(l, "release") /\ UNCHANGED <<keyVars, left>>
    /\ UNCHANGED <<once, attempts, ctxDone, faults>>

\* WithLock: fn returns; the deferred Release is next.
FnReturns(l) ==
    /\ lockPc[l] = "hold"
    /\ Goes(l, "release")
    /\ UNCHANGED <<keyVars, once, attempts, ctxDone, left, faults>>

ReleaseLock(l) ==
    /\ lockPc[l] = "release" /\ ~ctxDone[l]
    /\ DelIfOwned(l)
    /\ Goes(l, "returned")
    /\ UNCHANGED <<once, attempts, ctxDone, faults>>

\* Release runs under the caller's context: cancelled, it does nothing.
ReleaseError(l) ==
    /\ lockPc[l] = "release"
    /\ \/ ctxDone[l] /\ UNCHANGED faults
       \/ ~ctxDone[l] /\ Fault
    /\ Goes(l, "returned")
    /\ UNCHANGED <<keyVars, once, attempts, ctxDone, left>>

Crash(l) ==
    /\ lockPc[l] \notin {"idle", "returned", "dead"}
    /\ Fault
    /\ Goes(l, "dead")
    /\ UNCHANGED <<keyVars, once, attempts, ctxDone, left>>

Step(l) ==
    \/ TryAcquire(l) \/ TryAcquireError(l) \/ TryAcquireReplyLost(l)
    \/ RetryDelay(l) \/ FnReturns(l) \/ ReleaseLock(l) \/ ReleaseError(l)

LockNext ==
    \/ LockTick
    \/ \E l \in Locks : \/ Call(l) \/ Cancel(l) \/ Step(l) \/ Crash(l)
                        \/ \E ms \in Extensions : Extend(l, ms)

LockSpec == LockInit /\ [][LockNext]_lockVars

\* Time passes, and callers that can go on do: fn returns in the end.
LockFairSpec == LockSpec /\ WF_lockVars(LockTick) /\ \A l \in Locks : WF_lockVars(Step(l))

-----------------------------------------------------------------------------
(* Properties.                                                              *)

LockTypeOK ==
    /\ owner \in Locks \cup {NoLock} /\ ttl \in Nat
    /\ lockPc \in [Locks -> LockPCs]
    /\ once \in [Locks -> BOOLEAN]
    /\ attempts \in [Locks -> 0..MaxRetries]
    /\ ctxDone \in [Locks -> BOOLEAN]
    /\ left \in [Locks -> Nat]
    /\ faults \in Nat

InSection(l) == lockPc[l] = "hold"
Live(l)      == InSection(l) /\ left[l] > 0

\* Mutual exclusion: two callers never hold the lock within the TTL each was
\* granted, whatever expires, is extended, released late, lost or crashes.
LiveHoldersExclude == \A l, m \in Locks : Live(l) /\ Live(m) => l = m

\* "Release releases the lock (only if we own it)": a key that has not
\* expired is taken from its holder only in a step of the holder itself, its
\* Release or an Extend by less than a millisecond, which leaves every other
\* caller where it was; and nobody gets the key in that step.  The late
\* Release, Extend or SETNX of another caller never does it, inside the
\* holder's section or before the holder has released.
OnlyOwnerGivesUp ==
    [][\A l \in Locks : owner = l /\ owner' # l /\ ttl > 1 =>
          /\ owner' = NoLock
          /\ lockPc[l] \in {"hold", "release"}
          /\ \A k \in Locks \ {l} : lockPc'[k] = lockPc[k] /\ left'[k] = left[k]]_lockVars

\* The TTL frees the lock whatever becomes of its holder: cancelled, crashed,
\* or never told that it has it.
LockIsFreed == \A l \in Locks : owner = l ~> owner # l

-----------------------------------------------------------------------------
(* What the comment promises and the code does not keep.                     *)

\* "The lock is automatically released after the function completes".
ReleasedAfterFn == [][\A l \in Locks : lockPc[l] = "release" /\ lockPc'[l] = "returned" =>
                        owner' # l]_lockVars
==============================================================================
