------------------------------ MODULE Bulkhead ------------------------------
(***************************************************************************)
(* Bulkhead and BulkheadGroup.Get (src/resilience/bulkhead.go).            *)
(*                                                                         *)
(* Goroutines get the bulkhead of one name from a group, take a slot of    *)
(* its semaphore, run a function and give the slot back.  The semaphore    *)
(* and the counters are changed in separate steps, as in the code.         *)
(***************************************************************************)
EXTENDS CallerSet, Integers, FiniteSets

CONSTANTS
    ConfigMaxConcurrent,  \* BulkheadConfig.MaxConcurrent
    DefaultMaxConcurrent  \* the default for a value <= 0

ASSUME BulkheadAssumption ==
    /\ ConfigMaxConcurrent \in Int
    /\ DefaultMaxConcurrent \in Nat \ {0}
    /\ IsFiniteSet(Callers) /\ Callers # {}

VARIABLES
    waiting,  \* MaxWaitDuration > 0
    grouped,  \* the bulkhead comes from a BulkheadGroup
    st,       \* per caller: its step in Get, acquire and release
    handle,   \* per caller: the bulkhead Get returned; 0: none yet
    created,  \* bulkheads made by NewBulkhead; the map's entry is the last one
    sem,      \* per bulkhead: values in the channel
    active,   \* per bulkhead: the counter
    rejected, \* per bulkhead: callers rejected
    total,    \* per bulkhead: totalCalls
    gone      \* ghost, per bulkhead: callers that ran, or gave up on ctx.Done

bulkheadVars ==
    <<waiting, grouped, st, handle, created, sem, active, rejected, total, gone>>

Steps == {"start", "get", "create", "call", "acquire", "reject", "granted",
          "in", "release", "freed", "done"}

MaxConcurrent ==
    IF ConfigMaxConcurrent <= 0 THEN DefaultMaxConcurrent ELSE ConfigMaxConcurrent

\* No more bulkheads than callers can be made.
Bulkheads == 1..Cardinality(Callers)

\* A group makes its bulkheads on demand, and they do not wait; otherwise the
\* callers share one made by NewBulkhead.
BulkheadInit ==
    /\ waiting \in BOOLEAN
    /\ grouped \in BOOLEAN /\ ~(grouped /\ waiting)
    /\ st = [c \in Callers |-> IF grouped THEN "start" ELSE "call"]
    /\ handle = [c \in Callers |-> IF grouped THEN 0 ELSE 1]
    /\ created = IF grouped THEN 0 ELSE 1
    /\ sem = [b \in Bulkheads |-> 0]
    /\ active = [b \in Bulkheads |-> 0]
    /\ rejected = [b \in Bulkheads |-> 0]
    /\ total = [b \in Bulkheads |-> 0]
    /\ gone = [b \in Bulkheads |-> 0]

Goto(c, to) == st' = [st EXCEPT ![c] = to]

-----------------------------------------------------------------------------
(* BulkheadGroup.Get: look up under the read lock, again under the lock.    *)

Get(c) ==
    /\ st[c] = "start"
    /\ \/ created = 0 /\ Goto(c, "create") /\ UNCHANGED handle
       \/ /\ created > 0 /\ Goto(c, "call")
          /\ handle' = [handle EXCEPT ![c] = created]
    /\ UNCHANGED <<created, sem, active, rejected, total, gone>>

Create_NoRecheck(c) ==
    /\ st[c] = "create"
    /\ created' = created + 1
    /\ handle' = [handle EXCEPT ![c] = created']
    /\ Goto(c, "call")
    /\ UNCHANGED <<sem, active, rejected, total, gone>>
Create(c) ==
    /\ st[c] = "create"
    /\ created' = IF created = 0 THEN 1 ELSE created
    /\ handle' = [handle EXCEPT ![c] = created']
    /\ Goto(c, "call")
    /\ UNCHANGED <<sem, active, rejected, total, gone>>

-----------------------------------------------------------------------------
(* ExecuteWithContext: acquire, the function, the deferred release.         *)

Call(c) ==
    /\ st[c] = "call"
    /\ total' = [total EXCEPT ![handle[c]] = @ + 1]
    /\ Goto(c, "acquire")
    /\ UNCHANGED <<handle, created, sem, active, rejected, gone>>

\* b.sem <- struct{}{}
Send(c) ==
    /\ st[c] = "acquire"
    /\ sem[handle[c]] < MaxConcurrent
    /\ sem' = [sem EXCEPT ![handle[c]] = @ + 1]
    /\ Goto(c, "granted")
    /\ UNCHANGED <<handle, created, active, rejected, total, gone>>

\* The default case without waiting; with waiting, the timer, which may fire
\* while a slot is free.
Full(c) ==
    /\ st[c] = "acquire"
    /\ waiting \/ sem[handle[c]] = MaxConcurrent
    /\ Goto(c, "reject")
    /\ UNCHANGED <<handle, created, sem, active, rejected, total, gone>>

CountReject_Releases(c) ==
    /\ st[c] = "reject"
    /\ rejected' = [rejected EXCEPT ![handle[c]] = @ + 1]
    /\ Goto(c, "release")
    /\ UNCHANGED <<handle, created, sem, active, total, gone>>
CountReject(c) ==
    /\ st[c] = "reject"
    /\ rejected' = [rejected EXCEPT ![handle[c]] = @ + 1]
    /\ Goto(c, "done")
    /\ UNCHANGED <<handle, created, sem, active, total, gone>>

\* A waiting caller's context is done: it leaves and is not counted.
CtxDone(c) ==
    /\ st[c] = "acquire" /\ waiting
    /\ gone' = [gone EXCEPT ![handle[c]] = @ + 1]
    /\ Goto(c, "done")
    /\ UNCHANGED <<handle, created, sem, active, rejected, total>>

CountActive(c) ==
    /\ st[c] = "granted"
    /\ active' = [active EXCEPT ![handle[c]] = @ + 1]
    /\ Goto(c, "in")
    /\ UNCHANGED <<handle, created, sem, rejected, total, gone>>

\* The function returns, or panics: the release is deferred.
FnEnds(c) ==
    /\ st[c] = "in"
    /\ Goto(c, "release")
    /\ UNCHANGED <<handle, created, sem, active, rejected, total, gone>>

\* <-b.sem
Receive(c) ==
    /\ st[c] = "release"
    /\ sem' = [sem EXCEPT ![handle[c]] = @ - 1]
    /\ Goto(c, "freed")
    /\ UNCHANGED <<handle, created, active, rejected, total, gone>>

CountRelease(c) ==
    /\ st[c] = "freed"
    /\ active' = [active EXCEPT ![handle[c]] = @ - 1]
    /\ gone' = [gone EXCEPT ![handle[c]] = @ + 1]
    /\ Goto(c, "done")
    /\ UNCHANGED <<handle, created, sem, rejected, total>>

\* The steps of ExecuteWithContext around the function.
Acquire(c) ==
    \/ Get(c) \/ Create(c) \/ Call(c) \/ Send(c) \/ Full(c) \/ CountReject(c)
    \/ CountActive(c)
Release(c) == Receive(c) \/ CountRelease(c)

=============================================================================
