------------------------------- MODULE Outbox -------------------------------
(***************************************************************************)
(* The transactional outbox (src/outbox).                                  *)
(*                                                                         *)
(* Business transactions insert rows into outbox.events.  Any number of    *)
(* Processors drain the shared table: each claims the oldest claimable row *)
(* under FOR UPDATE SKIP LOCKED, publishes it, and records the outcome in  *)
(* the transaction that holds the row lock.  The database and the broker   *)
(* fail in the ways ProcessNext is written for: a publish that was stored  *)
(* but reported as an error, a transaction that rolls back after the       *)
(* publish, a commit whose reply is lost, a session (and with it the row   *)
(* lock) that is lost while the publish is still running, a crash.         *)
(***************************************************************************)
EXTENDS Integers, FiniteSets

CONSTANTS
    Events,            \* the event IDs business code may write
    Processors,        \* the running Processor instances, of all services
    NoProc,            \* "nobody holds the row lock"
    NoEvent,           \* "no row claimed"
    CreatedAt,         \* created_at of each event; any order, ties allowed
    ConfigMaxRetries,  \* ProcessorConfig.MaxRetries of each processor
    ConfigBatchSize,   \* ProcessorConfig.BatchSize of each processor
    DefaultMaxRetries, \* DefaultProcessorConfig().MaxRetries
    DefaultBatchSize,  \* DefaultProcessorConfig().BatchSize
    HeaderPublisher,   \* TRUE iff the publisher implements HeaderPublisher
    MaxFaults          \* bound: crashes, database and broker faults, and
                       \* expiries of the duplicate window, in one behaviour

ASSUME OutboxAssumption ==
    /\ NoProc \notin Processors
    /\ NoEvent \notin Events
    /\ CreatedAt \in [Events -> Int]
    /\ ConfigMaxRetries \in [Processors -> Int]
    /\ ConfigBatchSize \in [Processors -> Int]
    /\ DefaultMaxRetries \in Nat \ {0}
    /\ DefaultBatchSize \in Nat \ {0}
    /\ HeaderPublisher \in BOOLEAN
    /\ MaxFaults \in Nat

VARIABLES
    row,        \* per event: its life in outbox.events
    retryCount, \* column retry_count
    processed,  \* processed_at IS NOT NULL
    lock,       \* per event: the processor whose transaction holds the row
    pc,         \* per processor: where run/processBatch/ProcessNext stands
    claimed,    \* per processor: res.Event of the ProcessNext in progress
    pubErr,     \* per processor: publish returned an error
    tried,      \* per processor: the slice `tried` of processBatch
    stopping,   \* per processor: Stop was called (done is closed)
    copies,     \* broker: copies of the event stored in the stream
    window,     \* broker: the message IDs in the duplicate window
    attempted,  \* ghost: rows published by the processor in this tick
    unrecorded, \* ghost: publishes whose transaction did not commit
    phantom,    \* ghost: publishes stored although an error was reported
    expiries,   \* ghost: times the duplicate window forgot the message ID
    faults      \* faults so far, at most MaxFaults

rowVars    == <<row, retryCount, processed, lock>>
procVars   == <<pc, claimed, pubErr, tried, stopping, attempted>>
brokerVars == <<copies, window, phantom, expiries>>
vars       == <<rowVars, procVars, brokerVars, unrecorded, faults>>

RowStates == {"none", "uncommitted", "live", "rolledback", "deleted"}
PCs       == {"down", "idle", "batch", "publish", "mark"}

-----------------------------------------------------------------------------
(* Configuration: NewProcessor replaces a value <= 0 by its default.        *)

WithDefault(config, default) == IF config <= 0 THEN default ELSE config

MaxRetries(p) == WithDefault(ConfigMaxRetries[p], DefaultMaxRetries)
BatchSize(p)  == WithDefault(ConfigBatchSize[p], DefaultBatchSize)

B(b) == IF b THEN 1 ELSE 0

Init ==
    /\ row        = [e \in Events |-> "none"]
    /\ retryCount = [e \in Events |-> 0]
    /\ processed  = [e \in Events |-> FALSE]
    /\ lock       = [e \in Events |-> NoProc]
    /\ pc         = [p \in Processors |-> "down"]
    /\ claimed    = [p \in Processors |-> NoEvent]
    /\ pubErr     = [p \in Processors |-> FALSE]
    /\ tried      = [p \in Processors |-> {}]
    /\ stopping   = [p \in Processors |-> FALSE]
    /\ copies     = [e \in Events |-> 0]
    /\ window     = {}
    /\ attempted  = [p \in Processors |-> {}]
    /\ unrecorded = [e \in Events |-> 0]
    /\ phantom    = [e \in Events |-> 0]
    /\ expiries   = [e \in Events |-> 0]
    /\ faults     = 0

Fault == faults < MaxFaults /\ faults' = faults + 1

-----------------------------------------------------------------------------
(* Writers: the row belongs to the caller's transaction until it commits.   *)

SetRow(e, from, to) ==
    /\ row[e] = from
    /\ row' = [row EXCEPT ![e] = to]
    /\ UNCHANGED <<retryCount, processed, lock, procVars, brokerVars,
                   unrecorded, faults>>

PublishInTransaction(e) == SetRow(e, "none", "uncommitted")
CommitTx(e)             == SetRow(e, "uncommitted", "live")
RollbackTx(e)           == SetRow(e, "uncommitted", "rolledback")
Publish(e)              == SetRow(e, "none", "live")

\* CleanupProcessedEvents: the rows whose processed_at lies before the
\* cutoff; how old a processed row is, is left to the environment.
CleanupProcessedEvents ==
    \E old \in (SUBSET {e \in Events : row[e] = "live" /\ processed[e]}) \ {{}} :
        /\ row' = [e \in Events |-> IF e \in old THEN "deleted" ELSE row[e]]
        /\ UNCHANGED <<retryCount, processed, lock, procVars, brokerVars,
                       unrecorded, faults>>

-----------------------------------------------------------------------------
(* The processor's goroutine: run and processBatch.                         *)

\* The goroutine leaves processBatch: its locals (tried, res) are gone.
Leave_KeepTried(p, to) ==
    /\ pc' = [pc EXCEPT ![p] = to]
    /\ claimed' = [claimed EXCEPT ![p] = NoEvent]
    /\ pubErr' = [pubErr EXCEPT ![p] = FALSE]
    /\ attempted' = [attempted EXCEPT ![p] = {}]
    /\ UNCHANGED tried
Leave(p, to) ==
    /\ pc' = [pc EXCEPT ![p] = to]
    /\ claimed' = [claimed EXCEPT ![p] = NoEvent]
    /\ pubErr' = [pubErr EXCEPT ![p] = FALSE]
    /\ tried' = [tried EXCEPT ![p] = {}]
    /\ attempted' = [attempted EXCEPT ![p] = {}]

Goto(p, to) ==
    /\ pc' = [pc EXCEPT ![p] = to]
    /\ UNCHANGED <<claimed, pubErr, tried, attempted>>

\* Start: the goroutine processes a batch before its first tick.
Start(p) ==
    /\ pc[p] = "down"
    /\ Goto(p, "batch")
    /\ stopping' = [stopping EXCEPT ![p] = FALSE]
    /\ UNCHANGED <<rowVars, brokerVars, unrecorded, faults>>

\* run, case <-ticker.C (and ProcessNow).  A closed `done` does not prevent
\* it: select chooses among the ready cases.
Tick(p) ==
    /\ pc[p] = "idle"
    /\ Goto(p, "batch")
    /\ UNCHANGED <<stopping, rowVars, brokerVars, unrecorded, faults>>

\* Stop closes `done`; the batch in progress, if any, runs to its end.
Stop(p) ==
    /\ pc[p] # "down" /\ ~stopping[p]
    /\ stopping' = [stopping EXCEPT ![p] = TRUE]
    /\ UNCHANGED <<pc, claimed, pubErr, tried, attempted, rowVars, brokerVars,
                   unrecorded, faults>>

\* run, case <-p.done (or <-ctx.Done()).
Exit(p) ==
    /\ pc[p] = "idle" /\ stopping[p]
    /\ Goto(p, "down")
    /\ UNCHANGED <<stopping, rowVars, brokerVars, unrecorded, faults>>

\* processBatch returns when ProcessNext reports a database error.
AfterDBError_Continue(p) ==
    /\ pc' = [pc EXCEPT ![p] = "batch"]
    /\ claimed' = [claimed EXCEPT ![p] = NoEvent]
    /\ UNCHANGED <<pubErr, tried, attempted>>
AfterDBError(p) == Leave(p, "idle")

\* The rows the claiming query of ProcessNext returns to processor p: it
\* skips locked rows, rows at p's retry cap and the rows p has tried.
Claimable_IgnoreLocks(p) ==
    {e \in Events : /\ row[e] = "live" /\ ~processed[e]
                    /\ retryCount[e] < MaxRetries(p)
                    /\ e \notin tried[p]}
Claimable(p) ==
    {e \in Events : /\ row[e] = "live" /\ ~processed[e]
                    /\ retryCount[e] < MaxRetries(p)
                    /\ e \notin tried[p]
                    /\ lock[e] = NoProc}

InBatch(p) == pc[p] = "batch" /\ Cardinality(tried[p]) < BatchSize(p)

\* ProcessNext, the SELECT ... ORDER BY created_at LIMIT 1 FOR UPDATE.
Claim(p) ==
    /\ InBatch(p)
    /\ \E e \in Claimable(p) :
        /\ \A other \in Claimable(p) : CreatedAt[e] <= CreatedAt[other]
        /\ claimed' = [claimed EXCEPT ![p] = e]
        /\ lock' = [lock EXCEPT ![e] = p]
    /\ pc' = [pc EXCEPT ![p] = "publish"]
    /\ UNCHANGED <<row, retryCount, processed, pubErr, tried, stopping,
                   attempted, brokerVars, unrecorded, faults>>

\* processBatch ends: the batch is full, or no row was left to claim.
EndBatch_OnlyWhenFull(p) ==
    /\ pc[p] = "batch"
    /\ Cardinality(tried[p]) < BatchSize(p) => Claimable(p) = {}
    /\ \/ Cardinality(tried[p]) < BatchSize(p) /\ Goto(p, "batch")
       \/ Cardinality(tried[p]) >= BatchSize(p) /\ Leave(p, "idle")
    /\ UNCHANGED <<stopping, rowVars, brokerVars, unrecorded, faults>>
EndBatch(p) ==
    /\ pc[p] = "batch"
    /\ Cardinality(tried[p]) < BatchSize(p) => Claimable(p) = {}
    /\ Leave(p, "idle")
    /\ UNCHANGED <<stopping, rowVars, brokerVars, unrecorded, faults>>

\* The claiming query fails: processBatch returns.
ClaimError(p) ==
    /\ InBatch(p)
    /\ Fault
    /\ AfterDBError(p)
    /\ UNCHANGED <<stopping, rowVars, brokerVars, unrecorded>>

-----------------------------------------------------------------------------
(* ProcessNext: publish, while the transaction is open.                     *)

\* processEvent: the message IDs that go with the row, its event ID as
\* Nats-Msg-Id when the publisher takes headers and none otherwise.
NatsMsgIds_PerAttempt(e) ==
    IF HeaderPublisher THEN {<<e, retryCount[e], copies[e]>>} ELSE {}
NatsMsgIds(e) == IF HeaderPublisher THEN {e} ELSE {}

\* The broker stores the message, or drops it as a duplicate of one whose ID
\* is still in the duplicate window.
Store(e, ids) ==
    /\ copies' = [copies EXCEPT ![e] = IF ids \cap window # {} THEN @ ELSE @ + 1]
    /\ window' = window \cup ids
    /\ UNCHANGED expiries

\* p's publish call returned; err tells what it returned.
Published(p, err) ==
    LET e == claimed[p] IN
    /\ pc[p] = "publish"
    /\ pc' = [pc EXCEPT ![p] = "mark"]
    /\ pubErr' = [pubErr EXCEPT ![p] = err]
    /\ attempted' = [attempted EXCEPT ![p] = @ \cup {e}]
    /\ unrecorded' = [unrecorded EXCEPT ![e] = @ + B(lock[e] # p)]
    /\ UNCHANGED <<claimed, tried, stopping, rowVars>>

PublishOk(p) ==
    /\ Published(p, FALSE)
    /\ Store(claimed[p], NatsMsgIds(claimed[p]))
    /\ UNCHANGED <<phantom, faults>>

PublishRefused(p) ==
    /\ Published(p, TRUE)
    /\ UNCHANGED <<brokerVars, faults>>

\* Stored, but the acknowledgement was lost or late: publish reports an error.
PublishAmbiguous(p) ==
    /\ Published(p, TRUE)
    /\ Store(claimed[p], NatsMsgIds(claimed[p]))
    /\ phantom' = [phantom EXCEPT ![claimed[p]] = @ + 1]
    /\ Fault

-----------------------------------------------------------------------------
(* ProcessNext: the UPDATE and the commit.                                  *)

Unlock(e) == lock' = [lock EXCEPT ![e] = NoProc]

\* The update of the claimed row: error and retry_count, or processed_at.
Record_MarkAlways(e, err) ==
    /\ processed' = [processed EXCEPT ![e] = TRUE]
    /\ UNCHANGED <<row, retryCount>>
Record(e, err) ==
    /\ retryCount' = [retryCount EXCEPT ![e] = @ + B(err)]
    /\ processed' = [processed EXCEPT ![e] = ~err]
    /\ UNCHANGED row

\* The transaction commits; processBatch goes on with the next row.
MarkCommit(p) ==
    LET e == claimed[p] IN
    /\ pc[p] = "mark" /\ lock[e] = p
    /\ Record(e, pubErr[p])
    /\ Unlock(e)
    /\ tried' = [tried EXCEPT ![p] = @ \cup {e}]
    /\ pc' = [pc EXCEPT ![p] = "batch"]
    /\ claimed' = [claimed EXCEPT ![p] = NoEvent]
    /\ pubErr' = [pubErr EXCEPT ![p] = FALSE]
    /\ UNCHANGED <<stopping, attempted, brokerVars, unrecorded, faults>>

\* The transaction commits but its reply is lost: ProcessNext returns an
\* error and processBatch ends the tick.
MarkCommitReplyLost(p) ==
    LET e == claimed[p] IN
    /\ pc[p] = "mark" /\ lock[e] = p
    /\ Fault
    /\ Record(e, pubErr[p])
    /\ Unlock(e)
    /\ AfterDBError(p)
    /\ UNCHANGED <<stopping, brokerVars, unrecorded>>

\* The update or the commit fails: the row is left as it was, unlocked.
MarkRollback(p) ==
    LET e == claimed[p] IN
    /\ pc[p] = "mark" /\ lock[e] = p
    /\ Fault
    /\ Unlock(e)
    /\ unrecorded' = [unrecorded EXCEPT ![e] = @ + 1]
    /\ AfterDBError(p)
    /\ UNCHANGED <<row, retryCount, processed, stopping, brokerVars>>

\* The update runs on a session that is gone: it fails.
MarkOnLostSession(p) ==
    /\ pc[p] = "mark" /\ lock[claimed[p]] # p
    /\ AfterDBError(p)
    /\ UNCHANGED <<stopping, rowVars, brokerVars, unrecorded, faults>>

\* What the database does with p's open transaction when its session ends:
\* the row lock is released and nothing is recorded.
AbortTx(p) ==
    LET e == claimed[p]
        held == pc[p] \in {"publish", "mark"} /\ lock[e] = p
    IN  /\ lock' = IF held THEN [lock EXCEPT ![e] = NoProc] ELSE lock
        /\ unrecorded' = IF held /\ pc[p] = "mark"
                         THEN [unrecorded EXCEPT ![e] = @ + 1]
                         ELSE unrecorded
        /\ UNCHANGED <<row, retryCount, processed>>

\* The session is lost while ProcessNext runs; p does not notice yet.
LoseSession(p) ==
    /\ pc[p] \in {"publish", "mark"} /\ lock[claimed[p]] = p
    /\ Fault
    /\ AbortTx(p)
    /\ UNCHANGED <<procVars, brokerVars>>

\* The process dies.
Crash(p) ==
    /\ pc[p] # "down"
    /\ Fault
    /\ AbortTx(p)
    /\ Leave(p, "down")
    /\ UNCHANGED <<stopping, brokerVars>>

\* The broker's duplicate window no longer holds the message ID.
WindowExpires(id) ==
    /\ id \in window
    /\ Fault
    /\ window' = window \ {id}
    /\ expiries' = [expiries EXCEPT ![id] = @ + 1]
    /\ UNCHANGED <<copies, phantom, rowVars, procVars, unrecorded>>

-----------------------------------------------------------------------------
ProcStep(p) ==
    \/ Tick(p) \/ Claim(p) \/ EndBatch(p) \/ ClaimError(p)
    \/ PublishOk(p) \/ PublishRefused(p) \/ PublishAmbiguous(p)
    \/ MarkCommit(p) \/ MarkCommitReplyLost(p) \/ MarkRollback(p)
    \/ MarkOnLostSession(p)

Next ==
    \/ \E e \in Events : \/ PublishInTransaction(e) \/ CommitTx(e)
                         \/ RollbackTx(e) \/ Publish(e) \/ WindowExpires(e)
    \/ CleanupProcessedEvents
    \/ \E p \in Processors : \/ Start(p) \/ Stop(p) \/ Exit(p) \/ ProcStep(p)
                             \/ LoseSession(p) \/ Crash(p)

Spec == Init /\ [][Next]_vars

\* A goroutine that can run does run, a publish call returns (the client has
\* a timeout), and select does not pass over a ready `done` for ever.
FairSpec ==
    /\ Spec
    /\ \A p \in Processors : WF_vars(ProcStep(p)) /\ SF_vars(Exit(p))

-----------------------------------------------------------------------------
(* Properties.                                                              *)

TypeOK ==
    /\ row \in [Events -> RowStates]
    /\ retryCount \in [Events -> Nat]
    /\ processed \in [Events -> BOOLEAN]
    /\ lock \in [Events -> Processors \cup {NoProc}]
    /\ pc \in [Processors -> PCs]
    /\ claimed \in [Processors -> Events \cup {NoEvent}]
    /\ pubErr \in [Processors -> BOOLEAN]
    /\ tried \in [Processors -> SUBSET Events]
    /\ stopping \in [Processors -> BOOLEAN]
    /\ copies \in [Events -> Nat]
    /\ window \subseteq Events
    /\ attempted \in [Processors -> SUBSET Events]
    /\ unrecorded \in [Events -> Nat]
    /\ phantom \in [Events -> Nat]
    /\ expiries \in [Events -> Nat]
    /\ faults \in Nat

\* While a processor's transaction holds a row (FOR UPDATE), the row stays
\* what the claiming query saw: committed, unprocessed and below the
\* processor's cap, whatever the other processors, the cleanup and the
\* faults do; and the holder is inside the ProcessNext that claimed it.
LockedRowIsStable ==
    \A e \in Events : lock[e] # NoProc =>
        /\ pc[lock[e]] \in {"publish", "mark"} /\ claimed[lock[e]] = e
        /\ row[e] = "live" /\ ~processed[e]
        /\ retryCount[e] < MaxRetries(lock[e])

\* No event is lost: a row marked processed, or deleted by the cleanup, is in
\* the stream ("Marking first would drop the event instead", ProcessNext).
ProcessedIsInStream ==
    \A e \in Events : (processed[e] \/ row[e] = "deleted") => copies[e] >= 1

\* An event whose business transaction did not commit never reaches the
\* stream: "the event is atomically saved with the business operation".
OnlyCommittedIsPublished ==
    \A e \in Events : copies[e] >= 1 => row[e] \in {"live", "deleted"}

\* Every copy in the stream is explained: the one whose mark committed (or is
\* about to), one per publish stored in spite of the error it reported, one
\* per publish whose transaction did not commit.  Without such faults two
\* processors on one table publish each row exactly once.
DuplicatesExplained ==
    \A e \in Events :
        copies[e] <= B(processed[e]) + phantom[e] + unrecorded[e]
                     + B(lock[e] # NoProc /\ pc[lock[e]] = "mark" /\ ~pubErr[lock[e]])

\* The retry cap: no row counts more failures than the largest cap among the
\* processors, a processed row fewer than it.
RetryCapHolds ==
    \A e \in Events : retryCount[e] > 0 =>
        \E p \in Processors : retryCount[e] + B(processed[e]) <= MaxRetries(p)

\* "A row is tried at most once per tick", also when the mark of the row
\* rolled back and the row is therefore not in `tried`.
OncePerTick ==
    \A p \in Processors : pc[p] = "publish" => claimed[p] \notin attempted[p]

\* What processEvent sends as Nats-Msg-Id is the same for every attempt at a
\* row, by whatever processor and after whatever failure, and another one for
\* every row: the broker stores no second copy of an event except after its
\* duplicate window has expired, and drops none that it does not hold, so a
\* row that a processor is about to mark, or has marked, is in the stream.
DedupWithinWindow ==
    /\ HeaderPublisher => \A e \in Events : copies[e] <= 1 + expiries[e]
    /\ \A e \in Events : processed[e] => copies[e] >= 1
    /\ \A p \in Processors : pc[p] = "mark" /\ ~pubErr[p] => copies[claimed[p]] >= 1

\* Once a row's mark has committed only a processor that lost its session
\* before it published may still store another copy of it.
NoPublishAfterMark ==
    [][\A e \in Events : processed[e] /\ copies'[e] # copies[e] =>
          \E p \in Processors : /\ pc[p] = "publish" /\ claimed[p] = e
                                /\ lock[e] # p /\ faults > 0]_vars

\* The outbox implements the at-least-once promise: rows are committed when
\* their transaction is, delivered when the stream holds a copy, settled when
\* their mark has committed.
Promise == INSTANCE AtLeastOnce
    WITH committed <- {e \in Events : row[e] \in {"live", "deleted"}},
         delivered <- {e \in Events : copies[e] >= 1},
         settled   <- {e \in Events : processed[e]}

ImplementsAtLeastOnce == Promise!Spec

\* The shared drain: every committed row is published and marked, or reaches
\* the cap of every processor that is up.
Drained(e) == processed[e] \/ \A p \in Processors :
                    pc[p] # "down" => retryCount[e] >= MaxRetries(p)
EveryRowIsDrained == \A e \in Events : row[e] = "live" ~> Drained(e)

\* Stop is graceful and final: the batch in progress ends, then the goroutine.
StopTerminates == \A p \in Processors : stopping[p] ~> pc[p] = "down"
=============================================================================
