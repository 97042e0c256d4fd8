---------------------------- MODULE OutboxProofs ----------------------------
(***************************************************************************)
(* Proofs about Outbox, for any sets of events and processors, any         *)
(* created_at order, any configuration and any number of faults.           *)
(***************************************************************************)
EXTENDS Outbox, TLAPS

USE OutboxAssumption

-----------------------------------------------------------------------------
(* Types.  TypeOK is not inductive: publishing adds claimed[p] to sets of   *)
(* events, so a processor inside ProcessNext must have a row in hand.       *)

InHand == \A p \in Processors : pc[p] \in {"publish", "mark"} => claimed[p] \in Events

TypeInv == TypeOK /\ InHand

\* The typed start of every Processor goroutine and of the empty table.
LEMMA InitTypeInv == Init => TypeInv
BY DEF Init, TypeInv, TypeOK, InHand, RowStates, PCs

\* Every step of the writers, the processors and the faults keeps the types.
LEMMA NextTypeInv ==
    TypeInv /\ [Next]_vars => TypeInv'
<1>0. SUFFICES ASSUME TypeInv, [Next]_vars PROVE TypeInv'
  OBVIOUS
<1>. USE DEF TypeInv, TypeOK, InHand, RowStates, PCs, B, rowVars, procVars,
        brokerVars
<1>1. ASSUME NEW e \in Events, PublishInTransaction(e) \/ CommitTx(e) \/
             RollbackTx(e) \/ Publish(e)
      PROVE  TypeInv'
  BY <1>0, <1>1 DEF PublishInTransaction, CommitTx, RollbackTx, Publish,
     SetRow
<1>2. ASSUME NEW e \in Events, WindowExpires(e)
      PROVE  TypeInv'
  BY <1>0, <1>2 DEF WindowExpires, Fault
<1>3. CASE CleanupProcessedEvents
  BY <1>0, <1>3 DEF CleanupProcessedEvents
<1>4. ASSUME NEW p \in Processors, Start(p) \/ Stop(p) \/ Exit(p) \/ Tick(p)
      PROVE  TypeInv'
  BY Zenon, <1>0, <1>4 DEF Start, Stop, Exit, Tick, Goto
<1>5. ASSUME NEW p \in Processors, Claim(p)
      PROVE  TypeInv'
  BY <1>0, <1>5 DEF Claim, InBatch, Claimable
<1>6. ASSUME NEW p \in Processors, EndBatch(p)
      PROVE  TypeInv'
  BY <1>0, <1>6 DEF EndBatch, Leave
<1>7. ASSUME NEW p \in Processors, ClaimError(p)
      PROVE  TypeInv'
  BY <1>0, <1>7 DEF ClaimError, InBatch, Leave, AfterDBError, Fault
<1>8. ASSUME NEW p \in Processors, PublishOk(p)
      PROVE  TypeInv'
  BY <1>0, <1>8 DEF PublishOk, Published, Store, NatsMsgIds
<1>9. ASSUME NEW p \in Processors, PublishAmbiguous(p)
      PROVE  TypeInv'
  BY <1>0, <1>9 DEF PublishAmbiguous, Published, Store, NatsMsgIds, Fault
<1>10. ASSUME NEW p \in Processors, PublishRefused(p)
      PROVE  TypeInv'
  BY <1>0, <1>10 DEF PublishRefused, Published
<1>11. ASSUME NEW p \in Processors, MarkCommit(p)
      PROVE  TypeInv'
  BY <1>0, <1>11 DEF MarkCommit, Record, Unlock
<1>12. ASSUME NEW p \in Processors, MarkCommitReplyLost(p)
      PROVE  TypeInv'
  BY <1>0, <1>12 DEF MarkCommitReplyLost, Record, Unlock, Leave, AfterDBError,
     Fault
<1>13. ASSUME NEW p \in Processors, MarkRollback(p)
      PROVE  TypeInv'
  BY <1>0, <1>13 DEF MarkRollback, Unlock, Leave, AfterDBError, Fault
<1>14. ASSUME NEW p \in Processors, MarkOnLostSession(p)
      PROVE  TypeInv'
  BY <1>0, <1>14 DEF MarkOnLostSession, Leave, AfterDBError
<1>15. ASSUME NEW p \in Processors, LoseSession(p)
      PROVE  TypeInv'
  BY <1>0, <1>15 DEF LoseSession, AbortTx, Fault
<1>16. ASSUME NEW p \in Processors, Crash(p)
      PROVE  TypeInv'
  BY <1>0, <1>16 DEF Crash, AbortTx, Leave, Fault
<1>17. CASE UNCHANGED vars
  BY <1>0, <1>17 DEF vars
<1>. QED  BY Zenon, <1>0, <1>1, <1>2, <1>3, <1>4, <1>5, <1>6, <1>7, <1>8, <1>9,
     <1>10, <1>11, <1>12, <1>13, <1>14, <1>15, <1>16, <1>17 DEF Next, ProcStep

-----------------------------------------------------------------------------
(* Row locks.                                                               *)

\* A row is locked only by Claim, which checks it; while it is locked only its
\* holder's commit changes it, and that releases the lock.
LEMMA NextLocked ==
    TypeInv /\ LockedRowIsStable /\ [Next]_vars => LockedRowIsStable'
<1>0. SUFFICES ASSUME TypeInv, LockedRowIsStable, [Next]_vars PROVE
        LockedRowIsStable'
  OBVIOUS
<1>. USE DEF TypeInv, TypeOK, InHand, RowStates, PCs, B, LockedRowIsStable,
        rowVars, procVars, brokerVars
<1>1. ASSUME NEW e \in Events, PublishInTransaction(e) \/ CommitTx(e) \/
             RollbackTx(e) \/ Publish(e)
      PROVE  LockedRowIsStable'
  BY <1>0, <1>1 DEF PublishInTransaction, CommitTx, RollbackTx, Publish,
     SetRow
<1>2. ASSUME NEW e \in Events, WindowExpires(e)
      PROVE  LockedRowIsStable'
  BY <1>0, <1>2 DEF WindowExpires, Fault
<1>3. CASE CleanupProcessedEvents
  BY <1>0, <1>3 DEF CleanupProcessedEvents
<1>4. ASSUME NEW p \in Processors, Start(p) \/ Stop(p) \/ Exit(p) \/ Tick(p)
      PROVE  LockedRowIsStable'
  BY <1>0, <1>4 DEF Start, Stop, Exit, Tick, Goto
<1>5. ASSUME NEW p \in Processors, Claim(p)
      PROVE  LockedRowIsStable'
  BY <1>0, <1>5 DEF Claim, InBatch, Claimable
<1>6. ASSUME NEW p \in Processors, EndBatch(p)
      PROVE  LockedRowIsStable'
  BY <1>0, <1>6 DEF EndBatch, Leave
<1>7. ASSUME NEW p \in Processors, ClaimError(p)
      PROVE  LockedRowIsStable'
  BY <1>0, <1>7 DEF ClaimError, InBatch, Leave, AfterDBError, Fault
<1>8. ASSUME NEW p \in Processors, PublishOk(p)
      PROVE  LockedRowIsStable'
  BY <1>0, <1>8 DEF PublishOk, Published, Store, NatsMsgIds
<1>9. ASSUME NEW p \in Processors, PublishAmbiguous(p)
      PROVE  LockedRowIsStable'
  BY <1>0, <1>9 DEF PublishAmbiguous, Published, Store, NatsMsgIds, Fault
<1>10. ASSUME NEW p \in Processors, PublishRefused(p)
      PROVE  LockedRowIsStable'
  BY <1>0, <1>10 DEF PublishRefused, Published
<1>11. ASSUME NEW p \in Processors, MarkCommit(p)
      PROVE  LockedRowIsStable'
  BY <1>0, <1>11 DEF MarkCommit, Record, Unlock
<1>12. ASSUME NEW p \in Processors, MarkCommitReplyLost(p)
      PROVE  LockedRowIsStable'
  BY <1>0, <1>12 DEF MarkCommitReplyLost, Record, Unlock, Leave, AfterDBError,
     Fault
<1>13. ASSUME NEW p \in Processors, MarkRollback(p)
      PROVE  LockedRowIsStable'
  BY <1>0, <1>13 DEF MarkRollback, Unlock, Leave, AfterDBError, Fault
<1>14. ASSUME NEW p \in Processors, MarkOnLostSession(p)
      PROVE  LockedRowIsStable'
  BY <1>0, <1>14 DEF MarkOnLostSession, Leave, AfterDBError
<1>15. ASSUME NEW p \in Processors, LoseSession(p)
      PROVE  LockedRowIsStable'
  BY <1>0, <1>15 DEF LoseSession, AbortTx, Fault
<1>16. ASSUME NEW p \in Processors, Crash(p)
      PROVE  LockedRowIsStable'
  BY <1>0, <1>16 DEF Crash, AbortTx, Leave, Fault
<1>17. CASE UNCHANGED vars
  BY <1>0, <1>17 DEF vars
<1>. QED  BY <1>0, <1>1, <1>2, <1>3, <1>4, <1>5, <1>6, <1>7, <1>8, <1>9,
     <1>10, <1>11, <1>12, <1>13, <1>14, <1>15, <1>16, <1>17 DEF Next, ProcStep

-----------------------------------------------------------------------------
(* The stream.  A mark is preceded by a copy, a copy by a committed row.    *)

StreamInv ==
    /\ ProcessedIsInStream
    /\ OnlyCommittedIsPublished
    /\ \A p \in Processors : pc[p] \in {"publish", "mark"} =>
            row[claimed[p]] \in {"live", "deleted"}
    /\ \A p \in Processors : pc[p] = "mark" /\ ~pubErr[p] => copies[claimed[p]] >= 1
    /\ \A e \in Events : e \in window => copies[e] >= 1

\* A copy is stored before the mark, and only for rows some query returned.
LEMMA NextStream ==
    TypeInv /\ StreamInv /\ [Next]_vars => StreamInv'
<1>0. SUFFICES ASSUME TypeInv, StreamInv, [Next]_vars PROVE StreamInv'
  OBVIOUS
<1>. USE DEF TypeInv, TypeOK, InHand, RowStates, PCs, B, StreamInv,
        ProcessedIsInStream, OnlyCommittedIsPublished, rowVars, procVars,
        brokerVars
<1>1. ASSUME NEW e \in Events, PublishInTransaction(e) \/ CommitTx(e) \/
             RollbackTx(e) \/ Publish(e)
      PROVE  StreamInv'
  BY <1>0, <1>1 DEF PublishInTransaction, CommitTx, RollbackTx, Publish,
     SetRow
<1>2. ASSUME NEW e \in Events, WindowExpires(e)
      PROVE  StreamInv'
  BY <1>0, <1>2 DEF WindowExpires, Fault
<1>3. CASE CleanupProcessedEvents
  BY <1>0, <1>3 DEF CleanupProcessedEvents
<1>4. ASSUME NEW p \in Processors, Start(p) \/ Stop(p) \/ Exit(p) \/ Tick(p)
      PROVE  StreamInv'
  BY <1>0, <1>4 DEF Start, Stop, Exit, Tick, Goto
<1>5. ASSUME NEW p \in Processors, Claim(p)
      PROVE  StreamInv'
  BY <1>0, <1>5 DEF Claim, InBatch, Claimable
<1>6. ASSUME NEW p \in Processors, EndBatch(p)
      PROVE  StreamInv'
  BY <1>0, <1>6 DEF EndBatch, Leave
<1>7. ASSUME NEW p \in Processors, ClaimError(p)
      PROVE  StreamInv'
  BY <1>0, <1>7 DEF ClaimError, InBatch, Leave, AfterDBError, Fault
<1>8. ASSUME NEW p \in Processors, PublishOk(p)
      PROVE  StreamInv'
  BY <1>0, <1>8 DEF PublishOk, Published, Store, NatsMsgIds
<1>9. ASSUME NEW p \in Processors, PublishAmbiguous(p)
      PROVE  StreamInv'
  BY <1>0, <1>9 DEF PublishAmbiguous, Published, Store, NatsMsgIds, Fault
<1>10. ASSUME NEW p \in Processors, PublishRefused(p)
      PROVE  StreamInv'
  BY <1>0, <1>10 DEF PublishRefused, Published
<1>11. ASSUME NEW p \in Processors, MarkCommit(p)
      PROVE  StreamInv'
  BY <1>0, <1>11 DEF MarkCommit, Record, Unlock
<1>12. ASSUME NEW p \in Processors, MarkCommitReplyLost(p)
      PROVE  StreamInv'
  BY <1>0, <1>12 DEF MarkCommitReplyLost, Record, Unlock, Leave, AfterDBError,
     Fault
<1>13. ASSUME NEW p \in Processors, MarkRollback(p)
      PROVE  StreamInv'
  BY <1>0, <1>13 DEF MarkRollback, Unlock, Leave, AfterDBError, Fault
<1>14. ASSUME NEW p \in Processors, MarkOnLostSession(p)
      PROVE  StreamInv'
  BY <1>0, <1>14 DEF MarkOnLostSession, Leave, AfterDBError
<1>15. ASSUME NEW p \in Processors, LoseSession(p)
      PROVE  StreamInv'
  BY <1>0, <1>15 DEF LoseSession, AbortTx, Fault
<1>16. ASSUME NEW p \in Processors, Crash(p)
      PROVE  StreamInv'
  BY <1>0, <1>16 DEF Crash, AbortTx, Leave, Fault
<1>17. CASE UNCHANGED vars
  BY <1>0, <1>17 DEF vars
<1>. QED  BY Zenon, <1>0, <1>1, <1>2, <1>3, <1>4, <1>5, <1>6, <1>7, <1>8, <1>9,
     <1>10, <1>11, <1>12, <1>13, <1>14, <1>15, <1>16, <1>17 DEF Next, ProcStep

\* A stored copy is first charged to the transaction that holds the row; the
\* commit turns that charge into the mark, an abort into an unrecorded publish.
LEMMA NextDup ==
    TypeInv /\ LockedRowIsStable /\ DuplicatesExplained /\ [Next]_vars
        => DuplicatesExplained'
<1>0. SUFFICES ASSUME TypeInv, LockedRowIsStable, DuplicatesExplained,
        [Next]_vars PROVE DuplicatesExplained'
  OBVIOUS
<1>. USE DEF TypeInv, TypeOK, InHand, RowStates, PCs, B, LockedRowIsStable,
        DuplicatesExplained, rowVars, procVars, brokerVars
<1>1. ASSUME NEW e \in Events, PublishInTransaction(e) \/ CommitTx(e) \/
             RollbackTx(e) \/ Publish(e)
      PROVE  DuplicatesExplained'
  BY <1>0, <1>1 DEF PublishInTransaction, CommitTx, RollbackTx, Publish,
     SetRow
<1>2. ASSUME NEW e \in Events, WindowExpires(e)
      PROVE  DuplicatesExplained'
  BY <1>0, <1>2 DEF WindowExpires, Fault
<1>3. CASE CleanupProcessedEvents
  BY <1>0, <1>3 DEF CleanupProcessedEvents
<1>4. ASSUME NEW p \in Processors, Start(p) \/ Stop(p) \/ Exit(p) \/ Tick(p)
      PROVE  DuplicatesExplained'
  BY <1>0, <1>4 DEF Start, Stop, Exit, Tick, Goto
<1>5. ASSUME NEW p \in Processors, Claim(p)
      PROVE  DuplicatesExplained'
  BY <1>0, <1>5 DEF Claim, InBatch, Claimable
<1>6. ASSUME NEW p \in Processors, EndBatch(p)
      PROVE  DuplicatesExplained'
  BY <1>0, <1>6 DEF EndBatch, Leave
<1>7. ASSUME NEW p \in Processors, ClaimError(p)
      PROVE  DuplicatesExplained'
  BY <1>0, <1>7 DEF ClaimError, InBatch, Leave, AfterDBError, Fault
<1>8. ASSUME NEW p \in Processors, PublishOk(p)
      PROVE  DuplicatesExplained'
  BY <1>0, <1>8 DEF PublishOk, Published, Store, NatsMsgIds
<1>9. ASSUME NEW p \in Processors, PublishAmbiguous(p)
      PROVE  DuplicatesExplained'
  BY <1>0, <1>9 DEF PublishAmbiguous, Published, Store, NatsMsgIds, Fault
<1>10. ASSUME NEW p \in Processors, PublishRefused(p)
      PROVE  DuplicatesExplained'
  BY <1>0, <1>10 DEF PublishRefused, Published
<1>11. ASSUME NEW p \in Processors, MarkCommit(p)
      PROVE  DuplicatesExplained'
  <2>. DEFINE c == claimed[p]
  <2>1. /\ c \in Events /\ lock[c] = p /\ pc[p] = "mark" /\ ~processed[c]
        /\ copies' = copies /\ phantom' = phantom /\ unrecorded' = unrecorded
        /\ processed' = [processed EXCEPT ![c] = ~pubErr[p]]
        /\ lock' = [lock EXCEPT ![c] = NoProc]
    BY <1>0, <1>11 DEF Record, Unlock, MarkCommit
  <2>2. copies[c] <= phantom[c] + unrecorded[c] + B(~pubErr[p])
    BY <1>0, <2>1
  <2>3. ASSUME NEW x \in Events, x # c, lock[x] # NoProc
        PROVE  pc'[lock[x]] = pc[lock[x]] /\ pubErr'[lock[x]] = pubErr[lock[x]]
    <3>1. lock[x] # p /\ lock[x] \in Processors
      BY <1>0, <2>3
    <3>. QED  BY <1>0, <1>11, <3>1 DEF Leave, AfterDBError, MarkCommit
  <2>4. ASSUME NEW x \in Events, x # c
        PROVE  copies'[x] <= B(processed'[x]) + phantom'[x] + unrecorded'[x]
          + B(lock'[x] # NoProc /\ pc'[lock'[x]] = "mark" /\ ~pubErr'[lock'[x]])
    BY SMTT(60), <1>0, <2>1, <2>3, <2>4
  <2>5. copies'[c] <= B(processed'[c]) + phantom'[c] + unrecorded'[c]
          + B(lock'[c] # NoProc /\ pc'[lock'[c]] = "mark" /\ ~pubErr'[lock'[c]])
    <3>1. lock'[c] = NoProc /\ processed'[c] = ~pubErr[p]
      BY <1>0, <2>1
    <3>2. B(lock'[c] # NoProc /\ pc'[lock'[c]] = "mark" /\ ~pubErr'[lock'[c]]) = 0
      BY <3>1
    <3>3. B(processed'[c]) = B(~pubErr[p])
      BY Zenon, <3>1
    <3>. QED  BY <1>0, <2>1, <2>2, <3>2, <3>3
  <2>. QED  BY <2>4, <2>5
<1>12. ASSUME NEW p \in Processors, MarkCommitReplyLost(p)
      PROVE  DuplicatesExplained'
  <2>. DEFINE c == claimed[p]
  <2>1. /\ c \in Events /\ lock[c] = p /\ pc[p] = "mark" /\ ~processed[c]
        /\ copies' = copies /\ phantom' = phantom /\ unrecorded' = unrecorded
        /\ processed' = [processed EXCEPT ![c] = ~pubErr[p]]
        /\ lock' = [lock EXCEPT ![c] = NoProc]
    BY <1>0, <1>12 DEF Record, Unlock, MarkCommitReplyLost
  <2>2. copies[c] <= phantom[c] + unrecorded[c] + B(~pubErr[p])
    BY <1>0, <2>1
  <2>3. ASSUME NEW x \in Events, x # c, lock[x] # NoProc
        PROVE  pc'[lock[x]] = pc[lock[x]] /\ pubErr'[lock[x]] = pubErr[lock[x]]
    <3>1. lock[x] # p /\ lock[x] \in Processors
      BY <1>0, <2>3
    <3>. QED  BY SMTT(60), <1>0, <1>12, <3>1 DEF Leave, AfterDBError, MarkCommitReplyLost
  <2>4. ASSUME NEW x \in Events, x # c
        PROVE  copies'[x] <= B(processed'[x]) + phantom'[x] + unrecorded'[x]
          + B(lock'[x] # NoProc /\ pc'[lock'[x]] = "mark" /\ ~pubErr'[lock'[x]])
    BY SMTT(60), <1>0, <2>1, <2>3, <2>4
  <2>5. copies'[c] <= B(processed'[c]) + phantom'[c] + unrecorded'[c]
          + B(lock'[c] # NoProc /\ pc'[lock'[c]] = "mark" /\ ~pubErr'[lock'[c]])
    <3>1. lock'[c] = NoProc /\ processed'[c] = ~pubErr[p]
      BY <1>0, <2>1
    <3>2. B(lock'[c] # NoProc /\ pc'[lock'[c]] = "mark" /\ ~pubErr'[lock'[c]]) = 0
      BY <3>1
    <3>3. B(processed'[c]) = B(~pubErr[p])
      BY Zenon, <3>1
    <3>. QED  BY <1>0, <2>1, <2>2, <3>2, <3>3
  <2>. QED  BY <2>4, <2>5
<1>13. ASSUME NEW p \in Processors, MarkRollback(p)
      PROVE  DuplicatesExplained'
  BY SMTT(60), <1>0, <1>13 DEF MarkRollback, Unlock, Leave, AfterDBError, Fault
<1>14. ASSUME NEW p \in Processors, MarkOnLostSession(p)
      PROVE  DuplicatesExplained'
  BY <1>0, <1>14 DEF MarkOnLostSession, Leave, AfterDBError
<1>15. ASSUME NEW p \in Processors, LoseSession(p)
      PROVE  DuplicatesExplained'
  BY <1>0, <1>15 DEF LoseSession, AbortTx, Fault
<1>16. ASSUME NEW p \in Processors, Crash(p)
      PROVE  DuplicatesExplained'
  BY SMTT(60), <1>0, <1>16 DEF Crash, AbortTx, Leave, Fault
<1>17. CASE UNCHANGED vars
  BY <1>0, <1>17 DEF vars
<1>. QED  BY Zenon, <1>0, <1>1, <1>2, <1>3, <1>4, <1>5, <1>6, <1>7, <1>8, <1>9,
     <1>10, <1>11, <1>12, <1>13, <1>14, <1>15, <1>16, <1>17 DEF Next, ProcStep

\* The cap of a processor is a positive number, whatever its configuration.
LEMMA MaxRetriesType == \A p \in Processors : MaxRetries(p) \in Nat \ {0}
BY DEF MaxRetries, WithDefault

\* Only a committing mark changes processed_at or retry_count.
LEMMA RecordSteps ==
    [Next]_vars => \/ UNCHANGED <<retryCount, processed>>
                   \/ \E p \in Processors : MarkCommit(p) \/ MarkCommitReplyLost(p)
BY Zenon DEF Next, ProcStep, vars, rowVars, PublishInTransaction, CommitTx, RollbackTx,
   Publish, SetRow, WindowExpires, CleanupProcessedEvents, Start, Stop, Exit, Tick,
   Claim, EndBatch, ClaimError, PublishOk, PublishAmbiguous, PublishRefused,
   Published, MarkRollback, MarkOnLostSession, LoseSession, Crash, AbortTx

\* Only the writers and the cleanup insert, commit or delete rows.
LEMMA RowSteps ==
    [Next]_vars => \/ UNCHANGED row \/ CleanupProcessedEvents
                   \/ \E e \in Events : \/ PublishInTransaction(e) \/ CommitTx(e)
                                        \/ RollbackTx(e) \/ Publish(e)
BY Zenon DEF Next, ProcStep, vars, rowVars, WindowExpires, Start, Stop, Exit, Tick, Claim,
   EndBatch, ClaimError, PublishOk, PublishAmbiguous, PublishRefused, Published,
   MarkCommit, MarkCommitReplyLost, Record, MarkRollback, MarkOnLostSession,
   LoseSession, Crash, AbortTx

\* A committing mark finds the row below the cap of the processor that claimed
\* it, so neither the failure nor the mark it records takes it beyond that cap.
LEMMA NextCap ==
    TypeInv /\ LockedRowIsStable /\ RetryCapHolds /\ [Next]_vars => RetryCapHolds'
<1>0. SUFFICES ASSUME TypeInv, LockedRowIsStable, RetryCapHolds, [Next]_vars
               PROVE  RetryCapHolds'
  OBVIOUS
<1>. USE DEF TypeInv, TypeOK, InHand, B, LockedRowIsStable, RetryCapHolds
<1>1. CASE UNCHANGED <<retryCount, processed>>
  BY <1>0, <1>1
<1>2. ASSUME NEW p \in Processors, MarkCommit(p) \/ MarkCommitReplyLost(p)
      PROVE  RetryCapHolds'
  <2>. DEFINE c == claimed[p]
  <2>1. /\ c \in Events /\ lock[c] = p /\ retryCount[c] < MaxRetries(p)
        /\ processed' = [processed EXCEPT ![c] = ~pubErr[p]]
        /\ retryCount' = [retryCount EXCEPT ![c] = @ + B(pubErr[p])]
    BY SMTT(60), <1>0, <1>2 DEF Record, MarkCommit, MarkCommitReplyLost
  <2>2. retryCount'[c] + B(processed'[c]) <= MaxRetries(p)
    BY <1>0, <2>1, MaxRetriesType
  <2>. QED  BY <1>0, <2>1, <2>2
<1>. QED  BY <1>0, <1>1, <1>2, RecordSteps

-----------------------------------------------------------------------------
(* A tick.  What was published in it is in tried, or is being marked.       *)

TickInv ==
    \A p \in Processors :
        /\ attempted[p] \subseteq
              tried[p] \cup (IF pc[p] = "mark" THEN {claimed[p]} ELSE {})
        /\ pc[p] = "publish" => claimed[p] \notin tried[p]

\* tried grows by the row whose mark committed; every other way out of
\* ProcessNext ends the tick.
LEMMA NextTick ==
    TypeInv /\ TickInv /\ [Next]_vars => TickInv'
<1>0. SUFFICES ASSUME TypeInv, TickInv, [Next]_vars PROVE TickInv'
  OBVIOUS
<1>. USE DEF TypeInv, TypeOK, InHand, RowStates, PCs, B, TickInv, rowVars,
        procVars, brokerVars
<1>1. ASSUME NEW e \in Events, PublishInTransaction(e) \/ CommitTx(e) \/
             RollbackTx(e) \/ Publish(e)
      PROVE  TickInv'
  BY <1>0, <1>1 DEF PublishInTransaction, CommitTx, RollbackTx, Publish,
     SetRow
<1>2. ASSUME NEW e \in Events, WindowExpires(e)
      PROVE  TickInv'
  BY <1>0, <1>2 DEF WindowExpires, Fault
<1>3. CASE CleanupProcessedEvents
  BY <1>0, <1>3 DEF CleanupProcessedEvents
<1>4. ASSUME NEW p \in Processors, Start(p) \/ Stop(p) \/ Exit(p) \/ Tick(p)
      PROVE  TickInv'
  BY <1>0, <1>4 DEF Start, Stop, Exit, Tick, Goto
<1>5. ASSUME NEW p \in Processors, Claim(p)
      PROVE  TickInv'
  BY <1>0, <1>5 DEF Claim, InBatch, Claimable
<1>6. ASSUME NEW p \in Processors, EndBatch(p)
      PROVE  TickInv'
  BY <1>0, <1>6 DEF EndBatch, Leave
<1>7. ASSUME NEW p \in Processors, ClaimError(p)
      PROVE  TickInv'
  BY <1>0, <1>7 DEF ClaimError, InBatch, Leave, AfterDBError, Fault
<1>8. ASSUME NEW p \in Processors, PublishOk(p)
      PROVE  TickInv'
  BY <1>0, <1>8 DEF PublishOk, Published, Store, NatsMsgIds
<1>9. ASSUME NEW p \in Processors, PublishAmbiguous(p)
      PROVE  TickInv'
  BY <1>0, <1>9 DEF PublishAmbiguous, Published, Store, NatsMsgIds, Fault
<1>10. ASSUME NEW p \in Processors, PublishRefused(p)
      PROVE  TickInv'
  BY <1>0, <1>10 DEF PublishRefused, Published
<1>11. ASSUME NEW p \in Processors, MarkCommit(p)
      PROVE  TickInv'
  BY <1>0, <1>11 DEF MarkCommit, Record, Unlock
<1>12. ASSUME NEW p \in Processors, MarkCommitReplyLost(p)
      PROVE  TickInv'
  BY <1>0, <1>12 DEF MarkCommitReplyLost, Record, Unlock, Leave, AfterDBError,
     Fault
<1>13. ASSUME NEW p \in Processors, MarkRollback(p)
      PROVE  TickInv'
  BY <1>0, <1>13 DEF MarkRollback, Unlock, Leave, AfterDBError, Fault
<1>14. ASSUME NEW p \in Processors, MarkOnLostSession(p)
      PROVE  TickInv'
  BY <1>0, <1>14 DEF MarkOnLostSession, Leave, AfterDBError
<1>15. ASSUME NEW p \in Processors, LoseSession(p)
      PROVE  TickInv'
  BY <1>0, <1>15 DEF LoseSession, AbortTx, Fault
<1>16. ASSUME NEW p \in Processors, Crash(p)
      PROVE  TickInv'
  BY <1>0, <1>16 DEF Crash, AbortTx, Leave, Fault
<1>17. CASE UNCHANGED vars
  BY <1>0, <1>17 DEF vars
<1>. QED  BY Zenon, <1>0, <1>1, <1>2, <1>3, <1>4, <1>5, <1>6, <1>7, <1>8, <1>9,
     <1>10, <1>11, <1>12, <1>13, <1>14, <1>15, <1>16, <1>17 DEF Next, ProcStep

-----------------------------------------------------------------------------
(* The duplicate window of the broker.                                      *)

DedupInv ==
    HeaderPublisher => \A e \in Events : copies[e] <= expiries[e] + B(e \in window)

\* Only a publish that is stored, or the expiry of the duplicate window,
\* changes what the broker remembers.
LEMMA BrokerSteps ==
    [Next]_vars => \/ UNCHANGED <<copies, window, expiries>>
                   \/ \E p \in Processors : PublishOk(p) \/ PublishAmbiguous(p)
                   \/ \E e \in Events : WindowExpires(e)
BY Zenon DEF Next, ProcStep, vars, brokerVars, PublishInTransaction, CommitTx, RollbackTx,
   Publish, SetRow, CleanupProcessedEvents, Start, Stop, Exit, Tick, Claim, EndBatch,
   ClaimError, PublishRefused, MarkCommit, MarkCommitReplyLost, MarkRollback,
   MarkOnLostSession, LoseSession, Crash

\* With Nats-Msg-Id a copy is stored only when the window does not hold the
\* event, and storing it puts the event back into the window.
LEMMA NextDedup == TypeInv /\ DedupInv /\ [Next]_vars => DedupInv'
<1>0. SUFFICES ASSUME TypeInv, DedupInv, [Next]_vars PROVE DedupInv'
  OBVIOUS
<1>. USE DEF TypeInv, TypeOK, InHand, B, DedupInv
<1>1. CASE UNCHANGED <<copies, window, expiries>>
  BY <1>0, <1>1
<1>2. ASSUME NEW p \in Processors, PublishOk(p) \/ PublishAmbiguous(p)
      PROVE  DedupInv'
  BY SMTT(60), <1>0, <1>2 DEF PublishOk, PublishAmbiguous, Published, Store, NatsMsgIds
<1>3. ASSUME NEW e \in Events, WindowExpires(e) PROVE DedupInv'
  BY <1>0, <1>3 DEF WindowExpires
<1>. QED  BY <1>0, <1>1, <1>2, <1>3, BrokerSteps

-----------------------------------------------------------------------------
(* Lost sessions.                                                           *)

SessionInv ==
    \A p \in Processors :
        pc[p] \in {"publish", "mark"} /\ lock[claimed[p]] # p => faults > 0

\* A processor is without the lock of the row in its hand only after a fault.
LEMMA NextSession ==
    TypeInv /\ LockedRowIsStable /\ SessionInv /\ [Next]_vars => SessionInv'
<1>0. SUFFICES ASSUME TypeInv, LockedRowIsStable, SessionInv, [Next]_vars
        PROVE SessionInv'
  OBVIOUS
<1>a. /\ pc \in [Processors -> PCs] /\ faults \in Nat
      /\ claimed \in [Processors -> Events \cup {NoEvent}]
      /\ lock \in [Events -> Processors \cup {NoProc}]
      /\ \A q \in Processors : pc[q] \in {"publish", "mark"} => claimed[q] \in Events
  BY <1>0 DEF TypeInv, TypeOK, InHand
<1>b. \A q \in Processors :
         pc[q] \in {"publish", "mark"} /\ lock[claimed[q]] # q => faults > 0
  BY <1>0 DEF SessionInv
<1>. USE DEF SessionInv, rowVars, procVars, brokerVars
<1>1. ASSUME NEW e \in Events, PublishInTransaction(e) \/ CommitTx(e) \/
             RollbackTx(e) \/ Publish(e)
      PROVE  SessionInv'
  BY <1>a, <1>b, <1>1 DEF PublishInTransaction, CommitTx, RollbackTx, Publish,
     SetRow
<1>2. ASSUME NEW e \in Events, WindowExpires(e)
      PROVE  SessionInv'
  BY <1>a, <1>b, <1>2 DEF WindowExpires, Fault
<1>3. CASE CleanupProcessedEvents
  BY <1>a, <1>b, <1>3 DEF CleanupProcessedEvents
<1>4. ASSUME NEW p \in Processors, Start(p) \/ Stop(p) \/ Exit(p) \/ Tick(p)
      PROVE  SessionInv'
  BY <1>a, <1>b, <1>4 DEF Start, Stop, Exit, Tick, Goto
<1>5. ASSUME NEW p \in Processors, Claim(p)
      PROVE  SessionInv'
  <2>1. PICK e \in Events :
          /\ lock[e] = NoProc /\ claimed' = [claimed EXCEPT ![p] = e]
          /\ lock' = [lock EXCEPT ![e] = p] /\ faults' = faults
          /\ \A q \in Processors \ {p} : pc'[q] = pc[q]
    BY Zenon, <1>a, <1>5 DEF Claim, InBatch, Claimable
  <2>. QED  BY <1>a, <1>b, <2>1
<1>6. ASSUME NEW p \in Processors, EndBatch(p)
      PROVE  SessionInv'
  BY <1>a, <1>b, <1>6 DEF EndBatch, Leave
<1>7. ASSUME NEW p \in Processors, ClaimError(p)
      PROVE  SessionInv'
  BY <1>a, <1>b, <1>7 DEF ClaimError, InBatch, Leave, AfterDBError, Fault
<1>8. ASSUME NEW p \in Processors, PublishOk(p)
      PROVE  SessionInv'
  BY <1>a, <1>b, <1>8 DEF PublishOk, Published, Store, NatsMsgIds
<1>9. ASSUME NEW p \in Processors, PublishAmbiguous(p)
      PROVE  SessionInv'
  BY <1>a, <1>b, <1>9 DEF PublishAmbiguous, Published, Store, NatsMsgIds, Fault
<1>10. ASSUME NEW p \in Processors, PublishRefused(p)
      PROVE  SessionInv'
  BY <1>a, <1>b, <1>10 DEF PublishRefused, Published
<1>11. ASSUME NEW p \in Processors, MarkCommit(p)
      PROVE  SessionInv'
  BY <1>a, <1>b, <1>11 DEF MarkCommit, Record, Unlock
<1>12. ASSUME NEW p \in Processors, MarkCommitReplyLost(p)
      PROVE  SessionInv'
  BY <1>a, <1>b, <1>12 DEF MarkCommitReplyLost, Record, Unlock, Leave, AfterDBError,
     Fault
<1>13. ASSUME NEW p \in Processors, MarkRollback(p)
      PROVE  SessionInv'
  BY <1>a, <1>b, <1>13 DEF MarkRollback, Unlock, Leave, AfterDBError, Fault
<1>14. ASSUME NEW p \in Processors, MarkOnLostSession(p)
      PROVE  SessionInv'
  BY <1>a, <1>b, <1>14 DEF MarkOnLostSession, Leave, AfterDBError
<1>15. ASSUME NEW p \in Processors, LoseSession(p)
      PROVE  SessionInv'
  BY <1>a, <1>b, <1>15 DEF LoseSession, AbortTx, Fault
<1>16. ASSUME NEW p \in Processors, Crash(p)
      PROVE  SessionInv'
  BY <1>a, <1>b, <1>16 DEF Crash, AbortTx, Leave, Fault
<1>17. CASE UNCHANGED vars
  BY <1>a, <1>b, <1>17 DEF vars
<1>. QED  BY Zenon, <1>0, <1>1, <1>2, <1>3, <1>4, <1>5, <1>6, <1>7, <1>8, <1>9,
     <1>10, <1>11, <1>12, <1>13, <1>14, <1>15, <1>16, <1>17 DEF Next, ProcStep

-----------------------------------------------------------------------------
(* The inductive invariant and what follows from it.                        *)

IInv ==
    /\ TypeInv /\ LockedRowIsStable /\ SessionInv /\ StreamInv
    /\ DuplicatesExplained /\ RetryCapHolds /\ TickInv /\ DedupInv

\* The empty table and stopped processors satisfy it.
LEMMA InitIInv == Init => IInv
<1>. SUFFICES ASSUME Init PROVE IInv
  OBVIOUS
<1>1. TypeInv
  BY InitTypeInv
<1>2. LockedRowIsStable /\ SessionInv
  BY DEF Init, LockedRowIsStable, SessionInv
<1>3. StreamInv
  BY DEF Init, StreamInv, ProcessedIsInStream, OnlyCommittedIsPublished
<1>4. DuplicatesExplained
  BY DEF Init, DuplicatesExplained, B
<1>5. RetryCapHolds /\ TickInv /\ DedupInv
  BY MaxRetriesType DEF Init, RetryCapHolds, TickInv, DedupInv, B
<1>. QED
  BY <1>1, <1>2, <1>3, <1>4, <1>5 DEF IInv

\* It is inductive.
LEMMA NextIInv == IInv /\ [Next]_vars => IInv'
BY NextTypeInv, NextLocked, NextSession, NextStream, NextDup, NextCap, NextTick,
   NextDedup DEF IInv

\* It holds in every reachable state of the outbox.
THEOREM Invariance == Spec => []IInv
BY InitIInv, NextIInv, PTL DEF Spec

\* The types of the table, the processors and the broker.
THEOREM TypeCorrect == Spec => []TypeOK
<1>1. IInv => TypeOK
  BY DEF IInv, TypeInv
<1>. QED  BY <1>1, Invariance, PTL

\* FOR UPDATE SKIP LOCKED at work: a claimed row cannot change underfoot.
THEOREM LockSafety == Spec => []LockedRowIsStable
<1>1. IInv => LockedRowIsStable
  BY DEF IInv
<1>. QED  BY <1>1, Invariance, PTL

\* No event is lost by a mark or by the cleanup.
THEOREM NoLoss == Spec => []ProcessedIsInStream
<1>1. IInv => ProcessedIsInStream
  BY DEF IInv, StreamInv
<1>. QED  BY <1>1, Invariance, PTL

\* No event of an open or rolled back business transaction is published.
THEOREM NoPhantomEvent == Spec => []OnlyCommittedIsPublished
<1>1. IInv => OnlyCommittedIsPublished
  BY DEF IInv, StreamInv
<1>. QED  BY <1>1, Invariance, PTL

\* Every duplicate in the stream has a fault to account for it.
THEOREM DuplicatesAccounted == Spec => []DuplicatesExplained
<1>1. IInv => DuplicatesExplained
  BY DEF IInv
<1>. QED  BY <1>1, Invariance, PTL

\* The retry cap of ProcessNext holds for any mix of configured caps.
THEOREM RetryCap == Spec => []RetryCapHolds
<1>1. IInv => RetryCapHolds
  BY DEF IInv
<1>. QED  BY <1>1, Invariance, PTL

\* processBatch never publishes a row twice in one tick.
THEOREM NoBurst == Spec => []OncePerTick
<1>1. IInv => OncePerTick
  BY DEF IInv, TickInv, OncePerTick, TypeInv, TypeOK
<1>. QED  BY <1>1, Invariance, PTL

\* The Nats-Msg-Id of processEvent bounds the copies of an event by the
\* expiries of the window, and makes the broker drop no event it does not hold.
THEOREM Dedup == Spec => []DedupWithinWindow
<1>1. IInv => DedupWithinWindow
  <2>1. ASSUME IInv, HeaderPublisher, NEW e \in Events PROVE copies[e] <= 1 + expiries[e]
    BY <2>1 DEF IInv, DedupInv, TypeInv, TypeOK, B
  <2>2. ASSUME IInv, NEW e \in Events, processed[e] PROVE copies[e] >= 1
    BY <2>2 DEF IInv, StreamInv, ProcessedIsInStream
  <2>3. ASSUME IInv, NEW p \in Processors, pc[p] = "mark", ~pubErr[p]
        PROVE  copies[claimed[p]] >= 1
    BY <2>3 DEF IInv, StreamInv
  <2>. QED  BY Zenon, <2>1, <2>2, <2>3 DEF DedupWithinWindow
<1>. QED  BY <1>1, Invariance, PTL

\* After a committed mark only a processor without its session publishes.
THEOREM MarkIsFinal == Spec => NoPublishAfterMark
<1>. DEFINE A == \A e \in Events : processed[e] /\ copies'[e] # copies[e] =>
          \E p \in Processors : /\ pc[p] = "publish" /\ claimed[p] = e
                                /\ lock[e] # p /\ faults > 0
<1>1. IInv /\ [Next]_vars => A
  <2>0. SUFFICES ASSUME IInv, [Next]_vars, NEW e \in Events, processed[e],
                        copies'[e] # copies[e]
                 PROVE  \E p \in Processors : /\ pc[p] = "publish" /\ claimed[p] = e
                                              /\ lock[e] # p /\ faults > 0
    OBVIOUS
  <2>1. PICK p \in Processors : PublishOk(p) \/ PublishAmbiguous(p)
    BY <2>0, BrokerSteps DEF WindowExpires
  <2>2. pc[p] = "publish" /\ claimed[p] = e
    BY <2>0, <2>1 DEF PublishOk, PublishAmbiguous, Published, Store, NatsMsgIds, IInv, TypeInv,
       TypeOK, InHand
  <2>3. lock[e] # p
    <3>1. LockedRowIsStable
      BY <2>0 DEF IInv
    <3>2. lock[e] # NoProc => ~processed[e]
      BY ONLY Zenon, <3>1, e \in Events DEF LockedRowIsStable
    <3>3. p # NoProc
      BY ONLY p \in Processors, OutboxAssumption DEF OutboxAssumption
    <3>. QED  BY ONLY <2>0, <3>2, <3>3
  <2>. QED  BY <2>0, <2>2, <2>3 DEF IInv, SessionInv
<1>. QED  BY <1>1, Invariance, PTL DEF Spec, NoPublishAfterMark

\* The outbox implements AtLeastOnce under the mapping of Promise.
THEOREM Refinement == Spec => ImplementsAtLeastOnce
<1>1. Init => Promise!Init
  BY DEF Init, Promise!Init
<1>2. IInv /\ [Next]_vars => [Promise!Next]_(Promise!vars)
  <2>0. SUFFICES ASSUME IInv, [Next]_vars PROVE [Promise!Next]_(Promise!vars)
    OBVIOUS
  <2>. DEFINE C == {e \in Events : row[e] \in {"live", "deleted"}}
              D == {e \in Events : copies[e] >= 1}
              S == {e \in Events : processed[e]}
  <2>. USE DEF TypeInv, TypeOK, InHand
  <2>1. CASE UNCHANGED <<row, copies, processed>>
    BY <2>1 DEF Promise!vars
  <2>2. ASSUME NEW e \in Events, CommitTx(e) \/ Publish(e)
        PROVE  Promise!Commit(e)
    <3>1. UNCHANGED <<copies, processed>> /\ row' = [row EXCEPT ![e] = "live"]
      BY <2>2 DEF CommitTx, Publish, SetRow, brokerVars
    <3>2. C' = C \cup {e} /\ D' = D /\ S' = S
      BY SMTT(60), <2>0, <3>1 DEF IInv
    <3>. QED  BY <3>2 DEF Promise!Commit
  <2>3. CASE CleanupProcessedEvents \/ \E e \in Events :
                PublishInTransaction(e) \/ RollbackTx(e)
    <3>1. UNCHANGED <<copies, processed>>
      BY <2>3 DEF CleanupProcessedEvents, PublishInTransaction, RollbackTx, SetRow,
         brokerVars
    <3>2. C' = C
      BY <2>0, <2>3 DEF CleanupProcessedEvents, PublishInTransaction, RollbackTx,
         SetRow, IInv
    <3>. QED  BY <3>1, <3>2 DEF Promise!vars
  <2>4. ASSUME NEW p \in Processors, NEW e \in Events, claimed[p] = e,
               PublishOk(p) \/ PublishAmbiguous(p)
        PROVE  Promise!Deliver(e)
    <3>1. /\ e \in C /\ UNCHANGED <<row, processed>>
          /\ \/ copies' = [copies EXCEPT ![e] = @ + 1]
             \/ e \in window /\ UNCHANGED copies
      BY <2>0, <2>4 DEF PublishOk, PublishAmbiguous, Published, Store, NatsMsgIds, rowVars, IInv,
         StreamInv
    <3>2. D' = D \cup {e} /\ C' = C /\ S' = S
      BY SMTT(60), <2>0, <3>1 DEF IInv, StreamInv
    <3>. QED  BY <3>1, <3>2 DEF Promise!Deliver
  <2>5. ASSUME NEW p \in Processors, NEW e \in Events, claimed[p] = e,
               MarkCommit(p) \/ MarkCommitReplyLost(p)
        PROVE  Promise!Settle(e) \/ UNCHANGED Promise!vars
    <3>0. /\ UNCHANGED <<row, copies>> /\ lock[e] = p
          /\ processed' = [processed EXCEPT ![e] = ~pubErr[p]]
      BY <2>5 DEF MarkCommit, MarkCommitReplyLost, Record, brokerVars
    <3>1. /\ UNCHANGED <<row, copies>> /\ ~processed[e]
          /\ processed' = [processed EXCEPT ![e] = ~pubErr[p]]
      BY <2>0, <3>0 DEF IInv, LockedRowIsStable
    <3>2. CASE pubErr[p]
      <4>1. S' = S
        BY <2>0, <3>1, <3>2 DEF IInv
      <4>. QED  BY <3>1, <4>1 DEF Promise!vars
    <3>3. CASE ~pubErr[p]
      <4>1. e \in D
        BY <2>0, <2>5, <3>3 DEF MarkCommit, MarkCommitReplyLost, IInv, StreamInv
      <4>2. processed' = [processed EXCEPT ![e] = TRUE]
        BY Zenon, <3>1, <3>3
      <4>3. S' = S \cup {e}
        BY SMTT(60), <2>0, <4>2 DEF IInv
      <4>. QED  BY <3>1, <4>1, <4>3 DEF Promise!Settle
    <3>. QED  BY <3>2, <3>3
  <2>6. ASSUME NEW p \in Processors, \/ PublishOk(p) \/ PublishAmbiguous(p)
                                      \/ MarkCommit(p) \/ MarkCommitReplyLost(p)
        PROVE  claimed[p] \in Events
    BY <2>0, <2>6 DEF PublishOk, PublishAmbiguous, Published, MarkCommit,
       MarkCommitReplyLost, IInv
  <2>7. ASSUME NEW e \in Events, WindowExpires(e)
        PROVE  UNCHANGED <<row, copies, processed>>
    BY <2>7 DEF WindowExpires, rowVars
  <2>8. CASE \E p \in Processors : PublishOk(p) \/ PublishAmbiguous(p)
    <3>1. PICK p \in Processors, e \in Events :
               claimed[p] = e /\ (PublishOk(p) \/ PublishAmbiguous(p))
      BY <2>6, <2>8
    <3>. QED  BY <2>4, <3>1 DEF Promise!Next
  <2>9. CASE \E p \in Processors : MarkCommit(p) \/ MarkCommitReplyLost(p)
    <3>1. PICK p \in Processors, e \in Events :
               claimed[p] = e /\ (MarkCommit(p) \/ MarkCommitReplyLost(p))
      BY <2>6, <2>9
    <3>. QED  BY <2>5, <3>1 DEF Promise!Next
  <2>10. CASE \E e \in Events : CommitTx(e) \/ Publish(e)
    BY <2>2, <2>10 DEF Promise!Next
  <2>. QED
    BY <2>0, <2>1, <2>3, <2>7, <2>8, <2>9, <2>10, RecordSteps, BrokerSteps, RowSteps
<1>. QED  BY <1>1, <1>2, Invariance, PTL DEF Spec, Promise!Spec, ImplementsAtLeastOnce
=============================================================================
