--------------------------- MODULE ConsumerProofs ---------------------------
(***************************************************************************)
(* Proofs about IdempotentConsumer, for any number of messages and         *)
(* workers, any lease, AckWait and MaxDeliver, any number of crashes and   *)
(* an unbounded clock.                                                     *)
(***************************************************************************)
EXTENDS IdempotentConsumer, TLAPS

\* The lease Claim uses is positive.
LEMMA LeaseType == lease \in Nat \ {0}
BY ConsumerAssumption DEF lease

\* A worker away from "idle" has a message in hand, and its reading of the
\* clock is not in the future.
Busy == \A w \in Workers :
    /\ pc[w] # "idle" => inHand[w] \in Msgs
    /\ now[w] <= clock

TypeInv == TypeOK /\ Busy

\* A completed row, and the acks of Claim's protocol, follow a successful run.
AckInv == usesClaim =>
    /\ row = "completed" => handled
    /\ \A w \in Workers : pc[w] \in {"ok", "ack"} => handled
    /\ \A m \in Msgs : msg[m] = "acked" => handled

\* With CheckAndMark the one worker at the event has its row in the table.
MarkInv == ~usesClaim =>
    /\ \A w \in Workers : Holds(w) => row # "absent"
    /\ \A v, w \in Workers : Holds(v) /\ Holds(w) => v = w

\* While nobody has come back after its lease: the worker with the live lease
\* is the one whose claim the row records, there is one such worker at most,
\* and there is none once the event is completed.
LeaseInv == usesClaim /\ ~overran =>
    /\ \A w \in Workers : LeaseLive(w) => row = "inflight" /\ processedAt = now[w]
    /\ \A v, w \in Workers : LeaseLive(v) /\ LeaseLive(w) => v = w
    /\ completed => row = "completed"

\* Deliveries are numbered 1..MaxDeliver, one worker each; only the last one is
\* routed to the DLQ, and it is past "fail" once its events.failed row is there.
Numbered ==
    /\ \A m \in Msgs : /\ numDelivered[m] <= MaxDeliver
                       /\ msg[m] = "ready" => numDelivered[m] < MaxDeliver
    /\ \A w \in Workers : pc[w] # "idle" => delivery[w] <= numDelivered[inHand[w]]
    /\ \A v, w \in Workers :
         pc[v] # "idle" /\ pc[w] # "idle" /\ inHand[v] = inHand[w]
           /\ delivery[v] = delivery[w] => v = w

DeadInv ==
    /\ \A m \in Msgs : /\ failedRows[m] <= 1
                       /\ msg[m] = "termed" => failedRows[m] = 1
                       /\ failedRows[m] = 1 => numDelivered[m] = MaxDeliver
    /\ \A w \in Workers :
         /\ pc[w] = "term" => failedRows[inHand[w]] = 1
         /\ pc[w] \notin {"idle", "term"} /\ failedRows[inHand[w]] = 1
              => delivery[w] < MaxDeliver

IInv == TypeInv /\ AckInv /\ LeaseInv /\ MarkInv /\ Numbered /\ DeadInv

\* Every step preserves it.
LEMMA NextIInv == IInv /\ [Next]_vars => IInv'
<1> SUFFICES ASSUME IInv, [Next]_vars PROVE IInv'
  OBVIOUS
<1>0. usesClaim' = usesClaim
  BY DEF Next, vars
<1> USE <1>0, LeaseType, ConsumerAssumption
    DEF IInv, TypeInv, TypeOK, Busy, PCs, MsgStates, AckInv, MarkInv, LeaseInv, LeaseLive, Holds,
        Numbered, DeadInv
<1>1. CASE Tick
  BY <1>1 DEF Tick, brokerVars, tableVars, workVars, ghostVars
<1>2. ASSUME NEW m \in Msgs, AckWaitExpires(m) PROVE IInv'
  BY <1>2 DEF AckWaitExpires, Requeue, brokerVars, tableVars, workVars, ghostVars
<1>3. ASSUME NEW m \in Msgs, NEW w \in Workers, Receive(w, m) PROVE IInv'
  BY <1>3 DEF Receive, brokerVars, tableVars, workVars, ghostVars
<1>4. ASSUME NEW w \in Workers, Upsert(w) PROVE IInv'
  BY <1>4 DEF Upsert, Acquires, Goto, brokerVars, tableVars, workVars, ghostVars
<1>5. ASSUME NEW w \in Workers, Read(w) PROVE IInv'
  BY <1>5 DEF Read, Goto, RetryAfter, brokerVars, tableVars, workVars, ghostVars
<1>6. ASSUME NEW w \in Workers, CheckAndMark(w) PROVE IInv'
  BY <1>6 DEF CheckAndMark, Goto, brokerVars, tableVars, workVars, ghostVars
<1>7. ASSUME NEW w \in Workers, HandlerOk(w) PROVE IInv'
  BY <1>7 DEF HandlerOk, Goto, brokerVars, tableVars, workVars, ghostVars
<1>8. ASSUME NEW w \in Workers, HandlerFails(w) PROVE IInv'
  BY <1>8 DEF HandlerFails, Goto, brokerVars, tableVars, workVars, ghostVars
<1>9. ASSUME NEW w \in Workers, Complete(w) PROVE IInv'
  BY <1>9 DEF Complete, Goto, NoteOverrun, brokerVars, tableVars, workVars, ghostVars
<1>10. ASSUME NEW w \in Workers, Release(w) PROVE IInv'
  BY <1>10 DEF Release, Goto, NoteOverrun, brokerVars, tableVars, workVars, ghostVars
<1>11. ASSUME NEW w \in Workers, RouteToDLQ(w) PROVE IInv'
  <2>1. PICK m \in Msgs : m = inHand[w]
    BY <1>11 DEF RouteToDLQ
  <2>2. /\ pc[w] = "fail" /\ delivery[w] = MaxDeliver
        /\ numDelivered[m] = MaxDeliver /\ failedRows[m] = 0
    <3>1. /\ pc[w] = "fail" /\ delivery[w] >= MaxDeliver /\ delivery[w] \in Nat
          /\ numDelivered[m] \in Nat /\ failedRows[m] \in Nat /\ MaxDeliver \in Nat
      BY <1>11, <2>1 DEF RouteToDLQ
    <3>2. delivery[w] <= numDelivered[m] /\ numDelivered[m] <= MaxDeliver
      BY <2>1, <3>1
    <3>3. failedRows[m] <= 1 /\ (failedRows[m] = 1 => delivery[w] < MaxDeliver)
      BY <2>1, <3>1
    <3> QED BY ONLY <3>1, <3>2, <3>3
  <2>3. /\ failedRows'[m] = 1 /\ \A k \in Msgs : k # m => failedRows'[k] = failedRows[k]
        /\ pc'[w] = "term" /\ \A v \in Workers : v # w => pc'[v] = pc[v]
        /\ UNCHANGED <<msg, numDelivered, inHand, delivery>>
    BY <1>11, <2>1, <2>2 DEF RouteToDLQ, Goto, brokerVars
  <2>4. ASSUME NEW v \in Workers, v # w, pc[v] # "idle", inHand[v] = m
        PROVE  delivery[v] < MaxDeliver /\ pc[v] # "term"
    BY <2>1, <2>2, <2>4
  <2>5. ASSUME NEW v \in Workers
        PROVE  /\ pc'[v] = "term" => failedRows'[inHand'[v]] = 1
               /\ pc'[v] \notin {"idle", "term"} /\ failedRows'[inHand'[v]] = 1
                    => delivery'[v] < MaxDeliver
    <3>1. inHand[v] \in Msgs \/ pc[v] = "idle"
      OBVIOUS
    <3> QED BY <2>1, <2>3, <2>4, <3>1
  <2>6. \A k \in Msgs : /\ failedRows'[k] <= 1
                        /\ msg'[k] = "termed" => failedRows'[k] = 1
                        /\ failedRows'[k] = 1 => numDelivered'[k] = MaxDeliver
    BY <2>2, <2>3
  <2>7. Numbered'
    <3>1. \A v \in Workers : pc'[v] # "idle" => pc[v] # "idle"
      BY <2>2, <2>3
    <3> QED BY ONLY Numbered, <2>3, <3>1 DEF Numbered
  <2>8. (TypeInv /\ AckInv /\ LeaseInv /\ MarkInv)'
    BY <1>11 DEF RouteToDLQ, Goto, brokerVars, tableVars, workVars, ghostVars
  <2> QED BY ONLY <2>5, <2>6, <2>7, <2>8 DEF DeadInv, IInv
<1>12. ASSUME NEW w \in Workers, Term(w) PROVE IInv'
  BY <1>12 DEF Term, Drop, brokerVars, tableVars, workVars, ghostVars
<1>13. ASSUME NEW w \in Workers, Ack(w) PROVE IInv'
  BY <1>13 DEF Ack, Drop, brokerVars, tableVars, workVars, ghostVars
<1>14. ASSUME NEW w \in Workers, Nak(w) PROVE IInv'
  BY <1>14 DEF Nak, Drop, Requeue, brokerVars, tableVars, workVars, ghostVars
<1>15. ASSUME NEW w \in Workers, Abandon(w) PROVE IInv'
  BY <1>15 DEF Abandon, Drop, brokerVars, tableVars, workVars, ghostVars
<1>16. CASE UNCHANGED vars
  BY <1>16 DEF vars, brokerVars, tableVars, workVars, ghostVars
<1> QED BY Zenon, <1>1, <1>2, <1>3, <1>4, <1>5, <1>6, <1>7, <1>8, <1>9, <1>10, <1>11, <1>12, <1>13, <1>14, <1>15, <1>16
        DEF Next

\* The invariant holds initially.
LEMMA InitIInv == Init => IInv
<1> SUFFICES ASSUME Init PROVE IInv
  OBVIOUS
<1> USE LeaseType, ConsumerAssumption DEF Init
<1>1. TypeInv
  <2>1. handled \in BOOLEAN /\ completed \in BOOLEAN /\ overran \in BOOLEAN /\ failed \in BOOLEAN
    BY Zenon
  <2>2. Busy
    BY DEF Busy
  <2> QED BY <2>1, <2>2 DEF TypeInv, TypeOK, PCs, MsgStates
<1>2. AckInv /\ LeaseInv /\ MarkInv
  BY DEF AckInv, LeaseInv, LeaseLive, MarkInv, Holds
<1>3. Numbered /\ DeadInv
  BY DEF Numbered, DeadInv
<1> QED BY <1>1, <1>2, <1>3 DEF IInv

\* The inductive invariant holds in every reachable state.
THEOREM Invariance == Spec => []IInv
<1>1. IInv /\ [Next]_vars => IInv'
  BY NextIInv
<1> QED BY InitIInv, <1>1, PTL DEF Spec

\* Type correctness.
THEOREM TypeCorrect == Spec => []TypeOK
<1>1. IInv => TypeOK
  BY DEF IInv, TypeInv
<1> QED BY <1>1, Invariance, PTL

\* With Claim and Complete, an acked event has been handled: the NIAGA-357 bug
\* (an ack without a run) cannot happen, for any lease, AckWait and MaxDeliver.
THEOREM NoAckWithoutRun == Spec => []AckedWasHandled
<1>1. IInv => AckedWasHandled
  BY DEF IInv, AckInv, AckedWasHandled
<1> QED BY <1>1, Invariance, PTL

\* The upsert of Claim gives a live lease to one delivery at a time.
THEOREM OneLiveLease == Spec => []LeaseExclusive
<1>1. IInv => LeaseExclusive
  BY DEF IInv, LeaseInv, LeaseExclusive
<1> QED BY <1>1, Invariance, PTL

\* Complete is final, as long as nobody comes back after its lease.
THEOREM CompletionIsFinal == Spec => []CompletedIsFinal
<1>1. IInv => CompletedIsFinal
  BY DEF IInv, LeaseInv, CompletedIsFinal
<1> QED BY <1>1, Invariance, PTL

\* CheckAndMark lets one delivery at a time at the event.
THEOREM MarkIsExclusive == Spec => []MarkExcludes
<1>1. IInv => MarkExcludes
  BY DEF IInv, MarkInv, MarkExcludes
<1> QED BY <1>1, Invariance, PTL

\* A terminated message has exactly one row in events.failed.
THEOREM DeadLettersRecorded == Spec => []DeadLetterRecorded
<1>1. IInv => DeadLetterRecorded
  BY Zenon DEF IInv, DeadInv, DeadLetterRecorded
<1> QED BY <1>1, Invariance, PTL

-----------------------------------------------------------------------------
(* One crash: as long as no run of the handler has ended, the event is not  *)
(* lost with the first crash.                                               *)

\* No run of the handler has ended yet.
Untried == usesClaim /\ ~handled /\ ~failed

Runs(w)  == pc[w] = "run"
On(w, m) == pc[w] \in {"claim", "read", "nak"} /\ inHand[w] = m

\* When calls take less than a time unit, a worker that has not come to run
\* the handler still has the time of its delivery and the message to itself.
PromptInv ==
    /\ row # "completed"
    /\ \A w \in Workers : pc[w] \in {"idle", "claim", "read", "run", "nak"}
    /\ \A m \in Msgs : /\ msg[m] \in {"ready", "out", "exhausted"}
                       /\ msg[m] = "exhausted" => numDelivered[m] >= MaxDeliver
    /\ \A w \in Workers, m \in Msgs : On(w, m) =>
        /\ now[w] = clock /\ delivery[w] = numDelivered[m]
        /\ msg[m] = "out" /\ ackDue[m] > clock
        /\ \A v \in Workers : On(v, m) => v = w

\* The steps that leave an event untried.
Early ==
    \/ Tick \/ UNCHANGED vars
    \/ \E m \in Msgs : AckWaitExpires(m) \/ \E w \in Workers : Receive(w, m)
    \/ \E w \in Workers : Upsert(w) \/ Read(w) \/ Nak(w) \/ Abandon(w)

\* Until a run of the handler has ended nothing is acked, marked, released or
\* dead-lettered.
LEMMA UntriedSteps ==
    ASSUME PromptInv, [Next]_vars, Untried'
    PROVE  Early /\ Untried /\ UNCHANGED <<usesClaim, handled, failed>>
  <1>1. UNCHANGED usesClaim
    BY DEF Next, vars
  <1>2. ASSUME NEW w \in Workers
        PROVE  /\ ~HandlerOk(w) /\ ~HandlerFails(w) /\ ~CheckAndMark(w) /\ ~Complete(w)
               /\ ~Release(w) /\ ~RouteToDLQ(w) /\ ~Term(w) /\ ~Ack(w)
    BY <1>1 DEF Untried, PromptInv, HandlerOk, HandlerFails, CheckAndMark, Complete, Release,
                RouteToDLQ, Term, Ack
  <1>3. Early
    BY <1>2 DEF Next, Early
  <1>4. UNCHANGED <<handled, failed>>
    BY <1>3 DEF Early, Tick, AckWaitExpires, Receive, Upsert, Read, Nak, Abandon, vars, ghostVars
  <1> QED
    BY Zenon, <1>1, <1>3, <1>4 DEF Untried

\* Time does not pass while a worker is at work, so no delivery is taken back
\* from it.
LEMMA PromptKept ==
    ASSUME Prompt, TypeInv, PromptInv, Untried, Early
    PROVE  PromptInv'
  <1>1. CASE Tick
    <2>1. \A w \in Workers, m \in Msgs : ~On(w, m)
      BY <1>1 DEF Tick, On
    <2>2. UNCHANGED <<row, pc, inHand, msg, numDelivered>>
      BY <1>1 DEF Tick, brokerVars, tableVars, workVars
    <2>3. \A w \in Workers, m \in Msgs : ~On(w, m)'
      BY <2>1, <2>2 DEF On
    <2> QED
      BY <2>2, <2>3 DEF PromptInv
  <1>2. ASSUME NEW m \in Msgs, AckWaitExpires(m) PROVE PromptInv'
    <2>1. /\ msg[m] = "out" /\ ackDue[m] <= clock
          /\ msg' = [msg EXCEPT ![m] = IF numDelivered[m] < MaxDeliver THEN "ready"
                                       ELSE "exhausted"]
          /\ UNCHANGED <<clock, row, pc, inHand, now, delivery, ackDue, numDelivered>>
      BY <1>2 DEF AckWaitExpires, Requeue, tableVars, workVars
    <2>2. \A w \in Workers : ~On(w, m)
      BY <2>1 DEF PromptInv, TypeInv, TypeOK
    <2>3. \A k \in Msgs : /\ msg'[k] \in {"ready", "out", "exhausted"}
                          /\ msg'[k] = "exhausted" => numDelivered[k] >= MaxDeliver
      BY <2>1, ConsumerAssumption DEF PromptInv, TypeInv, TypeOK
    <2>4. \A w \in Workers, k \in Msgs : On(w, k)' <=> On(w, k)
      BY <2>1 DEF On
    <2>5. \A k \in Msgs : k # m => msg'[k] = msg[k]
      BY <2>1
    <2> QED
      BY <2>1, <2>2, <2>3, <2>4, <2>5 DEF PromptInv
  <1>3. ASSUME NEW m \in Msgs, NEW w \in Workers, Receive(w, m) PROVE PromptInv'
    <2>1. /\ pc[w] = "idle" /\ msg[m] = "ready"
          /\ msg' = [msg EXCEPT ![m] = "out"]
          /\ ackDue' = [ackDue EXCEPT ![m] = clock + AckWait]
          /\ numDelivered' = [numDelivered EXCEPT ![m] = numDelivered[m] + 1]
          /\ pc' = [pc EXCEPT ![w] = "claim"] /\ inHand' = [inHand EXCEPT ![w] = m]
          /\ delivery' = [delivery EXCEPT ![w] = numDelivered[m] + 1]
          /\ now' = [now EXCEPT ![w] = clock] /\ UNCHANGED <<clock, row>>
      BY <1>3 DEF Receive, tableVars
    <2>2. \A v \in Workers : ~On(v, m)
      BY <2>1 DEF PromptInv
    <2>3. \A k \in Msgs : /\ msg'[k] \in {"ready", "out", "exhausted"}
                          /\ msg'[k] = "exhausted" => numDelivered'[k] >= MaxDeliver
      BY <2>1 DEF PromptInv
    <2>4. \A v \in Workers, k \in Msgs : On(v, k)' <=> (IF v = w THEN k = m ELSE On(v, k))
      BY <2>1 DEF On, TypeInv, TypeOK
    <2>5. /\ now'[w] = clock' /\ delivery'[w] = numDelivered'[m]
          /\ msg'[m] = "out" /\ ackDue'[m] > clock'
      BY <2>1, ConsumerAssumption DEF TypeInv, TypeOK
    <2>6. /\ \A k \in Msgs : k # m => /\ msg'[k] = msg[k] /\ ackDue'[k] = ackDue[k]
                                      /\ numDelivered'[k] = numDelivered[k]
          /\ \A v \in Workers : v # w => now'[v] = now[v] /\ delivery'[v] = delivery[v]
      BY <2>1
    <2>7. row' # "completed" /\ \A v \in Workers : pc'[v] \in {"idle", "claim", "read", "run", "nak"}
      BY <2>1 DEF PromptInv
    <2>8. ASSUME NEW v \in Workers, NEW k \in Msgs, On(v, k)'
          PROVE  /\ now'[v] = clock' /\ delivery'[v] = numDelivered'[k]
                 /\ msg'[k] = "out" /\ ackDue'[k] > clock'
                 /\ \A u \in Workers : On(u, k)' => u = v
      <3>1. CASE v = w
        BY ONLY <2>2, <2>4, <2>5, <2>8, <3>1
      <3>2. CASE v # w
        <4>1. k # m /\ On(v, k)
          BY ONLY <2>2, <2>4, <2>8, <3>2
        <4>2. /\ now[v] = clock /\ delivery[v] = numDelivered[k]
              /\ msg[k] = "out" /\ ackDue[k] > clock
              /\ \A u \in Workers : On(u, k) => u = v
          BY <4>1 DEF PromptInv
        <4>3. clock' = clock
          BY <2>1
        <4> QED
          BY ONLY <2>4, <2>6, <3>2, <4>1, <4>2, <4>3
      <3> QED
        BY <3>1, <3>2
    <2> QED
      BY ONLY <2>3, <2>7, <2>8 DEF PromptInv
  <1>4. ASSUME NEW w \in Workers, Upsert(w) \/ Read(w) PROVE PromptInv'
    <2>1. /\ UNCHANGED <<clock, inHand, now, delivery, msg, ackDue, numDelivered>>
          /\ \/ pc[w] = "claim" /\ pc' = [pc EXCEPT ![w] = "run"] /\ row' = "inflight"
             \/ pc[w] = "claim" /\ pc' = [pc EXCEPT ![w] = "read"] /\ UNCHANGED row
             \/ pc[w] = "read" /\ pc' = [pc EXCEPT ![w] = "nak"] /\ UNCHANGED row
      BY <1>4 DEF Upsert, Read, Goto, brokerVars, tableVars, PromptInv
    <2>2. \A v \in Workers, k \in Msgs : On(v, k)' => On(v, k)
      BY <2>1 DEF On, TypeInv, TypeOK, Busy
    <2>3. row' # "completed" /\ \A v \in Workers : pc'[v] \in {"idle", "claim", "read", "run", "nak"}
      BY <2>1 DEF PromptInv, TypeInv, TypeOK
    <2> QED
      BY <2>1, <2>2, <2>3 DEF PromptInv
  <1>5. ASSUME NEW w \in Workers, Nak(w) \/ Abandon(w) PROVE PromptInv'
    <2> DEFINE m == inHand[w]
    <2>1. /\ pc[w] # "idle" /\ pc' = [pc EXCEPT ![w] = "idle"]
          /\ inHand' = [inHand EXCEPT ![w] = NoMsg]
          /\ delivery' = [delivery EXCEPT ![w] = 0] /\ now' = [now EXCEPT ![w] = 0]
          /\ UNCHANGED <<clock, row, ackDue, numDelivered>>
          /\ \/ UNCHANGED msg
             \/ /\ pc[w] = "nak"
                /\ msg' = [msg EXCEPT ![m] = IF numDelivered[m] < MaxDeliver THEN "ready"
                                             ELSE "exhausted"]
      BY <1>5 DEF Nak, Abandon, Drop, Requeue, brokerVars, tableVars
    <2>2. m \in Msgs
      BY <2>1 DEF TypeInv, TypeOK, Busy
    <2>3. \A v \in Workers, k \in Msgs : On(v, k)' => v # w /\ On(v, k)
      BY <2>1 DEF On, TypeInv, TypeOK, Busy
    <2>4. pc[w] = "nak" => \A v \in Workers : v # w => ~On(v, m)
      BY <2>2 DEF PromptInv, On
    <2>5. \A k \in Msgs : /\ msg'[k] \in {"ready", "out", "exhausted"}
                          /\ msg'[k] = "exhausted" => numDelivered[k] >= MaxDeliver
      BY <2>1, <2>2, ConsumerAssumption DEF PromptInv, TypeInv, TypeOK
    <2>6. \A v \in Workers, k \in Msgs : On(v, k)' => msg'[k] = msg[k]
      BY <2>1, <2>2, <2>3, <2>4 DEF TypeInv, TypeOK
    <2>7. row' # "completed" /\ \A v \in Workers : pc'[v] \in {"idle", "claim", "read", "run", "nak"}
      BY <2>1 DEF PromptInv
    <2>8. \A v \in Workers : v # w => now'[v] = now[v] /\ delivery'[v] = delivery[v]
      BY <2>1
    <2> QED
      BY <2>1, <2>3, <2>5, <2>6, <2>7, <2>8 DEF PromptInv
  <1>6. CASE UNCHANGED vars
    BY <1>6 DEF vars, brokerVars, tableVars, workVars, PromptInv, On
  <1> QED
    BY <1>1, <1>2, <1>3, <1>4, <1>5, <1>6 DEF Early

\* Enough crashes to lose the event, or more runs than one crash can end.
Settled ==
    \/ crashes = 2
    \/ crashes = 1 /\ \E w \in Workers : Runs(w)
    \/ \E v, w \in Workers : v # w /\ Runs(v) /\ Runs(w)

\* Nobody has claimed the event; a message was delivered before only if that
\* delivery was lost.
Unclaimed ==
    /\ row = "absent" /\ crashes < 2 /\ \A w \in Workers : ~Runs(w)
    /\ \A m \in Msgs :
        \/ numDelivered[m] <= crashes
        \/ /\ numDelivered[m] <= crashes + 1
           /\ \E w \in Workers : On(w, m) /\ pc[w] = "claim"

\* When the claim's lease ends, and what it has cost a message by then: the
\* delay of the second delivery's nak reaches to the end of the lease, and a
\* third one that arrives at that very moment is delayed past it.
due == processedAt + lease
Timed(m) ==
    \/ numDelivered[m] <= 1
    \/ /\ numDelivered[m] = 2
       /\ \/ msg[m] = "ready" /\ readyAt[m] >= due
          \/ \E w \in Workers : On(w, m) /\ (pc[w] = "nak" => clock + delay[w] >= due)
    \/ /\ numDelivered[m] = 3
       /\ \/ msg[m] = "ready" /\ readyAt[m] > due
          \/ /\ clock >= due
             /\ \E w \in Workers : On(w, m) /\ (pc[w] = "nak" => clock + delay[w] > due)
    \/ /\ numDelivered[m] = 4 /\ clock > due
       /\ \E w \in Workers : On(w, m) /\ pc[w] = "claim"

\* The event was claimed once; its runner is at work, or was the one that
\* crashed.
ClaimedOnce ==
    /\ row = "inflight"
    /\ \/ crashes = 1 /\ \A w \in Workers : ~Runs(w)
       \/ crashes = 0 /\ \E w \in Workers : Runs(w) /\ \A v \in Workers : Runs(v) => v = w
    /\ \A m \in Msgs : Timed(m)

Survives == Settled \/ Unclaimed \/ ClaimedOnce

\* A message nothing happens to.
LEMMA TimedKept ==
    ASSUME NEW m \in Msgs, Timed(m), clock' = clock, due' = due,
           numDelivered'[m] = numDelivered[m], msg'[m] = msg[m], readyAt'[m] = readyAt[m],
           \A w \in Workers : On(w, m) => On(w, m)' /\ pc'[w] = pc[w] /\ delay'[w] = delay[w]
    PROVE  Timed(m)'
  BY DEF Timed

\* As long as nobody crashes and no run ends, what is settled stays so.
LEMMA SettledKept ==
    ASSUME Settled, UNCHANGED crashes, \A w \in Workers : Runs(w) => Runs(w)'
    PROVE  Settled'
  BY DEF Settled

\* Time passes, and a message whose AckWait has run out is requeued.
LEMMA BrokerSurvives ==
    ASSUME Prompt, TypeInv, PromptInv, Survives, Tick \/ \E m \in Msgs : AckWaitExpires(m)
    PROVE  Survives'
  <1>1. UNCHANGED <<row, processedAt, pc, inHand, delay, crashes, numDelivered>>
    BY DEF Tick, AckWaitExpires, Requeue, brokerVars, tableVars, workVars, ghostVars
  <1>2. /\ \A w \in Workers : Runs(w)' <=> Runs(w)
        /\ \A w \in Workers, m \in Msgs : On(w, m)' <=> On(w, m)
    BY <1>1 DEF Runs, On
  <1>3. CASE Settled
    BY <1>1, <1>2, <1>3, SettledKept DEF Survives
  <1>4. CASE Unclaimed
    BY <1>1, <1>2, <1>4 DEF Survives, Unclaimed
  <1>5. CASE ClaimedOnce
    <2>1. due' = due /\ due \in Nat
      BY <1>1, LeaseType DEF due, TypeInv, TypeOK
    <2>2. ASSUME NEW m \in Msgs PROVE Timed(m)'
      <3>1. Timed(m)
        BY <1>5 DEF ClaimedOnce
      <3>2. CASE Tick
        <4>1. UNCHANGED <<msg, readyAt>> /\ \A w \in Workers : ~On(w, m)
          BY <3>2 DEF Tick, On, brokerVars
        <4> QED
          BY <1>1, <2>1, <3>1, <4>1 DEF Timed
      <3>3. ASSUME AckWaitExpires(m) PROVE Timed(m)'
        <4>1. msg[m] = "out" /\ \A w \in Workers : ~On(w, m)
          BY <3>3 DEF AckWaitExpires, PromptInv, TypeInv, TypeOK
        <4>2. numDelivered[m] <= 1
          BY <3>1, <4>1 DEF Timed
        <4> QED
          BY <1>1, <4>2 DEF Timed
      <3>4. ASSUME NEW k \in Msgs, k # m, AckWaitExpires(k) PROVE Timed(m)'
        <4>1. msg'[m] = msg[m] /\ readyAt'[m] = readyAt[m] /\ UNCHANGED clock
          BY <3>4 DEF AckWaitExpires, Requeue, TypeInv, TypeOK
        <4> QED
          BY <1>1, <1>2, <2>1, <3>1, <4>1, TimedKept
      <3> QED
        BY <3>2, <3>3, <3>4
    <2> QED
      BY <1>1, <1>2, <1>5, <2>2 DEF Survives, ClaimedOnce
  <1> QED
    BY <1>3, <1>4, <1>5 DEF Survives

\* A delivery: the third finds the lease at its end, the fourth past it.
LEMMA ReceiveSurvives ==
    ASSUME Prompt, TypeInv, PromptInv, Survives, NEW w \in Workers, NEW m \in Msgs,
           Receive(w, m)
    PROVE  Survives'
  <1>1. /\ pc[w] = "idle" /\ msg[m] = "ready" /\ readyAt[m] <= clock
        /\ msg' = [msg EXCEPT ![m] = "out"]
        /\ numDelivered' = [numDelivered EXCEPT ![m] = numDelivered[m] + 1]
        /\ pc' = [pc EXCEPT ![w] = "claim"] /\ inHand' = [inHand EXCEPT ![w] = m]
        /\ UNCHANGED <<clock, row, processedAt, readyAt, delay, crashes>>
    BY DEF Receive, tableVars, ghostVars
  <1>2. /\ \A v \in Workers : Runs(v)' <=> Runs(v)
        /\ \A v \in Workers, k \in Msgs : On(v, k) => On(v, k)' /\ pc'[v] = pc[v]
        /\ On(w, m)' /\ pc'[w] = "claim"
    BY <1>1 DEF Runs, On, TypeInv, TypeOK
  <1>3. \A v \in Workers : ~On(v, m)
    BY <1>1 DEF PromptInv
  <1>4. numDelivered[m] \in Nat /\ numDelivered'[m] = numDelivered[m] + 1 /\ crashes \in 0..2
    BY <1>1 DEF TypeInv, TypeOK
  <1>5. \A k \in Msgs : k # m => /\ numDelivered'[k] = numDelivered[k]
                                 /\ msg'[k] = msg[k] /\ readyAt'[k] = readyAt[k]
    BY <1>1 DEF TypeInv, TypeOK
  <1>6. CASE Settled
    BY <1>1, <1>2, <1>6, SettledKept DEF Survives
  <1>7. CASE Unclaimed
    <2>1. ASSUME NEW k \in Msgs
          PROVE  \/ numDelivered'[k] <= crashes
                 \/ /\ numDelivered'[k] <= crashes + 1
                    /\ \E v \in Workers : On(v, k)' /\ pc'[v] = "claim"
      <3>1. CASE k = m
        <4>1. numDelivered[m] <= crashes
          BY <1>3, <1>7 DEF Unclaimed
        <4> QED
          BY <1>2, <1>4, <3>1, <4>1
      <3>2. CASE k # m
        <4>1. \/ numDelivered[k] <= crashes
              \/ /\ numDelivered[k] <= crashes + 1
                 /\ \E v \in Workers : On(v, k) /\ pc[v] = "claim"
          BY <1>7 DEF Unclaimed
        <4> QED
          BY ONLY <1>2, <1>5, <3>2, <4>1
      <3> QED
        BY <3>1, <3>2
    <2> QED
      BY <1>1, <1>2, <1>7, <2>1 DEF Survives, Unclaimed
  <1>8. CASE ClaimedOnce
    <2>1. due' = due /\ due \in Nat
      BY <1>1, LeaseType DEF due, TypeInv, TypeOK
    <2>2. ASSUME NEW k \in Msgs PROVE Timed(k)'
      <3>1. Timed(k) /\ Timed(m)
        BY <1>8 DEF ClaimedOnce
      <3>2. CASE k # m
        BY <1>1, <1>2, <1>5, <2>1, <3>1, <3>2, TimedKept
      <3>3. CASE k = m
        <4>1. \/ numDelivered[m] <= 1
              \/ numDelivered[m] = 2 /\ readyAt[m] >= due
              \/ numDelivered[m] = 3 /\ readyAt[m] > due
          BY <1>3, <3>1 DEF Timed
        <4>2. readyAt[m] \in Nat /\ clock \in Nat
          BY DEF TypeInv, TypeOK
        <4>3. \/ numDelivered'[m] <= 1 \/ numDelivered'[m] = 2
              \/ numDelivered'[m] = 3 /\ clock >= due
              \/ numDelivered'[m] = 4 /\ clock > due
          BY ONLY <1>1, <1>4, <2>1, <4>1, <4>2
        <4> QED
          BY ONLY <1>1, <1>2, <2>1, <3>3, <4>3 DEF Timed
      <3> QED
        BY <3>2, <3>3
    <2> QED
      BY <1>1, <1>2, <1>8, <2>2 DEF Survives, ClaimedOnce
  <1> QED
    BY <1>6, <1>7, <1>8 DEF Survives

\* Claim: the first claim starts the lease, and one that is granted later has
\* found it over.
LEMMA UpsertSurvives ==
    ASSUME Prompt, TypeInv, PromptInv, Survives, NEW w \in Workers, Upsert(w)
    PROVE  Survives'
  <1> DEFINE m == inHand[w]
  <1>1. /\ pc[w] = "claim"
        /\ UNCHANGED <<clock, inHand, delay, msg, readyAt, numDelivered, crashes>>
        /\ \/ /\ Acquires(w) /\ row' = "inflight" /\ processedAt' = now[w]
              /\ pc' = [pc EXCEPT ![w] = "run"]
           \/ /\ ~Acquires(w) /\ UNCHANGED <<row, processedAt>>
              /\ pc' = [pc EXCEPT ![w] = "read"]
    BY DEF Upsert, Goto, brokerVars, ghostVars
  <1>2. /\ m \in Msgs /\ On(w, m) /\ now[w] = clock /\ ~Runs(w)
        /\ \A v \in Workers : On(v, m) => v = w
    BY <1>1 DEF PromptInv, On, Runs, TypeInv, TypeOK, Busy
  <1>3. /\ \A v \in Workers : Runs(v) => Runs(v)'
        /\ \A v \in Workers : v # w => (Runs(v)' <=> Runs(v)) /\ pc'[v] = pc[v]
    BY <1>1 DEF Runs, TypeInv, TypeOK
  <1>4. CASE Settled
    BY <1>1, <1>3, <1>4, SettledKept DEF Survives
  <1>5. crashes \in 0..2 /\ crashes' = crashes
    BY <1>1 DEF TypeInv, TypeOK
  <1>6. CASE ~Settled /\ Acquires(w)
    <2>1. Runs(w)' /\ row' = "inflight"
      BY <1>1, <1>6 DEF Runs, TypeInv, TypeOK
    <2>2. CASE Unclaimed
      <3>1. CASE crashes = 1
        BY ONLY <1>5, <2>1, <3>1 DEF Survives, Settled
      <3>2. CASE crashes = 0
        <4>1. \A k \in Msgs : numDelivered'[k] <= 1
          BY <1>1, <2>2, <3>2 DEF Unclaimed, TypeInv, TypeOK
        <4>2. \A v \in Workers : Runs(v)' => v = w
          BY ONLY <1>3, <2>2 DEF Unclaimed
        <4> QED
          BY <1>5, <2>1, <3>2, <4>1, <4>2 DEF Survives, ClaimedOnce, Timed
      <3> QED
        BY <1>5, <2>2, <3>1, <3>2 DEF Unclaimed
    <2>3. CASE ClaimedOnce
      BY Zenon, <1>2, <1>3, <1>5, <2>1, <2>3 DEF Survives, Settled, ClaimedOnce
    <2> QED
      BY <1>6, <2>2, <2>3 DEF Survives
  <1>7. CASE ~Settled /\ ~Acquires(w)
    <2>1. row # "absent" /\ UNCHANGED <<row, processedAt>> /\ pc' = [pc EXCEPT ![w] = "read"]
      BY <1>1, <1>7 DEF Acquires
    <2>2. ClaimedOnce /\ row = "inflight"
      BY <1>7, <2>1 DEF Survives, Unclaimed, ClaimedOnce
    <2>3. due' = due /\ due \in Nat /\ clock <= due
      <3>1. ~(processedAt < clock - lease)
        BY <1>2, <1>7, <2>2 DEF Acquires
      <3>2. processedAt \in Nat /\ clock \in Nat /\ lease \in Nat
        BY LeaseType DEF TypeInv, TypeOK
      <3>3. processedAt + lease \in Nat /\ clock <= processedAt + lease
        BY ONLY <3>1, <3>2
      <3> QED
        BY <2>1, <3>3 DEF due
    <2>4. /\ \A v \in Workers : Runs(v)' <=> Runs(v)
          /\ \A v \in Workers, k \in Msgs : On(v, k)' <=> On(v, k)
          /\ pc'[w] = "read"
      BY <1>1, <2>1 DEF Runs, On, TypeInv, TypeOK
    <2>5. ASSUME NEW k \in Msgs PROVE Timed(k)'
      <3>1. Timed(k)
        BY ONLY Zenon, <2>2 DEF ClaimedOnce
      <3>2. CASE k # m
        <4>1. \A v \in Workers : On(v, k) => v # w
          BY ONLY <3>2 DEF On
        <4> QED
          BY Zenon, <1>1, <1>3, <2>3, <2>4, <3>1, <4>1, TimedKept
      <3>3. CASE k = m
        <4>1. clock \in Nat /\ numDelivered[m] \in Nat
          BY <1>2 DEF TypeInv, TypeOK
        <4>2. numDelivered[m] # 4
          BY <2>3, <3>1, <3>3, <4>1 DEF Timed
        <4>3. msg[m] = "out"
          BY <1>2 DEF PromptInv
        <4>4. numDelivered[m] <= 2 \/ (numDelivered[m] = 3 /\ clock >= due)
          BY ONLY <3>1, <3>3, <4>1, <4>2, <4>3 DEF Timed
        <4>5. On(w, m)' /\ pc'[w] # "nak"
          BY <1>1, <1>2, <2>4
        <4> QED
          BY <1>1, <2>3, <3>3, <4>1, <4>4, <4>5 DEF Timed
      <3> QED
        BY <3>2, <3>3
    <2> QED
      BY <1>5, <2>1, <2>2, <2>4, <2>5 DEF Survives, ClaimedOnce
  <1> QED
    BY <1>4, <1>6, <1>7

\* Claim's second read and the nak: RetryAfter reaches to the end of the
\* lease, and at its end past it.
LEMMA NakSurvives ==
    ASSUME Prompt, MaxDeliver >= 4, TypeInv, PromptInv, Survives, NEW w \in Workers,
           Read(w) \/ Nak(w)
    PROVE  Survives'
  <1>1. pc[w] \in {"read", "nak"} /\ UNCHANGED <<clock, row, processedAt, numDelivered, crashes>>
    BY DEF Read, Nak, Requeue, brokerVars, tableVars, ghostVars
  <1>0. PICK m \in Msgs : m = inHand[w]
    BY <1>1 DEF TypeInv, Busy
  <1>2. /\ On(w, m) /\ now[w] = clock /\ delivery[w] = numDelivered[m]
        /\ msg[m] = "out" /\ \A v \in Workers : On(v, m) => v = w
    BY <1>1, <1>0 DEF PromptInv, On
  <1>3. /\ pc'[w] \in {"nak", "idle"}
        /\ \A v \in Workers : v # w => /\ pc'[v] = pc[v] /\ inHand'[v] = inHand[v]
                                      /\ delay'[v] = delay[v]
    BY DEF Read, Nak, Goto, Drop, PromptInv, TypeInv, TypeOK
  <1>4. /\ \A v \in Workers : Runs(v)' <=> Runs(v)
        /\ \A v \in Workers, k \in Msgs : v # w => (On(v, k)' <=> On(v, k)) /\ pc'[v] = pc[v]
    BY ONLY <1>1, <1>3 DEF Runs, On
  <1>5. \A k \in Msgs : k # m => msg'[k] = msg[k] /\ readyAt'[k] = readyAt[k]
    BY <1>0 DEF Read, Nak, Requeue, brokerVars, TypeInv, TypeOK
  <1>6. CASE Settled
    BY Zenon, <1>1, <1>4, <1>6, SettledKept DEF Survives
  <1>7. CASE Unclaimed
    <2>1. \A k \in Msgs, v \in Workers : On(v, k) /\ pc[v] = "claim" => v # w
      BY <1>1
    <2> QED
      BY Zenon, <1>1, <1>4, <1>7, <2>1 DEF Survives, Unclaimed
  <1>8. CASE ClaimedOnce
    <2>1. due' = due /\ due \in Nat /\ clock \in Nat
      BY <1>1, LeaseType DEF due, TypeInv, TypeOK
    <2>2. ASSUME NEW k \in Msgs, k # m PROVE Timed(k)'
      <3>1. Timed(k) /\ \A v \in Workers : On(v, k) => v # w
        BY <1>0, <1>8, <2>2 DEF ClaimedOnce, On
      <3> QED
        BY Zenon, <1>1, <1>3, <1>4, <1>5, <2>1, <2>2, <3>1, TimedKept
    <2>3. /\ numDelivered[m] \in Nat
          /\ \/ numDelivered[m] <= 1
             \/ /\ numDelivered[m] = 2 /\ (pc[w] = "nak" => clock + delay[w] >= due)
             \/ /\ numDelivered[m] = 3 /\ clock >= due
                /\ pc[w] = "nak" => clock + delay[w] > due
      BY <1>1, <1>2, <1>8 DEF ClaimedOnce, Timed, TypeInv, TypeOK
    <2>4. CASE Read(w)
      <3>1. /\ pc'[w] = "nak" /\ On(w, m)' /\ delay'[w] = RetryAfter(w)
        <4>1. pc' = [pc EXCEPT ![w] = "nak"] /\ delay' = [delay EXCEPT ![w] = RetryAfter(w)]
              /\ inHand' = inHand
          BY <2>4 DEF Read, Goto, PromptInv, TypeInv, TypeOK
        <4> QED
          BY <1>0, <4>1 DEF On, TypeInv, TypeOK
      <3>2. delay'[w] = IF due - clock < 1 THEN 1 ELSE due - clock
        <4>1. /\ row # "absent" /\ now[w] = clock
              /\ processedAt \in Nat /\ lease \in Nat /\ clock \in Nat
          BY <1>2, <1>8, LeaseType DEF ClaimedOnce, TypeInv, TypeOK
        <4>2. RetryAfter(w) = IF processedAt + lease - clock < 1 THEN 1
                              ELSE processedAt + lease - clock
          BY <4>1 DEF RetryAfter
        <4> QED
          BY ONLY <3>1, <4>1, <4>2 DEF due
      <3>3. clock + delay'[w] >= due /\ (clock >= due => clock + delay'[w] > due)
        BY ONLY <2>1, <3>2
      <3>4. Timed(m)'
        BY ONLY <1>1, <2>1, <2>3, <3>1, <3>3 DEF Timed
      <3> QED
        BY Zenon, <1>1, <1>4, <1>8, <2>2, <3>4 DEF Survives, ClaimedOnce
    <2>5. CASE Nak(w)
      <3>1. Requeue(m, delay[w]) /\ pc[w] = "nak"
        BY <1>0, <1>2, <2>3, <2>5 DEF Nak
      <3>2. numDelivered[m] < MaxDeliver
        BY <2>3, ConsumerAssumption
      <3>3. msg'[m] = "ready" /\ readyAt'[m] = clock + delay[w]
        BY <1>2, <3>1, <3>2 DEF Requeue, TypeInv, TypeOK
      <3>4. Timed(m)'
        BY ONLY <1>1, <2>1, <2>3, <3>1, <3>3 DEF Timed
      <3> QED
        BY Zenon, <1>1, <1>4, <1>8, <2>2, <3>4 DEF Survives, ClaimedOnce
    <2> QED
      BY <2>4, <2>5
  <1> QED
    BY <1>6, <1>7, <1>8 DEF Survives

\* A crash: the first one ends one delivery.
LEMMA AbandonSurvives ==
    ASSUME Prompt, TypeInv, PromptInv, Survives, NEW w \in Workers, Abandon(w)
    PROVE  Survives'
  <1>1. /\ crashes' = IF crashes < 2 THEN crashes + 1 ELSE 2
        /\ pc' = [pc EXCEPT ![w] = "idle"] /\ inHand' = [inHand EXCEPT ![w] = NoMsg]
        /\ delay' = [delay EXCEPT ![w] = 0]
        /\ UNCHANGED <<clock, row, processedAt, msg, readyAt, numDelivered>>
    BY DEF Abandon, Drop, brokerVars, tableVars
  <1>2. /\ \A v \in Workers : v # w => (Runs(v)' <=> Runs(v)) /\ pc'[v] = pc[v]
                                        /\ delay'[v] = delay[v]
        /\ \A v \in Workers, k \in Msgs : v # w => (On(v, k)' <=> On(v, k))
        /\ ~Runs(w)'
    BY <1>1 DEF Runs, On, TypeInv, TypeOK
  <1>3. crashes \in 0..2
    BY DEF TypeInv, TypeOK
  <1>4. CASE crashes >= 1
    BY <1>1, <1>3, <1>4 DEF Survives, Settled
  <1>5. CASE crashes = 0 /\ Settled
    BY <1>1, <1>2, <1>5 DEF Survives, Settled
  <1>6. CASE crashes = 0 /\ Unclaimed
    <2>0. \A v \in Workers : ~Runs(v)
      BY <1>6 DEF Unclaimed
    <2>1. crashes' = 1 /\ \A v \in Workers : ~Runs(v)'
      BY ONLY <1>1, <1>2, <1>6, <2>0
    <2>2. \A k \in Msgs : numDelivered'[k] <= 1
      BY <1>1, <1>6 DEF Unclaimed, TypeInv, TypeOK
    <2> QED
      BY <1>1, <1>6, <2>1, <2>2 DEF Survives, Unclaimed
  <1>7. CASE crashes = 0 /\ ClaimedOnce
    <2>1. PICK r \in Workers : Runs(r) /\ \A v \in Workers : Runs(v) => v = r
      BY <1>7 DEF ClaimedOnce
    <2>2. CASE r # w
      BY <1>1, <1>2, <1>7, <2>1, <2>2 DEF Survives, Settled
    <2>3. CASE r = w
      <3>1. crashes' = 1 /\ \A v \in Workers : ~Runs(v)'
        BY <1>1, <1>2, <1>7, <2>1, <2>3
      <3>2. \A v \in Workers, k \in Msgs : On(v, k) => v # w
        BY <2>1, <2>3 DEF On, Runs
      <3>3. due' = due
        BY <1>1 DEF due
      <3>4. ASSUME NEW k \in Msgs PROVE Timed(k)'
        <4>1. Timed(k)
          BY <1>7 DEF ClaimedOnce
        <4> QED
          BY Zenon, <1>1, <1>2, <3>2, <3>3, <4>1, TimedKept
      <3> QED
        BY <1>1, <1>7, <3>1, <3>4 DEF Survives, ClaimedOnce
    <2> QED
      BY <2>2, <2>3
  <1> QED
    BY <1>3, <1>4, <1>5, <1>6, <1>7 DEF Survives

\* What one crash leaves of an event nobody has handled.
CrashInv == Untried => PromptInv /\ Survives

\* A run that has ended stays so.
LEMMA UntriedBefore == [Next]_vars /\ Untried' => Untried
  <1> SUFFICES ASSUME [Next]_vars, Untried' PROVE Untried
    OBVIOUS
  <1>1. UNCHANGED usesClaim
    BY DEF Next, vars
  <1>2. (handled' = handled \/ handled') /\ (failed' = failed \/ failed')
    BY Zenon DEF Next, vars, ghostVars, Tick, AckWaitExpires, Receive, Upsert, Read, CheckAndMark,
           HandlerOk, HandlerFails, Complete, Release, RouteToDLQ, Term, Ack, Nak, Abandon
  <1> QED
    BY <1>1, <1>2 DEF Untried

\* One step per action of the untried event.
LEMMA NextCrash ==
    ASSUME Prompt, MaxDeliver >= 4, TypeInv, CrashInv, [Next]_vars
    PROVE  CrashInv'
  <1> SUFFICES ASSUME Untried' PROVE PromptInv' /\ Survives'
    BY DEF CrashInv
  <1>1. Untried /\ PromptInv /\ Survives
    BY UntriedBefore DEF CrashInv
  <1>2. Early
    BY <1>1, UntriedSteps
  <1>3. PromptInv'
    BY <1>1, <1>2, PromptKept
  <1>4. CASE UNCHANGED vars
    <2>1. UNCHANGED <<clock, row, processedAt, pc, inHand, delay, msg, readyAt, numDelivered,
                      crashes>>
      BY <1>4 DEF vars, brokerVars, tableVars, workVars, ghostVars
    <2>2. /\ \A w \in Workers : Runs(w)' <=> Runs(w)
          /\ \A w \in Workers, m \in Msgs : On(w, m)' <=> On(w, m)
      BY ONLY <2>1 DEF Runs, On
    <2>3. Settled' <=> Settled
      BY ONLY <2>1, <2>2 DEF Settled
    <2>4. Unclaimed' <=> Unclaimed
      BY ONLY <2>1, <2>2 DEF Unclaimed
    <2>5. \A m \in Msgs : Timed(m) => Timed(m)'
      <3>1. due' = due
        BY <2>1 DEF due
      <3> QED
        BY Zenon, <2>1, <2>2, <3>1, TimedKept
    <2>6. ClaimedOnce => ClaimedOnce'
      BY ONLY <2>1, <2>2, <2>5 DEF ClaimedOnce
    <2> QED
      BY <1>1, <1>3, <2>3, <2>4, <2>6 DEF Survives
  <1>5. CASE Tick \/ \E m \in Msgs : AckWaitExpires(m)
    BY <1>1, <1>3, <1>5, BrokerSurvives
  <1>6. ASSUME NEW m \in Msgs, NEW w \in Workers, Receive(w, m) PROVE Survives'
    BY <1>1, <1>6, ReceiveSurvives
  <1>7. ASSUME NEW w \in Workers, Upsert(w) PROVE Survives'
    BY <1>1, <1>7, UpsertSurvives
  <1>8. ASSUME NEW w \in Workers, Read(w) \/ Nak(w) PROVE Survives'
    BY <1>1, <1>8, NakSurvives
  <1>9. ASSUME NEW w \in Workers, Abandon(w) PROVE Survives'
    BY <1>1, <1>9, AbandonSurvives
  <1> QED
    BY <1>2, <1>3, <1>4, <1>5, <1>6, <1>7, <1>8, <1>9 DEF Early

\* A message that is given up has had its MaxDeliver deliveries: more than an
\* event that survives has had of any message that no worker holds.
LEMMA CrashSafe ==
    ASSUME MaxDeliver >= 4, TypeInv, CrashInv
    PROVE  OneCrashIsSurvived
  <1> SUFFICES ASSUME usesClaim, \A m \in Msgs : Lost(m), ~handled, ~failed, ~(crashes > 1)
               PROVE  FALSE
    BY DEF OneCrashIsSurvived
  <1>1. PromptInv /\ Survives
    BY DEF CrashInv, Untried
  <1>2. \A w \in Workers : ~Runs(w) /\ \A m \in Msgs : ~On(w, m)
    BY DEF Runs, On, Lost, TypeInv, TypeOK, Busy
  <1>3. PICK m \in Msgs : msg[m] = "exhausted"
    BY ConsumerAssumption DEF Lost
  <1>4. numDelivered[m] >= 4 /\ numDelivered[m] \in Nat /\ crashes \in 0..1
    BY <1>1, <1>3, ConsumerAssumption DEF PromptInv, TypeInv, TypeOK
  <1>5. ~Settled
    BY <1>2, <1>4 DEF Settled
  <1>6. ~Unclaimed
    BY <1>2, <1>4 DEF Unclaimed
  <1>7. ~Timed(m)
    BY <1>2, <1>3, <1>4 DEF Timed
  <1> QED
    BY <1>1, <1>5, <1>6, <1>7 DEF Survives, ClaimedOnce

\* "Well inside MaxDeliver": when calls take less than a time unit and
\* MaxDeliver is at least 4, a single crash never loses an event, whatever the
\* lease, the AckWait and the numbers of messages and workers.
THEOREM OneCrashSurvived ==
    ASSUME Prompt, MaxDeliver >= 4
    PROVE  Spec => []OneCrashIsSurvived
<1>1. Init => IInv /\ CrashInv
  <2> SUFFICES ASSUME Init PROVE IInv /\ CrashInv
    OBVIOUS
  <2>1. IInv
    BY InitIInv
  <2>2. PromptInv
    BY ConsumerAssumption DEF Init, PromptInv, On
  <2>3. Unclaimed
    BY DEF Init, Unclaimed, Runs
  <2> QED
    BY <2>1, <2>2, <2>3 DEF CrashInv, Survives
<1>2. IInv /\ CrashInv /\ [Next]_vars => (IInv /\ CrashInv)'
  BY NextIInv, NextCrash DEF IInv
<1>3. IInv /\ CrashInv => OneCrashIsSurvived
  BY CrashSafe DEF IInv
<1> QED BY <1>1, <1>2, <1>3, PTL DEF Spec
=============================================================================
