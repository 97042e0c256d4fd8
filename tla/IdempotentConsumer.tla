------------------------- MODULE IdempotentConsumer -------------------------
(***************************************************************************)
(* The idempotency claims and the dead-letter router of src/eventsourcing, *)
(* for one (event_id, consumer_name) pair.                                 *)
(*                                                                         *)
(* The event may be in the stream more than once (the outbox is            *)
(* at-least-once), so several messages carry it; JetStream delivers each   *)
(* at most MaxDeliver times and redelivers after AckWait or a nak.         *)
(* Deliveries run concurrently, each following the protocol the comments   *)
(* of Claim, Complete, Release and RouteToDLQ lay down for a consumer.     *)
(***************************************************************************)
EXTENDS Integers

CONSTANTS
    Msgs,       \* the messages of the stream that carry the event
    Workers,    \* goroutines handling deliveries
    NoMsg,      \* "no delivery in hand"
    Lease,      \* the lease passed to Claim; <= 0 selects DefaultClaimLease
    DefaultClaimLease,
    AckWait,    \* ConsumerConfig.AckWait
    MaxDeliver, \* ConsumerConfig.MaxDeliver
    Prompt,     \* TRUE: database and broker calls take less than a time unit
    MaxClock    \* bound: the horizon of the behaviour, in time units

ASSUME ConsumerAssumption ==
    /\ NoMsg \notin Msgs /\ Msgs # {}
    /\ Lease \in Int
    /\ DefaultClaimLease \in Nat \ {0}
    /\ AckWait \in Nat \ {0}
    /\ MaxDeliver \in Nat \ {0}
    /\ Prompt \in BOOLEAN
    /\ MaxClock \in Nat

VARIABLES
    usesClaim,    \* TRUE: Claim/Complete; FALSE: a caller still on CheckAndMark
    clock,
    row,          \* events.processed: "absent", "inflight" or "completed"
    processedAt,  \* its column processed_at
    msg,          \* per message, broker: "ready", "out", "acked", "termed", "exhausted"
    readyAt,      \* per message, broker: not delivered before this time
    ackDue,       \* per message, broker: end of AckWait of its last delivery
    numDelivered, \* per message, broker
    failedRows,   \* per message: rows in events.failed
    pc,           \* per worker: next step of the protocol
    inHand,       \* per worker: the message it handles
    delivery,     \* per worker: NumDelivered of the delivery it handles
    now,          \* per worker: time.Now() at the start of Claim
    delay,        \* per worker: the delay of the nak it is about to send
    handled,      \* ghost: some handler run succeeded
    completed,    \* ghost: Complete has marked the event
    overran,      \* ghost: Complete or Release was called after the lease
    crashes,      \* ghost: deliveries lost to a crash or an error, counted to 2
    failed        \* ghost: some handler run failed

brokerVars == <<msg, readyAt, ackDue, numDelivered>>
tableVars  == <<row, processedAt, failedRows>>
workVars   == <<pc, inHand, delivery, now, delay>>
ghostVars  == <<handled, completed, overran, crashes, failed>>
vars       == <<usesClaim, clock, brokerVars, tableVars, workVars, ghostVars>>

PCs       == {"idle", "claim", "read", "run", "ok", "fail", "term", "ack", "nak"}
MsgStates == {"ready", "out", "acked", "termed", "exhausted"}

lease == IF Lease <= 0 THEN DefaultClaimLease ELSE Lease

Init ==
    /\ usesClaim \in BOOLEAN
    /\ clock = 0
    /\ row = "absent" /\ processedAt = 0
    /\ msg = [m \in Msgs |-> "ready"]
    /\ readyAt = [m \in Msgs |-> 0]
    /\ ackDue = [m \in Msgs |-> 0]
    /\ numDelivered = [m \in Msgs |-> 0]
    /\ failedRows = [m \in Msgs |-> 0]
    /\ pc = [w \in Workers |-> "idle"]
    /\ inHand = [w \in Workers |-> NoMsg]
    /\ delivery = [w \in Workers |-> 0]
    /\ now = [w \in Workers |-> 0]
    /\ delay = [w \in Workers |-> 0]
    /\ handled = FALSE /\ completed = FALSE /\ overran = FALSE
    /\ crashes = 0 /\ failed = FALSE

-----------------------------------------------------------------------------
(* Time and the broker (external).                                          *)

Tick ==
    /\ clock < MaxClock
    /\ Prompt => \A w \in Workers : pc[w] \in {"idle", "run"}
    /\ clock' = clock + 1
    /\ UNCHANGED <<brokerVars, tableVars, workVars, ghostVars>>

\* The consumer receives a delivery and calls Claim (or CheckAndMark).
Receive(w, m) ==
    /\ pc[w] = "idle"
    /\ msg[m] = "ready" /\ readyAt[m] <= clock
    /\ msg' = [msg EXCEPT ![m] = "out"]
    /\ ackDue' = [ackDue EXCEPT ![m] = clock + AckWait]
    /\ numDelivered' = [numDelivered EXCEPT ![m] = @ + 1]
    /\ pc' = [pc EXCEPT ![w] = "claim"]
    /\ inHand' = [inHand EXCEPT ![w] = m]
    /\ delivery' = [delivery EXCEPT ![w] = numDelivered[m] + 1]
    /\ now' = [now EXCEPT ![w] = clock]
    /\ UNCHANGED <<clock, readyAt, delay, tableVars, ghostVars>>

\* The message goes back to the queue after d, or MaxDeliver is used up.
Requeue(m, d) ==
    /\ msg' = [msg EXCEPT ![m] = IF numDelivered[m] < MaxDeliver
                                 THEN "ready" ELSE "exhausted"]
    /\ readyAt' = [readyAt EXCEPT ![m] = clock + d]
    /\ UNCHANGED <<ackDue, numDelivered>>

AckWaitExpires(m) ==
    /\ msg[m] = "out" /\ ackDue[m] <= clock
    /\ Requeue(m, 0)
    /\ UNCHANGED <<clock, tableVars, workVars, ghostVars>>

\* The worker is done with its delivery, or has lost it.
Drop(w) ==
    /\ pc' = [pc EXCEPT ![w] = "idle"]
    /\ inHand' = [inHand EXCEPT ![w] = NoMsg]
    /\ delivery' = [delivery EXCEPT ![w] = 0]
    /\ now' = [now EXCEPT ![w] = 0]
    /\ delay' = [delay EXCEPT ![w] = 0]

\* An acknowledgement counts whichever delivery of the message it answers.
Ack(w) ==
    /\ pc[w] = "ack"
    /\ msg' = [msg EXCEPT ![inHand[w]] = IF @ = "termed" THEN @ ELSE "acked"]
    /\ Drop(w)
    /\ UNCHANGED <<clock, readyAt, ackDue, numDelivered, tableVars, ghostVars>>

\* A nak counts for the outstanding delivery; one that answers an earlier
\* delivery may count or be ignored.
Nak(w) ==
    /\ pc[w] = "nak"
    /\ \/ msg[inHand[w]] = "out" /\ Requeue(inHand[w], delay[w])
       \/ /\ msg[inHand[w]] # "out" \/ delivery[w] < numDelivered[inHand[w]]
          /\ UNCHANGED brokerVars
    /\ Drop(w)
    /\ UNCHANGED <<clock, tableVars, ghostVars>>

-----------------------------------------------------------------------------
(* Claim: one upsert decides, a second read says why it did not acquire.    *)

Goto(w, to) == pc' = [pc EXCEPT ![w] = to]

\* The upsert's condition: no row, or an uncompleted claim older than the lease.
Acquires_NoLease(w) == row \in {"absent", "inflight"}
Acquires_Completed(w) ==
    row = "absent" \/ processedAt < now[w] - lease
Acquires(w) ==
    \/ row = "absent"
    \/ row = "inflight" /\ processedAt < now[w] - lease

Upsert(w) ==
    /\ usesClaim /\ pc[w] = "claim"
    /\ \/ /\ Acquires(w)
          /\ row' = "inflight" /\ processedAt' = now[w]
          /\ Goto(w, "run")
       \/ /\ ~Acquires(w)
          /\ Goto(w, "read")
          /\ UNCHANGED <<row, processedAt>>
    /\ UNCHANGED <<clock, failedRows, inHand, delivery, now, delay, brokerVars,
                   ghostVars>>

\* The answers of the second read, and what the consumer does with each.
RetryAfter_Constant(w) == 1
RetryAfter(w) ==
    IF row = "absent" \/ processedAt + lease - now[w] < 1
    THEN 1
    ELSE processedAt + lease - now[w]

Read_AckInProgress(w) ==
    /\ pc[w] = "read"
    /\ Goto(w, "ack")
    /\ UNCHANGED <<clock, inHand, delivery, now, delay, brokerVars, tableVars, ghostVars>>
Read(w) ==
    /\ pc[w] = "read"
    /\ \/ row = "completed" /\ Goto(w, "ack") /\ UNCHANGED delay
       \/ /\ row # "completed" /\ Goto(w, "nak")
          /\ delay' = [delay EXCEPT ![w] = RetryAfter(w)]
    /\ UNCHANGED <<clock, inHand, delivery, now, brokerVars, tableVars, ghostVars>>

\* CheckAndMark: the row is born completed; any row at all means duplicate.
CheckAndMark_NoConflict(w) ==
    /\ ~usesClaim /\ pc[w] = "claim"
    /\ row' = "completed" /\ processedAt' = now[w]
    /\ Goto(w, "run")
    /\ UNCHANGED <<clock, failedRows, inHand, delivery, now, delay, brokerVars,
                   ghostVars>>
CheckAndMark(w) ==
    /\ ~usesClaim /\ pc[w] = "claim"
    /\ \/ /\ row = "absent"
          /\ row' = "completed" /\ processedAt' = now[w]
          /\ Goto(w, "run")
       \/ /\ row # "absent"
          /\ Goto(w, "ack")
          /\ UNCHANGED <<row, processedAt>>
    /\ UNCHANGED <<clock, failedRows, inHand, delivery, now, delay, brokerVars,
                   ghostVars>>

-----------------------------------------------------------------------------
(* The handler and what follows it.                                         *)

HandlerOk(w) ==
    /\ pc[w] = "run"
    /\ Goto(w, IF usesClaim THEN "ok" ELSE "ack")
    /\ handled' = TRUE
    /\ UNCHANGED <<clock, inHand, delivery, now, delay, brokerVars, tableVars,
                   completed, overran, crashes, failed>>

HandlerFails(w) ==
    /\ pc[w] = "run"
    /\ Goto(w, "fail")
    /\ failed' = TRUE
    /\ UNCHANGED <<clock, inHand, delivery, now, delay, brokerVars, tableVars,
                   handled, completed, overran, crashes>>

\* Whether the worker's lease had run out when it came back to the table.
NoteOverrun(w) == overran' = (overran \/ (usesClaim /\ clock > now[w] + lease))

\* Complete, then ack: also on ErrNoClaim, because the work has been done.
Complete(w) ==
    /\ pc[w] = "ok"
    /\ row' = IF row = "inflight" THEN "completed" ELSE row
    /\ completed' = (completed \/ row = "inflight")
    /\ NoteOverrun(w)
    /\ Goto(w, "ack")
    /\ UNCHANGED <<clock, processedAt, failedRows, inHand, delivery, now, delay,
                   brokerVars, handled, crashes, failed>>

\* Release: delete the row by key, whoever holds it; then nak.
Release(w) ==
    /\ pc[w] = "fail" /\ delivery[w] < MaxDeliver
    /\ row' = "absent" /\ processedAt' = 0
    /\ NoteOverrun(w)
    /\ Goto(w, "nak")
    /\ UNCHANGED <<clock, failedRows, inHand, delivery, now, delay, brokerVars,
                   handled, completed, crashes, failed>>

\* RouteToDLQ on the last delivery: the events.failed row first, then the
\* termination of the message.  The claim is kept.
RouteToDLQ_TermFirst(w) ==
    /\ pc[w] = "fail" /\ delivery[w] >= MaxDeliver
    /\ msg' = [msg EXCEPT ![inHand[w]] = IF @ = "acked" THEN @ ELSE "termed"]
    /\ Goto(w, "term")
    /\ UNCHANGED <<clock, readyAt, ackDue, numDelivered, tableVars, inHand,
                   delivery, now, delay, ghostVars>>
RouteToDLQ(w) ==
    /\ pc[w] = "fail" /\ delivery[w] >= MaxDeliver
    /\ failedRows' = [failedRows EXCEPT ![inHand[w]] = @ + 1]
    /\ Goto(w, "term")
    /\ UNCHANGED <<clock, row, processedAt, inHand, delivery, now, delay,
                   brokerVars, ghostVars>>

\* TermWithReason, or Term when that fails.
Term(w) ==
    /\ pc[w] = "term"
    /\ msg' = [msg EXCEPT ![inHand[w]] = IF @ = "acked" THEN @ ELSE "termed"]
    /\ Drop(w)
    /\ UNCHANGED <<clock, readyAt, ackDue, numDelivered, tableVars, ghostVars>>

\* The process dies, or a database or broker call fails and the consumer
\* returns without answering the message.
Abandon(w) ==
    /\ pc[w] # "idle"
    /\ Drop(w)
    /\ crashes' = IF crashes < 2 THEN crashes + 1 ELSE 2
    /\ UNCHANGED <<clock, brokerVars, tableVars, handled, completed, overran, failed>>

\* A consumer is written against one of the two APIs and stays with it.
Next ==
    /\ UNCHANGED usesClaim
    /\ \/ Tick
       \/ \E m \in Msgs : AckWaitExpires(m) \/ \E w \in Workers : Receive(w, m)
       \/ \E w \in Workers :
           \/ Upsert(w) \/ Read(w) \/ CheckAndMark(w)
           \/ HandlerOk(w) \/ HandlerFails(w) \/ Complete(w) \/ Release(w)
           \/ RouteToDLQ(w) \/ Term(w) \/ Ack(w) \/ Nak(w) \/ Abandon(w)

Spec == Init /\ [][Next]_vars

-----------------------------------------------------------------------------
(* Properties.                                                              *)

TypeOK ==
    /\ usesClaim \in BOOLEAN
    /\ clock \in Nat
    /\ row \in {"absent", "inflight", "completed"} /\ processedAt \in Nat
    /\ msg \in [Msgs -> MsgStates]
    /\ readyAt \in [Msgs -> Nat]
    /\ ackDue \in [Msgs -> Nat]
    /\ numDelivered \in [Msgs -> Nat]
    /\ failedRows \in [Msgs -> Nat]
    /\ pc \in [Workers -> PCs]
    /\ inHand \in [Workers -> Msgs \cup {NoMsg}]
    /\ delivery \in [Workers -> Nat]
    /\ now \in [Workers -> Nat]
    /\ delay \in [Workers -> Nat]
    /\ handled \in BOOLEAN /\ completed \in BOOLEAN /\ overran \in BOOLEAN
    /\ crashes \in 0..2 /\ failed \in BOOLEAN

Holds(w)     == pc[w] \in {"run", "ok", "fail"}
LeaseLive(w) == Holds(w) /\ clock <= now[w] + lease

\* With Claim and Complete no message is acked before a run of the handler
\* has succeeded: ClaimCompleted "is the only answer that may ack without
\* running the handler", and it is only given after a success.
AckedWasHandled == usesClaim => \A m \in Msgs : msg[m] = "acked" => handled

\* Two deliveries never hold live leases at once, crashes and takeovers
\* included, as long as no delivery returned to the table after its lease.
LeaseExclusive ==
    usesClaim /\ ~overran =>
        \A v, w \in Workers : LeaseLive(v) /\ LeaseLive(w) => v = w

\* Once Complete has marked the event it stays marked, and no later delivery
\* acquires it, as long as no delivery returned to the table after its lease.
CompletedIsFinal ==
    usesClaim /\ completed /\ ~overran =>
        row = "completed" /\ \A w \in Workers : ~LeaseLive(w)

\* RouteToDLQ: a terminated message has its row in events.failed, and one
\* message is dead-lettered at most once.
DeadLetterRecorded ==
    \A m \in Msgs : failedRows[m] <= 1 /\ (msg[m] = "termed" => failedRows[m] = 1)

\* CheckAndMark, the older API, "stops two concurrent deliveries of the same
\* event from both being processed", crashes and redeliveries included.
MarkExcludes ==
    ~usesClaim => \A v, w \in Workers : Holds(v) /\ Holds(w) => v = w

\* "A crashed consumer's event is retried ... well inside MaxDeliver": one
\* crash alone never uses up all the messages of an event nobody has handled.
Lost(m) == /\ msg[m] = "exhausted" /\ failedRows[m] = 0
           /\ \A w \in Workers : inHand[w] # m
OneCrashIsSurvived ==
    usesClaim /\ (\A m \in Msgs : Lost(m)) /\ ~handled => crashes > 1 \/ failed

-----------------------------------------------------------------------------
(* What the comments promise and the code does not keep.                    *)

\* "An event that has gone to the DLQ is finished, and its claim is what stops
\* it being picked up again": no delivery acquires a dead-lettered event.
DeadLetteredIsFinished ==
    [][usesClaim => \A w \in Workers : pc[w] = "claim" /\ pc'[w] = "run" =>
          \A m \in Msgs : failedRows[m] = 0]_vars

\* Hole 2 of Release, AckWait expiring while the handler runs, "CLOSED BY
\* Claim": an event whose handler fails is not lost outside the DLQ.
FailureReachesDLQ == usesClaim => \A m \in Msgs : crashes = 0 /\ Lost(m) => handled
=============================================================================
