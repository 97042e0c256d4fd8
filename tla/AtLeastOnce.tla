---------------------------- MODULE AtLeastOnce -----------------------------
(***************************************************************************)
(* What the outbox promises the services that write to it: an event enters *)
(* the stream only after the transaction that wrote it has committed, and  *)
(* it is given up (marked, and later deleted) only after it has entered    *)
(* the stream.  Once committed, delivered or settled, it remains so.       *)
(***************************************************************************)
CONSTANT Events

VARIABLES committed, delivered, settled

vars == <<committed, delivered, settled>>

Init == committed = {} /\ delivered = {} /\ settled = {}

Commit(e) ==
    /\ committed' = committed \cup {e}
    /\ UNCHANGED <<delivered, settled>>

Deliver(e) ==
    /\ e \in committed
    /\ delivered' = delivered \cup {e}
    /\ UNCHANGED <<committed, settled>>

Settle(e) ==
    /\ e \in delivered
    /\ settled' = settled \cup {e}
    /\ UNCHANGED <<committed, delivered>>

Next == \E e \in Events : Commit(e) \/ Deliver(e) \/ Settle(e)

Spec == Init /\ [][Next]_vars
=============================================================================
