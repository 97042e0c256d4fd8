------------------------------ MODULE MCOutbox ------------------------------
(* Small instances of Outbox for TLC.                                       *)
EXTENDS Outbox, TLC

CONSTANTS e1, e2, p1, p2

\* e1 is the older row, whichever of the two is written first.
MCCreatedAt == e1 :> 1 @@ e2 :> 2

\* p2 is configured with zeroes, so that NewProcessor's defaults apply: the
\* caps are 1 and 2, the batches 1 and 2.
MCConfigMaxRetries == p1 :> 1 @@ p2 :> 0
MCConfigBatchSize  == p1 :> 1 @@ p2 :> 0
=============================================================================
