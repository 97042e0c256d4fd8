--------------------------- MODULE MCSnapshotStore ---------------------------
(* A small instance of SnapshotStore for TLC.                               *)
EXTENDS SnapshotStore

\* Bound: while snapshots are saved and read there are no faults and the
\* batches are of one event, and the other way round.
SmallWhileSaving ==
    step' # [s \in Savers |-> "idle"] \/ lastID' > 0 \/ base' >= 0 =>
        faults' = 0 /\ \A w \in Writers : Len(batch'[w]) <= 1

MCNext == SnapNext /\ SmallWhileSaving

MCSpec == SnapInit /\ [][MCNext]_allVars /\ AppendIsFair
=============================================================================
