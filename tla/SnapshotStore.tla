---------------------------- MODULE SnapshotStore ----------------------------
(***************************************************************************)
(* PostgresSnapshotStore (src/eventsourcing) beside the event store: the   *)
(* snapshot of one aggregate is saved, replaced and deleted while writers  *)
(* append, and readers rebuild the aggregate from the snapshot and the     *)
(* events after it.  Save is two statements outside a transaction: a       *)
(* SELECT, then an INSERT or an UPDATE of the row that was found.          *)
(***************************************************************************)
EXTENDS EventStore

CONSTANTS
    Savers,    \* goroutines that save snapshots
    MaxSaves   \* bound: snapshot rows inserted

ASSUME SnapshotAssumption == MaxSaves \in Nat

VARIABLES
    snap,     \* the row of event_snapshots: its primary key (0: no row) and version
    lastID,   \* the sequence behind the primary key
    step,     \* per saver
    snapshot, \* per saver: the version of the snapshot it saves
    found,    \* per saver: the primary key its SELECT returned
    base      \* the snapshot version a rebuild in progress starts from, or -1

saveVars == <<snap, lastID, step, snapshot, found>>
allVars  == <<vars, saveVars, base>>

NoRow == [id |-> 0, version |-> 0]

SnapInit ==
    /\ Init
    /\ snap = NoRow /\ lastID = 0
    /\ step = [s \in Savers |-> "idle"]
    /\ snapshot = [s \in Savers |-> 0]
    /\ found = [s \in Savers |-> 0]
    /\ base = -1

\* A snapshot of the aggregate as the caller has just loaded it.
TakeSnapshot(s) ==
    /\ step[s] = "idle" /\ GetLatestVersion > 0
    /\ snapshot' = [snapshot EXCEPT ![s] = GetLatestVersion]
    /\ step' = [step EXCEPT ![s] = "select"]
    /\ UNCHANGED <<vars, snap, lastID, found, base>>

\* Save: FirstOrCreate's SELECT.
SaveSelect(s) ==
    /\ step[s] = "select"
    /\ found' = [found EXCEPT ![s] = snap.id]
    /\ step' = [step EXCEPT ![s] = IF snap.id = 0 THEN "insert" ELSE "update"]
    /\ UNCHANGED <<vars, snap, lastID, snapshot, base>>

SaveDone(s) ==
    /\ step' = [step EXCEPT ![s] = "idle"]
    /\ snapshot' = [snapshot EXCEPT ![s] = 0]
    /\ found' = [found EXCEPT ![s] = 0]
    /\ UNCHANGED <<vars, base>>

\* Save: the INSERT; it fails when another saver has inserted the row.
SaveInsert(s) ==
    /\ step[s] = "insert"
    /\ \/ /\ snap.id = 0 /\ lastID < MaxSaves
          /\ lastID' = lastID + 1
          /\ snap' = [id |-> lastID + 1, version |-> snapshot[s]]
       \/ snap.id # 0 /\ UNCHANGED <<snap, lastID>>
    /\ SaveDone(s)

\* Save: the UPDATE of the row that was found, if it is still there.
SaveUpdate(s) ==
    /\ step[s] = "update"
    /\ snap' = IF snap.id = found[s] THEN [snap EXCEPT !.version = snapshot[s]] ELSE snap
    /\ SaveDone(s)
    /\ UNCHANGED lastID

\* Delete(beforeVersion).
Delete(before) ==
    /\ snap.id # 0 /\ snap.version < before
    /\ snap' = NoRow
    /\ UNCHANGED <<vars, lastID, step, snapshot, found, base>>

\* A reader loads the snapshot (version 0 when there is none) ...
LoadSnapshot ==
    /\ base = -1
    /\ base' = snap.version
    /\ UNCHANGED <<vars, saveVars>>

\* ... and then the events from the next version on: these are the versions
\* the aggregate it rebuilds consists of.
Rebuilt == (1..base) \cup {r.version : r \in LoadFrom(base + 1)}

LoadEvents ==
    /\ base >= 0
    /\ base' = -1
    /\ UNCHANGED <<vars, saveVars>>

SnapNext ==
    \/ Next /\ UNCHANGED <<saveVars, base>>
    \/ \E s \in Savers : \/ TakeSnapshot(s) \/ SaveSelect(s)
                         \/ SaveInsert(s) \/ SaveUpdate(s)
    \/ \E before \in 1..MaxVersion : Delete(before)
    \/ LoadSnapshot \/ LoadEvents

SnapSpec == SnapInit /\ [][SnapNext]_allVars

\* Statements of an open transaction are executed.  An insert that waits is
\* woken when the transaction it waits for has ended, before a later insert
\* of the same key by a retry of that Append: hence strong fairness.
\* Snapshots and reads may stop.
AppendIsFair ==
    \A w \in Writers :
        /\ WF_allVars((CheckVersion(w) \/ Commit(w)) /\ UNCHANGED <<saveVars, base>>)
        /\ SF_allVars(Insert(w) /\ UNCHANGED <<saveVars, base>>)

-----------------------------------------------------------------------------
(* Properties.                                                              *)

SnapTypeOK ==
    /\ lastID \in Nat
    /\ snap \in {NoRow} \cup [id : 1..lastID, version : Nat \ {0}]
    /\ step \in [Savers -> {"idle", "select", "insert", "update"}]
    /\ snapshot \in [Savers -> Nat]
    /\ found \in [Savers -> Nat]
    /\ base \in Int

\* With the unique index the aggregate rebuilt from a snapshot and LoadFrom
\* is the whole history as it is when the events are read, whatever Appends,
\* Saves and Deletes have come between the two queries: a Save that lost the
\* race with another, or was overtaken by a Delete, leaves no gap.
RebuildIsComplete ==
    UniqueIndex /\ base >= 0 => Rebuilt = 1..GetLatestVersion
==============================================================================
