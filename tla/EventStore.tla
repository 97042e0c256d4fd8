----------------------------- MODULE EventStore -----------------------------
(***************************************************************************)
(* PostgresEventStore.Append (src/eventsourcing) for one aggregate.        *)
(*                                                                         *)
(* Writers load the aggregate, make events for the versions that follow    *)
(* and append them in one READ COMMITTED transaction: read MAX(version),   *)
(* compare, insert row by row, commit.  An insert whose key is pending in  *)
(* another transaction waits for that one to end; one whose key is already *)
(* committed fails.  event_id is unique in every schema; the version is    *)
(* unique only where CreateEventStoreTable's index exists.  Its DDL has no *)
(* schema_version column, which Append writes, so every insert into that   *)
(* table alone fails; it takes AutoMigrate, run before or after it, to add *)
(* the column, and AutoMigrate alone makes no unique index on the version. *)
(* The versions of a batch are the caller's: Append does not look at them. *)
(***************************************************************************)
EXTENDS Integers, Sequences, FiniteSetsExt

CONSTANTS
    Writers,
    UniqueIndex, \* TRUE: CreateEventStoreTable and AutoMigrate;
                 \* FALSE: AutoMigrate alone
    MaxBatch,    \* bound: events of one Append
    MaxVersion,  \* bound: versions of the aggregate
    MaxTime,     \* bound: distinct readings of the clock
    MaxFaults    \* bound: failed commits, lost replies and crashes

ASSUME EventStoreAssumption ==
    /\ UniqueIndex \in BOOLEAN
    /\ MaxBatch \in Nat /\ MaxVersion \in Nat /\ MaxTime \in Nat
    /\ MaxFaults \in Nat

VARIABLES
    time,     \* time.Now(), in units of its resolution
    rows,     \* the committed rows of event_store
    pc,       \* per writer
    expected, \* per writer: the version its decision is based on
    batch,    \* per writer: the events it appends
    pending,  \* per writer: the rows its open transaction has inserted
    result,   \* per writer: what its last Append returned
    faults    \* faults so far, at most MaxFaults

txVars == <<pc, expected, batch, pending, result>>
vars   == <<time, rows, txVars, faults>>

PCs     == {"idle", "decide", "check", "insert"}
Results == {"none", "ok", "conflict", "dberror"}
Row     == [id : Nat, version : Nat \ {0}]

\* COALESCE(MAX(version), 0)
GetLatestVersion == IF rows = {} THEN 0 ELSE Max({r.version : r \in rows})

\* version >= fromVersion
LoadFrom_After(from) == {r \in rows : r.version > from}
LoadFrom(from) == {r \in rows : r.version >= from}

Init ==
    /\ time = 0
    /\ rows = {}
    /\ pc = [w \in Writers |-> "idle"]
    /\ expected = [w \in Writers |-> 0]
    /\ batch = [w \in Writers |-> <<>>]
    /\ pending = [w \in Writers |-> {}]
    /\ result = [w \in Writers |-> "none"]
    /\ faults = 0

Fault == faults < MaxFaults /\ faults' = faults + 1

Tick ==
    /\ time < MaxTime
    /\ time' = time + 1
    /\ UNCHANGED <<rows, txVars, faults>>

-----------------------------------------------------------------------------
(* The caller.                                                              *)

\* Load the aggregate and decide on its current version.
Load(w) ==
    /\ pc[w] = "idle"
    /\ expected' = [expected EXCEPT ![w] = GetLatestVersion]
    /\ batch' = [batch EXCEPT ![w] = <<>>]
    /\ result' = [result EXCEPT ![w] = "none"]
    /\ pc' = [pc EXCEPT ![w] = "decide"]
    /\ UNCHANGED <<time, rows, pending, faults>>

\* NewDomainEvent for the next version; generateEventID reads the clock.
NewDomainEvent(w) ==
    LET version == expected[w] + Len(batch[w]) + 1 IN
    /\ pc[w] = "decide"
    /\ Len(batch[w]) < MaxBatch /\ version <= MaxVersion
    /\ batch' = [batch EXCEPT ![w] = Append(@, [id |-> time, version |-> version])]
    /\ UNCHANGED <<time, rows, pc, expected, pending, result, faults>>

\* The caller calls Append; an empty batch would return at once.
CallAppend(w) ==
    /\ pc[w] = "decide" /\ batch[w] # <<>>
    /\ pc' = [pc EXCEPT ![w] = "check"]
    /\ UNCHANGED <<time, rows, expected, batch, pending, result, faults>>

\* After an error the caller may append the same events again.
Retry(w) ==
    /\ pc[w] = "idle" /\ result[w] = "dberror"
    /\ pc' = [pc EXCEPT ![w] = "check"]
    /\ result' = [result EXCEPT ![w] = "none"]
    /\ UNCHANGED <<time, rows, expected, batch, pending, faults>>

-----------------------------------------------------------------------------
(* Append.                                                                  *)

\* The transaction of w ends and Append returns res.
Return(w, res) ==
    /\ pc' = [pc EXCEPT ![w] = "idle"]
    /\ pending' = [pending EXCEPT ![w] = {}]
    /\ result' = [result EXCEPT ![w] = res]
    /\ UNCHANGED <<time, expected, batch>>

CheckVersion(w) ==
    /\ pc[w] = "check"
    /\ \/ /\ GetLatestVersion # expected[w]
          /\ Return(w, "conflict")
       \/ /\ GetLatestVersion = expected[w]
          /\ pc' = [pc EXCEPT ![w] = "insert"]
          /\ UNCHANGED <<time, expected, batch, pending, result>>
    /\ UNCHANGED <<rows, faults>>

\* Two rows the indexes of the table do not admit together.
Clash_IDOnly(r, s) == r.id = s.id
Clash(r, s) == r.id = s.id \/ (UniqueIndex /\ r.version = s.version)

Inserting(w) == pc[w] = "insert" /\ Cardinality(pending[w]) < Len(batch[w])
NextEvent(w) == batch[w][Cardinality(pending[w]) + 1]

\* w's next insert waits for the end of v's transaction.
WaitsFor(w, v) == Inserting(w) /\ v # w /\ \E r \in pending[v] : Clash(r, NextEvent(w))
Waits(w) == \E v \in Writers : WaitsFor(w, v)

Insert_SkipDuplicates(w) ==
    /\ Inserting(w) /\ ~Waits(w)
    /\ \/ /\ \E r \in rows \cup pending[w] : Clash(r, NextEvent(w))
          /\ batch' = [batch EXCEPT ![w] = SelectSeq(@, LAMBDA e : e # NextEvent(w))]
          /\ UNCHANGED pending
       \/ /\ \A r \in rows \cup pending[w] : ~Clash(r, NextEvent(w))
          /\ pending' = [pending EXCEPT ![w] = @ \cup {NextEvent(w)}]
          /\ UNCHANGED batch
    /\ UNCHANGED <<time, rows, pc, expected, result, faults>>
Insert_AnyOrder(w) ==
    /\ Inserting(w)
    /\ \E i \in DOMAIN batch[w] :
        LET event == batch[w][i] IN
        /\ event \notin pending[w]
        /\ \A v \in Writers \ {w} : \A r \in pending[v] : ~Clash(r, event)
        /\ \/ /\ \E r \in rows \cup pending[w] : Clash(r, event)
              /\ Return(w, "dberror")
           \/ /\ \A r \in rows \cup pending[w] : ~Clash(r, event)
              /\ pending' = [pending EXCEPT ![w] = @ \cup {event}]
              /\ UNCHANGED <<time, pc, expected, batch, result>>
    /\ UNCHANGED <<rows, faults>>
Insert(w) ==
    /\ Inserting(w) /\ ~Waits(w)
    /\ \/ /\ \E r \in rows \cup pending[w] : Clash(r, NextEvent(w))
          /\ Return(w, "dberror")
       \/ /\ \A r \in rows \cup pending[w] : ~Clash(r, NextEvent(w))
          /\ pending' = [pending EXCEPT ![w] = @ \cup {NextEvent(w)}]
          /\ UNCHANGED <<time, pc, expected, batch, result>>
    /\ UNCHANGED <<rows, faults>>

Inserted(w) == pc[w] = "insert" /\ Cardinality(pending[w]) = Len(batch[w])

Commit(w) ==
    /\ Inserted(w)
    /\ rows' = rows \cup pending[w]
    /\ Return(w, "ok")
    /\ UNCHANGED faults

\* The commit succeeds but its reply is lost: Append returns an error.
CommitReplyLost(w) ==
    /\ Inserted(w)
    /\ Fault
    /\ rows' = rows \cup pending[w]
    /\ Return(w, "dberror")

\* A query or the commit fails, or the session is lost: a rollback.
Abort(w) ==
    /\ pc[w] \in {"check", "insert"}
    /\ Fault
    /\ Return(w, "dberror")
    /\ UNCHANGED rows

Next ==
    \/ Tick
    \/ \E w \in Writers :
        \/ Load(w) \/ NewDomainEvent(w) \/ CallAppend(w) \/ Retry(w)
        \/ CheckVersion(w) \/ Insert(w)
        \/ Commit(w) \/ CommitReplyLost(w) \/ Abort(w)

Spec == Init /\ [][Next]_vars

-----------------------------------------------------------------------------
(* Properties.                                                              *)

TypeOK ==
    /\ time \in Nat
    /\ rows \in SUBSET Row
    /\ pc \in [Writers -> PCs]
    /\ expected \in [Writers -> Nat]
    /\ batch \in [Writers -> Seq(Row)]
    /\ pending \in [Writers -> SUBSET Row]
    /\ result \in [Writers -> Results]
    /\ faults \in Nat

\* With the unique index the aggregate's history has exactly one event for
\* every version from 1 to the latest, whatever Appends race, fail or are
\* retried: Append's transaction leaves neither a fork nor a gap.
HistoryIsDense ==
    UniqueIndex => /\ {r.version : r \in rows} = 1..GetLatestVersion
                   /\ Cardinality(rows) = GetLatestVersion

\* Optimistic locking: with the unique index a transaction commits only while
\* the aggregate is still at the version its events were decided on, even
\* though Append compares the versions before the inserts and not at commit.
CommitIsCurrent ==
    [][UniqueIndex /\ rows' # rows =>
        \E w \in Writers : /\ Inserted(w) /\ rows' = rows \cup pending[w]
                           /\ expected[w] = GetLatestVersion]_vars

\* No Appends wait for each other's rows in a circle, in either schema: of any
\* writers, one waits for none of the others.
NoCircularWait ==
    \A W \in SUBSET Writers : W # {} => \E w \in W : \A v \in W : ~WaitsFor(w, v)

\* Every Append returns: inserting row by row in the order of the versions
\* keeps Appends from waiting for each other's rows in a circle.
AppendReturns == \A w \in Writers : pc[w] \in {"check", "insert"} ~> pc[w] = "idle"

-----------------------------------------------------------------------------
(* What the comment promises and the code does not keep.                     *)

\* "Append appends events to the store with optimistic locking": two events
\* of the aggregate never carry the same version.
OneEventPerVersion ==
    \A r, s \in rows : r.version = s.version => r = s
=============================================================================
