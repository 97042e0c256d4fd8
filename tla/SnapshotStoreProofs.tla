------------------------ MODULE SnapshotStoreProofs -------------------------
(***************************************************************************)
(* Proofs about EventStore and SnapshotStore, for any number of writers,   *)
(* savers, versions, batches and faults: the history with the unique       *)
(* index, and the order of the inserts in either schema.                   *)
(***************************************************************************)
EXTENDS SnapshotStore, FiniteSetTheorems, TLAPS

\* One event for every version from 1 to n.
Dense(n) ==
    /\ {r.version : r \in rows} = 1..n
    /\ \A r, s \in rows : r.version = s.version => r = s

\* The batch of w continues the version it was decided on, and its open
\* transaction has inserted a prefix of it.
BatchOK(w) ==
    /\ batch[w] \in Seq(Row) /\ expected[w] \in Nat /\ expected[w] <= GetLatestVersion
    /\ \A i \in 1..Len(batch[w]) : batch[w][i].version = expected[w] + i
    /\ pc[w] \in {"check", "insert"} \/ result[w] = "dberror" => batch[w] # <<>>

PrefixOK(w) ==
    /\ Cardinality(pending[w]) \in 0..Len(batch[w]) /\ IsFiniteSet(pending[w])
    /\ pending[w] = {batch[w][i] : i \in 1..Cardinality(pending[w])}
    /\ pending[w] # {} => pc[w] = "insert" /\ expected[w] = GetLatestVersion

\* Open transactions do not hold the same version.
Apart ==
    \A w, v \in Writers : w # v =>
        \A r \in pending[w], s \in pending[v] : r.version # s.version

StoreInv ==
    /\ time \in Nat /\ rows \subseteq Row
    /\ pc \in [Writers -> PCs] /\ result \in [Writers -> Results]
    /\ DOMAIN expected = Writers /\ DOMAIN batch = Writers /\ DOMAIN pending = Writers
    /\ GetLatestVersion \in Nat /\ Dense(GetLatestVersion)
    /\ \A w \in Writers : BatchOK(w) /\ PrefixOK(w)
    /\ Apart

\* Snapshots, stored, about to be saved and read, are of past versions.
SnapInv ==
    /\ snap.version \in Nat /\ snap.version <= GetLatestVersion
    /\ DOMAIN snapshot = Savers
    /\ \A s \in Savers : snapshot[s] \in Nat /\ snapshot[s] <= GetLatestVersion
    /\ base \in Int /\ base <= GetLatestVersion

-----------------------------------------------------------------------------
(* Facts about dense histories.                                             *)

\* COALESCE(MAX(version), 0) over rows with the versions 1..n is n.
LEMMA LatestOfDense ==
    ASSUME NEW R, NEW n \in Nat, {r.version : r \in R} = 1..n
    PROVE  (IF R = {} THEN 0 ELSE Max({r.version : r \in R})) = n
<1>1. CASE R = {}
  <2>1. n = 0
    <3>1. 1..n = {}
      BY <1>1
    <3> QED BY ONLY <3>1, n \in Nat
  <2> QED BY ONLY <1>1, <2>1
<1>2. CASE R # {}
  <2>1. n \in 1..n /\ \A y \in 1..n : n >= y
    <3>1. 1..n # {}
      BY <1>2
    <3> QED BY ONLY <3>1, n \in Nat
  <2>2. Max(1..n) = n
    <3>1. Max(1..n) \in 1..n /\ \A y \in 1..n : Max(1..n) >= y
      BY ONLY Zenon, <2>1 DEF Max
    <3> QED BY ONLY <2>1, <3>1, n \in Nat
  <2> QED BY Zenon, <1>2, <2>2
<1> QED BY <1>1, <1>2

\* Rows with the versions 1..n, one for each, are n rows.
LEMMA SizeOfDense ==
    ASSUME NEW R, NEW n \in Nat, {r.version : r \in R} = 1..n,
           \A r, s \in R : r.version = s.version => r = s
    PROVE  Cardinality(R) = n
<1> DEFINE f == [i \in 1..n |-> CHOOSE r \in R : r.version = i]
<1>1. \A i \in 1..n : f[i] \in R /\ f[i].version = i
  <2> TAKE i \in 1..n
  <2>1. \E r \in R : r.version = i
    OBVIOUS
  <2> QED BY ONLY <2>1, i \in 1..n DEF f
<1>2. \A r \in R : r.version \in 1..n /\ f[r.version] = r
  BY <1>1
<1>3. f \in [1..n -> R]
  BY <1>1
<1> HIDE DEF f
<1>4. f \in Bijection(1..n, R)
  BY <1>1, <1>2, <1>3 DEF Bijection, Injection, Surjection, IsInjective
<1>5. IsFiniteSet(1..n) /\ Cardinality(1..n) = n
  BY FS_Interval
<1> QED BY <1>4, <1>5, FS_Bijection DEF ExistsBijection

-----------------------------------------------------------------------------
(* The invariant of the event store.                                        *)

\* Nothing about w changes.
LEMMA Others ==
    ASSUME NEW w \in Writers, BatchOK(w), PrefixOK(w),
           GetLatestVersion' = GetLatestVersion,
           pc'[w] = pc[w], expected'[w] = expected[w], batch'[w] = batch[w],
           pending'[w] = pending[w], result'[w] = result[w]
    PROVE  (BatchOK(w) /\ PrefixOK(w))'
BY DEF BatchOK, PrefixOK

\* An Append that returns leaves w without a transaction.
LEMMA ReturnKeeps ==
    ASSUME StoreInv, NEW w \in Writers, NEW res \in Results, Return(w, res),
           pc[w] \in {"check", "insert"}, GetLatestVersion' \in Nat,
           GetLatestVersion <= GetLatestVersion',
           \A v \in Writers \ {w} : pending[v] # {} => GetLatestVersion' = GetLatestVersion
    PROVE  /\ time' \in Nat
           /\ pc' \in [Writers -> PCs] /\ result' \in [Writers -> Results]
           /\ (DOMAIN expected = Writers /\ DOMAIN batch = Writers /\ DOMAIN pending = Writers)'
           /\ \A v \in Writers : (BatchOK(v) /\ PrefixOK(v))'
           /\ Apart'
<1>1. /\ time' \in Nat
      /\ pc' \in [Writers -> PCs] /\ result' \in [Writers -> Results]
      /\ (DOMAIN expected = Writers /\ DOMAIN batch = Writers /\ DOMAIN pending = Writers)'
  BY DEF StoreInv, Return, PCs
<1>2. /\ pending'[w] = {} /\ expected' = expected /\ batch' = batch
      /\ \A v \in Writers \ {w} : /\ pending'[v] = pending[v] /\ pc'[v] = pc[v]
                                  /\ result'[v] = result[v]
  BY DEF StoreInv, Return
<1>3. ASSUME NEW v \in Writers PROVE (BatchOK(v) /\ PrefixOK(v))'
  <2>0. BatchOK(v) /\ PrefixOK(v) /\ GetLatestVersion \in Nat
    BY DEF StoreInv
  <2>1. CASE v = w
    <3>1. BatchOK(w)'
      BY <1>2, <2>0, <2>1 DEF BatchOK
    <3>2. PrefixOK(w)'
      <4>1. Len(batch[w]) \in Nat
        BY <2>0, <2>1 DEF BatchOK
      <4> QED BY ONLY <1>2, <4>1, FS_EmptySet DEF PrefixOK
    <3> QED BY <2>1, <3>1, <3>2
  <2>2. CASE v # w
    <3>1. BatchOK(v)'
      BY <1>2, <2>0, <2>2 DEF BatchOK
    <3>2. PrefixOK(v)'
      BY <1>2, <2>0, <2>2 DEF PrefixOK
    <3> QED BY <3>1, <3>2
  <2> QED BY <2>1, <2>2
<1>4. Apart'
  BY <1>2 DEF StoreInv, Apart
<1> QED BY <1>1, <1>3, <1>4

\* What StoreInv asks beyond the writers, when no row is committed.
LEMMA SameRows ==
    ASSUME StoreInv, rows' = rows
    PROVE  /\ GetLatestVersion' = GetLatestVersion /\ GetLatestVersion \in Nat
           /\ (rows \subseteq Row /\ GetLatestVersion \in Nat /\ Dense(GetLatestVersion))'
<1>1. GetLatestVersion' = GetLatestVersion
  BY DEF GetLatestVersion
<1> QED BY <1>1 DEF StoreInv, Dense

\* The caller's steps and the version check leave every transaction alone.
LEMMA CallerKeeps ==
    ASSUME StoreInv, NEW w \in Writers,
           Load(w) \/ NewDomainEvent(w) \/ CallAppend(w) \/ Retry(w)
    PROVE  StoreInv'
<1>0. /\ rows' = rows /\ time' = time /\ pending' = pending
      /\ \A v \in Writers \ {w} : /\ pc'[v] = pc[v] /\ expected'[v] = expected[v]
                                  /\ batch'[v] = batch[v] /\ result'[v] = result[v]
      /\ pc' \in [Writers -> PCs] /\ result' \in [Writers -> Results]
      /\ (DOMAIN expected = Writers /\ DOMAIN batch = Writers)'
  BY DEF StoreInv, Load, NewDomainEvent, CallAppend, Retry, PCs, Results
<1>1. /\ GetLatestVersion' = GetLatestVersion /\ GetLatestVersion \in Nat
      /\ (rows \subseteq Row /\ GetLatestVersion \in Nat /\ Dense(GetLatestVersion))'
  BY <1>0, SameRows
<1>2. Apart'
  BY <1>0 DEF StoreInv, Apart
<1>3. /\ BatchOK(w) /\ PrefixOK(w) /\ pending[w] = {}
      /\ pc \in [Writers -> PCs] /\ DOMAIN expected = Writers /\ DOMAIN batch = Writers
      /\ DOMAIN result = Writers /\ time \in Nat
  BY DEF StoreInv, PrefixOK, Load, NewDomainEvent, CallAppend, Retry
<1>4. BatchOK(w)'
  <2>1. CASE Load(w)
    <3>1. /\ expected'[w] = GetLatestVersion /\ batch'[w] = <<>>
          /\ pc'[w] = "decide" /\ result'[w] = "none"
      BY <1>3, <2>1 DEF Load
    <3> QED BY ONLY <1>1, <3>1 DEF BatchOK
  <2>2. CASE NewDomainEvent(w)
    <3> DEFINE n == Len(batch[w])
               e == [id |-> time, version |-> expected[w] + n + 1]
    <3>1. /\ expected'[w] = expected[w] /\ pc'[w] = "decide"
          /\ batch'[w] = Append(batch[w], e)
      BY <1>3, <2>2 DEF NewDomainEvent
    <3>2. /\ batch[w] \in Seq(Row) /\ n \in Nat /\ expected[w] \in Nat
          /\ expected[w] <= GetLatestVersion
          /\ \A i \in 1..n : batch[w][i].version = expected[w] + i
      BY <1>3 DEF BatchOK
    <3>3. e \in Row /\ e.version = expected[w] + (n + 1)
      BY ONLY <1>3, <3>2 DEF Row
    <3> HIDE DEF e
    <3>4. /\ batch'[w] \in Seq(Row) /\ Len(batch'[w]) = n + 1
          /\ \A i \in 1..n : batch'[w][i] = batch[w][i]
          /\ batch'[w][n + 1] = e /\ batch'[w] # <<>>
      BY ONLY <3>1, <3>2, <3>3
    <3> HIDE DEF n
    <3>5. ASSUME NEW i \in 1..(n + 1) PROVE batch'[w][i].version = expected[w] + i
      <4>1. i \in 1..n \/ i = n + 1
        BY ONLY <3>2, i \in 1..(n + 1)
      <4> QED BY ONLY <4>1, <3>2, <3>3, <3>4
    <3> QED BY ONLY Zenon, <1>1, <3>1, <3>2, <3>4, <3>5 DEF BatchOK
  <2>3. CASE CallAppend(w)
    BY <1>1, <1>3, <2>3 DEF CallAppend, BatchOK
  <2>4. CASE Retry(w)
    BY <1>1, <1>3, <2>4 DEF Retry, BatchOK
  <2> QED BY <2>1, <2>2, <2>3, <2>4
<1>5. PrefixOK(w)'
  <2>1. Len(batch'[w]) \in Nat /\ pending'[w] = {}
    BY <1>0, <1>3, <1>4 DEF BatchOK
  <2> QED BY ONLY <2>1, FS_EmptySet DEF PrefixOK
<1>6. \A v \in Writers : (BatchOK(v) /\ PrefixOK(v))'
  <2> SUFFICES ASSUME NEW v \in Writers, v # w PROVE (BatchOK(v) /\ PrefixOK(v))'
    BY <1>4, <1>5
  <2>1. BatchOK(v) /\ PrefixOK(v)
    BY DEF StoreInv
  <2> QED BY <1>0, <1>1, <2>1, Others
<1>7. (time \in Nat /\ DOMAIN pending = Writers)'
  BY <1>0 DEF StoreInv
<1> QED BY ONLY <1>0, <1>1, <1>2, <1>6, <1>7 DEF StoreInv

\* The version check opens the inserts or returns a conflict.
LEMMA CheckKeeps ==
    ASSUME StoreInv, NEW w \in Writers, CheckVersion(w)
    PROVE  StoreInv'
<1>0. rows' = rows /\ pc[w] = "check"
  BY DEF CheckVersion
<1>1. /\ GetLatestVersion' = GetLatestVersion /\ GetLatestVersion \in Nat
      /\ (rows \subseteq Row /\ GetLatestVersion \in Nat /\ Dense(GetLatestVersion))'
  BY <1>0, SameRows
<1>2. CASE Return(w, "conflict")
  <2>1. "conflict" \in Results
    BY DEF Results
  <2> QED BY <1>0, <1>1, <1>2, <2>1, ReturnKeeps DEF StoreInv
<1>3. CASE /\ pc' = [pc EXCEPT ![w] = "insert"]
           /\ UNCHANGED <<time, expected, batch, pending, result>>
  <2>1. \A v \in Writers : (BatchOK(v) /\ PrefixOK(v))'
    <3> TAKE v \in Writers
    <3>1. /\ BatchOK(v) /\ PrefixOK(v) /\ pc \in [Writers -> PCs]
      BY DEF StoreInv
    <3>2. pc'[v] = pc[v] \/ (v = w /\ pc'[v] = "insert")
      BY <1>3, <3>1
    <3> QED BY <1>0, <1>1, <1>3, <3>1, <3>2 DEF BatchOK, PrefixOK
  <2>2. Apart'
    BY <1>3 DEF StoreInv, Apart
  <2> QED BY <1>1, <1>3, <2>1, <2>2 DEF StoreInv, PCs
<1> QED BY <1>2, <1>3 DEF CheckVersion

\* The first insert succeeds only at the latest version; every insert extends
\* the prefix by a version no other transaction holds.
LEMMA InsertKeeps ==
    ASSUME UniqueIndex, StoreInv, NEW w \in Writers, Insert(w)
    PROVE  StoreInv'
<1>0. rows' = rows /\ pc[w] = "insert" /\ Inserting(w) /\ ~Waits(w)
  BY DEF Insert, Inserting
<1>1. /\ GetLatestVersion' = GetLatestVersion /\ GetLatestVersion \in Nat
      /\ (rows \subseteq Row /\ GetLatestVersion \in Nat /\ Dense(GetLatestVersion))'
  BY <1>0, SameRows
<1>2. CASE Return(w, "dberror")
  <2>1. "dberror" \in Results
    BY DEF Results
  <2> QED BY <1>0, <1>1, <1>2, <2>1, ReturnKeeps DEF StoreInv
<1>3. CASE /\ \A r \in rows \cup pending[w] : ~Clash(r, NextEvent(w))
           /\ pending' = [pending EXCEPT ![w] = @ \cup {NextEvent(w)}]
           /\ UNCHANGED <<time, pc, expected, batch, result>>
  <2> DEFINE n == Cardinality(pending[w])
             e == NextEvent(w)
  <2>1. /\ n \in Nat /\ n < Len(batch[w]) /\ Len(batch[w]) \in Nat
        /\ IsFiniteSet(pending[w])
        /\ pending[w] = {batch[w][i] : i \in 1..n}
        /\ \A i \in 1..Len(batch[w]) : batch[w][i].version = expected[w] + i
        /\ expected[w] \in Nat /\ expected[w] <= GetLatestVersion
        /\ pending[w] # {} => expected[w] = GetLatestVersion
        /\ BatchOK(w)
    <3>1. BatchOK(w) /\ PrefixOK(w) /\ n < Len(batch[w])
      BY <1>0 DEF StoreInv, Inserting
    <3>2. batch[w] \in Seq(Row)
      BY ONLY <3>1 DEF BatchOK
    <3>3. Len(batch[w]) \in Nat
      BY ONLY <3>2
    <3> QED BY ONLY <3>1, <3>3 DEF BatchOK, PrefixOK
  <2>2. e = batch[w][n + 1] /\ e.version = expected[w] + (n + 1)
    <3>1. e = batch[w][n + 1] /\ n + 1 \in 1..Len(batch[w])
      BY <2>1 DEF NextEvent
    <3> QED BY ONLY <2>1, <3>1
  <2>3. /\ \A r \in rows : r.version # e.version
        /\ \A r \in pending[w] : r.version # e.version
        /\ \A v \in Writers \ {w} : \A r \in pending[v] : r.version # e.version
    BY <1>0, <1>3 DEF Clash, Waits, WaitsFor
  <2>4. /\ pending'[w] = pending[w] \cup {e}
        /\ \A v \in Writers \ {w} : pending'[v] = pending[v]
        /\ DOMAIN pending' = Writers
    BY <1>3 DEF StoreInv
  <2>5. e \notin pending[w]
    BY ONLY <2>3
  <2>6. IsFiniteSet(pending'[w]) /\ Cardinality(pending'[w]) = n + 1
    <3>1. /\ IsFiniteSet(pending[w] \cup {e})
          /\ Cardinality(pending[w] \cup {e}) = n + 1
      BY <2>1, <2>5, FS_AddElement
    <3> QED BY ONLY <2>4, <3>1
  <2>7. pending'[w] = {batch[w][i] : i \in 1..(n + 1)}
    <3>1. 1..(n + 1) = 1..n \cup {n + 1}
      BY ONLY <2>1
    <3> QED BY ONLY <2>1, <2>2, <2>4, <3>1
  <2>8. expected[w] = GetLatestVersion
    <3>1. CASE pending[w] # {}
      BY <2>1, <3>1
    <3>2. CASE pending[w] = {}
      <4>1. n = 0
        BY <3>2, FS_EmptySet DEF n
      <4>2. {r.version : r \in rows} = 1..GetLatestVersion
        BY DEF StoreInv, Dense
      <4>3. e.version \notin 1..GetLatestVersion
        BY ONLY <2>3, <4>2
      <4> QED BY ONLY <1>1, <2>1, <2>2, <4>1, <4>3
    <3> QED BY <3>1, <3>2
  <2>9. (BatchOK(w) /\ PrefixOK(w))'
    <3>1. BatchOK(w)'
      BY <1>1, <1>3, <2>1 DEF BatchOK
    <3>2. n + 1 \in 0..Len(batch[w])
      BY ONLY <2>1
    <3> QED BY ONLY Zenon, <1>0, <1>1, <1>3, <2>6, <2>7, <2>8, <3>1, <3>2 DEF PrefixOK
  <2>10. \A v \in Writers : (BatchOK(v) /\ PrefixOK(v))'
    <3> SUFFICES ASSUME NEW v \in Writers, v # w PROVE (BatchOK(v) /\ PrefixOK(v))'
      BY <2>9
    <3>1. BatchOK(v) /\ PrefixOK(v)
      BY DEF StoreInv
    <3> QED BY <1>1, <1>3, <2>4, <3>1, Others
  <2>11. Apart'
    <3> SUFFICES ASSUME NEW v \in Writers, NEW u \in Writers, v # u,
                        NEW r \in pending'[v], NEW q \in pending'[u]
                 PROVE  r.version # q.version
      BY DEF Apart
    <3>1. \/ r \in pending[v] /\ q \in pending[u]
          \/ v = w /\ r = e /\ q \in pending[u]
          \/ u = w /\ q = e /\ r \in pending[v]
      BY <2>4
    <3> QED BY <2>3, <3>1 DEF StoreInv, Apart
  <2> QED BY ONLY StoreInv, <1>1, <1>3, <2>4, <2>10, <2>11 DEF StoreInv
<1> QED BY <1>2, <1>3 DEF Insert

\* A transaction that has inserted its whole batch was decided on the latest
\* version, and no other transaction has inserted anything.
LEMMA InsertedIsCurrent ==
    ASSUME StoreInv, NEW w \in Writers, Inserted(w)
    PROVE  /\ expected[w] = GetLatestVersion
           /\ pending[w] = {batch[w][i] : i \in 1..Len(batch[w])}
           /\ \A v \in Writers \ {w} : pending[v] = {}
<1>1. ASSUME NEW v \in Writers, pending[v] # {}
      PROVE  \E r \in pending[v] : r.version = GetLatestVersion + 1
  <2>1. /\ Cardinality(pending[v]) \in 0..Len(batch[v]) /\ IsFiniteSet(pending[v])
        /\ pending[v] = {batch[v][i] : i \in 1..Cardinality(pending[v])}
        /\ expected[v] = GetLatestVersion /\ Len(batch[v]) \in Nat
        /\ \A i \in 1..Len(batch[v]) : batch[v][i].version = expected[v] + i
    BY <1>1 DEF StoreInv, BatchOK, PrefixOK
  <2>2. Cardinality(pending[v]) # 0
    BY <1>1, <2>1, FS_EmptySet
  <2>3. 1 \in 1..Cardinality(pending[v]) /\ 1 \in 1..Len(batch[v])
    BY ONLY <2>1, <2>2
  <2> QED BY ONLY <2>1, <2>3
<1>2. pending[w] # {} /\ pending[w] = {batch[w][i] : i \in 1..Len(batch[w])}
  <2>1. /\ batch[w] # <<>> /\ batch[w] \in Seq(Row)
        /\ Cardinality(pending[w]) = Len(batch[w])
        /\ pending[w] = {batch[w][i] : i \in 1..Cardinality(pending[w])}
    BY DEF StoreInv, BatchOK, PrefixOK, Inserted
  <2>2. 1 \in 1..Len(batch[w])
    BY ONLY <2>1
  <2> QED BY ONLY Zenon, <2>1, <2>2
<1>3. expected[w] = GetLatestVersion
  BY Zenon, <1>2 DEF StoreInv, PrefixOK
<1>4. ASSUME NEW v \in Writers, v # w, pending[v] # {} PROVE FALSE
  <2>1. PICK r \in pending[w] : r.version = GetLatestVersion + 1
    BY Zenon, <1>1, <1>2
  <2>2. PICK q \in pending[v] : q.version = GetLatestVersion + 1
    BY <1>1, <1>4
  <2>3. Apart
    BY DEF StoreInv
  <2> QED BY ONLY <1>4, <2>1, <2>2, <2>3, v \in Writers, w \in Writers DEF Apart
<1> QED BY <1>2, <1>3, <1>4

\* A commit extends a dense history by the batch.
LEMMA CommitKeeps ==
    ASSUME StoreInv, NEW w \in Writers, Inserted(w), rows' = rows \cup pending[w],
           NEW res \in Results, Return(w, res)
    PROVE  StoreInv' /\ GetLatestVersion <= GetLatestVersion'
<1> DEFINE n == GetLatestVersion
           k == Len(batch[w])
<1>1. /\ expected[w] = n
      /\ pending[w] = {batch[w][i] : i \in 1..k}
      /\ \A v \in Writers \ {w} : pending[v] = {}
  BY InsertedIsCurrent
<1>2. /\ n \in Nat /\ k \in Nat /\ batch[w] \in Seq(Row)
      /\ \A i \in 1..k : batch[w][i] \in Row /\ batch[w][i].version = n + i
      /\ {r.version : r \in rows} = 1..n /\ rows \subseteq Row
      /\ \A r, s \in rows : r.version = s.version => r = s
  <2>1. /\ n \in Nat /\ Dense(n) /\ rows \subseteq Row /\ BatchOK(w)
    BY DEF StoreInv
  <2>2. /\ batch[w] \in Seq(Row)
        /\ \A i \in 1..k : batch[w][i].version = n + i
    BY ONLY <1>1, <2>1 DEF BatchOK
  <2>3. k \in Nat /\ \A i \in 1..k : batch[w][i] \in Row
    BY ONLY <2>2
  <2> QED BY ONLY <2>1, <2>2, <2>3 DEF Dense
<1> HIDE DEF n, k
<1>3. {r.version : r \in rows'} = 1..(n + k)
  <2>1. \A r \in pending[w] : r.version \in (n + 1)..(n + k)
    <3> TAKE r \in pending[w]
    <3>1. PICK i \in 1..k : r = batch[w][i]
      BY ONLY <1>1, r \in pending[w] DEF k
    <3>2. r.version = n + i
      BY ONLY <1>2, <3>1
    <3> QED BY ONLY <1>2, <3>2, i \in 1..k
  <2>2. ASSUME NEW j \in 1..(n + k) PROVE \E r \in rows' : r.version = j
    <3>1. CASE j \in 1..n
      <4>1. j \in {r.version : r \in rows}
        BY ONLY Zenon, <1>2, <3>1
      <4> QED BY ONLY <4>1, rows' = rows \cup pending[w]
    <3>2. CASE j \notin 1..n
      <4>1. j - n \in 1..k /\ n + (j - n) = j
        BY ONLY <1>2, <3>2, j \in 1..(n + k)
      <4>2. batch[w][j - n] \in pending[w] /\ batch[w][j - n].version = j
        BY ONLY <1>1, <1>2, <4>1 DEF k
      <4> QED BY ONLY <4>2, rows' = rows \cup pending[w]
    <3> QED BY <3>1, <3>2
  <2>3. ASSUME NEW r \in rows' PROVE r.version \in 1..(n + k)
    <3>1. r \in rows => r.version \in 1..n
      BY ONLY <1>2
    <3>2. 1..n \subseteq 1..(n + k) /\ (n + 1)..(n + k) \subseteq 1..(n + k)
      BY ONLY <1>2
    <3> QED BY ONLY <2>1, <3>1, <3>2, r \in rows', rows' = rows \cup pending[w]
  <2> QED BY ONLY <2>2, <2>3
<1>4. ASSUME NEW r \in rows', NEW q \in rows', r.version = q.version PROVE r = q
  <2>1. \A e \in rows : e.version \in 1..n
    BY ONLY <1>2
  <2>2. \A e \in pending[w] : \E i \in 1..k : e = batch[w][i] /\ e.version = n + i
    BY ONLY <1>1, <1>2 DEF k
  <2>3. \A e \in pending[w] : e.version \notin 1..n
    BY ONLY <1>2, <2>2
  <2>4. \A e, d \in pending[w] : e.version = d.version => e = d
    <3> SUFFICES ASSUME NEW e \in pending[w], NEW d \in pending[w], e.version = d.version
                 PROVE  e = d
      OBVIOUS
    <3>1. PICK i \in 1..k : e = batch[w][i] /\ e.version = n + i
      BY <2>2
    <3>2. PICK j \in 1..k : d = batch[w][j] /\ d.version = n + j
      BY <2>2
    <3>3. n + i = n + j
      BY <3>1, <3>2
    <3>4. i = j
      BY ONLY <1>2, <3>3, i \in 1..k, j \in 1..k
    <3> QED BY <3>1, <3>2, <3>4
  <2>5. \/ r \in rows /\ q \in rows
        \/ r \in pending[w] /\ q \in pending[w]
    BY ONLY <1>4, <2>1, <2>3, r \in rows', q \in rows', rows' = rows \cup pending[w]
  <2> QED BY ONLY <1>2, <1>4, <2>4, <2>5
<1>5. n + k \in Nat /\ n <= n + k
  BY ONLY <1>2
<1>6. GetLatestVersion' = n + k
  <2>1. (IF rows' = {} THEN 0 ELSE Max({r.version : r \in rows'})) = n + k
    BY ONLY <1>3, <1>5, LatestOfDense
  <2> QED BY ONLY <2>1 DEF GetLatestVersion
<1>7. (rows \subseteq Row /\ GetLatestVersion \in Nat /\ Dense(GetLatestVersion))'
  <2>1. pending[w] \subseteq Row
    BY ONLY <1>1, <1>2 DEF k
  <2> QED BY <1>2, <1>3, <1>4, <1>5, <1>6, <2>1 DEF Dense
<1>8. GetLatestVersion <= GetLatestVersion'
  BY ONLY <1>5, <1>6 DEF n
<1>9. pc[w] \in {"check", "insert"}
  BY DEF Inserted
<1> QED BY <1>1, <1>7, <1>8, <1>9, ReturnKeeps DEF StoreInv

\* Every step of the event store keeps StoreInv, and the versions only grow.
LEMMA StoreStep ==
    ASSUME UniqueIndex, StoreInv, [Next]_vars
    PROVE  StoreInv' /\ GetLatestVersion <= GetLatestVersion'
<1> USE DEF Results
<1>0. GetLatestVersion \in Nat
  BY DEF StoreInv
<1>1. ASSUME rows' = rows, StoreInv' PROVE StoreInv' /\ GetLatestVersion <= GetLatestVersion'
  BY <1>0, <1>1, SameRows
<1>2. CASE Tick \/ UNCHANGED vars
  <2>1. rows' = rows /\ time' \in Nat /\ UNCHANGED <<pc, expected, batch, pending, result>>
    BY <1>2 DEF StoreInv, Tick, vars, txVars
  <2>2. GetLatestVersion' = GetLatestVersion
    BY <2>1, SameRows
  <2>3. \A v \in Writers : (BatchOK(v) /\ PrefixOK(v))'
    BY <2>1, <2>2, Others DEF StoreInv
  <2>4. Apart'
    BY <2>1 DEF StoreInv, Apart
  <2>5. (rows \subseteq Row /\ GetLatestVersion \in Nat /\ Dense(GetLatestVersion))'
    BY <2>1, SameRows
  <2>6. StoreInv'
    BY ONLY StoreInv, <2>1, <2>3, <2>4, <2>5 DEF StoreInv
  <2> QED BY <1>1, <2>1, <2>6
<1>3. ASSUME NEW w \in Writers, Load(w) \/ NewDomainEvent(w) \/ CallAppend(w) \/ Retry(w)
      PROVE  StoreInv' /\ GetLatestVersion <= GetLatestVersion'
  <2>1. rows' = rows
    BY <1>3 DEF Load, NewDomainEvent, CallAppend, Retry
  <2> QED BY <1>1, <1>3, <2>1, CallerKeeps
<1>4. ASSUME NEW w \in Writers, CheckVersion(w)
      PROVE  StoreInv' /\ GetLatestVersion <= GetLatestVersion'
  BY <1>1, <1>4, CheckKeeps DEF CheckVersion
<1>5. ASSUME NEW w \in Writers, Insert(w)
      PROVE  StoreInv' /\ GetLatestVersion <= GetLatestVersion'
  BY <1>1, <1>5, InsertKeeps DEF Insert
<1>6. ASSUME NEW w \in Writers, Commit(w) \/ CommitReplyLost(w)
      PROVE  StoreInv' /\ GetLatestVersion <= GetLatestVersion'
  BY <1>6, CommitKeeps DEF Commit, CommitReplyLost
<1>7. ASSUME NEW w \in Writers, Abort(w)
      PROVE  StoreInv' /\ GetLatestVersion <= GetLatestVersion'
  <2>1. rows' = rows /\ pc[w] \in {"check", "insert"} /\ Return(w, "dberror")
    BY <1>7 DEF Abort
  <2>2. /\ GetLatestVersion' = GetLatestVersion
        /\ (rows \subseteq Row /\ GetLatestVersion \in Nat /\ Dense(GetLatestVersion))'
    BY <2>1, SameRows
  <2>3. "dberror" \in Results /\ GetLatestVersion <= GetLatestVersion'
    BY <1>0, <2>2
  <2>4. StoreInv'
    BY <2>1, <2>2, <2>3, ReturnKeeps DEF StoreInv
  <2> QED BY <2>3, <2>4
<1> QED BY <1>2, <1>3, <1>4, <1>5, <1>6, <1>7 DEF Next

-----------------------------------------------------------------------------
(* Snapshots.                                                               *)

\* Every step keeps the snapshots within the history.
LEMMA SnapStep ==
    ASSUME UniqueIndex, StoreInv, SnapInv, [SnapNext]_allVars
    PROVE  StoreInv' /\ SnapInv'
<1>1. [Next]_vars
  BY DEF SnapNext, allVars, TakeSnapshot, SaveSelect, SaveInsert, SaveUpdate, SaveDone,
         Delete, LoadSnapshot, LoadEvents
<1>2. StoreInv' /\ GetLatestVersion <= GetLatestVersion'
  BY <1>1, StoreStep
<1> DEFINE n == GetLatestVersion
           m == GetLatestVersion'
<1>3. n \in Nat /\ m \in Nat /\ n <= m
  BY <1>2 DEF StoreInv
<1>4. SnapInv'
  <2>0. /\ snap.version \in Nat /\ snap.version <= n
        /\ DOMAIN snapshot = Savers
        /\ \A s \in Savers : snapshot[s] \in Nat /\ snapshot[s] <= n
        /\ base \in Int /\ base <= n
    BY DEF SnapInv
  <2>1. SUFFICES /\ snap'.version \in Nat /\ snap'.version <= n
                 /\ DOMAIN snapshot' = Savers
                 /\ \A s \in Savers : snapshot'[s] \in Nat /\ snapshot'[s] <= n
                 /\ base' \in Int /\ base' <= n
    <3> HIDE DEF n, m
    <3>1. ASSUME NEW x \in Int, x <= n PROVE x <= m
      BY ONLY <1>3, <3>1, x \in Int
    <3> QED BY <2>0, <2>1, <3>1 DEF SnapInv, m
  <2> HIDE DEF n, m
  <2>2. CASE UNCHANGED <<saveVars, base>>
    BY ONLY <2>0, <2>2 DEF saveVars
  <2>3. ASSUME NEW s \in Savers, TakeSnapshot(s) PROVE <2>1!1
    BY ONLY <1>3, <2>0, <2>3 DEF TakeSnapshot, n
  <2>4. ASSUME NEW s \in Savers, SaveSelect(s) PROVE <2>1!1
    BY ONLY <2>0, <2>4 DEF SaveSelect
  <2>5. ASSUME NEW s \in Savers, SaveInsert(s) PROVE <2>1!1
    BY ONLY <1>3, <2>0, <2>5 DEF SaveInsert, SaveDone
  <2>6. ASSUME NEW s \in Savers, SaveUpdate(s) PROVE <2>1!1
    BY ONLY <1>3, <2>0, <2>6 DEF SaveUpdate, SaveDone
  <2>7. ASSUME NEW before, Delete(before) PROVE <2>1!1
    BY ONLY <1>3, <2>0, <2>7 DEF Delete, NoRow
  <2>8. CASE LoadSnapshot
    BY ONLY <2>0, <2>8 DEF LoadSnapshot, saveVars
  <2>9. CASE LoadEvents
    BY ONLY <1>3, <2>0, <2>9 DEF LoadEvents, saveVars
  <2> QED BY <2>2, <2>3, <2>4, <2>5, <2>6, <2>7, <2>8, <2>9 DEF SnapNext, allVars
<1> QED BY <1>2, <1>4

\* The inductive invariant: nothing is claimed without the unique index.
IInv == UniqueIndex => StoreInv /\ SnapInv

\* IInv holds in every reachable state of the event store and its snapshots.
THEOREM Invariance == SnapSpec => []IInv
<1>1. SnapInit => IInv
  <2> SUFFICES ASSUME SnapInit PROVE StoreInv /\ SnapInv
    BY DEF IInv
  <2>1. rows = {} /\ GetLatestVersion = 0
    BY DEF SnapInit, Init, GetLatestVersion
  <2>2. Dense(0)
    BY <2>1 DEF Dense
  <2>3. ASSUME NEW w \in Writers PROVE BatchOK(w) /\ PrefixOK(w) /\ pending[w] = {}
    <3>1. /\ batch[w] = <<>> /\ expected[w] = 0 /\ pending[w] = {}
          /\ pc[w] = "idle" /\ result[w] = "none"
      BY DEF SnapInit, Init
    <3>2. BatchOK(w)
      BY ONLY <2>1, <3>1 DEF BatchOK
    <3>3. PrefixOK(w)
      BY ONLY <3>1, FS_EmptySet DEF PrefixOK
    <3> QED BY <3>1, <3>2, <3>3
  <2>4. StoreInv
    BY <2>1, <2>2, <2>3 DEF StoreInv, Apart, SnapInit, Init, PCs, Results
  <2>5. SnapInv
    BY <2>1 DEF SnapInv, SnapInit, NoRow
  <2> QED BY <2>4, <2>5
<1>2. IInv /\ [SnapNext]_allVars => IInv'
  BY SnapStep DEF IInv
<1> QED BY <1>1, <1>2, PTL DEF SnapSpec

\* Append's transaction leaves neither a fork nor a gap: with the unique index
\* there is exactly one event for every version up to the latest.
THEOREM HistoryIsDenseHolds == SnapSpec => []HistoryIsDense
<1>1. IInv => HistoryIsDense
  <2> SUFFICES ASSUME IInv, UniqueIndex
               PROVE  /\ {r.version : r \in rows} = 1..GetLatestVersion
                      /\ Cardinality(rows) = GetLatestVersion
    BY DEF HistoryIsDense
  <2>1. GetLatestVersion \in Nat /\ Dense(GetLatestVersion)
    BY DEF IInv, StoreInv
  <2> QED BY ONLY <2>1, SizeOfDense DEF Dense
<1> QED BY <1>1, Invariance, PTL

\* Optimistic locking: with the unique index Append commits only while the
\* aggregate is at the version its events were decided on.
THEOREM CommitIsCurrentHolds == SnapSpec => CommitIsCurrent
<1>1. ASSUME IInv, [SnapNext]_allVars
      PROVE  [UniqueIndex /\ rows' # rows =>
                \E w \in Writers : /\ Inserted(w) /\ rows' = rows \cup pending[w]
                                   /\ expected[w] = GetLatestVersion]_vars
  <2> SUFFICES ASSUME UniqueIndex, rows' # rows
               PROVE  \E w \in Writers : /\ Inserted(w) /\ rows' = rows \cup pending[w]
                                         /\ expected[w] = GetLatestVersion
    OBVIOUS
  <2>1. Next
    BY <1>1 DEF SnapNext, allVars, vars, TakeSnapshot, SaveSelect, SaveInsert, SaveUpdate,
                SaveDone, Delete, LoadSnapshot, LoadEvents
  <2>2. PICK w \in Writers : Commit(w) \/ CommitReplyLost(w)
    BY Zenon, <2>1 DEF Next, Tick, Load, NewDomainEvent, CallAppend, Retry, CheckVersion, Insert,
                Abort
  <2>3. Inserted(w) /\ rows' = rows \cup pending[w]
    BY <2>2 DEF Commit, CommitReplyLost
  <2> QED BY <1>1, <2>3, InsertedIsCurrent DEF IInv
<1> QED BY <1>1, Invariance, PTL DEF SnapSpec, CommitIsCurrent

\* An aggregate rebuilt from a snapshot and LoadFrom is the whole history,
\* whatever Appends, Saves and Deletes come between the two queries.
THEOREM RebuildIsCompleteHolds == SnapSpec => []RebuildIsComplete
<1>1. IInv => RebuildIsComplete
  <2> SUFFICES ASSUME IInv, UniqueIndex, base >= 0
               PROVE  Rebuilt = 1..GetLatestVersion
    BY DEF RebuildIsComplete
  <2> DEFINE n == GetLatestVersion
  <2>1. /\ n \in Nat /\ {r.version : r \in rows} = 1..n
        /\ base \in Int /\ 0 <= base /\ base <= n
    BY DEF IInv, StoreInv, SnapInv, Dense
  <2> HIDE DEF n
  <2>2. {r.version : r \in LoadFrom(base + 1)} = (base + 1)..n
    <3>1. \A r \in rows : r.version \in 1..n
      BY ONLY <2>1
    <3>2. \A i \in (base + 1)..n : i \in 1..n /\ i >= base + 1
      BY ONLY <2>1
    <3>3. \A i \in (base + 1)..n : \E r \in LoadFrom(base + 1) : r.version = i
      <4> TAKE i \in (base + 1)..n
      <4>1. i \in {r.version : r \in rows} /\ i >= base + 1
        BY ONLY Zenon, <2>1, <3>2, i \in (base + 1)..n
      <4> QED BY ONLY <4>1 DEF LoadFrom
    <3>4. \A r \in LoadFrom(base + 1) : r.version \in (base + 1)..n
      BY ONLY <2>1, <3>1 DEF LoadFrom
    <3> QED BY ONLY <3>3, <3>4
  <2>3. (1..base) \cup ((base + 1)..n) = 1..n
    BY ONLY <2>1
  <2> QED BY <2>2, <2>3 DEF Rebuilt, n
<1> QED BY <1>1, Invariance, PTL

-----------------------------------------------------------------------------
(* The order of the inserts, in either schema.                              *)

\* The events of a batch were made one after the other, by the clock.
OrderOK(w) ==
    /\ \A i \in 1..Len(batch[w]) : batch[w][i].id <= time /\ batch[w][i].version <= MaxVersion
    /\ \A i, j \in 1..Len(batch[w]) : i <= j => batch[w][i].id <= batch[w][j].id

\* An open transaction has inserted a prefix of its batch.
HeldOK(w) ==
    /\ IsFiniteSet(pending[w]) /\ Cardinality(pending[w]) \in 0..Len(batch[w])
    /\ pending[w] = {batch[w][i] : i \in 1..Cardinality(pending[w])}
    /\ pending[w] # {} => pc[w] = "insert"

\* Open transactions do not hold the same event_id.
IDsApart ==
    \A w, v \in Writers : w # v => \A r \in pending[w], s \in pending[v] : r.id # s.id

OrderInv ==
    /\ TypeOK
    /\ \A r \in rows : r.version <= MaxVersion
    /\ \A w \in Writers : OrderOK(w) /\ HeldOK(w)
    /\ IDsApart

\* A set of numbers has a least one.
LEMMA Least ==
    ASSUME NEW T \in SUBSET Nat, T # {}
    PROVE  \E x \in T : \A y \in T : x <= y
<1> DEFINE R == OpToRel(<, Nat)
<1>1. \E x \in T : \A y \in T : ~ (<<y, x>> \in R)
  <2>1. IsWellFoundedOn(R, Nat)
    BY Zenon, NatLessThanWellFounded
  <2> HIDE DEF R
  <2> QED BY Zenon, <2>1, WFMin
<1>2. \A x, y \in Nat : <<y, x>> \in R <=> y < x
  BY DEF OpToRel
<1>3. PICK x \in T : \A y \in T : ~ (y < x)
  BY Zenon, <1>1, <1>2
<1>4. \A y \in T : x <= y
  BY ONLY <1>3, T \in SUBSET Nat, x \in T
<1> QED BY <1>4

\* COALESCE(MAX(version), 0) is a number.
LEMMA LatestIsNat ==
    ASSUME rows \in SUBSET Row, \A r \in rows : r.version <= MaxVersion
    PROVE  GetLatestVersion \in Nat
<1>1. CASE rows = {}
  BY <1>1 DEF GetLatestVersion
<1>2. CASE rows # {}
  <2> DEFINE V == {r.version : r \in rows}
             T == {MaxVersion - x : x \in V}
  <2>1. V \in SUBSET Nat /\ V # {} /\ MaxVersion \in Nat /\ \A x \in V : x <= MaxVersion
    BY <1>2, EventStoreAssumption DEF Row
  <2> HIDE DEF V
  <2>2. T \in SUBSET Nat /\ T # {}
    <3>1. \A x \in V : MaxVersion - x \in Nat
      BY ONLY <2>1
    <3> QED BY Zenon, <2>1, <3>1
  <2>3. PICK y \in T : \A z \in T : y <= z
    <3> HIDE DEF T
    <3> QED BY <2>2, Least
  <2>4. PICK x \in V : y = MaxVersion - x
    BY ONLY y \in T
  <2>5. \A z \in V : x >= z
    <3>1. \A z \in V : MaxVersion - x <= MaxVersion - z
      BY ONLY <2>3, <2>4
    <3> QED BY ONLY <2>1, <3>1, x \in V
  <2>6. Max(V) \in V
    BY ONLY <2>5, x \in V DEF Max
  <2> QED BY <1>2, <2>1, <2>6 DEF GetLatestVersion, V
<1> QED BY <1>1, <1>2

\* Nothing about w changes, or the clock moves on.
LEMMA OthersOrdered ==
    ASSUME NEW w \in Writers, OrderOK(w), HeldOK(w), TypeOK,
           time' \in Nat, time <= time', pc'[w] = pc[w], batch'[w] = batch[w],
           pending'[w] = pending[w]
    PROVE  (OrderOK(w) /\ HeldOK(w))'
<1>1. HeldOK(w)'
  BY ONLY HeldOK(w), pc'[w] = pc[w], batch'[w] = batch[w], pending'[w] = pending[w] DEF HeldOK
<1>2. \A i \in 1..Len(batch[w]) : batch[w][i].id \in Nat
  <2>1. batch[w] \in Seq(Row)
    BY DEF TypeOK
  <2>2. \A i \in 1..Len(batch[w]) : batch[w][i] \in Row
    BY ONLY <2>1
  <2> QED BY ONLY <2>2 DEF Row
<1>3. \A i \in 1..Len(batch[w]) : batch[w][i].id <= time'
  <2>1. time \in Nat
    BY DEF TypeOK
  <2> QED BY ONLY <1>2, <2>1, OrderOK(w), time' \in Nat, time <= time' DEF OrderOK
<1>4. OrderOK(w)'
  BY ONLY <1>3, OrderOK(w), batch'[w] = batch[w] DEF OrderOK
<1> QED BY <1>1, <1>4

\* An Append that returns leaves w without a transaction.
LEMMA ReturnOrdered ==
    ASSUME OrderInv, NEW w \in Writers, NEW res \in Results, Return(w, res),
           rows' = rows \/ rows' = rows \cup pending[w], faults' \in Nat
    PROVE  OrderInv'
<1>1. /\ time' = time /\ expected' = expected /\ batch' = batch
      /\ pc'[w] = "idle" /\ pending'[w] = {}
      /\ \A v \in Writers \ {w} : pc'[v] = pc[v] /\ pending'[v] = pending[v]
      /\ pc' \in [Writers -> PCs] /\ result' \in [Writers -> Results]
      /\ pending' \in [Writers -> SUBSET Row]
  BY DEF OrderInv, TypeOK, Return, PCs
<1>2. \A r \in pending[w] : r \in Row /\ r.version <= MaxVersion
  <2>1. /\ pending[w] = {batch[w][i] : i \in 1..Cardinality(pending[w])}
        /\ Cardinality(pending[w]) \in 0..Len(batch[w]) /\ Len(batch[w]) \in Nat
    BY DEF OrderInv, TypeOK, HeldOK
  <2>2. \A i \in 1..Cardinality(pending[w]) : i \in 1..Len(batch[w])
    BY ONLY <2>1
  <2>3. \A i \in 1..Len(batch[w]) : batch[w][i].version <= MaxVersion
    BY DEF OrderInv, OrderOK
  <2>4. pending[w] \subseteq Row
    BY DEF OrderInv, TypeOK
  <2> QED BY ONLY <2>1, <2>2, <2>3, <2>4
<1>3. rows' \in SUBSET Row /\ \A r \in rows' : r.version <= MaxVersion
  BY <1>2 DEF OrderInv, TypeOK
<1>4. TypeOK'
  BY <1>1, <1>3 DEF OrderInv, TypeOK
<1>5. ASSUME NEW v \in Writers PROVE (OrderOK(v) /\ HeldOK(v))'
  <2>1. OrderOK(v) /\ HeldOK(v) /\ TypeOK /\ time \in Nat /\ time <= time /\ Len(batch[v]) \in Nat
    BY DEF OrderInv, TypeOK
  <2>2. CASE v # w
    BY <1>1, <2>1, <2>2, OthersOrdered
  <2>3. CASE v = w
    <3>1. OrderOK(v)'
      BY ONLY <1>1, <2>1 DEF OrderOK
    <3>2. HeldOK(v)'
      <4>1. Len(batch'[v]) \in Nat /\ pending'[v] = {}
        BY ONLY <1>1, <2>1, <2>3
      <4> QED BY ONLY <4>1, FS_EmptySet DEF HeldOK
    <3> QED BY <3>1, <3>2
  <2> QED BY <2>2, <2>3
<1>6. IDsApart'
  BY <1>1 DEF OrderInv, IDsApart
<1> QED BY <1>3, <1>4, <1>5, <1>6 DEF OrderInv

\* The clock and the caller: what is made is stamped with the present.
LEMMA CallerOrdered ==
    ASSUME OrderInv, NEW w \in Writers,
           Load(w) \/ NewDomainEvent(w) \/ CallAppend(w) \/ Retry(w)
    PROVE  OrderInv'
<1>0. GetLatestVersion \in Nat
  BY LatestIsNat DEF OrderInv, TypeOK
<1>1. /\ time' = time /\ rows' = rows /\ pending' = pending /\ faults' = faults
      /\ \A v \in Writers \ {w} : pc'[v] = pc[v] /\ batch'[v] = batch[v]
      /\ pc' \in [Writers -> PCs] /\ result' \in [Writers -> Results]
      /\ expected' \in [Writers -> Nat] /\ DOMAIN batch' = Writers
      /\ pc[w] \in {"idle", "decide"}
  <2>1. /\ pc \in [Writers -> PCs] /\ result \in [Writers -> Results]
        /\ expected \in [Writers -> Nat] /\ DOMAIN batch = Writers
    BY DEF OrderInv, TypeOK
  <2>2. CASE Load(w)
    BY ONLY <1>0, <2>1, <2>2 DEF Load, PCs, Results
  <2>3. CASE NewDomainEvent(w)
    BY ONLY <2>1, <2>3 DEF NewDomainEvent, PCs
  <2>4. CASE CallAppend(w)
    BY ONLY <2>1, <2>4 DEF CallAppend, PCs, Results
  <2>5. CASE Retry(w)
    BY ONLY <2>1, <2>5 DEF Retry, PCs, Results
  <2> QED BY ONLY <2>2, <2>3, <2>4, <2>5, Load(w) \/ NewDomainEvent(w) \/ CallAppend(w) \/ Retry(w)
<1>2. /\ OrderOK(w) /\ batch[w] \in Seq(Row) /\ Len(batch[w]) \in Nat /\ pending[w] = {}
      /\ time \in Nat /\ batch \in [Writers -> Seq(Row)] /\ expected[w] \in Nat
      /\ MaxVersion \in Nat
  <2>1. HeldOK(w) /\ pc[w] # "insert"
    BY <1>1 DEF OrderInv
  <2>2. pending[w] = {}
    BY ONLY <2>1 DEF HeldOK
  <2> QED BY ONLY OrderInv, <2>2, EventStoreAssumption DEF OrderInv, TypeOK
<1>3. batch'[w] \in Seq(Row) /\ OrderOK(w)'
  <2>1. CASE Load(w)
    <3>1. batch'[w] = <<>>
      BY <1>2, <2>1 DEF Load
    <3> QED BY ONLY <3>1 DEF OrderOK
  <2>2. CASE NewDomainEvent(w)
    <3> DEFINE n == Len(batch[w])
               e == [id |-> time, version |-> expected[w] + n + 1]
    <3>1. batch'[w] = Append(batch[w], e) /\ expected[w] + n + 1 <= MaxVersion
      BY <1>2, <2>2 DEF NewDomainEvent
    <3>2. e \in Row /\ e.id = time /\ e.version <= MaxVersion
      BY ONLY <1>2, <3>1 DEF Row
    <3> HIDE DEF e
    <3>3. /\ batch'[w] \in Seq(Row) /\ Len(batch'[w]) = n + 1
          /\ \A i \in 1..n : batch'[w][i] = batch[w][i]
          /\ batch'[w][n + 1] = e
      BY ONLY <1>2, <3>1, <3>2
    <3>4. \A i \in 1..n : batch[w][i].id \in Nat
      <4>1. \A i \in 1..n : batch[w][i] \in Row
        BY ONLY <1>2
      <4> QED BY ONLY <4>1 DEF Row
    <3>5. n \in Nat
      BY <1>2
    <3> HIDE DEF n
    <3>6. \A i \in 1..(n + 1) : i \in 1..n \/ i = n + 1
      BY ONLY <3>5
    <3>7. /\ \A i \in 1..n : batch[w][i].id <= time /\ batch[w][i].version <= MaxVersion
          /\ \A i, j \in 1..n : i <= j => batch[w][i].id <= batch[w][j].id
      BY ONLY <1>2 DEF OrderOK, n
    <3>8. \A i \in 1..(n + 1) : batch'[w][i].id <= time /\ batch'[w][i].version <= MaxVersion
      BY ONLY <1>2, <3>2, <3>3, <3>6, <3>7
    <3>9. ASSUME NEW i \in 1..(n + 1), NEW j \in 1..(n + 1), i <= j
          PROVE  batch'[w][i].id <= batch'[w][j].id
      <4>1. CASE j = n + 1
        BY ONLY <3>2, <3>3, <3>8, <4>1, i \in 1..(n + 1)
      <4>2. CASE j \in 1..n
        <5>1. i \in 1..n
          BY ONLY <3>5, <4>2, i \in 1..(n + 1), i <= j
        <5> QED BY ONLY <3>3, <3>7, <3>9, <4>2, <5>1
      <4> QED BY ONLY Zenon, <3>6, <4>1, <4>2, j \in 1..(n + 1)
    <3> QED BY ONLY <1>1, <3>3, <3>8, <3>9 DEF OrderOK
  <2>3. CASE CallAppend(w) \/ Retry(w)
    <3>1. batch' = batch
      BY ONLY Zenon, <2>3 DEF CallAppend, Retry
    <3> QED BY ONLY <1>1, <1>2, <3>1 DEF OrderOK
  <2> QED BY Zenon, <2>1, <2>2, <2>3
<1>4. HeldOK(w)'
  <2>1. Len(batch'[w]) \in Nat
    BY ONLY <1>3
  <2>2. pending'[w] = {}
    BY ONLY Zenon, <1>1, <1>2
  <2> QED BY ONLY <2>1, <2>2, FS_EmptySet DEF HeldOK
<1>5. \A v \in Writers : (OrderOK(v) /\ HeldOK(v))'
  <2> SUFFICES ASSUME NEW v \in Writers, v # w PROVE (OrderOK(v) /\ HeldOK(v))'
    BY <1>3, <1>4
  <2>1. OrderOK(v) /\ HeldOK(v) /\ TypeOK /\ time \in Nat /\ time <= time
    BY DEF OrderInv, TypeOK
  <2> QED BY Zenon, <1>1, <2>1, OthersOrdered
<1>6. batch' \in [Writers -> Seq(Row)]
  <2>1. batch' = [v \in Writers |-> batch'[v]]
    BY <1>2 DEF Load, NewDomainEvent, CallAppend, Retry
  <2>2. \A v \in Writers : batch'[v] \in Seq(Row)
    BY Zenon, <1>1, <1>2, <1>3
  <2> QED BY ONLY <2>1, <2>2
<1>7. TypeOK'
  BY <1>1, <1>6 DEF OrderInv, TypeOK
<1>8. IDsApart' /\ \A r \in rows' : r.version <= MaxVersion
  BY <1>1 DEF OrderInv, IDsApart
<1> QED BY <1>5, <1>7, <1>8 DEF OrderInv

\* A row is inserted in its turn, and only when no other transaction holds its
\* event_id.
LEMMA InsertOrdered ==
    ASSUME OrderInv, NEW w \in Writers, Insert(w)
    PROVE  OrderInv'
<1>0. rows' = rows /\ faults' = faults /\ Inserting(w) /\ ~Waits(w)
  BY DEF Insert
<1>1. CASE Return(w, "dberror")
  BY <1>0, <1>1, ReturnOrdered DEF Results, OrderInv, TypeOK
<1>2. CASE /\ \A r \in rows \cup pending[w] : ~Clash(r, NextEvent(w))
           /\ pending' = [pending EXCEPT ![w] = @ \cup {NextEvent(w)}]
           /\ UNCHANGED <<time, pc, expected, batch, result>>
  <2> DEFINE n == Cardinality(pending[w])
             e == NextEvent(w)
  <2>1. /\ n \in Nat /\ n < Len(batch[w]) /\ Len(batch[w]) \in Nat /\ n + 1 \in 1..Len(batch[w])
        /\ IsFiniteSet(pending[w]) /\ pc[w] = "insert"
        /\ pending[w] = {batch[w][i] : i \in 1..n}
        /\ batch[w] \in Seq(Row)
    <3>1. HeldOK(w) /\ n < Len(batch[w]) /\ pc[w] = "insert" /\ batch[w] \in Seq(Row)
      BY <1>0 DEF OrderInv, TypeOK, Inserting
    <3>2. Len(batch[w]) \in Nat
      BY ONLY <3>1
    <3> QED BY ONLY <3>1, <3>2 DEF HeldOK
  <2>2. e = batch[w][n + 1] /\ e \in Row
    <3>1. e = batch[w][n + 1]
      BY DEF NextEvent
    <3> QED BY ONLY <2>1, <3>1
  <2>3. /\ \A r \in pending[w] : r.id # e.id
        /\ \A v \in Writers \ {w} : \A r \in pending[v] : r.id # e.id
    BY <1>0, <1>2 DEF Clash, Waits, WaitsFor
  <2>4. /\ pending'[w] = pending[w] \cup {e}
        /\ \A v \in Writers \ {w} : pending'[v] = pending[v]
        /\ pending \in [Writers -> SUBSET Row]
    BY <1>2 DEF OrderInv, TypeOK
  <2>5. e \notin pending[w]
    BY ONLY <2>3
  <2>6. IsFiniteSet(pending'[w]) /\ Cardinality(pending'[w]) = n + 1
    <3>1. /\ IsFiniteSet(pending[w] \cup {e})
          /\ Cardinality(pending[w] \cup {e}) = n + 1
      BY Zenon, <2>1, <2>5, FS_AddElement
    <3> QED BY ONLY <2>4, <3>1
  <2>7. pending' \in [Writers -> SUBSET Row]
    BY <1>2, <2>2, <2>4
  <2>8. TypeOK'
    BY <1>0, <1>2, <2>7 DEF OrderInv, TypeOK
  <2>9. IDsApart'
    <3> SUFFICES ASSUME NEW x \in Writers, NEW v \in Writers, x # v,
                        NEW r \in pending'[x], NEW s \in pending'[v]
                 PROVE  r.id # s.id
      BY DEF IDsApart
    <3>1. \A y \in Writers : y = w \/ pending'[y] = pending[y]
      BY <2>4
    <3>2. \A r1 \in pending[x], s1 \in pending[v] : r1.id # s1.id
      BY DEF OrderInv, IDsApart
    <3>3. r \in pending[x] \/ (x = w /\ r = e)
      BY <2>4, <3>1
    <3>4. s \in pending[v] \/ (v = w /\ s = e)
      BY <2>4, <3>1
    <3> QED BY <2>3, <3>2, <3>3, <3>4
  <2> HIDE DEF n, e
  <2>10. HeldOK(w)'
    <3>1. pending'[w] = {batch[w][i] : i \in 1..(n + 1)}
      <4>1. 1..(n + 1) = (1..n) \cup {n + 1}
        BY ONLY <2>1
      <4> QED BY ONLY <2>1, <2>2, <2>4, <4>1
    <3>2. n + 1 \in 0..Len(batch[w])
      BY ONLY <2>1
    <3>3. batch' = batch /\ pc' = pc
      BY <1>2
    <3> QED BY ONLY <2>1, <2>6, <3>1, <3>2, <3>3 DEF HeldOK
  <2>11. ASSUME NEW v \in Writers PROVE (OrderOK(v) /\ HeldOK(v))'
    <3>1. OrderOK(v) /\ HeldOK(v) /\ TypeOK /\ time \in Nat /\ time <= time
      BY DEF OrderInv, TypeOK
    <3>2. CASE v # w
      BY <1>2, <2>4, <3>1, <3>2, OthersOrdered
    <3>3. CASE v = w
      BY <1>2, <2>10, <3>1, <3>3 DEF OrderOK
    <3> QED BY <3>2, <3>3
  <2>12. \A r \in rows' : r.version <= MaxVersion
    BY <1>0 DEF OrderInv
  <2> QED BY <2>8, <2>9, <2>11, <2>12 DEF OrderInv
<1> QED BY <1>1, <1>2 DEF Insert

\* OrderInv is inductive.
LEMMA OrderStep ==
    ASSUME OrderInv, [Next]_vars
    PROVE  OrderInv'
<1> USE DEF Results
<1>0. faults \in Nat /\ TypeOK
  BY DEF OrderInv, TypeOK
<1>1. ASSUME UNCHANGED <<rows, pc, batch, pending, result, expected>>, faults' = faults,
             time' \in Nat, time <= time'
      PROVE  OrderInv'
  <2>1. TypeOK' /\ IDsApart' /\ \A r \in rows' : r.version <= MaxVersion
    BY <1>1 DEF OrderInv, TypeOK, IDsApart
  <2>2. \A v \in Writers : (OrderOK(v) /\ HeldOK(v))'
    BY <1>0, <1>1, OthersOrdered DEF OrderInv
  <2> QED BY <2>1, <2>2 DEF OrderInv
<1>2. CASE Tick \/ UNCHANGED vars
  BY <1>0, <1>1, <1>2 DEF Tick, vars, txVars, TypeOK
<1>3. ASSUME NEW w \in Writers, Load(w) \/ NewDomainEvent(w) \/ CallAppend(w) \/ Retry(w)
      PROVE  OrderInv'
  BY <1>3, CallerOrdered
<1>4. ASSUME NEW w \in Writers, CheckVersion(w) PROVE OrderInv'
  <2>1. CASE Return(w, "conflict")
    BY <1>0, <1>4, <2>1, ReturnOrdered DEF CheckVersion
  <2>2. CASE /\ pc' = [pc EXCEPT ![w] = "insert"] /\ pc[w] = "check"
             /\ UNCHANGED <<time, expected, batch, pending, result, rows, faults>>
    <3>1. /\ pc' \in [Writers -> PCs] /\ pc'[w] = "insert"
          /\ \A v \in Writers \ {w} : pc'[v] = pc[v]
      BY <1>0, <2>2 DEF TypeOK, PCs
    <3>2. TypeOK' /\ IDsApart' /\ \A r \in rows' : r.version <= MaxVersion
      BY ONLY OrderInv, <2>2, <3>1 DEF OrderInv, TypeOK, IDsApart
    <3>3. ASSUME NEW v \in Writers PROVE (OrderOK(v) /\ HeldOK(v))'
      BY ONLY OrderInv, <2>2, <3>1 DEF OrderInv, OrderOK, HeldOK
    <3> QED BY <3>2, <3>3 DEF OrderInv
  <2> QED BY <1>4, <2>1, <2>2 DEF CheckVersion
<1>5. ASSUME NEW w \in Writers, Insert(w) PROVE OrderInv'
  BY <1>5, InsertOrdered
<1>6. ASSUME NEW w \in Writers, Commit(w) \/ CommitReplyLost(w) \/ Abort(w) PROVE OrderInv'
  <2>1. faults' \in Nat /\ (rows' = rows \/ rows' = rows \cup pending[w])
    BY <1>0, <1>6 DEF Commit, CommitReplyLost, Abort, Fault
  <2>2. Return(w, "ok") \/ Return(w, "dberror")
    BY ONLY Zenon, <1>6 DEF Commit, CommitReplyLost, Abort
  <2> QED BY <2>1, <2>2, ReturnOrdered
<1> QED BY <1>2, <1>3, <1>4, <1>5, <1>6 DEF Next

\* The saver's own row: what it saves is a version, and the row it updates is
\* one it has found.
SaverInv ==
    /\ SnapTypeOK
    /\ \A s \in Savers : /\ step[s] # "idle" => snapshot[s] # 0
                         /\ step[s] = "update" => found[s] # 0

LEMMA SaverStep ==
    ASSUME SaverInv, GetLatestVersion \in Nat, [SnapNext]_allVars
    PROVE  SaverInv'
<1> USE DEF SaverInv, SnapTypeOK
<1>1. CASE UNCHANGED <<saveVars, base>>
  BY <1>1 DEF saveVars
<1>2. ASSUME NEW s \in Savers, TakeSnapshot(s) PROVE SaverInv'
  BY <1>2 DEF TakeSnapshot
<1>3. ASSUME NEW s \in Savers, SaveSelect(s) PROVE SaverInv'
  BY <1>3 DEF SaveSelect, NoRow
<1>4. ASSUME NEW s \in Savers, SaveInsert(s) PROVE SaverInv'
  BY <1>4 DEF SaveInsert, SaveDone, NoRow
<1>5. ASSUME NEW s \in Savers, SaveUpdate(s) PROVE SaverInv'
  BY <1>5 DEF SaveUpdate, SaveDone, NoRow
<1>6. ASSUME NEW before, Delete(before) PROVE SaverInv'
  BY <1>6 DEF Delete
<1>7. CASE LoadSnapshot \/ LoadEvents
  BY <1>7 DEF LoadSnapshot, LoadEvents, saveVars, NoRow
<1> QED BY <1>1, <1>2, <1>3, <1>4, <1>5, <1>6, <1>7 DEF SnapNext, allVars

\* In either schema the batches are in the order of the clock and the open
\* transactions hold prefixes of them, without a common event_id.
THEOREM OrderInvariance == SnapSpec => [](OrderInv /\ SaverInv)
<1>1. SnapInit => OrderInv /\ SaverInv
  <2> SUFFICES ASSUME SnapInit PROVE OrderInv /\ SaverInv
    OBVIOUS
  <2>1. ASSUME NEW w \in Writers PROVE OrderOK(w) /\ HeldOK(w) /\ pending[w] = {}
    <3>1. batch[w] = <<>> /\ pending[w] = {}
      BY DEF SnapInit, Init
    <3> QED BY ONLY <3>1, FS_EmptySet DEF OrderOK, HeldOK
  <2>2. TypeOK
    BY DEF SnapInit, Init, TypeOK, PCs, Results
  <2>3. SaverInv
    BY DEF SnapInit, SaverInv, SnapTypeOK
  <2> QED BY <2>1, <2>2, <2>3 DEF OrderInv, IDsApart, SnapInit, Init
<1>2. ASSUME OrderInv, SaverInv, [SnapNext]_allVars PROVE OrderInv' /\ SaverInv'
  <2>1. [Next]_vars
    BY <1>2 DEF SnapNext, allVars, TakeSnapshot, SaveSelect, SaveInsert, SaveUpdate, SaveDone,
                Delete, LoadSnapshot, LoadEvents
  <2>2. GetLatestVersion \in Nat
    BY <1>2, LatestIsNat DEF OrderInv, TypeOK
  <2> QED BY <1>2, <2>1, <2>2, OrderStep, SaverStep
<1> QED BY <1>1, <1>2, PTL DEF SnapSpec

\* Type correctness of the event store and of the snapshot store.
THEOREM TypeCorrect == SnapSpec => [](TypeOK /\ SnapTypeOK)
<1>1. OrderInv /\ SaverInv => TypeOK /\ SnapTypeOK
  BY DEF OrderInv, SaverInv
<1> QED BY <1>1, OrderInvariance, PTL

\* The next event of a transaction is no earlier than what it has inserted.
LEMMA NextIsLater ==
    ASSUME OrderInv, NEW v \in Writers, Inserting(v)
    PROVE  /\ NextEvent(v).id \in Nat /\ NextEvent(v).id <= time /\ time \in Nat
           /\ \A r \in pending[v] : r.id \in Nat /\ r.id <= NextEvent(v).id
<1> DEFINE n == Cardinality(pending[v])
<1>1. /\ n \in 0..Len(batch[v]) /\ n < Len(batch[v]) /\ Len(batch[v]) \in Nat
      /\ pending[v] = {batch[v][i] : i \in 1..n}
      /\ batch[v] \in Seq(Row) /\ time \in Nat
      /\ OrderOK(v) /\ NextEvent(v) = batch[v][n + 1]
  <2>1. /\ batch[v] \in Seq(Row) /\ time \in Nat /\ OrderOK(v) /\ HeldOK(v)
    BY DEF OrderInv, TypeOK
  <2> QED BY ONLY <2>1, Inserting(v) DEF HeldOK, Inserting, NextEvent
<1> HIDE DEF n
<1>2. n + 1 \in 1..Len(batch[v]) /\ \A i \in 1..n : i \in 1..Len(batch[v]) /\ i <= n + 1
  BY ONLY <1>1
<1>3. \A i \in 1..Len(batch[v]) : batch[v][i] \in Row
  BY ONLY <1>1
<1>4. \A i \in 1..Len(batch[v]) : batch[v][i].id \in Nat
  BY ONLY <1>3 DEF Row
<1>5. NextEvent(v).id \in Nat /\ NextEvent(v).id <= time
  BY ONLY <1>1, <1>2, <1>4 DEF OrderOK
<1>6. \A i \in 1..n : batch[v][i].id \in Nat /\ batch[v][i].id <= NextEvent(v).id
  BY ONLY <1>1, <1>2, <1>4 DEF OrderOK
<1> QED BY ONLY <1>1, <1>5, <1>6

\* With the unique index only one transaction at a time has inserted anything.
LEMMA OneInserts ==
    ASSUME UniqueIndex, StoreInv, NEW v \in Writers, NEW u \in Writers,
           pending[v] # {}, pending[u] # {}
    PROVE  v = u
<1>1. ASSUME NEW w \in Writers, pending[w] # {}
      PROVE  \E r \in pending[w] : r.version = GetLatestVersion + 1
  <2> DEFINE n == Cardinality(pending[w])
  <2>1. /\ n \in 0..Len(batch[w]) /\ pending[w] = {batch[w][i] : i \in 1..n}
        /\ Len(batch[w]) \in Nat /\ expected[w] = GetLatestVersion
        /\ \A i \in 1..Len(batch[w]) : batch[w][i].version = expected[w] + i
    <3>1. BatchOK(w) /\ PrefixOK(w)
      BY DEF StoreInv
    <3>2. batch[w] \in Seq(Row)
      BY <3>1 DEF BatchOK
    <3> QED BY <1>1, <3>1, <3>2 DEF BatchOK, PrefixOK
  <2> HIDE DEF n
  <2>2. 1..n # {}
    BY ONLY Zenon, <1>1, <2>1
  <2>3. 1 \in 1..n /\ 1 \in 1..Len(batch[w])
    BY ONLY <2>1, <2>2
  <2> QED BY ONLY <2>1, <2>3
<1>2. PICK r \in pending[v] : r.version = GetLatestVersion + 1
  BY <1>1
<1>3. PICK s \in pending[u] : s.version = GetLatestVersion + 1
  BY <1>1
<1> QED BY <1>2, <1>3 DEF StoreInv, Apart

\* A writer that waits for one that waits itself: the second one's next event
\* is later, unless only one transaction can hold a row.
LEMMA WaitChain ==
    ASSUME OrderInv, IInv, NEW w \in Writers, NEW v \in Writers, NEW u \in Writers,
           WaitsFor(w, v), WaitsFor(v, u)
    PROVE  NextEvent(w).id < NextEvent(v).id
<1>1. /\ v # w /\ u # v /\ Inserting(v) /\ Inserting(w)
      /\ (\E r \in pending[v] : Clash(r, NextEvent(w)))
      /\ (\E s \in pending[u] : Clash(s, NextEvent(v)))
  BY DEF WaitsFor
<1>2. ~UniqueIndex
  <2> SUFFICES ASSUME UniqueIndex PROVE FALSE
    OBVIOUS
  <2>1. pending[v] # {} /\ pending[u] # {} /\ StoreInv
    BY <1>1 DEF IInv
  <2> QED BY <1>1, <2>1, OneInserts
<1>3. PICK r \in pending[v] : r.id = NextEvent(w).id
  BY <1>1, <1>2 DEF Clash
<1>4. PICK s \in pending[u] : s.id = NextEvent(v).id
  BY <1>1, <1>2 DEF Clash
<1>5. r.id # s.id
  BY <1>1 DEF OrderInv, IDsApart
<1>6. r.id \in Nat /\ r.id <= NextEvent(v).id /\ NextEvent(v).id \in Nat
  BY <1>1, NextIsLater
<1> QED BY ONLY <1>3, <1>4, <1>5, <1>6

\* However many Appends are open, with whatever batches, no set of them waits
\* for one another in a circle: on the rows of an aggregate the database never
\* has a deadlock to break.
THEOREM NoCircularWaitHolds == SnapSpec => []NoCircularWait
<1>1. ASSUME OrderInv, IInv PROVE NoCircularWait
  <2> SUFFICES ASSUME NEW W \in SUBSET Writers, W # {},
                      \A w \in W : \E v \in W : WaitsFor(w, v)
               PROVE  FALSE
    BY DEF NoCircularWait
  <2> DEFINE Left(w) == time - NextEvent(w).id
             T == {Left(w) : w \in W}
  <2>1. \A w \in W : NextEvent(w).id \in Nat /\ NextEvent(w).id <= time /\ time \in Nat
    BY <1>1, NextIsLater DEF WaitsFor
  <2>2. \A w \in W : Left(w) \in Nat
    BY ONLY <2>1
  <2>3. PICK x \in T : \A y \in T : x <= y
    <3>1. T \in SUBSET Nat /\ T # {}
      BY <2>2
    <3> HIDE DEF T
    <3> QED BY <3>1, Least
  <2>4. PICK w \in W : x = Left(w)
    OBVIOUS
  <2>5. PICK v \in W : WaitsFor(w, v)
    OBVIOUS
  <2>6. PICK u \in W : WaitsFor(v, u)
    OBVIOUS
  <2>7. NextEvent(w).id < NextEvent(v).id
    BY <1>1, <2>5, <2>6, WaitChain
  <2>8. Left(w) <= Left(v)
    BY <2>3, <2>4
  <2> QED BY ONLY <2>1, <2>7, <2>8, w \in W, v \in W
<1> QED BY <1>1, OrderInvariance, Invariance, PTL

=============================================================================
