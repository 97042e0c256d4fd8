---------------------------- MODULE APIKeysProofs ---------------------------
(***************************************************************************)
(* Proofs about APIKeys for every set of keys, requests and administrators *)
(* and every cache lifetime.                                               *)
(***************************************************************************)
EXTENDS APIKeys, TLAPS

\* Version v of the row of k was read at `at`: it was not superseded before.
Copy(k, v, at) ==
    /\ v \in 1..Len(rows[k]) /\ at <= now
    /\ v < Len(rows[k]) => rows[k][v + 1].from >= at

\* No operation changes the expiry of a key.
SameExpiry ==
    \A k \in Keys : \A i, j \in 1..Len(rows[k]) : rows[k][i].expiresAt = rows[k][j].expiresAt

\* How old the copy of a request may be: read by itself, or by the request
\* that cached it.
CopyAge(r) == IF pc[r] = "set" \/ ttl = 0 THEN age[r] ELSE ttl + MaxPause + age[r]

CacheOK(k) ==
    \/ cache[k] = NoEntry
    \/ /\ ttl > 0 /\ Copy(k, cache[k].version, cache[k].readAt)
       /\ cache[k].expiresAt <= cache[k].readAt + MaxPause + ttl

RequestOK(r) ==
    /\ pc[r] # "idle" => raw[r] \in Keys
    /\ pc[r] \in {"set", "validate"} =>
        /\ Copy(raw[r], apiKey[r].version, apiKey[r].readAt)
        /\ now - apiKey[r].readAt <= CopyAge(r)
    /\ pc[r] = "set" => ttl > 0

DraftOK(a) == draft[a].key # NoKey => draft[a].version \in 1..Len(rows[draft[a].key])

KeysInv ==
    /\ TypeOK /\ SameExpiry
    /\ \A k \in Keys : CacheOK(k)
    /\ \A r \in Requests : RequestOK(r)
    /\ \A a \in Admins : DraftOK(a)

USE APIKeysAssumption

\* A statement that writes a row appends a version and keeps the older ones.
LEMMA Written ==
    ASSUME TypeOK, NEW k \in Keys, NEW row \in Row, Write(k, row)
    PROVE  /\ rows' \in [Keys -> Seq(Row)]
           /\ Len(rows[k]) \in Nat /\ Len(rows'[k]) = Len(rows[k]) + 1
           /\ rows'[k][Len(rows[k]) + 1].from = now
           /\ rows'[k][Len(rows[k]) + 1].expiresAt = row.expiresAt
           /\ \A i \in 1..Len(rows[k]) : rows'[k][i] = rows[k][i]
           /\ \A j \in Keys \ {k} : rows'[j] = rows[j]
  <1> DEFINE new == [row EXCEPT !.from = now]
  <1>1. new \in Row /\ new.from = now /\ new.expiresAt = row.expiresAt
    BY Zenon DEF Row, TypeOK
  <1>2. rows' = [rows EXCEPT ![k] = Append(rows[k], new)] /\ rows \in [Keys -> Seq(Row)]
    BY DEF Write, TypeOK
  <1> HIDE DEF new
  <1>3. rows[k] \in Seq(Row)
    BY <1>2
  <1>4. /\ Append(rows[k], new) \in Seq(Row) /\ Len(rows[k]) \in Nat
        /\ Len(Append(rows[k], new)) = Len(rows[k]) + 1
        /\ Append(rows[k], new)[Len(rows[k]) + 1] = new
        /\ \A i \in 1..Len(rows[k]) : Append(rows[k], new)[i] = rows[k][i]
    BY <1>1, <1>3
  <1>5. rows'[k] = Append(rows[k], new) /\ \A j \in Keys \ {k} : rows'[j] = rows[j]
    BY <1>2
  <1>6. rows' \in [Keys -> Seq(Row)]
    BY <1>2, <1>4
  <1> QED
    BY <1>1, <1>4, <1>5, <1>6

\* A copy stays one while rows are written and time passes.
LEMMA CopyKept ==
    ASSUME TypeOK, NEW k \in Keys, NEW row \in Row, Write(k, row), now' = now,
           NEW j \in Keys, NEW v \in Nat, NEW at \in Nat, Copy(j, v, at)
    PROVE  Copy(j, v, at)'
  <1>1. CASE j = k
    <2>1. v \in 1..Len(rows'[k]) /\ at <= now'
      BY <1>1, Written DEF Copy
    <2>2. CASE v < Len(rows[k])
      <3>1. v + 1 \in 1..Len(rows[k]) /\ rows[k][v + 1].from >= at
        BY <1>1, <2>2, Written DEF Copy
      <3> QED
        BY <1>1, <2>1, <3>1, Written DEF Copy
    <2>3. CASE v = Len(rows[k])
      <3>1. rows'[k][v + 1].from = now /\ at <= now
        BY <1>1, <2>3, Written DEF Copy
      <3> QED
        BY <1>1, <2>1, <3>1 DEF Copy, TypeOK
    <2> QED
      BY <1>1, <2>2, <2>3, Written DEF Copy
  <1>2. CASE j # k
    BY <1>2, Written DEF Copy
  <1> QED
    BY <1>1, <1>2

\* A statement on a row keeps every fact about copies, when it changes no
\* expiry and nothing but an administrator's draft.
LEMMA WriteKeeps ==
    ASSUME KeysInv, NEW k \in Keys, NEW row \in Row, Write(k, row),
           \A i \in 1..Len(rows[k]) : row.expiresAt = rows[k][i].expiresAt,
           UNCHANGED <<ttl, now, lastUsed, cache, request>>,
           draft' \in [Admins -> [key : Keys \cup {NoKey}, version : Nat]],
           \A a \in Admins : draft'[a].key # NoKey =>
               draft'[a].version \in 1..Len(rows'[draft'[a].key])
    PROVE  KeysInv'
  <1>1. TypeOK
    BY DEF KeysInv
  <1>2. TypeOK'
    BY Zenon, <1>1, Written DEF TypeOK, request
  <1>3. SameExpiry'
    <2> SUFFICES ASSUME NEW j \in Keys, NEW m \in 1..Len(rows'[j]), NEW n \in 1..Len(rows'[j])
                 PROVE  rows'[j][m].expiresAt = rows'[j][n].expiresAt
      BY DEF SameExpiry
    <2>1. CASE j # k
      BY <1>1, <2>1, Written DEF KeysInv, SameExpiry
    <2>2. CASE j = k
      <3>1. \A i \in 1..Len(rows'[k]) : i \in 1..Len(rows[k]) \/ i = Len(rows[k]) + 1
        BY <1>1, Written
      <3>2. \A i \in 1..Len(rows'[k]) : rows'[k][i].expiresAt = row.expiresAt
        <4> SUFFICES ASSUME NEW i \in 1..Len(rows'[k])
                     PROVE  rows'[k][i].expiresAt = row.expiresAt
          OBVIOUS
        <4>1. CASE i \in 1..Len(rows[k])
          <5>1. rows'[k][i] = rows[k][i]
            BY <1>1, <4>1, Written
          <5> QED
            BY <4>1, <5>1
        <4>2. CASE i = Len(rows[k]) + 1
          BY <1>1, <4>2, Written
        <4> QED
          BY <3>1, <4>1, <4>2
      <3> QED
        BY <2>2, <3>2
    <2> QED
      BY <2>1, <2>2
  <1>4. ASSUME NEW j \in Keys PROVE CacheOK(j)'
    <2>1. cache[j].version \in Nat /\ cache[j].readAt \in Nat
      BY <1>1 DEF TypeOK
    <2>2. Copy(j, cache[j].version, cache[j].readAt) =>
              Copy(j, cache[j].version, cache[j].readAt)'
      BY <1>1, <2>1, CopyKept
    <2> QED
      BY <2>2 DEF KeysInv, CacheOK
  <1>5. ASSUME NEW r \in Requests PROVE RequestOK(r)'
    <2>1. apiKey[r].version \in Nat /\ apiKey[r].readAt \in Nat
      BY <1>1 DEF TypeOK
    <2>2. \A j \in Keys : \A v, at \in Nat : Copy(j, v, at) => Copy(j, v, at)'
      BY <1>1, CopyKept
    <2>3. raw[r] \in Keys /\ Copy(raw[r], apiKey[r].version, apiKey[r].readAt) =>
              Copy(raw[r], apiKey[r].version, apiKey[r].readAt)'
      BY <2>1, <2>2 DEF Copy, request
    <2> QED
      BY <2>3 DEF KeysInv, RequestOK, CopyAge, request
  <1>6. ASSUME NEW a \in Admins PROVE DraftOK(a)'
    BY DEF DraftOK
  <1> QED
    BY <1>2, <1>3, <1>4, <1>5, <1>6 DEF KeysInv

\* Administrators: Create, GetByID, Update and Delete.
LEMMA AdminSteps ==
    ASSUME KeysInv,
           \/ \E k \in Keys : \/ Delete(k)
                              \/ \E s \in ScopeSets, d \in Lifetimes :
                                     Create(k, GenerateAPIKey(s, d))
                              \/ \E a \in Admins : GetByID(a, k)
           \/ \E a \in Admins, s \in ScopeSets : Update(a, s)
    PROVE  KeysInv'
  <1>1. TypeOK /\ SameExpiry
    BY DEF KeysInv
  <1>2. \A k \in Keys : rows[k] \in Seq(Row) /\ Len(rows[k]) \in Nat
    <2>1. \A k \in Keys : rows[k] \in Seq(Row)
      BY Zenon, <1>1 DEF TypeOK
    <2>2. \A q \in Seq(Row) : Len(q) \in Nat
      OBVIOUS
    <2> QED
      BY ONLY Zenon, <2>1, <2>2
  <1>3. \A k \in Keys : rows[k] # <<>> => /\ Current(k) \in Row
                                         /\ Len(rows[k]) \in 1..Len(rows[k])
    BY <1>2 DEF Current
  <1>4. \A k \in Keys : \A i \in 1..Len(rows[k]) : Current(k).expiresAt = rows[k][i].expiresAt
    <2> SUFFICES ASSUME NEW k \in Keys, NEW i \in 1..Len(rows[k])
                 PROVE  Current(k).expiresAt = rows[k][i].expiresAt
      OBVIOUS
    <2>1. Len(rows[k]) \in 1..Len(rows[k])
      BY <1>2
    <2> QED
      BY <1>1, <2>1 DEF SameExpiry, Current
  \* A draft stays good when a version is appended.
  <1>5. ASSUME NEW k \in Keys, NEW row \in Row, Write(k, row), NEW a \in Admins,
               draft'[a].key = NoKey \/ draft'[a] = draft[a]
        PROVE  draft'[a].key # NoKey => draft'[a].version \in 1..Len(rows'[draft'[a].key])
    <2> SUFFICES ASSUME draft'[a].key # NoKey
                 PROVE  draft[a].version \in 1..Len(rows'[draft[a].key])
      BY <1>5
    <2>1. draft[a].key \in Keys /\ draft[a].version \in 1..Len(rows[draft[a].key])
      BY <1>1, <1>5 DEF KeysInv, DraftOK, TypeOK
    <2>2. CASE draft[a].key = k
      BY <1>1, <1>5, <2>1, <2>2, Written
    <2>3. CASE draft[a].key # k
      BY <1>1, <1>5, <2>1, <2>3, Written
    <2> QED
      BY <2>2, <2>3
  <1>6. ASSUME NEW k \in Keys, Delete(k) PROVE KeysInv'
    <2> DEFINE row == [Current(k) EXCEPT !.active = FALSE]
    <2>1. /\ rows[k] # <<>> /\ Write(k, row)
          /\ UNCHANGED <<ttl, now, lastUsed, cache, request, draft>>
      BY <1>6 DEF Delete
    <2>2. row \in Row /\ row.expiresAt = Current(k).expiresAt
      BY Zenon, <1>3, <2>1 DEF Row
    <2> HIDE DEF row
    <2>3. draft' \in [Admins -> [key : Keys \cup {NoKey}, version : Nat]]
      BY <1>1, <2>1 DEF TypeOK
    <2> QED
      BY <1>4, <1>5, <2>1, <2>2, <2>3, WriteKeeps
  <1>7. ASSUME NEW k \in Keys, NEW s \in ScopeSets, NEW d \in Lifetimes,
               Create(k, GenerateAPIKey(s, d))
        PROVE  KeysInv'
    <2> DEFINE key == GenerateAPIKey(s, d)
               row == [key EXCEPT !.scopes = Stored(key.scopes)]
    <2>1. /\ rows[k] = <<>> /\ Write(k, row)
          /\ UNCHANGED <<ttl, now, lastUsed, cache, request, draft>>
      BY <1>7 DEF Create
    <2>2. row \in Row
      <3>1. now \in Nat /\ d \in Nat
        BY <1>1 DEF TypeOK
      <3>2. s \ {<<>>} \in SUBSET UNION ScopeSets
        OBVIOUS
      <3>3. s \in SUBSET UNION ScopeSets
        OBVIOUS
      <3>4. key \in Row /\ key.scopes = s
        BY <3>1, <3>3 DEF GenerateAPIKey, Row
      <3> HIDE DEF key
      <3> QED
        BY <3>2, <3>4 DEF Row, Stored
    <2> HIDE DEF row
    <2>3. \A i \in 1..Len(rows[k]) : row.expiresAt = rows[k][i].expiresAt
      BY <2>1
    <2>4. draft' \in [Admins -> [key : Keys \cup {NoKey}, version : Nat]]
      BY <1>1, <2>1 DEF TypeOK
    <2> QED
      BY <1>5, <2>1, <2>2, <2>3, <2>4, WriteKeeps
  <1>8. ASSUME NEW a \in Admins, NEW s \in ScopeSets, Update(a, s) PROVE KeysInv'
    <2> DEFINE k == draft[a].key
               row == [Current(k) EXCEPT !.scopes = Stored(s),
                                         !.active = rows[k][draft[a].version].active]
    <2>1. /\ k # NoKey /\ Write(k, row) /\ draft' = [draft EXCEPT ![a].key = NoKey]
          /\ UNCHANGED <<ttl, now, lastUsed, cache, request>>
      BY Zenon, <1>8 DEF Update
    <2>2. k \in Keys /\ draft[a].version \in 1..Len(rows[k])
      BY <1>1, <2>1 DEF KeysInv, DraftOK, TypeOK
    <2>3. rows[k] # <<>> /\ rows[k][draft[a].version] \in Row
      BY <1>2, <2>2
    <2>4. row \in Row /\ row.expiresAt = Current(k).expiresAt
      <3>1. s \ {<<>>} \in SUBSET UNION ScopeSets
        OBVIOUS
      <3> QED
        BY Zenon, <1>3, <2>2, <2>3, <3>1 DEF Row, Stored
    <2> HIDE DEF row
    <2>5. /\ draft' \in [Admins -> [key : Keys \cup {NoKey}, version : Nat]]
          /\ \A b \in Admins : draft'[b].key = NoKey \/ draft'[b] = draft[b]
      BY Zenon, <1>1, <2>1 DEF TypeOK
    <2> HIDE DEF k
    <2> QED
      BY <1>4, <1>5, <2>1, <2>2, <2>4, <2>5, WriteKeeps
  <1>9. ASSUME NEW k \in Keys, NEW a \in Admins, GetByID(a, k) PROVE KeysInv'
    <2>1. /\ rows[k] # <<>> /\ UNCHANGED <<ttl, now, rows, lastUsed, cache, request>>
          /\ draft' = [draft EXCEPT ![a] = [key |-> k, version |-> Len(rows[k])]]
      BY <1>9 DEF GetByID, store
    <2>2. TypeOK'
      BY Zenon, <1>1, <1>2, <2>1 DEF TypeOK, request
    <2>3. SameExpiry' /\ \A j \in Keys : CacheOK(j)'
      BY <2>1 DEF KeysInv, SameExpiry, CacheOK, Copy
    <2>4. \A r \in Requests : RequestOK(r)'
      BY <2>1 DEF KeysInv, RequestOK, Copy, CopyAge, request
    <2>5. \A b \in Admins : DraftOK(b)'
      BY <1>1, <1>3, <2>1 DEF KeysInv, DraftOK, TypeOK
    <2> QED
      BY <2>2, <2>3, <2>4, <2>5 DEF KeysInv
  <1> QED
    BY <1>6, <1>7, <1>8, <1>9

\* Initially there are no keys, entries and copies.
LEMMA KeysInit == Init => KeysInv
  <1> SUFFICES ASSUME Init PROVE KeysInv
    OBVIOUS
  <1>1. ttl \in Nat /\ <<>> \in Seq(Row)
    BY DEF Init
  <1>2. TypeOK
    BY <1>1 DEF Init, TypeOK, NoEntry, None
  <1>3. SameExpiry
    BY DEF Init, SameExpiry
  <1> QED
    BY <1>2, <1>3 DEF Init, KeysInv, CacheOK, RequestOK, DraftOK

\* The rows, the cache and the drafts are as they were: what is left to show
\* is the request of the step.
LEMMA RequestStepKeeps ==
    ASSUME KeysInv, UNCHANGED <<ttl, now, rows, cache, draft>>, lastUsed' \subseteq Keys,
           NEW r \in Requests,
           NEW p \in InMiddleware \cup {"idle", "accepted", "handler"},
           NEW k \in Keys \cup {NoKey}, NEW c \in [version : Nat, readAt : Nat],
           NEW g \in 0..MaxPause,
           pc' = [pc EXCEPT ![r] = p], raw' = [raw EXCEPT ![r] = k],
           apiKey' = [apiKey EXCEPT ![r] = c], age' = [age EXCEPT ![r] = g],
           p # "idle" => k \in Keys,
           p \in {"set", "validate"} =>
               /\ Copy(k, c.version, c.readAt)
               /\ now - c.readAt <= IF p = "set" \/ ttl = 0 THEN g ELSE ttl + MaxPause + g,
           p = "set" => ttl > 0
    PROVE  KeysInv'
  <1>1. TypeOK
    BY DEF KeysInv
  <1>2. TypeOK'
    BY <1>1 DEF TypeOK
  <1>3. SameExpiry' /\ (\A j \in Keys : CacheOK(j)') /\ \A a \in Admins : DraftOK(a)'
    BY DEF KeysInv, SameExpiry, CacheOK, Copy, DraftOK
  <1>4. pc'[r] = p /\ raw'[r] = k /\ apiKey'[r] = c /\ age'[r] = g
    BY <1>1 DEF TypeOK
  <1>5. RequestOK(r)'
    BY <1>4 DEF RequestOK, CopyAge, Copy
  <1>6. ASSUME NEW s \in Requests \ {r} PROVE RequestOK(s)'
    <2>1. pc'[s] = pc[s] /\ raw'[s] = raw[s] /\ apiKey'[s] = apiKey[s] /\ age'[s] = age[s]
      BY <1>1 DEF TypeOK
    <2> QED
      BY <2>1 DEF KeysInv, RequestOK, CopyAge, Copy
  <1> QED
    BY <1>2, <1>3, <1>5, <1>6 DEF KeysInv

\* A request that ends forgets its copy.
LEMMA EndsKeeps ==
    ASSUME KeysInv, UNCHANGED <<ttl, now, rows, cache, draft>>, lastUsed' \subseteq Keys,
           NEW r \in Requests, Ends(r)
    PROVE  KeysInv'
  <1>1. None \in [version : Nat, readAt : Nat] /\ 0 \in 0..MaxPause
    BY DEF None
  <1> QED
    BY Zenon, <1>1, RequestStepKeeps DEF Ends

\* APIKeyMiddleware and RequireScope.
LEMMA RequestSteps ==
    ASSUME KeysInv, NEW r \in Requests,
           \/ \E h, q \in Keys \cup {NoKey} : Arrive(r, h, q)
           \/ GetByHash(r) \/ CacheSet(r) \/ Validate(r) \/ RequireScope(r)
           \/ HandlerEnds(r)
    PROVE  KeysInv'
  <1>1. /\ TypeOK /\ RequestOK(r) /\ now \in Nat /\ ttl \in Nat /\ lastUsed \subseteq Keys
        /\ pc[r] \in InMiddleware \cup {"idle", "accepted", "handler"}
        /\ raw[r] \in Keys \cup {NoKey} /\ apiKey[r] \in [version : Nat, readAt : Nat]
        /\ age[r] \in 0..MaxPause
    BY DEF KeysInv, TypeOK
  <1>2. /\ pc = [pc EXCEPT ![r] = pc[r]] /\ raw = [raw EXCEPT ![r] = raw[r]]
        /\ apiKey = [apiKey EXCEPT ![r] = apiKey[r]] /\ age = [age EXCEPT ![r] = age[r]]
    BY <1>1 DEF TypeOK
  <1>3. ASSUME NEW h \in Keys \cup {NoKey}, NEW q \in Keys \cup {NoKey}, Arrive(r, h, q)
        PROVE  KeysInv'
    <2> DEFINE k == IF h = NoKey /\ AllowQueryParam THEN q ELSE h
               hit == k # NoKey /\ ttl > 0 /\ Get(k)
               c == IF hit THEN [version |-> cache[k].version, readAt |-> cache[k].readAt]
                    ELSE None
               p == IF k = NoKey THEN "idle" ELSE IF hit THEN "validate" ELSE "lookup"
    <2>1. /\ pc' = [pc EXCEPT ![r] = p] /\ raw' = [raw EXCEPT ![r] = k]
          /\ apiKey' = [apiKey EXCEPT ![r] = c] /\ age' = [age EXCEPT ![r] = 0]
          /\ UNCHANGED <<ttl, now, rows, lastUsed, cache, draft>>
      BY <1>3 DEF Arrive, store
    <2>2. k \in Keys \cup {NoKey} /\ p \in {"idle", "validate", "lookup"}
      OBVIOUS
    <2>3. (p # "idle" => k \in Keys) /\ p # "set" /\ (p = "validate" => hit)
      OBVIOUS
    <2> HIDE DEF k
    <2>4. c \in [version : Nat, readAt : Nat]
      BY <1>1, <2>2 DEF TypeOK, None
    <2>5. hit => /\ Copy(k, c.version, c.readAt) /\ now - c.readAt <= ttl + MaxPause + 0
      <3> SUFFICES ASSUME hit
                   PROVE  /\ Copy(k, cache[k].version, cache[k].readAt)
                          /\ now - cache[k].readAt <= ttl + MaxPause + 0
        OBVIOUS
      <3>1. k \in Keys /\ cache[k] # NoEntry /\ now <= cache[k].expiresAt
        BY <2>2 DEF Get
      <3>2. /\ Copy(k, cache[k].version, cache[k].readAt)
            /\ cache[k].expiresAt <= cache[k].readAt + MaxPause + ttl
        BY <3>1 DEF KeysInv, CacheOK
      <3>3. cache[k].readAt \in Nat /\ cache[k].expiresAt \in Nat
        BY <1>1, <3>1 DEF TypeOK
      <3> DEFINE at == cache[k].readAt
                 end == cache[k].expiresAt
      <3>4. now <= end /\ end <= at + MaxPause + ttl /\ at \in Nat /\ end \in Nat
        BY <3>1, <3>2, <3>3
      <3> HIDE DEF at, end
      <3>5. now - at <= ttl + MaxPause + 0
        BY ONLY <1>1, <3>4, APIKeysAssumption
      <3> QED
        BY <3>2, <3>5 DEF at
    <2>6. hit => ttl # 0
      BY <1>1
    <2> HIDE DEF p, c, hit
    <2>7. 0 \in 0..MaxPause /\ p \in InMiddleware \cup {"idle", "accepted", "handler"}
      BY <2>2 DEF InMiddleware
    <2>8. p \in {"set", "validate"} =>
             /\ Copy(k, c.version, c.readAt)
             /\ now - c.readAt <= IF p = "set" \/ ttl = 0 THEN 0 ELSE ttl + MaxPause + 0
      BY <2>3, <2>5, <2>6
    <2> QED
      BY Zenon, <1>1, <2>1, <2>2, <2>3, <2>4, <2>7, <2>8, RequestStepKeeps
  <1>4. ASSUME GetByHash(r) PROVE KeysInv'
    <2>1. CASE Ends(r)
      BY <1>1, <1>4, <2>1, EndsKeeps DEF GetByHash, store
    <2>2. CASE ~Ends(r)
      <3> DEFINE k == raw[r]
                 c == [version |-> Len(rows[k]), readAt |-> now]
                 p == IF ttl > 0 THEN "set" ELSE "validate"
      <3>1. /\ pc[r] = "lookup" /\ rows[k] # <<>>
            /\ apiKey' = [apiKey EXCEPT ![r] = c] /\ pc' = [pc EXCEPT ![r] = p]
            /\ UNCHANGED <<raw, age, ttl, now, rows, lastUsed, cache, draft>>
        BY <1>4, <2>2 DEF GetByHash, store
      <3>2. k \in Keys
        BY <1>1, <3>1 DEF RequestOK
      <3>3. rows[k] \in Seq(Row)
        BY <1>1, <3>2 DEF TypeOK
      <3>4. Len(rows[k]) \in Nat \ {0}
        BY <3>1, <3>3
      <3>5. c \in [version : Nat, readAt : Nat] /\ Copy(k, c.version, c.readAt)
        BY <1>1, <3>4 DEF Copy
      <3>6. now - c.readAt <= IF p = "set" \/ ttl = 0 THEN age[r] ELSE ttl + MaxPause + age[r]
        BY <1>1
      <3>7. /\ p \in InMiddleware \cup {"idle", "accepted", "handler"}
            /\ p = "set" => ttl > 0
        BY DEF InMiddleware
      <3> HIDE DEF p, c
      <3> QED
        BY Zenon, <1>1, <1>2, <3>1, <3>2, <3>5, <3>6, <3>7, RequestStepKeeps
    <2> QED
      BY <2>1, <2>2
  <1>5. ASSUME Validate(r) \/ RequireScope(r) \/ HandlerEnds(r) PROVE KeysInv'
    <2>1. UNCHANGED <<ttl, now, rows, cache, draft>> /\ pc[r] # "idle" /\ raw[r] \in Keys
      BY <1>1, <1>5 DEF Validate, RequireScope, HandlerEnds, store, RequestOK
    <2>2. lastUsed' \subseteq Keys
      BY <1>1, <1>5, <2>1 DEF Validate, RequireScope, HandlerEnds, store, UpdateLastUsed
    <2>3. CASE Ends(r)
      BY <2>1, <2>2, <2>3, EndsKeeps
    <2>4. CASE ~Ends(r)
      <3>1. PICK p \in {"accepted", "handler"} : pc' = [pc EXCEPT ![r] = p]
        BY <1>5, <2>4 DEF Validate, RequireScope, HandlerEnds
      <3>2. UNCHANGED <<raw, apiKey, age>>
        BY <1>5, <2>4 DEF Validate, RequireScope, HandlerEnds
      <3>3. p \in InMiddleware \cup {"idle", "accepted", "handler"} /\ p \notin {"set", "validate"}
        BY <3>1
      <3>4. /\ raw' = [raw EXCEPT ![r] = raw[r]] /\ apiKey' = [apiKey EXCEPT ![r] = apiKey[r]]
            /\ age' = [age EXCEPT ![r] = age[r]]
        BY <1>2, <3>2
      <3> HIDE DEF KeysInv
      <3> QED
        BY Zenon, <1>1, <2>1, <2>2, <3>1, <3>3, <3>4, RequestStepKeeps
    <2> QED
      BY <2>3, <2>4
  <1>6. ASSUME CacheSet(r) PROVE KeysInv'
    <2> DEFINE k == raw[r]
               e == [version |-> apiKey[r].version, readAt |-> apiKey[r].readAt,
                     expiresAt |-> now + ttl]
    <2>1. /\ pc[r] = "set" /\ cache' = [cache EXCEPT ![k] = e]
          /\ pc' = [pc EXCEPT ![r] = "validate"]
          /\ UNCHANGED <<ttl, now, rows, lastUsed, raw, apiKey, age, draft>>
      BY <1>6 DEF CacheSet, store
    <2>2. /\ k \in Keys /\ Copy(k, apiKey[r].version, apiKey[r].readAt)
          /\ now - apiKey[r].readAt <= age[r] /\ ttl > 0
      BY Zenon, <1>1, <2>1 DEF RequestOK, CopyAge
    <2> HIDE DEF KeysInv
    <2>10. apiKey[r].readAt \in Nat /\ age[r] \in Nat /\ age[r] <= MaxPause
      BY ONLY <1>1, APIKeysAssumption
    <2>3. TypeOK'
      <3>1. e \in [version : Nat, readAt : Nat, expiresAt : Nat]
        <4>1. apiKey[r].version \in Nat /\ now + ttl \in Nat
          BY ONLY <1>1
        <4> QED
          BY ONLY <2>10, <4>1 DEF e
      <3> HIDE DEF e
      <3>2. cache' \in [Keys -> [version : Nat, readAt : Nat, expiresAt : Nat]]
        BY Zenon, <1>1, <2>1, <3>1 DEF TypeOK
      <3>3. pc' \in [Requests -> InMiddleware \cup {"idle", "accepted", "handler"}]
        BY <1>1, <2>1 DEF TypeOK, InMiddleware
      <3> QED
        BY Zenon, <1>1, <2>1, <3>2, <3>3 DEF TypeOK
    <2>4. SameExpiry' /\ \A a \in Admins : DraftOK(a)'
      BY <2>1 DEF KeysInv, SameExpiry, DraftOK
    <2>5. ASSUME NEW j \in Keys, j = k PROVE CacheOK(j)'
      <3>1. cache'[j] = e
        BY <1>1, <2>1, <2>2, <2>5 DEF TypeOK
      <3>2. now + ttl <= apiKey[r].readAt + MaxPause + ttl
        <4> DEFINE at == apiKey[r].readAt
                   g == age[r]
        <4>1. at \in Nat /\ g \in Nat /\ g <= MaxPause /\ now - at <= g
          BY ONLY <2>2, <2>10 DEF at, g
        <4> HIDE DEF at, g
        <4>2. now + ttl <= at + MaxPause + ttl
          BY ONLY <1>1, <4>1, APIKeysAssumption
        <4> QED
          BY <4>2 DEF at, g
      <3> QED
        <4>1. /\ ttl' > 0
              /\ cache'[j].version = apiKey[r].version /\ cache'[j].readAt = apiKey[r].readAt
              /\ cache'[j].expiresAt <= cache'[j].readAt + MaxPause + ttl'
          <5>1. e.version = apiKey[r].version /\ e.readAt = apiKey[r].readAt
                /\ e.expiresAt = now + ttl
            OBVIOUS
          <5> HIDE DEF e
          <5> QED
            BY ONLY <2>1, <2>2, <3>1, <3>2, <5>1
        <4>2. Copy(j, cache[j].version, cache[j].readAt)'
          BY <2>1, <2>2, <2>5, <4>1 DEF Copy
        <4> QED
          BY <4>1, <4>2 DEF CacheOK
    <2>6. \A j \in Keys \ {k} : CacheOK(j)'
      BY <1>1, <2>1 DEF KeysInv, CacheOK, Copy, TypeOK
    <2>7. RequestOK(r)'
      <3>1. pc'[r] = "validate"
        BY <1>1, <2>1 DEF TypeOK
      <3>2. now - apiKey[r].readAt <= ttl + MaxPause + age[r]
        <4> DEFINE at == apiKey[r].readAt
                   g == age[r]
        <4>1. at \in Nat /\ g \in Nat /\ now - at <= g
          BY ONLY <2>2, <2>10 DEF at, g
        <4> HIDE DEF at, g
        <4>2. now - at <= ttl + MaxPause + g
          BY ONLY <1>1, <4>1, APIKeysAssumption
        <4> QED
          BY <4>2 DEF at, g
      <3> QED
        BY Zenon, <2>1, <2>2, <3>1, <3>2 DEF RequestOK, CopyAge, Copy
    <2>8. ASSUME NEW s \in Requests \ {r} PROVE RequestOK(s)'
      <3>1. pc'[s] = pc[s]
        BY <1>1, <2>1 DEF TypeOK
      <3> QED
        BY <2>1, <3>1 DEF KeysInv, RequestOK, CopyAge, Copy
    <2>9. (\A j \in Keys : CacheOK(j)') /\ \A s \in Requests : RequestOK(s)'
      BY ONLY <2>5, <2>6, <2>7, <2>8
    <2> QED
      BY ONLY <2>3, <2>4, <2>9 DEF KeysInv
  <1> QED
    BY <1>3, <1>4, <1>5, <1>6

\* Time passes, or the goroutine of the cache removes expired entries.
LEMMA TimeSteps ==
    ASSUME KeysInv, Tick \/ cleanup PROVE KeysInv'
  <1>1. TypeOK /\ now \in Nat
    BY DEF KeysInv, TypeOK
  <1>2. CASE cleanup
    <2>1. /\ UNCHANGED <<ttl, now, rows, lastUsed, pc, raw, apiKey, age, draft>>
          /\ cache' = [k \in Keys |-> IF now > cache[k].expiresAt THEN NoEntry ELSE cache[k]]
      BY Zenon, <1>2 DEF cleanup, store, request
    <2>2. TypeOK'
      BY <1>1, <2>1 DEF TypeOK, NoEntry
    <2>3. \A k \in Keys : cache'[k] = NoEntry \/ cache'[k] = cache[k]
      BY <2>1
    <2>4. \A k \in Keys : CacheOK(k)'
      BY <2>1, <2>3 DEF KeysInv, CacheOK, Copy
    <2> QED
      BY Zenon, <2>1, <2>2, <2>4 DEF KeysInv, SameExpiry, RequestOK, CopyAge, Copy, DraftOK
  <1>3. CASE Tick
    <2>1. /\ now' = now + 1 /\ UNCHANGED <<ttl, rows, lastUsed, cache, pc, raw, apiKey, draft>>
          /\ \A r \in Requests : pc[r] \in InMiddleware => age[r] < MaxPause
          /\ age' = [r \in Requests |-> IF pc[r] \in InMiddleware THEN age[r] + 1 ELSE age[r]]
      BY <1>3 DEF Tick, store
    <2>2. TypeOK'
      <3>1. \A r \in Requests : age[r] \in 0..MaxPause
        BY <1>1 DEF TypeOK
      <3>2. \A r \in Requests : age'[r] \in 0..MaxPause
        BY <2>1, <3>1
      <3>3. age' \in [Requests -> 0..MaxPause]
        BY <2>1, <3>2
      <3> QED
        BY <1>1, <2>1, <3>3 DEF TypeOK
    <2>3. ASSUME NEW k, NEW v, NEW at \in Nat, Copy(k, v, at)
          PROVE  /\ v \in 1..Len(rows'[k]) /\ at <= now'
                 /\ v < Len(rows'[k]) => rows'[k][v + 1].from >= at
      BY <1>1, <2>1, <2>3 DEF Copy
    <2>4. ASSUME NEW k \in Keys PROVE CacheOK(k)'
      <3>1. cache[k].readAt \in Nat
        BY <1>1 DEF TypeOK
      <3> QED
        BY Zenon, <2>1, <2>3, <3>1 DEF KeysInv, CacheOK, Copy
    <2>5. ASSUME NEW r \in Requests PROVE RequestOK(r)'
      <3>1. apiKey[r].readAt \in Nat /\ age[r] \in Nat /\ ttl \in Nat
        BY <1>1 DEF TypeOK
      <3>2. CASE pc[r] \in {"set", "validate"}
        <4>1. age'[r] = age[r] + 1
          BY <2>1, <3>2 DEF InMiddleware
        <4>2. /\ Copy(raw[r], apiKey[r].version, apiKey[r].readAt)
              /\ now - apiKey[r].readAt <= CopyAge(r)
          BY <3>2 DEF KeysInv, RequestOK
        <4>3. CopyAge(r)' = CopyAge(r) + 1 /\ CopyAge(r) \in Nat
          BY <2>1, <3>1, <4>1 DEF CopyAge
        <4>4. now' - apiKey'[r].readAt <= CopyAge(r)'
          <5>1. apiKey'[r].readAt = apiKey[r].readAt
            BY <2>1
          <5> DEFINE at == apiKey[r].readAt
          <5>2. at \in Nat /\ now - at <= CopyAge(r)
            BY <3>1, <4>2
          <5> HIDE DEF at
          <5>3. now' - at <= CopyAge(r)'
            BY ONLY <1>1, <2>1, <4>3, <5>2
          <5> QED
            BY <5>1, <5>3 DEF at
        <4>5. Copy(raw[r], apiKey[r].version, apiKey[r].readAt)'
          BY Zenon, <2>1, <2>3, <3>1, <4>2 DEF Copy
        <4> QED
          BY <2>1, <4>4, <4>5 DEF KeysInv, RequestOK
      <3>3. CASE pc[r] \notin {"set", "validate"}
        BY <2>1, <3>3 DEF KeysInv, RequestOK
      <3> QED
        BY <3>2, <3>3
    <2> QED
      BY <2>1, <2>2, <2>4, <2>5 DEF KeysInv, SameExpiry, DraftOK
  <1> QED
    BY <1>2, <1>3

\* Every behaviour of the keys keeps KeysInv.
LEMMA KeysInvariant == Spec => []KeysInv
  <1>1. ASSUME KeysInv, [Next]_vars PROVE KeysInv'
    <2>1. CASE UNCHANGED vars
      <3>1. UNCHANGED <<ttl, now, rows, lastUsed, cache, pc, raw, apiKey, age, draft>>
        BY <2>1 DEF vars, store, request
      <3>2. TypeOK'
        BY <1>1, <3>1 DEF KeysInv, TypeOK
      <3>3. SameExpiry' /\ \A a \in Admins : DraftOK(a)'
        BY <1>1, <3>1 DEF KeysInv, SameExpiry, DraftOK
      <3>4. \A k \in Keys : CacheOK(k)'
        BY <1>1, <3>1 DEF KeysInv, CacheOK, Copy
      <3>5. \A r \in Requests : RequestOK(r)'
        BY <1>1, <3>1 DEF KeysInv, RequestOK, CopyAge, Copy
      <3> QED
        BY ONLY <3>2, <3>3, <3>4, <3>5 DEF KeysInv
    <2>2. CASE Next
      BY <1>1, <2>2, AdminSteps, RequestSteps, TimeSteps DEF Next
    <2> QED
      BY <1>1, <2>1, <2>2
  <1> QED
    BY <1>1, KeysInit, PTL DEF Spec

\* Type correctness of the keys, the cache and the requests.
THEOREM TypeCorrect == Spec => []TypeOK
  <1>1. KeysInv => TypeOK
    BY DEF KeysInv
  <1> QED
    BY <1>1, KeysInvariant, PTL

\* APIKeyMiddleware with any CacheTTL: a request is accepted with a copy of
\* the row that was superseded at most CacheTTL and two stays in the
\* middleware ago, for any number of keys, requests, administrators and
\* versions.
THEOREM RevocationIsBoundedHolds == Spec => RevocationIsBounded
  <1> DEFINE bound == \A r \in Requests : Accepts(r) =>
                         LET k == raw[r]
                             v == apiKey[r].version
                         IN  v < Len(rows[k]) => now - rows[k][v + 1].from <= Staleness
  <1>1. KeysInv /\ [Next]_vars => [bound]_vars
    <2> SUFFICES ASSUME KeysInv, NEW r \in Requests, pc[r] = "validate",
                        apiKey[r].version < Len(rows[raw[r]])
                 PROVE  now - rows[raw[r]][apiKey[r].version + 1].from <= Staleness
      BY DEF Accepts
    <2>1. /\ raw[r] \in Keys /\ Copy(raw[r], apiKey[r].version, apiKey[r].readAt)
          /\ now - apiKey[r].readAt <= CopyAge(r)
      BY DEF KeysInv, RequestOK
    <2>2. /\ now \in Nat /\ ttl \in Nat /\ age[r] \in 0..MaxPause /\ apiKey[r].readAt \in Nat
          /\ apiKey[r].version \in Nat /\ rows[raw[r]] \in Seq(Row)
      BY <2>1 DEF KeysInv, TypeOK
    <2>3. CopyAge(r) \in Int /\ Staleness \in Int /\ CopyAge(r) <= Staleness
      BY <2>2 DEF CopyAge, Staleness
    <2>4. rows[raw[r]][apiKey[r].version + 1] \in Row
      BY <2>2
    <2>5. rows[raw[r]][apiKey[r].version + 1].from \in Nat
      BY Zenon, <2>4 DEF Row
    <2>6. rows[raw[r]][apiKey[r].version + 1].from >= apiKey[r].readAt
      BY <2>1 DEF Copy
    <2> DEFINE from == rows[raw[r]][apiKey[r].version + 1].from
               at == apiKey[r].readAt
    <2>7. from \in Nat /\ from >= at /\ at \in Nat /\ now - at <= CopyAge(r)
      BY <2>1, <2>2, <2>5, <2>6
    <2> HIDE DEF from, at
    <2>8. now - from <= Staleness
      BY ONLY <2>2, <2>3, <2>7
    <2> QED
      BY <2>8 DEF from
  <1> QED
    BY <1>1, KeysInvariant, PTL DEF Spec, RevocationIsBounded

\* ValidateAPIKey runs on cached copies too, and Update and Delete leave the
\* expiry of a key alone: an expired key is refused whatever the cache holds.
THEOREM ExpiredIsRefusedHolds == Spec => ExpiredIsRefused
  <1> DEFINE refused == \A r \in Requests : Accepts(r) =>
                  LET row == Current(raw[r]) IN row.expiresAt = 0 \/ now <= row.expiresAt
  <1>1. KeysInv /\ [Next]_vars => [refused]_vars
    <2> SUFFICES ASSUME KeysInv, Next, NEW r \in Requests, Accepts(r)
                 PROVE  Current(raw[r]).expiresAt = 0 \/ now <= Current(raw[r]).expiresAt
      OBVIOUS
    <2>1. /\ pc[r] = "validate" /\ pc'[r] = "accepted"
          /\ pc \in [Requests -> InMiddleware \cup {"idle", "accepted", "handler"}]
      BY DEF Accepts, KeysInv, TypeOK
    \* Of all steps only Validate(r) takes r from "validate" to "accepted".
    <2>2. Validate(r)
      <3>1. CASE Tick \/ cleanup
        BY <2>1, <3>1 DEF Tick, cleanup, request
      <3>2. CASE \E k \in Keys :
                   \/ Delete(k)
                   \/ \E s \in ScopeSets, d \in Lifetimes : Create(k, GenerateAPIKey(s, d))
                   \/ \E a \in Admins : GetByID(a, k)
        BY Zenon, <2>1, <3>2 DEF Delete, Create, GetByID, request
      <3>3. CASE \E a \in Admins, s \in ScopeSets : Update(a, s)
        BY <2>1, <3>3 DEF Update, request
      <3>4. ASSUME NEW s \in Requests, NEW h \in Keys \cup {NoKey}, NEW q \in Keys \cup {NoKey},
                   Arrive(s, h, q)
            PROVE  FALSE
        <4>1. PICK p \in {"idle", "validate", "lookup"} : pc' = [pc EXCEPT ![s] = p]
          BY Zenon, <3>4 DEF Arrive
        <4> QED
          BY <2>1, <4>1
      <3>5. ASSUME NEW s \in Requests, GetByHash(s) \/ CacheSet(s) PROVE FALSE
        <4>1. PICK p \in {"idle", "set", "validate"} : pc' = [pc EXCEPT ![s] = p]
          BY <3>5 DEF GetByHash, CacheSet, Ends
        <4> QED
          BY <2>1, <4>1
      <3>6. ASSUME NEW s \in Requests, RequireScope(s) \/ HandlerEnds(s) PROVE FALSE
        <4>1. PICK p \in {"idle", "handler"} : pc' = [pc EXCEPT ![s] = p]
          BY <3>6 DEF RequireScope, HandlerEnds, Ends
        <4> QED
          BY <2>1, <4>1
      <3>7. ASSUME NEW s \in Requests, Validate(s) PROVE s = r
        <4>1. PICK p \in {"idle", "accepted"} : pc' = [pc EXCEPT ![s] = p]
          BY <3>7 DEF Validate, Ends
        <4> QED
          BY <2>1, <4>1
      <3>8. ASSUME NEW s \in Requests,
                   \/ \E h, q \in Keys \cup {NoKey} : Arrive(s, h, q)
                   \/ GetByHash(s) \/ CacheSet(s) \/ Validate(s) \/ RequireScope(s)
                   \/ HandlerEnds(s)
            PROVE  Validate(r)
        BY <3>4, <3>5, <3>6, <3>7, <3>8
      <3>9. CASE \E s \in Requests :
                   \/ \E h, q \in Keys \cup {NoKey} : Arrive(s, h, q)
                   \/ GetByHash(s) \/ CacheSet(s) \/ Validate(s) \/ RequireScope(s)
                   \/ HandlerEnds(s)
        BY <3>8, <3>9
      <3> QED
        BY ONLY Next, <3>1, <3>2, <3>3, <3>9 DEF Next
    <2>3. Valid(rows[raw[r]][apiKey[r].version])
      BY <2>1, <2>2 DEF Validate, Ends
    <2>4. raw[r] \in Keys /\ apiKey[r].version \in 1..Len(rows[raw[r]])
      BY <2>1 DEF KeysInv, RequestOK, Copy
    <2>5. Len(rows[raw[r]]) \in 1..Len(rows[raw[r]])
      <3>1. rows[raw[r]] \in Seq(Row)
        BY <2>4 DEF KeysInv, TypeOK
      <3> QED
        BY <2>4, <3>1
    <2>6. Current(raw[r]).expiresAt = rows[raw[r]][apiKey[r].version].expiresAt
      BY <2>4, <2>5 DEF KeysInv, SameExpiry, Current
    <2> QED
      BY <2>3, <2>6 DEF Valid
  <1> QED
    BY <1>1, KeysInvariant, PTL DEF Spec, ExpiredIsRefused

=============================================================================
