------------------------------ MODULE APIKeys -------------------------------
(***************************************************************************)
(* API keys (src/auth/apikey.go, apikey_store.go, apikey_middleware.go):   *)
(* administrators create, read, update and delete rows of api_keys while   *)
(* requests that carry a key pass APIKeyMiddleware, which keeps copies of  *)
(* rows in a cache, and then RequireScope.                                 *)
(*                                                                         *)
(* A raw key and its hash are one value: nobody but the holder of the raw  *)
(* key produces the hash, and two keys never share one.  A scope is the    *)
(* sequence of its parts: "inventory:*" is <<"inventory", "*">>.  A row is *)
(* kept with its history, so a copy of it is the number of a version.      *)
(***************************************************************************)
EXTENDS Integers, Sequences

CONSTANTS
    Keys, NoKey,    \* raw keys; no key in the header or the query
    Requests, Admins,
    ScopeSets,      \* the scopes an administrator may give a key
    AllowQueryParam, \* APIKeyMiddlewareConfig.AllowQueryParam
    RequiredScopes, \* APIKeyMiddlewareConfig.RequiredScopes
    RouteScopes,    \* the arguments of RequireScope
    TTLs,           \* values of CacheTTL; 0: no cache
    Lifetimes,      \* values of expiresIn; 0: the key does not expire
    MaxTime,        \* bound: ticks
    MaxPause,       \* bound: ticks a request spends in the middleware
    MaxVersions     \* bound: versions of one row

ASSUME APIKeysAssumption ==
    /\ NoKey \notin Keys /\ AllowQueryParam \in BOOLEAN
    /\ TTLs \subseteq Nat /\ Lifetimes \subseteq Nat
    /\ MaxTime \in Nat /\ MaxPause \in Nat /\ MaxVersions \in Nat

VARIABLES
    ttl,      \* CacheTTL
    now,
    rows,     \* api_keys, per key: the versions of its row; the last is stored
    lastUsed, \* the keys whose column last_used_at is set
    cache,    \* per key: the version cached, when it was read, its expiresAt
    pc,       \* per request: its step
    raw,      \* per request: the key it presents
    apiKey,   \* per request: the version it holds, and when that was read
    age,      \* per request: ticks spent in the middleware
    draft     \* per administrator: the key and the version being edited

store == <<rows, lastUsed>>
request == <<pc, raw, apiKey, age>>
vars == <<ttl, now, store, cache, request, draft>>

None == [version |-> 0, readAt |-> 0]
NoEntry == [version |-> 0, readAt |-> 0, expiresAt |-> 0]

Init ==
    /\ ttl \in TTLs
    /\ now = 1
    /\ rows = [k \in Keys |-> <<>>]
    /\ lastUsed = {}
    /\ cache = [k \in Keys |-> NoEntry]
    /\ pc = [r \in Requests |-> "idle"]
    /\ raw = [r \in Requests |-> NoKey]
    /\ apiKey = [r \in Requests |-> None]
    /\ age = [r \in Requests |-> 0]
    /\ draft = [a \in Admins |-> [key |-> NoKey, version |-> 0]]

Current(k) == rows[k][Len(rows[k])]

-----------------------------------------------------------------------------
(* Scopes.                                                                  *)

\* splitScopes(joinScopes(s)): empty scopes are lost.
Stored(scopes) == scopes \ {<<>>}

HasScope(scopes, required) ==
    \E s \in scopes :
        \/ s = required \/ s = <<"*">>
        \/ /\ Len(s) > 1 /\ s[Len(s)] = "*" /\ Len(required) >= Len(s)
           /\ SubSeq(required, 1, Len(s) - 1) = SubSeq(s, 1, Len(s) - 1)

HasAnyScope(scopes, required) == \E s \in required : HasScope(scopes, s)

-----------------------------------------------------------------------------
(* PostgresAPIKeyStore.                                                     *)

\* The next version of a row; the check on MaxVersions is the bound.
Write(k, row) ==
    /\ Len(rows[k]) < MaxVersions
    /\ rows' = [rows EXCEPT ![k] = Append(@, [row EXCEPT !.from = now])]

GenerateAPIKey(scopes, expiresIn) ==
    [active |-> TRUE, scopes |-> scopes, from |-> 0,
     expiresAt |-> IF expiresIn > 0 THEN now + expiresIn ELSE 0]

Create(k, key) ==
    /\ rows[k] = <<>>
    /\ Write(k, [key EXCEPT !.scopes = Stored(key.scopes)])
    /\ UNCHANGED <<ttl, now, lastUsed, cache, request, draft>>

GetByID(a, k) ==
    /\ rows[k] # <<>>
    /\ draft' = [draft EXCEPT ![a] = [key |-> k, version |-> Len(rows[k])]]
    /\ UNCHANGED <<ttl, now, store, cache, request>>

\* An administrator who changes the scopes of the key GetByID returned: every
\* other column Update writes, is_active among them, is that of the copy.
Update(a, scopes) ==
    LET k == draft[a].key IN
    /\ k # NoKey
    /\ Write(k, [Current(k) EXCEPT !.scopes = Stored(scopes),
                                   !.active = rows[k][draft[a].version].active])
    /\ draft' = [draft EXCEPT ![a].key = NoKey]
    /\ UNCHANGED <<ttl, now, lastUsed, cache, request>>

Delete(k) ==
    /\ rows[k] # <<>>
    /\ Write(k, [Current(k) EXCEPT !.active = FALSE])
    /\ UNCHANGED <<ttl, now, lastUsed, cache, request, draft>>

\* Run by the middleware in a goroutine whose outcome nobody waits for: the
\* update is lost when the database fails, or when the handler returns first
\* and cancels the context of the request.
UpdateLastUsed(k) == lastUsed' \in {lastUsed, lastUsed \cup {k}}

-----------------------------------------------------------------------------
(* APIKeyMiddleware.                                                        *)

InMiddleware == {"lookup", "set", "validate"}

\* APIKeyCache.Get finds an entry.
Get_StaleEntry(k) == cache[k] # NoEntry
Get(k) == cache[k] # NoEntry /\ now <= cache[k].expiresAt

\* The key from the header or, where allowed, from the query; 401 without
\* one; then the cache.
Arrive(r, header, query) ==
    LET k == IF header = NoKey /\ AllowQueryParam THEN query ELSE header
        hit == k # NoKey /\ ttl > 0 /\ Get(k)
    IN  /\ pc[r] = "idle"
        /\ raw' = [raw EXCEPT ![r] = k]
        /\ age' = [age EXCEPT ![r] = 0]
        /\ apiKey' = [apiKey EXCEPT ![r] =
               IF hit THEN [version |-> cache[k].version, readAt |-> cache[k].readAt]
               ELSE None]
        /\ pc' = [pc EXCEPT ![r] = IF k = NoKey THEN "idle"
                                   ELSE IF hit THEN "validate" ELSE "lookup"]
        /\ UNCHANGED <<ttl, now, store, cache, draft>>

\* The request is over: 401, 403 or the handler's own answer.
Ends(r) ==
    /\ pc' = [pc EXCEPT ![r] = "idle"]
    /\ raw' = [raw EXCEPT ![r] = NoKey]
    /\ apiKey' = [apiKey EXCEPT ![r] = None]
    /\ age' = [age EXCEPT ![r] = 0]

\* No active row, or an error of the database, ends the request.
GetByHash(r) ==
    LET k == raw[r] IN
    /\ pc[r] = "lookup"
    /\ \/ Ends(r)
       \/ /\ rows[k] # <<>> /\ Current(k).active
          /\ apiKey' = [apiKey EXCEPT ![r] = [version |-> Len(rows[k]), readAt |-> now]]
          /\ pc' = [pc EXCEPT ![r] = IF ttl > 0 THEN "set" ELSE "validate"]
          /\ UNCHANGED <<raw, age>>
    /\ UNCHANGED <<ttl, now, store, cache, draft>>

CacheSet(r) ==
    /\ pc[r] = "set"
    /\ cache' = [cache EXCEPT ![raw[r]] =
           [version |-> apiKey[r].version, readAt |-> apiKey[r].readAt,
            expiresAt |-> now + ttl]]
    /\ pc' = [pc EXCEPT ![r] = "validate"]
    /\ UNCHANGED <<ttl, now, store, raw, apiKey, age, draft>>

\* ValidateAPIKey and the check of RequiredScopes.
Valid_CachedIsValid(key) ==
    /\ key.active
    /\ RequiredScopes = {} \/ HasAnyScope(key.scopes, RequiredScopes)
Valid(key) ==
    /\ key.active
    /\ key.expiresAt = 0 \/ now <= key.expiresAt
    /\ RequiredScopes = {} \/ HasAnyScope(key.scopes, RequiredScopes)

Validate(r) ==
    /\ pc[r] = "validate"
    /\ IF Valid(rows[raw[r]][apiKey[r].version])
       THEN /\ pc' = [pc EXCEPT ![r] = "accepted"]
            /\ UpdateLastUsed(raw[r]) /\ UNCHANGED <<raw, apiKey, age>>
       ELSE Ends(r) /\ UNCHANGED lastUsed
    /\ UNCHANGED <<ttl, now, rows, cache, draft>>

\* RequireScope reads the key from the request's context: the same copy.
RequireScope(r) ==
    /\ pc[r] = "accepted"
    /\ IF HasAnyScope(rows[raw[r]][apiKey[r].version].scopes, RouteScopes)
       THEN pc' = [pc EXCEPT ![r] = "handler"] /\ UNCHANGED <<raw, apiKey, age>>
       ELSE Ends(r)
    /\ UNCHANGED <<ttl, now, store, cache, draft>>

HandlerEnds(r) ==
    /\ pc[r] = "handler" /\ Ends(r)
    /\ UNCHANGED <<ttl, now, store, cache, draft>>

\* The goroutine of the cache.
cleanup ==
    /\ cache' = [k \in Keys |-> IF now > cache[k].expiresAt THEN NoEntry ELSE cache[k]]
    /\ UNCHANGED <<ttl, now, store, request, draft>>

Tick ==
    /\ now < MaxTime /\ now' = now + 1
    /\ \A r \in Requests : pc[r] \in InMiddleware => age[r] < MaxPause
    /\ age' = [r \in Requests |-> IF pc[r] \in InMiddleware THEN age[r] + 1 ELSE age[r]]
    /\ UNCHANGED <<ttl, store, cache, pc, raw, apiKey, draft>>

Next ==
    \/ Tick \/ cleanup
    \/ \E k \in Keys : \/ Delete(k)
                       \/ \E s \in ScopeSets, d \in Lifetimes :
                              Create(k, GenerateAPIKey(s, d))
                       \/ \E a \in Admins : GetByID(a, k)
    \/ \E a \in Admins, s \in ScopeSets : Update(a, s)
    \/ \E r \in Requests :
          \/ \E h, q \in Keys \cup {NoKey} : Arrive(r, h, q)
          \/ GetByHash(r) \/ CacheSet(r) \/ Validate(r) \/ RequireScope(r)
          \/ HandlerEnds(r)

Spec == Init /\ [][Next]_vars

-----------------------------------------------------------------------------
(* Properties.                                                              *)

Row == [active : BOOLEAN, scopes : SUBSET UNION ScopeSets, expiresAt : Nat, from : Nat]

TypeOK ==
    /\ ttl \in TTLs
    /\ now \in Nat
    /\ rows \in [Keys -> Seq(Row)]
    /\ lastUsed \subseteq Keys
    /\ cache \in [Keys -> [version : Nat, readAt : Nat, expiresAt : Nat]]
    /\ pc \in [Requests -> InMiddleware \cup {"idle", "accepted", "handler"}]
    /\ raw \in [Requests -> Keys \cup {NoKey}]
    /\ apiKey \in [Requests -> [version : Nat, readAt : Nat]]
    /\ age \in [Requests -> 0..MaxPause]
    /\ draft \in [Admins -> [key : Keys \cup {NoKey}, version : Nat]]

\* How long a change of a row may go unnoticed.
Staleness == IF ttl = 0 THEN MaxPause ELSE ttl + 2 * MaxPause

\* The middleware accepts a request.
Accepts(r) == pc[r] = "validate" /\ pc'[r] = "accepted"

\* A key that was deleted, or lost a scope, stops working: a request is
\* accepted with a copy of the row that was superseded no more than CacheTTL
\* and two stays in the middleware ago - that of the request that cached the
\* copy and its own.  cache.Set runs after the row was read, so a slow request
\* may put an older copy over a newer one; nothing ever removes an entry
\* early, since APIKeyCache.Delete has no caller.
RevocationIsBounded ==
    [][\A r \in Requests : Accepts(r) =>
          LET k == raw[r]
              v == apiKey[r].version
          IN  v < Len(rows[k]) => now - rows[k][v + 1].from <= Staleness]_vars

\* A key is never accepted after its expiry, whatever the cache holds.
ExpiredIsRefused ==
    [][\A r \in Requests : Accepts(r) =>
          LET row == Current(raw[r]) IN row.expiresAt = 0 \/ now <= row.expiresAt]_vars

\* "Delete removes an API key": once deactivated, a key is not active again.
DeleteSticks ==
    [][\A k \in Keys : rows[k] # <<>> /\ ~Current(k).active => ~Current(k)'.active]_vars

=============================================================================
