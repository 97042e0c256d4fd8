--------------------------- MODULE ServiceProofs ----------------------------
(***************************************************************************)
(* Proofs about Service for every set of users, requests, services and     *)
(* dependencies, every lifetime of tokens and every length of an error.    *)
(***************************************************************************)
EXTENDS Service, FiniteSetTheorems, TLAPS

-----------------------------------------------------------------------------
(* The users' routes.                                                       *)

\* A token that opens an admin route dies within AccessTTL of the last moment
\* its user was admin.
AdminTokens == {t \in minted : t.signed /\ t.type = "access" /\ t.role \in Admins}
AdminTokensDie ==
    \A t \in AdminTokens :
        t.exp <= AccessTTL + (IF role[t.user] \in Admins THEN now ELSE adminUntil[t.user])

\* A request behind the authentication holds an access token of the minted
\* ones that was valid when it was checked.
Validated(r) ==
    /\ token[r] \in minted /\ token[r].signed /\ token[r].type = "access"
    /\ checkedAt[r] < token[r].exp /\ checkedAt[r] <= now

RequestsInv ==
    /\ TypeOK
    /\ \A u \in Users : adminUntil[u] <= now
    /\ AdminTokensDie
    /\ \A r \in Slots :
        /\ pc[r] # "idle" => token[r] \in minted \cup {NoToken}
        /\ pc[r] \in {"role", "handler"} => Validated(r)
        /\ pc[r] = "handler" /\ check # "none" => token[r].role \in Admins

USE TTLAssumption

\* The tokens the manager signs, by GenerateTokenPair and GenerateTempToken,
\* are tokens of the claimed user, and only the access token of an admin is
\* an admin token.
LEMMA SignedTokens ==
    ASSUME NEW u \in Users, NEW ro \in Roles, NEW n \in Nat
    PROVE  /\ GenerateTokenPair(u, ro, n) \subseteq Tokens
           /\ GenerateTempToken(u, "2fa_pending", n) \in Tokens
           /\ \A t \in GenerateTokenPair(u, ro, n) \cup {GenerateTempToken(u, "2fa_pending", n)} :
                 t.type = "access" => t.user = u /\ t.role = ro /\ t.exp = n + AccessTTL
  BY DEF GenerateTokenPair, GenerateTempToken, generateToken, Tokens

\* Initially no admin token is in circulation.
LEMMA RequestsInit == Init => RequestsInv
  <1> SUFFICES ASSUME Init PROVE RequestsInv
    OBVIOUS
  <1>1. \A u \in Users : Legacy(u) \in Tokens /\ Foreign(u) \in Tokens
    BY Zenon DEF Legacy, Foreign, generateToken, Tokens, Roles, Admins
  <1>2. minted \subseteq Tokens
    BY <1>1 DEF Init
  <1>3. TypeOK
    BY <1>2 DEF Init, TypeOK
  <1>4. AdminTokens = {}
    <2>1. \A u \in Users : Legacy(u).type = "" /\ Foreign(u).signed = FALSE
      BY DEF Legacy, Foreign, generateToken
    <2>2. \A t \in minted : \E u \in Users : t = Legacy(u) \/ t = Foreign(u)
      BY DEF Init
    <2> QED
      BY Zenon, <2>1, <2>2 DEF AdminTokens
  <1> QED
    BY <1>3, <1>4 DEF RequestsInv, Init, AdminTokensDie, Validated, TypeOK

\* Steps of a request leave the users and their tokens alone.
LEMMA ServingKeepsTokens ==
    ASSUME AdminTokensDie, UNCHANGED users PROVE AdminTokensDie'
  BY DEF AdminTokensDie, AdminTokens, users

\* Every step of a user or a request keeps RequestsInv.
LEMMA RequestsNext ==
    ASSUME RequestsInv, [Next]_vars PROVE RequestsInv'
  <1> USE DEF RequestsInv
  <1>1. CASE Tick
    <2>1. now' = now + 1 /\ now' \in Nat
      BY <1>1 DEF Tick, TypeOK
    <2>2. UNCHANGED <<role, adminUntil, minted, check, pc, token, checkedAt>>
      BY <1>1 DEF Tick, serving
    <2>3. TypeOK'
      BY <2>1, <2>2 DEF TypeOK
    <2>4. \A u \in Users : adminUntil'[u] <= now'
      BY <2>1, <2>2 DEF TypeOK
    <2>5. AdminTokensDie'
      <3> SUFFICES ASSUME NEW t \in AdminTokens'
                   PROVE  t.exp <= AccessTTL + (IF role[t.user] \in Admins THEN now'
                                                ELSE adminUntil[t.user])
        BY <2>2 DEF AdminTokensDie
      <3>1. t \in AdminTokens /\ t \in Tokens
        BY <2>2 DEF AdminTokens, TypeOK
      <3>2. t.exp \in Nat /\ t.user \in Users
        BY Zenon, <3>1 DEF Tokens
      <3>3. t.exp <= AccessTTL + (IF role[t.user] \in Admins THEN now ELSE adminUntil[t.user])
        BY <3>1 DEF AdminTokensDie
      <3> QED
        BY <2>1, <3>2, <3>3 DEF TypeOK
    <2>6. \A r \in Slots : Validated(r) => Validated(r)'
      BY <2>1, <2>2 DEF Validated, TypeOK
    <2> QED
      BY <2>2, <2>3, <2>4, <2>5, <2>6
  <1>2. ASSUME NEW u \in Users, NEW new \in Roles, SetRole(u, new)
        PROVE  RequestsInv'
    <2>1. /\ role' = [role EXCEPT ![u] = new]
          /\ adminUntil' = IF role[u] \in Admins THEN [adminUntil EXCEPT ![u] = now]
                           ELSE adminUntil
          /\ UNCHANGED <<now, minted, check, pc, token, checkedAt>>
      BY <1>2 DEF SetRole, serving
    <2>2. TypeOK'
      BY <2>1 DEF TypeOK
    <2>3. \A v \in Users : adminUntil'[v] <= now'
      BY <2>1 DEF TypeOK
    <2>4. AdminTokensDie'
      <3> SUFFICES ASSUME NEW t \in AdminTokens'
                   PROVE  t.exp <= AccessTTL + (IF role'[t.user] \in Admins THEN now
                                                ELSE adminUntil'[t.user])
        BY <2>1 DEF AdminTokensDie
      <3>1. t \in AdminTokens /\ t \in Tokens
        BY <2>1 DEF AdminTokens, TypeOK
      <3>2. t.exp \in Nat /\ t.user \in Users
        BY Zenon, <3>1 DEF Tokens
      <3>3. t.exp <= AccessTTL + (IF role[t.user] \in Admins THEN now ELSE adminUntil[t.user])
        BY <3>1 DEF AdminTokensDie
      <3>4. CASE t.user = u
        BY <2>1, <3>2, <3>3, <3>4 DEF TypeOK
      <3>5. CASE t.user # u
        BY <2>1, <3>2, <3>3, <3>5 DEF TypeOK
      <3> QED
        BY <3>4, <3>5
    <2>5. \A r \in Slots : Validated(r) => Validated(r)'
      BY <2>1 DEF Validated
    <2> QED
      BY <2>1, <2>2, <2>3, <2>4, <2>5
  <1>3. ASSUME NEW u \in Users, Login(u)
        PROVE  RequestsInv'
    <2> DEFINE signed == GenerateTokenPair(u, role[u], now)
                           \cup {GenerateTempToken(u, "2fa_pending", now)}
    <2>1. /\ minted \subseteq minted' /\ minted' \subseteq minted \cup signed
          /\ UNCHANGED <<now, role, adminUntil, check, pc, token, checkedAt>>
      BY <1>3 DEF Login, serving
    <2>2. /\ signed \subseteq Tokens
          /\ \A t \in signed : t.type = "access" =>
                t.user = u /\ t.role = role[u] /\ t.exp = now + AccessTTL
      BY SignedTokens DEF TypeOK
    <2> HIDE DEF signed
    <2>3. TypeOK'
      BY <2>1, <2>2 DEF TypeOK
    <2>4. AdminTokensDie'
      <3> SUFFICES ASSUME NEW t \in AdminTokens'
                   PROVE  t.exp <= AccessTTL + (IF role[t.user] \in Admins THEN now
                                                ELSE adminUntil[t.user])
        BY <2>1 DEF AdminTokensDie
      <3>1. CASE t \in minted
        BY <3>1 DEF AdminTokensDie, AdminTokens
      <3>2. CASE t \in signed
        BY <2>2, <3>2 DEF AdminTokens, TypeOK
      <3> QED
        BY <2>1, <3>1, <3>2 DEF AdminTokens
    <2>5. \A r \in Slots : Validated(r) => Validated(r)'
      BY <2>1 DEF Validated
    <2> QED
      BY <2>1, <2>3, <2>4, <2>5
  <1>4. ASSUME NEW r \in Slots, Arrive(r)
        PROVE  RequestsInv'
    <2>1. PICK presented \in minted \cup {NoToken} : token' = [token EXCEPT ![r] = presented]
      <3>1. \A cookie, bearer \in minted \cup {NoToken} :
                Presented(cookie, bearer) \in minted \cup {NoToken}
        BY DEF Presented
      <3>2. \E cookie, bearer \in minted \cup {NoToken} :
                token' = [token EXCEPT ![r] = Presented(cookie, bearer)]
        BY Zenon, <1>4 DEF Arrive
      <3> QED
        BY Zenon, <3>1, <3>2
    <2>2. pc' = [pc EXCEPT ![r] = "auth"] /\ UNCHANGED <<users, check, checkedAt>>
      BY <1>4 DEF Arrive
    <2>3. TypeOK'
      BY <2>1, <2>2 DEF TypeOK, users
    <2>4. AdminTokensDie'
      BY <2>2, ServingKeepsTokens
    <2>5. \A s \in Slots : s # r /\ Validated(s) => Validated(s)'
      BY <2>1, <2>2 DEF Validated, users, TypeOK
    <2> QED
      BY <2>1, <2>2, <2>3, <2>4, <2>5 DEF users, TypeOK
  <1>5. ASSUME NEW r \in Slots, Ends(r)
        PROVE  RequestsInv'
    <2>1. /\ pc' = [pc EXCEPT ![r] = "idle"]
          /\ token' = [token EXCEPT ![r] = NoToken]
          /\ checkedAt' = [checkedAt EXCEPT ![r] = 0]
          /\ UNCHANGED <<users, check>>
      BY <1>5 DEF Ends, Goes
    <2>2. TypeOK'
      BY <2>1 DEF TypeOK, users
    <2>3. AdminTokensDie'
      BY <2>1, ServingKeepsTokens
    <2>4. \A s \in Slots : s # r /\ Validated(s) => Validated(s)'
      BY <2>1 DEF Validated, users, TypeOK
    <2> QED
      BY <2>1, <2>2, <2>3, <2>4 DEF users, TypeOK
  <1>6. ASSUME NEW r \in Slots, AuthMiddleware(r)
        PROVE  RequestsInv'
    <2>1. CASE ~Ends(r)
      <3>1. /\ pc[r] = "auth" /\ ValidateToken(token[r], now)
            /\ checkedAt' = [checkedAt EXCEPT ![r] = now]
            /\ \/ check = "none" /\ pc' = [pc EXCEPT ![r] = "handler"]
               \/ check \in {"role", "admin"} /\ pc' = [pc EXCEPT ![r] = "role"]
               \/ /\ RequireAdminWithJWT(token[r], NoToken)
                  /\ pc' = [pc EXCEPT ![r] = "handler"]
            /\ UNCHANGED <<users, check, token>>
        BY <1>6, <2>1 DEF AuthMiddleware, Goes
      <3>2. token[r].signed /\ token[r].type = "access" /\ now < token[r].exp
        BY <3>1 DEF ValidateToken, ValidateTokenOfType, parseToken
      <3>3. token[r] \in minted
        <4>1. NoToken.type # "access"
          BY Zenon DEF NoToken
        <4>2. token[r] # NoToken
          BY <3>2, <4>1
        <4> QED
          BY <3>1, <4>2
      <3>4. TypeOK'
        BY <3>1 DEF TypeOK, users
      <3>5. AdminTokensDie'
        BY <3>1, ServingKeepsTokens
      <3>6. Validated(r)'
        BY <3>1, <3>2, <3>3 DEF Validated, users, TypeOK
      <3>7. \A s \in Slots : s # r /\ Validated(s) => Validated(s)'
        BY <3>1 DEF Validated, users, TypeOK
      <3>8. RequireAdminWithJWT(token[r], NoToken) => token[r].role \in Admins
        BY DEF RequireAdminWithJWT, Presented
      <3>9. pc'[r] = "handler" /\ check' # "none" => token'[r].role \in Admins
        BY <3>1, <3>8 DEF TypeOK
      <3>10. \A s \in Slots : s # r => pc'[s] = pc[s] /\ token'[s] = token[s]
        BY <3>1 DEF TypeOK
      <3> QED
        BY <3>1, <3>3, <3>4, <3>5, <3>6, <3>7, <3>9, <3>10 DEF users
    <2> QED
      BY <1>5, <2>1
  <1>7. ASSUME NEW r \in Slots, RoleMiddleware(r)
        PROVE  RequestsInv'
    <2>1. CASE ~Ends(r)
      <3>1. /\ pc[r] = "role" /\ pc' = [pc EXCEPT ![r] = "handler"]
            /\ IF check = "role" THEN RoleAllowed(token[r], Admins)
               ELSE RequireAdmin(token[r])
            /\ UNCHANGED <<users, check, token, checkedAt>>
        BY <1>7, <2>1 DEF RoleMiddleware, Goes
      <3>2. token[r].role \in Admins
        BY Zenon, <3>1 DEF RoleAllowed, RequireAdmin
      <3>3. TypeOK'
        BY <3>1 DEF TypeOK, users
      <3>4. AdminTokensDie'
        BY <3>1, ServingKeepsTokens
      <3>5. \A s \in Slots : Validated(s) => Validated(s)'
        BY <3>1 DEF Validated, users
      <3>6. \A s \in Slots : s # r => pc'[s] = pc[s]
        BY <3>1 DEF TypeOK
      <3> QED
        BY <3>1, <3>2, <3>3, <3>4, <3>5, <3>6 DEF users
    <2> QED
      BY <1>5, <2>1
  <1>8. CASE UNCHANGED vars
    <2>1. \A r \in Slots : Validated(r) => Validated(r)'
      BY <1>8 DEF vars, users, serving, Validated
    <2> QED
      BY <1>8, <2>1 DEF vars, users, serving, TypeOK, AdminTokensDie, AdminTokens
  <1> QED
    BY <1>1, <1>2, <1>3, <1>4, <1>5, <1>6, <1>7, <1>8 DEF Next, HandlerEnds

\* What AuthorityIsBounded says of a handler follows from its token.
LEMMA AuthorityFollows == RequestsInv => AuthorityIsBounded
  <1> SUFFICES ASSUME RequestsInv, NEW r \in Slots, pc[r] = "handler", check # "none",
                      role[token[r].user] \notin Admins
               PROVE  checkedAt[r] - adminUntil[token[r].user] < AccessTTL
    BY DEF AuthorityIsBounded
  <1>1. Validated(r) /\ token[r] \in AdminTokens /\ token[r] \in Tokens
    BY DEF RequestsInv, Validated, AdminTokens, TypeOK
  <1>2. token[r].exp <= AccessTTL + adminUntil[token[r].user]
    BY <1>1 DEF RequestsInv, AdminTokensDie
  <1>3. token[r].exp \in Nat /\ token[r].user \in Users
    BY Zenon, <1>1 DEF Tokens
  <1> QED
    BY <1>1, <1>2, <1>3 DEF Validated, RequestsInv, TypeOK

\* Every behaviour of the service keeps RequestsInv.
LEMMA RequestsInvariant == ServiceSpec => []RequestsInv
  <1>1. ServiceInit => RequestsInv
    BY RequestsInit DEF ServiceInit
  <1>2. ASSUME RequestsInv, [ServiceNext]_serviceVars PROVE RequestsInv'
    <2>1. [Next]_vars
      BY <1>2 DEF ServiceNext, serviceVars, UserStep, InternalStep, ErrorStep, ProbeStep
    <2> QED
      BY <1>2, <2>1, RequestsNext
  <1> QED
    BY <1>1, <1>2, PTL DEF ServiceSpec

\* Type correctness of the users' routes.
THEOREM TypeCorrect == ServiceSpec => []TypeOK
  <1>1. RequestsInv => TypeOK
    BY DEF RequestsInv
  <1> QED
    BY <1>1, RequestsInvariant, PTL

\* AuthMiddleware, RoleMiddleware and RequireAdmin: an admin handler runs
\* only for users who were admin less than AccessTTL before their token was
\* checked, for any number of users, requests and tokens and any lifetimes.
THEOREM AuthorityIsBoundedHolds == ServiceSpec => []AuthorityIsBounded
  BY RequestsInvariant, AuthorityFollows, PTL

-----------------------------------------------------------------------------
(* The /internal/* routes.                                                  *)

\* What a service holds is what its boot resolved; the environments are
\* values of the variable.
InternalInv ==
    /\ env \in [Services -> Internal!Values]
    /\ booted \in [Services -> Internal!Values]
    /\ held \in [Services -> Internal!Values \cup {Internal!Down}]
    /\ \A s \in Services :
        \/ held[s] = Internal!Down
        \/ held[s] = IF wired[s] THEN Internal!ResolveInternalToken(appEnv[s], booted[s])
                     ELSE Internal!NoValue

\* What ResolveInternalToken returns is a value without white space around
\* it, or a refusal; outside development it is a generated one or a refusal.
LEMMA Resolved ==
    ASSUME NEW app, NEW value \in Internal!Values
    PROVE  LET got == Internal!ResolveInternalToken(app, value)
           IN /\ got \in Internal!Values \cup {Internal!Down}
              /\ got # Internal!NoValue
              /\ ~Internal!IsDevEnv(app) => got = Internal!Down \/ got.text \in {"generated", "other"}
  <1> USE DEF Internal!ResolveInternalToken, Internal!Values, Internal!Texts,
              Internal!TrimSpace, Internal!Down, Internal!NoValue, Internal!Refused,
              Internal!ToUpper, Internal!TooShort, Internal!DevInternalToken
  <1> QED
    BY Zenon

\* InternalInv holds of every behaviour of the service.
LEMMA InternalInvariant == ServiceSpec => []InternalInv
  <1>1. ServiceInit => InternalInv
    <2> DEFINE first == {Internal!NoValue, [text |-> "generated", padded |-> TRUE]}
    <2>1. first \subseteq Internal!Values
      BY DEF Internal!Values, Internal!Texts, Internal!NoValue
    <2>2. ServiceInit => /\ env \in [Services -> first] /\ booted = env
                         /\ held = [s \in Services |-> Internal!Down]
      BY DEF ServiceInit, Internal!InternalInit
    <2> HIDE DEF first
    <2> QED
      BY <2>1, <2>2 DEF InternalInv
  <1>2. ASSUME InternalInv, [ServiceNext]_serviceVars PROVE InternalInv'
    <2>1. CASE UNCHANGED internalVars
      BY <1>2, <2>1 DEF InternalInv, internalVars
    <2>2. ASSUME NEW s \in Services, Internal!Edit(s) PROVE InternalInv'
      BY <1>2, <2>2 DEF InternalInv, Internal!Edit
    <2>3. ASSUME NEW s \in Services, Internal!MustResolveInternalToken(s) PROVE InternalInv'
      <3> DEFINE got == IF wired[s] THEN Internal!ResolveInternalToken(appEnv[s], env[s])
                        ELSE Internal!NoValue
      <3>1. /\ booted' = [booted EXCEPT ![s] = env[s]] /\ held' = [held EXCEPT ![s] = got]
            /\ UNCHANGED <<env, appEnv, wired>>
        BY <2>3 DEF Internal!MustResolveInternalToken
      <3>2. Internal!NoValue \in Internal!Values
        BY DEF Internal!NoValue, Internal!Values, Internal!Texts
      <3>3. env[s] \in Internal!Values /\ got \in Internal!Values \cup {Internal!Down}
        BY <1>2, <3>2, Resolved DEF InternalInv
      <3>4. /\ env' \in [Services -> Internal!Values]
            /\ booted' \in [Services -> Internal!Values]
            /\ held' \in [Services -> Internal!Values \cup {Internal!Down}]
        BY <1>2, <3>1, <3>3 DEF InternalInv
      <3>5. booted'[s] = env[s] /\ held'[s] = got
        BY <1>2, <3>1 DEF InternalInv
      <3>6. \A t \in Services : t # s => booted'[t] = booted[t] /\ held'[t] = held[t]
        BY <1>2, <3>1 DEF InternalInv
      <3> QED
        BY <1>2, <3>1, <3>4, <3>5, <3>6 DEF InternalInv
    <2> QED
      BY <1>2, <2>1, <2>2, <2>3
      DEF ServiceNext, serviceVars, UserStep, InternalStep, ErrorStep, ProbeStep,
          Internal!InternalNext
  <1> QED
    BY <1>1, <1>2, PTL DEF ServiceSpec

\* ResolveInternalToken and the InternalToken middleware: outside development
\* no call is accepted on a published placeholder, whatever the environments
\* of any number of services are edited to and whenever each of them boots.
THEOREM PublishedIsRefusedHolds == ServiceSpec => []PublishedIsRefused
  <1>1. InternalInv => PublishedIsRefused
    <2> SUFFICES ASSUME InternalInv, NEW s \in Services, NEW t \in Services,
                        Internal!Accepts(s, t), ~Internal!IsDevEnv(appEnv[t])
                 PROVE  held[s].text \in {"generated", "other"}
      BY DEF PublishedIsRefused
    <2>1. held[s] = held[t] /\ held[t] # Internal!Down /\ held[t] # Internal!NoValue
      BY DEF Internal!Accepts, Internal!InternalToken, Internal!RoundTrip
    <2>2. held[t] = Internal!ResolveInternalToken(appEnv[t], booted[t])
      BY <2>1 DEF InternalInv
    <2> QED
      BY <2>1, <2>2, Resolved DEF InternalInv
  <1> QED
    BY <1>1, InternalInvariant, PTL

\* ResolveInternalToken trims: two wired services that booted from the same
\* text and are up accept each other's calls, however it was padded and
\* whatever environment each of them runs in.
THEOREM SameSecretAgreesHolds == ServiceSpec => []SameSecretAgrees
  <1>1. InternalInv => SameSecretAgrees
    <2> SUFFICES ASSUME InternalInv, NEW s \in Services, NEW t \in Services,
                        wired[s], wired[t], held[s] # Internal!Down, held[t] # Internal!Down,
                        booted[s].text = booted[t].text
                 PROVE  Internal!Accepts(s, t)
      BY DEF SameSecretAgrees
    <2>1. /\ held[s] = Internal!ResolveInternalToken(appEnv[s], booted[s])
          /\ held[t] = Internal!ResolveInternalToken(appEnv[t], booted[t])
          /\ booted[s] \in Internal!Values /\ booted[t] \in Internal!Values
      BY DEF InternalInv
    <2>2. held[s] # Internal!NoValue /\ held[t] # Internal!NoValue
      BY <2>1, Resolved
    <2>3. \A v, w \in Internal!Values : v.text = w.text =>
             Internal!TrimSpace(v) = Internal!TrimSpace(w)
      BY Zenon DEF Internal!Values, Internal!TrimSpace
    <2>4. held[s] = held[t]
      BY Zenon, <2>1, <2>3 DEF Internal!ResolveInternalToken, Internal!Refused
    <2> QED
      BY <2>2, <2>4 DEF Internal!Accepts, Internal!InternalToken, Internal!RoundTrip
  <1> QED
    BY <1>1, InternalInvariant, PTL

-----------------------------------------------------------------------------
(* The readiness probe.                                                     *)

Outcomes == [name : {Name[d] : d \in Deps}, result : {"ok", "fail"}]
Exited == {d \in deps : checks[d] = "exited"}

\* Some passed check of that name.
SomePassed(n) == \E d \in passed : Name[d] = n

\* An outcome is "ok" only of a check that passed; while the handler collects,
\* the names of the checks that have sent are answered or in the channel and
\* pending counts the outcomes it has not received.
ProbeInv ==
    /\ IsFiniteSet(deps) /\ deps \subseteq Deps
    /\ checks \in [deps -> {"running", "ok", "fail", "exited"}]
    /\ passed \subseteq deps /\ \A d \in deps : checks[d] = "ok" => d \in passed
    /\ ch \in Seq(Outcomes)
    /\ \A i \in 1..Len(ch) : ch[i].result = "ok" => SomePassed(ch[i].name)
    /\ \A n \in DOMAIN results : results[n] = "ok" => SomePassed(n)
    /\ pending \in Nat
    /\ code = 0 =>
        /\ pending = Cardinality(deps) - Cardinality(Exited) + Len(ch)
        /\ \A d \in Exited : \/ Name[d] \in DOMAIN results
                              \/ \E i \in 1..Len(ch) : ch[i].name = Name[d]
    /\ code = 200 =>
        \A d \in deps : Name[d] \in DOMAIN results /\ results[Name[d]] = "ok"

\* ProbeInv holds when the probe arrives.
LEMMA ProbeInitial == ProbeInit => ProbeInv
  <1> SUFFICES ASSUME ProbeInit PROVE ProbeInv
    OBVIOUS
  <1> USE DEF ProbeInit
  <1>1. IsFiniteSet(deps) /\ Cardinality(deps) \in Nat
    BY DepsAssumption, FS_Subset, FS_CardinalityType
  <1>2. Exited = {} /\ Cardinality(Exited) = 0
    BY FS_EmptySet DEF Exited
  <1>3. DOMAIN results = {} /\ ch \in Seq(Outcomes) /\ Len(ch) = 0
    OBVIOUS
  <1>4. pending = Cardinality(deps) - Cardinality(Exited) + Len(ch)
    <2>1. pending = Cardinality(deps)
      OBVIOUS
    <2> QED
      BY ONLY <1>1, <1>2, <1>3, <2>1
  <1>5. \A n \in DOMAIN results : results[n] = "ok" => SomePassed(n)
    BY <1>3
  <1>6. \A i \in 1..Len(ch) : ch[i].result = "ok" => SomePassed(ch[i].name)
    BY <1>3
  <1>7. /\ deps \subseteq Deps /\ passed \subseteq deps /\ code = 0
        /\ checks \in [deps -> {"running", "ok", "fail", "exited"}]
        /\ \A d \in deps : checks[d] # "ok"
    OBVIOUS
  <1> QED
    BY ONLY <1>1, <1>2, <1>3, <1>4, <1>5, <1>6, <1>7 DEF ProbeInv

\* A goroutine that has computed its outcome sends it and exits.
LEMMA ProbeSend ==
    ASSUME ProbeInv, NEW d \in deps, Send(d) PROVE ProbeInv'
  <1> DEFINE out == [name |-> Name[d], result |-> checks[d]]
  <1>1. /\ checks[d] \in {"ok", "fail"} /\ ch' = Append(ch, out)
        /\ checks' = [checks EXCEPT ![d] = "exited"]
        /\ UNCHANGED <<deps, passed, results, pending, done, code>>
    BY DEF Send
  <1>2. out \in Outcomes /\ ch \in Seq(Outcomes)
    BY <1>1 DEF Outcomes, ProbeInv
  <1>3. /\ ch' \in Seq(Outcomes) /\ Len(ch') = Len(ch) + 1 /\ ch'[Len(ch) + 1] = out
        /\ \A i \in 1..Len(ch) : ch'[i] = ch[i]
    BY <1>1, <1>2
  <1>4. checks' \in [deps -> {"running", "ok", "fail", "exited"}]
        /\ \A e \in deps : e # d => checks'[e] = checks[e]
    BY <1>1 DEF ProbeInv
  <1>5. checks'[d] = "exited"
    BY <1>1 DEF ProbeInv
  <1>6. Exited' = Exited \cup {d} /\ d \notin Exited
    BY <1>1, <1>4, <1>5 DEF Exited
  <1>7. Cardinality(Exited') = Cardinality(Exited) + 1
    <2>1. IsFiniteSet(Exited)
      BY FS_Subset DEF ProbeInv, Exited
    <2> QED
      BY Zenon, <1>6, <2>1, FS_AddElement
  <1>8. out.name = Name[d] /\ (out.result = "ok" => SomePassed(out.name))
    BY <1>1 DEF ProbeInv, SomePassed
  <1> HIDE DEF out
  <1>9. \A i \in 1..Len(ch') : ch'[i].result = "ok" => SomePassed(ch'[i].name)
    <2> SUFFICES ASSUME NEW i \in 1..Len(ch') PROVE ch'[i].result = "ok" => SomePassed(ch'[i].name)
      OBVIOUS
    <2>1. Len(ch) \in Nat
      BY <1>2
    <2>2. i \in 1..Len(ch) \/ i = Len(ch) + 1
      BY <1>3, <2>1
    <2> QED
      BY <1>3, <1>8, <2>2 DEF ProbeInv
  <1>10. code' = 0 => pending' = Cardinality(deps') - Cardinality(Exited') + Len(ch')
    <2>1. Cardinality(deps) \in Nat /\ Cardinality(Exited) \in Nat /\ Len(ch) \in Nat
      BY <1>2, FS_CardinalityType, FS_Subset DEF ProbeInv, Exited
    <2>2. CASE code = 0
      <3>1. pending = Cardinality(deps) - Cardinality(Exited) + Len(ch)
        BY <2>2 DEF ProbeInv
      <3> QED
        BY ONLY <1>1, <1>3, <1>7, <2>1, <3>1
    <2> QED
      BY <1>1, <2>2
  <1>11. code' = 0 => \A e \in Exited' : \/ Name[e] \in DOMAIN results
                                         \/ \E i \in 1..Len(ch') : ch'[i].name = Name[e]
    <2> SUFFICES ASSUME code = 0, NEW e \in Exited'
                 PROVE  \/ Name[e] \in DOMAIN results
                        \/ \E i \in 1..Len(ch') : ch'[i].name = Name[e]
      BY <1>1
    <2>1. Len(ch) \in Nat
      BY <1>2
    <2>2. CASE e = d
      <3>1. Len(ch) + 1 \in 1..Len(ch') /\ ch'[Len(ch) + 1].name = Name[e]
        BY <1>3, <1>8, <2>1, <2>2
      <3> QED
        BY <3>1
    <2>3. CASE e \in Exited
      <3>1. \/ Name[e] \in DOMAIN results
            \/ \E i \in 1..Len(ch) : ch[i].name = Name[e]
        BY <2>3 DEF ProbeInv
      <3>2. \A i \in 1..Len(ch) : i \in 1..Len(ch') /\ ch'[i] = ch[i]
        BY <1>3, <2>1
      <3> QED
        BY <3>1, <3>2
    <2> QED
      BY <1>6, <2>2, <2>3
  <1>12. \A e \in deps' : checks'[e] = "ok" => e \in passed'
    BY <1>1, <1>4, <1>5 DEF ProbeInv
  <1>13. /\ IsFiniteSet(deps') /\ deps' \subseteq Deps
         /\ checks' \in [deps' -> {"running", "ok", "fail", "exited"}]
         /\ passed' \subseteq deps' /\ pending' \in Nat
         /\ \A n \in DOMAIN results' : results'[n] = "ok" => SomePassed(n)
    BY <1>1, <1>4 DEF ProbeInv
  <1>14. code' = 200 => \A e \in deps' : Name[e] \in DOMAIN results' /\ results'[Name[e]] = "ok"
    BY <1>1 DEF ProbeInv
  <1> QED
    BY <1>1, <1>3, <1>9, <1>10, <1>11, <1>12, <1>13, <1>14 DEF ProbeInv, SomePassed

\* The select receives an outcome: the name it carries is answered from now
\* on, and what is in the channel is one place further.
LEMMA ProbeCollect ==
    ASSUME ProbeInv, Collect PROVE ProbeInv'
  <1> DEFINE out == Head(ch)
  <1>1. /\ code = 0 /\ pending > 0 /\ ch # <<>> /\ ch' = Tail(ch) /\ pending' = pending - 1
        /\ results' = Put(results, {out.name}, out.result)
        /\ UNCHANGED <<deps, checks, passed, done, code>>
    BY DEF Collect
  <1>2. ch \in Seq(Outcomes) /\ pending \in Nat
    BY DEF ProbeInv
  <1>3. /\ ch' \in Seq(Outcomes) /\ Len(ch) \in Nat \ {0} /\ Len(ch') = Len(ch) - 1
        /\ out = ch[1] /\ \A i \in 1..Len(ch') : ch'[i] = ch[i + 1]
    BY <1>1, <1>2
  <1> HIDE DEF out
  <1>4. \A i \in 1..Len(ch') : i + 1 \in 1..Len(ch)
    BY <1>3
  <1>5. \A i \in 1..Len(ch') : ch'[i].result = "ok" => SomePassed(ch'[i].name)
    BY <1>3, <1>4 DEF ProbeInv
  <1>6. out.result = "ok" => SomePassed(out.name)
    BY <1>3 DEF ProbeInv
  <1>7. /\ DOMAIN results' = DOMAIN results \cup {out.name}
        /\ results'[out.name] = out.result
        /\ \A n \in DOMAIN results \ {out.name} : results'[n] = results[n]
    BY <1>1 DEF Put
  <1>8. \A n \in DOMAIN results' : results'[n] = "ok" => SomePassed(n)
    BY <1>6, <1>7 DEF ProbeInv
  <1>9. Exited' = Exited
    BY <1>1 DEF Exited
  <1>10. pending' \in Nat /\ pending' = Cardinality(deps) - Cardinality(Exited) + Len(ch')
    <2>1. pending = Cardinality(deps) - Cardinality(Exited) + Len(ch)
      BY <1>1 DEF ProbeInv
    <2>2. Cardinality(deps) \in Nat /\ Cardinality(Exited) \in Nat
      BY FS_CardinalityType, FS_Subset DEF ProbeInv, Exited
    <2> QED
      BY ONLY <1>1, <1>2, <1>3, <2>1, <2>2
  <1>11. \A d \in Exited : \/ Name[d] \in DOMAIN results'
                           \/ \E i \in 1..Len(ch') : ch'[i].name = Name[d]
    <2> SUFFICES ASSUME NEW d \in Exited, Name[d] \notin DOMAIN results'
                 PROVE  \E i \in 1..Len(ch') : ch'[i].name = Name[d]
      OBVIOUS
    <2>1. PICK i \in 1..Len(ch) : ch[i].name = Name[d]
      BY <1>1, <1>7 DEF ProbeInv
    <2>2. i # 1
      BY <1>3, <1>7, <2>1
    <2>3. i - 1 \in 1..Len(ch') /\ ch'[i - 1] = ch[i]
      BY <1>3, <2>1, <2>2
    <2> QED
      BY <2>1, <2>3
  <1>12. /\ IsFiniteSet(deps') /\ deps' \subseteq Deps
         /\ checks' \in [deps' -> {"running", "ok", "fail", "exited"}]
         /\ passed' \subseteq deps' /\ \A d \in deps' : checks'[d] = "ok" => d \in passed'
    BY <1>1 DEF ProbeInv
  <1>13. /\ \A i \in 1..Len(ch') : ch'[i].result = "ok" =>
                \E e \in passed' : Name[e] = ch'[i].name
         /\ \A n \in DOMAIN results' : results'[n] = "ok" => \E e \in passed' : Name[e] = n
    BY Zenon, <1>1, <1>5, <1>8 DEF SomePassed
  <1>14. /\ code' = 0 /\ pending' = Cardinality(deps') - Cardinality(Exited') + Len(ch')
         /\ \A d \in Exited' : \/ Name[d] \in DOMAIN results'
                               \/ \E i \in 1..Len(ch') : ch'[i].name = Name[d]
    BY Zenon, <1>1, <1>9, <1>10, <1>11
  <1> QED
    BY ONLY <1>3, <1>10, <1>12, <1>13, <1>14 DEF ProbeInv, SomePassed

\* Every answer follows from the results: when all have answered, the sent
\* outcomes were as many as the checks and none is left in the channel.
LEMMA ProbeAnswer ==
    ASSUME ProbeInv, BudgetSpent \/ AllAnswered PROVE ProbeInv'
  <1>1. CASE BudgetSpent
    <2> DEFINE rest == {Name[d] : d \in deps} \ DOMAIN results
    <2>1. /\ code = 0 /\ results' = Put(results, rest, "fail")
          /\ code' = StatusCode(results')
          /\ UNCHANGED <<deps, checks, passed, ch, pending, done>>
      BY <1>1 DEF BudgetSpent
    <2>2. \A d \in deps : Name[d] \in DOMAIN results \cup rest
      OBVIOUS
    <2> HIDE DEF rest
    <2>3. /\ DOMAIN results' = DOMAIN results \cup rest
          /\ \A n \in rest : results'[n] = "fail"
          /\ \A n \in DOMAIN results \ rest : results'[n] = results[n]
      BY <2>1 DEF Put
    <2>4. \A n \in DOMAIN results' : results'[n] = "ok" => SomePassed(n)
      BY <2>3 DEF ProbeInv
    <2>5. code' # 0 /\ (code' = 200 => \A n \in DOMAIN results' : results'[n] = "ok")
      BY <2>1 DEF StatusCode
    <2>6. code' = 200 => \A d \in deps : Name[d] \in DOMAIN results' /\ results'[Name[d]] = "ok"
      BY <2>2, <2>3, <2>5
    <2> QED
      BY <2>1, <2>4, <2>5, <2>6 DEF ProbeInv, SomePassed
  <1>2. CASE AllAnswered
    <2>1. /\ code = 0 /\ pending = 0 /\ code' = StatusCode(results)
          /\ UNCHANGED <<deps, checks, passed, ch, results, pending>>
      BY <1>2 DEF AllAnswered
    <2>2. /\ IsFiniteSet(deps) /\ Exited \subseteq deps /\ ch \in Seq(Outcomes)
          /\ pending = Cardinality(deps) - Cardinality(Exited) + Len(ch)
      BY <2>1 DEF ProbeInv, Exited
    <2>3. /\ Cardinality(deps) \in Nat /\ Cardinality(Exited) \in Nat /\ Len(ch) \in Nat
          /\ Cardinality(Exited) <= Cardinality(deps)
      BY <2>2, FS_CardinalityType, FS_Subset
    <2>4. Len(ch) = 0 /\ Cardinality(Exited) = Cardinality(deps)
      BY <2>1, <2>2, <2>3
    <2>5. Exited = deps
      BY <2>2, <2>4, FS_Subset
    <2>6. \A d \in deps : Name[d] \in DOMAIN results
      <3>1. \A d \in Exited : \/ Name[d] \in DOMAIN results
                               \/ \E i \in 1..Len(ch) : ch[i].name = Name[d]
        BY <2>1 DEF ProbeInv
      <3>2. 1..Len(ch) = {}
        BY <2>4
      <3> QED
        BY ONLY <2>5, <3>1, <3>2
    <2>7. code' # 0 /\ (code' = 200 => \A n \in DOMAIN results : results[n] = "ok")
      BY <2>1 DEF StatusCode
    <2> QED
      BY <2>1, <2>6, <2>7 DEF ProbeInv, SomePassed
  <1> QED
    BY <1>1, <1>2

\* A check returns, or the context is done.
LEMMA ProbeEnvironment ==
    ASSUME ProbeInv, CtxDone \/ \E d \in deps : CheckReturns(d) PROVE ProbeInv'
  <1>1. CASE CtxDone
    BY <1>1 DEF CtxDone, ProbeInv, SomePassed, Exited
  <1>2. ASSUME NEW d \in deps, CheckReturns(d) PROVE ProbeInv'
    <2>1. /\ checks[d] = "running" /\ passed \subseteq passed'
          /\ UNCHANGED <<deps, ch, results, pending, done, code>>
          /\ \/ checks' = [checks EXCEPT ![d] = "ok"] /\ passed' = passed \cup {d}
             \/ checks' = [checks EXCEPT ![d] = "fail"] /\ passed' = passed
      BY <1>2 DEF CheckReturns
    <2>2. /\ checks' \in [deps -> {"running", "ok", "fail", "exited"}]
          /\ \A e \in deps : e # d => checks'[e] = checks[e]
          /\ checks'[d] # "exited" /\ passed' \subseteq deps
          /\ \A e \in deps : checks'[e] = "ok" => e \in passed'
      BY ONLY ProbeInv, <2>1 DEF ProbeInv
    <2>3. Exited' = Exited
      BY ONLY <2>1, <2>2 DEF Exited
    <2>4. \A n : SomePassed(n) => \E e \in passed' : Name[e] = n
      BY ONLY <2>1 DEF SomePassed
    <2>5. /\ \A i \in 1..Len(ch') : ch'[i].result = "ok" =>
                 \E e \in passed' : Name[e] = ch'[i].name
          /\ \A n \in DOMAIN results' : results'[n] = "ok" => \E e \in passed' : Name[e] = n
      BY ONLY ProbeInv, <2>1, <2>4 DEF ProbeInv
    <2>6. /\ IsFiniteSet(deps') /\ deps' \subseteq Deps /\ passed' \subseteq deps'
          /\ ch' \in Seq(Outcomes) /\ pending' \in Nat
          /\ checks' \in [deps' -> {"running", "ok", "fail", "exited"}]
          /\ \A e \in deps' : checks'[e] = "ok" => e \in passed'
      BY ONLY ProbeInv, <2>1, <2>2 DEF ProbeInv
    <2>7. code' = 0 =>
             /\ pending' = Cardinality(deps') - Cardinality(Exited') + Len(ch')
             /\ \A e \in Exited' : \/ Name[e] \in DOMAIN results'
                                   \/ \E i \in 1..Len(ch') : ch'[i].name = Name[e]
      BY ONLY ProbeInv, <2>1, <2>3 DEF ProbeInv
    <2>8. code' = 200 => \A e \in deps' : Name[e] \in DOMAIN results' /\ results'[Name[e]] = "ok"
      BY ONLY ProbeInv, <2>1 DEF ProbeInv
    <2> QED
      BY ONLY <2>5, <2>6, <2>7, <2>8 DEF ProbeInv, SomePassed
  <1> QED
    BY <1>1, <1>2

\* RegisterHealth's readiness handler: for any finite set of checks, any of
\* which may hang, 200 is answered only when every check with a name of its
\* own has passed, whether the handler saw all outcomes or ran out of time.
THEOREM ReadyMeansAllPassedHolds == ServiceSpec => []ReadyMeansAllPassed
  <1>1. ServiceInit => ProbeInv
    BY ProbeInitial DEF ServiceInit
  <1>2. ASSUME ProbeInv, [ServiceNext]_serviceVars PROVE ProbeInv'
    <2>1. CASE UNCHANGED probeVars
      BY ONLY <1>2, <2>1 DEF probeVars, ProbeInv, SomePassed, Exited
    <2>2. CASE ProbeNext
      BY Zenon, <1>2, <2>2, ProbeSend, ProbeCollect, ProbeAnswer, ProbeEnvironment
      DEF ProbeNext, Collector
    <2> QED
      BY Zenon, <1>2, <2>1, <2>2
      DEF ServiceNext, serviceVars, UserStep, InternalStep, ErrorStep, ProbeStep
  <1>3. ProbeInv => ReadyMeansAllPassed
    <2> SUFFICES ASSUME ProbeInv, code = 200, NEW d \in deps,
                        \A e \in deps \ {d} : Name[e] # Name[d]
                 PROVE  d \in passed
      BY DEF ReadyMeansAllPassed
    <2>1. Name[d] \in DOMAIN results /\ results[Name[d]] = "ok"
      BY DEF ProbeInv
    <2>2. PICK e \in passed : Name[e] = Name[d]
      BY <2>1 DEF ProbeInv, SomePassed
    <2> QED
      BY <2>2 DEF ProbeInv
  <1> QED
    BY <1>1, <1>2, <1>3, PTL DEF ServiceSpec

-----------------------------------------------------------------------------
(* Errors.                                                                  *)

\* The links of a chain, and the chain there is.
Links == [code : Failure!Codes \cup {""}, details : BOOLEAN, phrase : Failure!Phrases]
ErrorInv == err \in Seq(Links)

\* A set of numbers has a least one.
LEMMA Least ==
    ASSUME NEW T \in SUBSET Nat, T # {}
    PROVE  \E x \in T : \A y \in T : x <= y
  <1> DEFINE R == OpToRel(<, Nat)
  <1>1. \E x \in T : \A y \in T : ~ (<<y, x>> \in R)
    <2>1. IsWellFoundedOn(R, Nat)
      BY Zenon, NatLessThanWellFounded
    <2> HIDE DEF R
    <2> QED
      BY Zenon, <2>1, WFMin
  <1>2. \A x, y \in Nat : <<y, x>> \in R <=> y < x
    BY DEF OpToRel
  <1>3. PICK x \in T : \A y \in T : ~ (y < x)
    BY Zenon, <1>1, <1>2
  <1>4. \A y \in T : x <= y
    BY ONLY <1>3, T \in SUBSET Nat, x \in T
  <1> QED
    BY <1>4

\* What DomainLinks holds.
LEMMA LinkOfChain ==
    ASSUME NEW e \in Seq(Links)
    PROVE  /\ Len(e) \in Nat /\ DOMAIN e = 1..Len(e)
           /\ Failure!DomainLinks(e) \subseteq Nat
           /\ \A i : i \in Failure!DomainLinks(e) <=> i \in 1..Len(e) /\ e[i].code # ""
           /\ \A i \in 1..Len(e) : e[i] \in Links
  <1>1. Len(e) \in Nat /\ DOMAIN e = 1..Len(e) /\ \A i \in 1..Len(e) : e[i] \in Links
    OBVIOUS
  <1>2. \A i : i \in Failure!DomainLinks(e) <=> i \in DOMAIN e /\ e[i].code # ""
    BY Zenon DEF Failure!DomainLinks
  <1>3. 1..Len(e) \subseteq Nat
    BY <1>1
  <1> QED
    BY ONLY <1>1, <1>2, <1>3, Zenon

\* GetDomainError finds the first link that is a DomainError.
LEMMA FirstLink ==
    ASSUME NEW e \in Seq(Links), NEW m \in Failure!DomainLinks(e),
           \A j \in Failure!DomainLinks(e) : m <= j
    PROVE  Failure!GetDomainError(e) = e[m] /\ Failure!GetErrorCode(e) = e[m].code
  <1> DEFINE D == Failure!DomainLinks(e)
             c == CHOOSE i \in D : \A j \in D : i <= j
  <1>1. D \subseteq Nat /\ m \in D
    BY Zenon, LinkOfChain
  <1> HIDE DEF D
  <1>2. c \in D /\ \A j \in D : c <= j
    BY <1>1 DEF D
  <1>3. c = m
    <2> HIDE DEF c
    <2>1. c <= m /\ m <= c /\ c \in Nat /\ m \in Nat
      BY <1>1, <1>2 DEF D
    <2> QED
      BY ONLY <2>1
  <1>4. Failure!GetDomainError(e) = e[m]
    BY Zenon, <1>3 DEF Failure!GetDomainError, D
  <1> QED
    BY Zenon, <1>1, <1>4 DEF Failure!GetErrorCode, D

\* There is a first one when there is one at all, and it has a code.
LEMMA FirstLinkExists ==
    ASSUME NEW e \in Seq(Links), Failure!DomainLinks(e) # {}
    PROVE  \E m \in Failure!DomainLinks(e) :
              /\ \A j \in Failure!DomainLinks(e) : m <= j
              /\ m \in 1..Len(e) /\ e[m] \in Links /\ e[m].code # ""
  <1>1. Failure!DomainLinks(e) \subseteq 1..Len(e) /\ Len(e) \in Nat
    BY Zenon, LinkOfChain
  <1>2. Failure!DomainLinks(e) \in SUBSET Nat
    BY <1>1
  <1>3. PICK m \in Failure!DomainLinks(e) : \A j \in Failure!DomainLinks(e) : m <= j
    BY <1>2, Least
  <1>4. m \in 1..Len(e) /\ e[m] \in Links /\ e[m].code # ""
    BY Zenon, LinkOfChain
  <1> QED
    BY Zenon, <1>3, <1>4

\* An element put in front of a sequence.
LEMMA Prepended ==
    ASSUME NEW S, NEW e \in Seq(S), NEW l \in S
    PROVE  /\ <<l>> \o e \in Seq(S) /\ Len(<<l>> \o e) = Len(e) + 1 /\ (<<l>> \o e)[1] = l
           /\ \A i \in 1..Len(e) : i + 1 \in 1..Len(e) + 1 /\ (<<l>> \o e)[i + 1] = e[i]
           /\ \A i \in 1..Len(e) + 1 :
                i # 1 => i - 1 \in 1..Len(e) /\ (<<l>> \o e)[i] = e[i - 1]
  <1>1. Len(e) \in Nat /\ <<l>> \in Seq(S) /\ Len(<<l>>) = 1
    OBVIOUS
  <1>2. <<l>> \o e \in Seq(S) /\ Len(<<l>> \o e) = Len(e) + 1
    BY <1>1
  <1>3. (<<l>> \o e)[1] = l
    BY <1>1
  <1>4. \A i \in 1..Len(e) + 1 : i # 1 => i - 1 \in 1..Len(e) /\ (<<l>> \o e)[i] = e[i - 1]
    BY <1>1
  <1>5. ASSUME NEW i \in 1..Len(e)
        PROVE  i + 1 \in 1..Len(e) + 1 /\ (<<l>> \o e)[i + 1] = e[i]
    <2>1. i + 1 \in 1..Len(e) + 1 /\ i + 1 # 1 /\ (i + 1) - 1 = i
      BY <1>1
    <2> QED
      BY ONLY <1>4, <2>1
  <1> QED
    BY ONLY <1>2, <1>3, <1>4, <1>5, Zenon

Keeps(e, l, f) ==
    /\ \A c : Failure!Is(e, c) => Failure!Is(f, c)
    /\ Failure!Translate(e) \subseteq Failure!Translate(f) \cup {500}
    /\ l.code = "" /\ Failure!DomainLinks(e) = {} => Failure!DomainLinks(f) = {}
    /\ l.code = "" /\ Failure!DomainLinks(e) # {} =>
          Failure!DomainLinks(f) # {} /\ Failure!GetDomainError(f) = Failure!GetDomainError(e)
    /\ l.code # "" => Failure!DomainLinks(f) # {} /\ Failure!GetDomainError(f) = l

\* What every link put in front leaves: the predicates and the phrases.
LEMMA PrependedKeeps ==
    ASSUME NEW e \in Seq(Links), NEW l \in Links, NEW f, f = <<l>> \o e
    PROVE  Keeps(e, l, f)
  <1>1. /\ f \in Seq(Links) /\ Len(f) = Len(e) + 1 /\ f[1] = l /\ Len(e) \in Nat
        /\ \A i \in 1..Len(e) : i + 1 \in 1..Len(f) /\ f[i + 1] = e[i]
        /\ \A i \in 1..Len(f) : i # 1 => i - 1 \in 1..Len(e) /\ f[i] = e[i - 1]
    <2> HIDE DEF Links
    <2> QED
      BY Prepended
  <1>2. DOMAIN e = 1..Len(e) /\ DOMAIN f = 1..Len(f) /\ 1 \in 1..Len(f)
    BY <1>1
  <1>3. \A c : Failure!Is(e, c) => Failure!Is(f, c)
    <2>1. SUFFICES ASSUME NEW c, NEW i \in DOMAIN e, e[i].code = c
                   PROVE  \E j \in DOMAIN f : f[j].code = c
      BY Zenon DEF Failure!Is, Failure!SameCode
    <2>2. i + 1 \in DOMAIN f /\ f[i + 1].code = c
      BY ONLY <1>1, <1>2, <2>1, Zenon
    <2> QED
      BY <2>2, Zenon
  <1>4. Failure!Translate(e) \subseteq Failure!Translate(f) \cup {500}
    <2>1. {e[i].phrase : i \in DOMAIN e} \subseteq {f[i].phrase : i \in DOMAIN f}
      <3>1. ASSUME NEW i \in DOMAIN e
            PROVE  e[i].phrase \in {f[j].phrase : j \in DOMAIN f}
        <4>1. i + 1 \in DOMAIN f /\ e[i].phrase = f[i + 1].phrase
          BY ONLY <1>1, <1>2, <3>1, Zenon
        <4> QED
          BY ONLY <4>1, Zenon
      <3> QED
        BY ONLY <3>1
    <2> DEFINE E == {e[i].phrase : i \in DOMAIN e} \ {""}
               F == {f[i].phrase : i \in DOMAIN f} \ {""}
               Status(p) == IF p = "insufficient stock" THEN 409 ELSE 402
               T(P) == {Status(p) : p \in P}
    <2>2. E \subseteq F
      BY <2>1, Zenon
    <2>3. /\ Failure!Translate(e) = IF E = {} THEN {500} ELSE T(E)
          /\ Failure!Translate(f) = IF F = {} THEN {500} ELSE T(F)
      BY Zenon DEF Failure!Translate
    <2> HIDE DEF E, F
    <2>4. T(E) \subseteq T(F)
      <3> HIDE DEF Status
      <3> QED
        BY <2>2
    <2>5. E # {} => F # {}
      BY <2>2, Zenon
    <2> HIDE DEF T
    <2> QED
      BY ONLY <2>3, <2>4, <2>5
  <1>5. /\ \A i \in Failure!DomainLinks(e) : i \in 1..Len(e) /\ i + 1 \in Failure!DomainLinks(f)
        /\ \A i \in Failure!DomainLinks(f) :
              \/ i = 1 /\ l.code # ""
              \/ i - 1 \in Failure!DomainLinks(e) /\ i \in 1..Len(f)
        /\ l.code # "" => 1 \in Failure!DomainLinks(f)
    <2>1. \A i : i \in Failure!DomainLinks(e) <=> i \in 1..Len(e) /\ e[i].code # ""
      BY Zenon, LinkOfChain
    <2>2. \A i : i \in Failure!DomainLinks(f) <=> i \in 1..Len(f) /\ f[i].code # ""
      BY Zenon, <1>1, LinkOfChain
    <2> QED
      <3>1. ASSUME NEW i \in Failure!DomainLinks(e)
            PROVE  i \in 1..Len(e) /\ i + 1 \in Failure!DomainLinks(f)
        <4>1. i \in 1..Len(e) /\ e[i].code # ""
          BY ONLY <2>1, <3>1, Zenon
        <4>2. i + 1 \in 1..Len(f) /\ f[i + 1] = e[i]
          BY ONLY <1>1, <4>1, Zenon
        <4>3. f[i + 1].code # ""
          BY ONLY <4>1, <4>2, Zenon
        <4> QED
          BY ONLY <2>2, <4>1, <4>2, <4>3, Zenon
      <3>2. ASSUME NEW i \in Failure!DomainLinks(f)
            PROVE  \/ i = 1 /\ l.code # ""
                   \/ i - 1 \in Failure!DomainLinks(e) /\ i \in 1..Len(f)
        BY ONLY <1>1, <2>1, <2>2, <3>2, Zenon
      <3>3. l.code # "" => 1 \in Failure!DomainLinks(f)
        BY ONLY <1>1, <1>2, <2>2, Zenon
      <3> QED
        BY ONLY <3>1, <3>2, <3>3, Zenon
  <1>6. ASSUME l.code = "", Failure!DomainLinks(e) # {}
        PROVE  /\ Failure!DomainLinks(f) # {}
               /\ Failure!GetDomainError(f) = Failure!GetDomainError(e)
    <2>1. PICK m \in Failure!DomainLinks(e) :
             (\A j \in Failure!DomainLinks(e) : m <= j) /\ m \in 1..Len(e)
      BY Zenon, <1>6, FirstLinkExists
    <2>2. Failure!GetDomainError(e) = e[m]
      BY <2>1, FirstLink
    <2>3. m + 1 \in Failure!DomainLinks(f) /\ f[m + 1] = e[m]
      BY Zenon, <1>1, <1>5, <2>1
    <2>4. ASSUME NEW j \in Failure!DomainLinks(f) PROVE m + 1 <= j
      <3>1. j - 1 \in Failure!DomainLinks(e) /\ j \in 1..Len(f)
        BY Zenon, <1>5, <1>6
      <3>2. m <= j - 1
        BY <2>1, <3>1
      <3> QED
        BY <1>1, <2>1, <3>1, <3>2
    <2>5. Failure!GetDomainError(f) = f[m + 1]
      BY Zenon, <1>1, <2>3, <2>4, FirstLink
    <2> QED
      BY Zenon, <2>2, <2>3, <2>5
  <1>7. ASSUME l.code # ""
        PROVE  Failure!DomainLinks(f) # {} /\ Failure!GetDomainError(f) = l
    <2>1. 1 \in Failure!DomainLinks(f) /\ \A j \in Failure!DomainLinks(f) : 1 <= j
      <3>1. \A j \in Failure!DomainLinks(f) : j \in 1..Len(f)
        BY Zenon, <1>1, LinkOfChain
      <3>2. \A j \in 1..Len(f) : 1 <= j
        BY <1>1
      <3> QED
        BY ONLY <1>5, <1>7, <3>1, <3>2, Zenon
    <2> QED
      BY Zenon, <1>1, <2>1, FirstLink
  <1>8. l.code = "" /\ Failure!DomainLinks(e) = {} => Failure!DomainLinks(f) = {}
    BY Zenon, <1>5
  <1> QED
    BY <1>3, <1>4, <1>6, <1>7, <1>8, Zenon DEF Keeps

\* A chain of errors stays one.
LEMMA ErrorNext ==
    ASSUME ErrorInv, [ServiceNext]_serviceVars
    PROVE  ErrorInv'
  <1>1. CASE err' = err
    BY <1>1 DEF ErrorInv
  <1>2. ASSUME NEW l \in Links, err' = <<l>> \o err PROVE ErrorInv'
    <2> HIDE DEF Links
    <2> QED
      BY <1>2, Prepended DEF ErrorInv
  <1>3. ASSUME NEW c \in Failure!Codes \cup {""}, NEW d \in BOOLEAN, NEW p \in Failure!Phrases
        PROVE  Failure!Link(c, d, p) \in Links
    BY Zenon DEF Links, Failure!Link
  <1>4. "" \in Failure!Codes \cup {""} /\ "INTERNAL_ERROR" \in Failure!Codes /\ FALSE \in BOOLEAN
    BY DEF Failure!Codes
  <1>5. CASE Failure!NewError
    <2>1. PICK l \in Links : err = <<>> /\ err' = <<l>>
      BY <1>3, <1>5, Zenon DEF Failure!NewError
    <2> HIDE DEF Links
    <2> QED
      BY <2>1 DEF ErrorInv
  <1>6. CASE Failure!Annotate
    BY <1>2, <1>3, <1>4, <1>6, Zenon DEF Failure!Annotate
  <1>7. CASE Failure!WrapError
    <2>0. SUFFICES ASSUME err' # err PROVE ErrorInv'
      BY <1>1
    <2>1. PICK p \in Failure!Phrases :
            err' = <<IF Failure!DomainLinks(err) = {} THEN Failure!Link("INTERNAL_ERROR", FALSE, p)
                     ELSE Failure!Link(Failure!GetErrorCode(err),
                                       Failure!GetDomainError(err).details, p)>> \o err
      BY <1>7, <2>0, Zenon DEF Failure!WrapError
    <2>2. CASE Failure!DomainLinks(err) = {}
      BY <1>2, <1>3, <1>4, <2>1, <2>2, Zenon
    <2>3. CASE Failure!DomainLinks(err) # {}
      <3>1. PICK m \in Failure!DomainLinks(err) :
              (\A j \in Failure!DomainLinks(err) : m <= j) /\ err[m] \in Links
        BY Zenon, <2>3, FirstLinkExists DEF ErrorInv
      <3>2. /\ Failure!GetDomainError(err) = err[m]
            /\ Failure!GetErrorCode(err) = err[m].code
        BY <3>1, FirstLink DEF ErrorInv
      <3>3. /\ Failure!GetErrorCode(err) \in Failure!Codes \cup {""}
            /\ Failure!GetDomainError(err).details \in BOOLEAN
        BY Zenon, <3>1, <3>2 DEF Links
      <3> QED
        BY <1>2, <1>3, <2>1, <2>3, <3>3, Zenon
    <2> QED
      BY <2>2, <2>3
  <1>8. CASE Failure!Reclassify
    BY <1>2, <1>3, <1>8, Zenon DEF Failure!Reclassify
  <1>9. CASE Failure!WithDetails
    <2>1. err # <<>> /\ err \in Seq(Links)
      BY Zenon, <1>9 DEF Failure!WithDetails, ErrorInv
    <2>2. Head(err) \in Links /\ Tail(err) \in Seq(Links)
      <3> HIDE DEF Links
      <3> QED
        BY <2>1
    <2>3. [Head(err) EXCEPT !.details = TRUE] \in Links
      BY Zenon, <2>2 DEF Links
    <2>4. err' = <<[Head(err) EXCEPT !.details = TRUE]>> \o Tail(err)
      BY <1>9, Zenon DEF Failure!WithDetails
    <2>5. <<[Head(err) EXCEPT !.details = TRUE]>> \o Tail(err) \in Seq(Links)
      BY ONLY <2>2, <2>3, Prepended, Zenon
    <2> QED
      BY ONLY <2>4, <2>5, Zenon DEF ErrorInv
  <1> QED
    BY <1>1, <1>5, <1>6, <1>7, <1>8, <1>9, Zenon
       DEF ServiceNext, serviceVars, UserStep, InternalStep, ErrorStep, ProbeStep,
           Failure!ErrorsNext

Meaning ==
    /\ Failure!GetHTTPStatus(err') = Failure!GetHTTPStatus(err)
    /\ Failure!DomainLinks(err) # {} =>
        Failure!GetDomainError(err').details = Failure!GetDomainError(err).details
    /\ \A c \in Failure!Codes : Failure!Is(err, c) => Failure!Is(err', c)
    /\ Failure!Translate(err) \subseteq Failure!Translate(err') \cup {500}

\* Two chains whose codes mean the same are answered with the same status.
LEMMA SameStatus ==
    ASSUME NEW e, NEW f,
           \/ Failure!GetErrorCode(f) = Failure!GetErrorCode(e)
           \/ Failure!GetErrorCode(f) = "INTERNAL_ERROR" /\ Failure!GetErrorCode(e) = ""
    PROVE  Failure!GetHTTPStatus(f) = Failure!GetHTTPStatus(e)
  BY ZenonT(40) DEF Failure!GetHTTPStatus

LEMMA WrapKeeps ==
    ASSUME ErrorInv, Failure!WrapError \/ Failure!Annotate
    PROVE  Meaning
  <1>0. err \in Seq(Links)
    BY DEF ErrorInv
  <1>1. CASE Failure!Annotate
    <2>1. PICK p \in Failure!Phrases : err' = <<Failure!Link("", FALSE, p)>> \o err
      BY <1>1, Zenon DEF Failure!Annotate
    <2>2. Failure!Link("", FALSE, p) \in Links /\ Failure!Link("", FALSE, p).code = ""
      BY DEF Links, Failure!Link
    <2>3. /\ \A c : Failure!Is(err, c) => Failure!Is(err', c)
          /\ Failure!Translate(err) \subseteq Failure!Translate(err') \cup {500}
          /\ Failure!DomainLinks(err) = {} => Failure!DomainLinks(err') = {}
          /\ Failure!DomainLinks(err) # {} =>
                /\ Failure!DomainLinks(err') # {}
                /\ Failure!GetDomainError(err') = Failure!GetDomainError(err)
      <3>1. Keeps(err, Failure!Link("", FALSE, p), err')
        BY Zenon, <1>0, <2>1, <2>2, PrependedKeeps
      <3> QED
        BY ONLY <2>2, <3>1, Zenon DEF Keeps
    <2>4. Failure!GetErrorCode(err') = Failure!GetErrorCode(err)
      BY ONLY <2>3, Zenon DEF Failure!GetErrorCode
    <2>5. Failure!GetHTTPStatus(err') = Failure!GetHTTPStatus(err)
      BY ONLY <2>4, SameStatus, Zenon
    <2> QED
      BY ONLY <2>3, <2>5, Zenon DEF Meaning
  <1>2. CASE Failure!WrapError
    <2>0. SUFFICES ASSUME err' # err PROVE Meaning
      <3>1. Failure!Translate(err) \subseteq Failure!Translate(err) \cup {500}
        BY Zenon
      <3>2. err' = err => Meaning
        BY ONLY <3>1, Zenon DEF Meaning
      <3> QED
        BY <3>2
    <2>1. PICK p \in Failure!Phrases :
            err' = <<IF Failure!DomainLinks(err) = {} THEN Failure!Link("INTERNAL_ERROR", FALSE, p)
                     ELSE Failure!Link(Failure!GetErrorCode(err),
                                       Failure!GetDomainError(err).details, p)>> \o err
      BY <1>2, <2>0, Zenon DEF Failure!WrapError
    <2>2. ASSUME NEW l \in Links, l.code # "", err' = <<l>> \o err
          PROVE  /\ \A c : Failure!Is(err, c) => Failure!Is(err', c)
                 /\ Failure!Translate(err) \subseteq Failure!Translate(err') \cup {500}
                 /\ Failure!GetDomainError(err') = l /\ Failure!GetErrorCode(err') = l.code
      <3>1. /\ \A c : Failure!Is(err, c) => Failure!Is(err', c)
            /\ Failure!Translate(err) \subseteq Failure!Translate(err') \cup {500}
            /\ Failure!DomainLinks(err') # {} /\ Failure!GetDomainError(err') = l
        <4>1. Keeps(err, l, err')
          BY Zenon, <1>0, <2>2, PrependedKeeps
        <4> QED
          BY ONLY <2>2, <4>1, Zenon DEF Keeps
      <3> QED
        BY ONLY <3>1, Zenon DEF Failure!GetErrorCode
    <2>3. CASE Failure!DomainLinks(err) = {}
      <3> DEFINE l == Failure!Link("INTERNAL_ERROR", FALSE, p)
      <3>1. l \in Links /\ l.code = "INTERNAL_ERROR"
        BY DEF Links, Failure!Link, Failure!Codes
      <3>2. err' = <<l>> \o err
        BY <2>1, <2>3, Zenon
      <3>3. Failure!GetErrorCode(err) = ""
        BY <2>3, Zenon DEF Failure!GetErrorCode
      <3> HIDE DEF l
      <3>4. /\ \A c : Failure!Is(err, c) => Failure!Is(err', c)
            /\ Failure!Translate(err) \subseteq Failure!Translate(err') \cup {500}
            /\ Failure!GetErrorCode(err') = "INTERNAL_ERROR"
        BY ONLY Zenon, <2>2, <3>1, <3>2
      <3>5. Failure!GetHTTPStatus(err') = Failure!GetHTTPStatus(err)
        BY ONLY <3>3, <3>4, SameStatus, Zenon
      <3> QED
        BY ONLY <2>3, <3>4, <3>5, Zenon DEF Meaning
    <2>4. CASE Failure!DomainLinks(err) # {}
      <3>1. PICK m \in Failure!DomainLinks(err) :
              /\ \A j \in Failure!DomainLinks(err) : m <= j
              /\ err[m] \in Links /\ err[m].code # ""
        BY Zenon, <1>0, <2>4, FirstLinkExists
      <3>2. /\ Failure!GetDomainError(err) = err[m]
            /\ Failure!GetErrorCode(err) = err[m].code
        BY Zenon, <1>0, <3>1, FirstLink
      <3> DEFINE l == Failure!Link(err[m].code, err[m].details, p)
      <3>3. l \in Links /\ l.code = err[m].code /\ l.details = err[m].details
        BY Zenon, <3>1 DEF Links, Failure!Link
      <3>4. err' = <<l>> \o err
        BY <2>1, <2>4, <3>2, Zenon
      <3> HIDE DEF l
      <3>5. /\ \A c : Failure!Is(err, c) => Failure!Is(err', c)
            /\ Failure!Translate(err) \subseteq Failure!Translate(err') \cup {500}
            /\ Failure!GetDomainError(err') = l
            /\ Failure!GetErrorCode(err') = l.code
        BY ONLY <2>2, <3>1, <3>3, <3>4, Zenon
      <3>6. Failure!GetHTTPStatus(err') = Failure!GetHTTPStatus(err)
        BY ONLY <3>2, <3>3, <3>5, SameStatus, Zenon
      <3> QED
        BY ONLY <3>2, <3>3, <3>5, <3>6, Zenon DEF Meaning
    <2> QED
      BY <2>3, <2>4
  <1> QED
    BY <1>1, <1>2

\* WrapError and fmt.Errorf with %w never change what an error means, however
\* long the chain has become and whatever it is made of: the status, the
\* details of its DomainError and every predicate stay, and a phrase that a
\* translator answered for is still there.
THEOREM WrappingKeepsMeaningHolds == ServiceSpec => WrappingKeepsMeaning
  <1>1. ServiceInit => ErrorInv
    BY DEF ServiceInit, Failure!ErrorsInit, ErrorInv
  <1>2. ErrorInv /\ [ServiceNext]_serviceVars => ErrorInv'
    BY ErrorNext
  <1>3. ErrorInv => [Failure!WrapError \/ Failure!Annotate => Meaning]_err
    BY WrapKeeps
  <1>4. [][Failure!WrapError \/ Failure!Annotate => Meaning]_err => WrappingKeepsMeaning
    BY DEF WrappingKeepsMeaning, Meaning
  <1> QED
    BY <1>1, <1>2, <1>3, <1>4, PTL DEF ServiceSpec

=============================================================================
