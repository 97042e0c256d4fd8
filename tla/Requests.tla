------------------------------ MODULE Requests ------------------------------
(***************************************************************************)
(* The middlewares in front of a handler: AuthMiddleware, RoleMiddleware,  *)
(* RequireAdmin and RequireAdminWithJWT (src/middleware/auth.go), over the *)
(* tokens of src/auth/jwt.go.  Users log in, are promoted and demoted, and *)
(* their tokens outlive the role they were signed with.  The user service  *)
(* that stores the roles and asks for tokens is external.                  *)
(***************************************************************************)
EXTENDS JWT, FiniteSets

CONSTANTS
    Users, Slots,   \* requests being served
    MaxTime,        \* bound: seconds
    MaxTokens       \* bound: tokens signed

ASSUME TTLAssumption ==
    /\ AccessTTL \in Nat /\ RefreshTTL \in Nat /\ TempTTL \in Nat
    /\ MaxTime \in Nat /\ MaxTokens \in Nat

VARIABLES
    now,
    role,       \* per user: the role the user service stores
    adminUntil, \* ghost, per user: when it was last admin, long ago at first
    minted,     \* the tokens in circulation
    check,      \* the role check of the route
    pc,         \* per request
    token,      \* per request: the token AuthMiddleware found, then its claims
    checkedAt   \* ghost, per request: when its token was validated

users   == <<now, role, adminUntil, minted>>
serving == <<pc, token, checkedAt>>
vars    == <<users, check, serving>>

Admins == {"admin", "super_admin"}
Roles  == Admins \cup {"customer"}
Checks == {"none", "role", "admin", "adminjwt"}

\* A token signed before token_type was a claim, and one of another key.
Legacy(u) == [generateToken(u, "admin", "", RefreshTTL) EXCEPT !.type = ""]
Foreign(u) == [generateToken(u, "admin", "access", RefreshTTL) EXCEPT !.signed = FALSE]

Init ==
    /\ now = 0
    /\ role \in [Users -> Roles]
    /\ adminUntil = [u \in Users |-> -AccessTTL]
    /\ minted \in SUBSET UNION {{Legacy(u), Foreign(u)} : u \in Users}
    /\ check \in Checks
    /\ pc = [r \in Slots |-> "idle"]
    /\ token = [r \in Slots |-> NoToken]
    /\ checkedAt = [r \in Slots |-> 0]

Tick ==
    /\ now < MaxTime /\ now' = now + 1
    /\ UNCHANGED <<role, adminUntil, minted, check, serving>>

-----------------------------------------------------------------------------
(* The user service.                                                        *)

SetRole(u, new) ==
    /\ role[u] # new
    /\ role' = [role EXCEPT ![u] = new]
    /\ adminUntil' = IF role[u] \in Admins THEN [adminUntil EXCEPT ![u] = now]
                     ELSE adminUntil
    /\ UNCHANGED <<now, minted, check, serving>>

\* A login, or the first factor of one that needs a second.
Login(u) ==
    /\ Cardinality(minted) < MaxTokens
    /\ \/ minted' = minted \cup GenerateTokenPair(u, role[u], now)
       \/ minted' = minted \cup {GenerateTempToken(u, "2fa_pending", now)}
    /\ UNCHANGED <<now, role, adminUntil, check, serving>>

-----------------------------------------------------------------------------
(* Authentication.                                                          *)

\* The access_token cookie, and the Authorization header without one.
Presented(cookie, bearer) == IF cookie # NoToken THEN cookie ELSE bearer

RoleAllowed(claims, allowedRoles) == claims.role \in allowedRoles

\* After AuthMiddleware; a claim of an empty role is answered 401, not 403.
RequireAdmin(claims) == claims.role # "" /\ claims.role \in Admins

\* A copy of AuthMiddleware and RequireAdmin in one.
RequireAdminWithJWT(cookie, bearer) ==
    LET claims == Presented(cookie, bearer) IN
    ValidateToken(claims, now) /\ claims.role \in Admins

Arrive(r) ==
    /\ pc[r] = "idle"
    /\ \E cookie, bearer \in minted \cup {NoToken} :
        token' = [token EXCEPT ![r] = Presented(cookie, bearer)]
    /\ pc' = [pc EXCEPT ![r] = "auth"]
    /\ UNCHANGED <<users, check, checkedAt>>

Goes(r, to) == pc' = [pc EXCEPT ![r] = to]

\* The request is answered.
Ends(r) ==
    /\ Goes(r, "idle")
    /\ token' = [token EXCEPT ![r] = NoToken]
    /\ checkedAt' = [checkedAt EXCEPT ![r] = 0]
    /\ UNCHANGED <<users, check>>

AuthMiddleware(r) ==
    /\ pc[r] = "auth"
    /\ \/ /\ ValidateToken(token[r], now)
          /\ checkedAt' = [checkedAt EXCEPT ![r] = now]
          /\ \/ check = "none" /\ Goes(r, "handler")
             \/ check \in {"role", "admin"} /\ Goes(r, "role")
             \/ /\ check = "adminjwt" /\ RequireAdminWithJWT(token[r], NoToken)
                /\ Goes(r, "handler")
          /\ UNCHANGED <<users, check, token>>
       \/ /\ IF check = "adminjwt" THEN ~RequireAdminWithJWT(token[r], NoToken)
             ELSE ~ValidateToken(token[r], now)
          /\ Ends(r)

RoleMiddleware(r) ==
    /\ pc[r] = "role"
    /\ LET ok == IF check = "role" THEN RoleAllowed(token[r], Admins)
                 ELSE RequireAdmin(token[r])
       IN \/ ok /\ Goes(r, "handler") /\ UNCHANGED <<users, check, token, checkedAt>>
          \/ ~ok /\ Ends(r)

HandlerEnds(r) == pc[r] = "handler" /\ Ends(r)

Next ==
    \/ Tick
    \/ \E u \in Users : Login(u) \/ \E new \in Roles : SetRole(u, new)
    \/ \E r \in Slots : \/ Arrive(r) \/ AuthMiddleware(r)
                        \/ RoleMiddleware(r) \/ HandlerEnds(r)

Spec == Init /\ [][Next]_vars

-----------------------------------------------------------------------------
(* Properties.                                                              *)

Tokens ==
    [user : Users, role : Roles \cup {"2fa_pending"},
     type : {"access", "refresh", "temp", ""}, exp : Nat, signed : BOOLEAN]

TypeOK ==
    /\ now \in Nat
    /\ role \in [Users -> Roles]
    /\ adminUntil \in [Users -> Int]
    /\ minted \subseteq Tokens
    /\ check \in Checks
    /\ pc \in [Slots -> {"idle", "auth", "role", "handler"}]
    /\ token \in [Slots -> Tokens \cup {NoToken}]
    /\ checkedAt \in [Slots -> Nat]

\* "Every token this manager mints carries exactly one" purpose: a role that
\* was taken away can be exercised for less than the access token's lifetime.
\* The handler of an admin route runs only for a user who was admin less
\* than AccessTTL before the token was checked, whatever longer-lived refresh,
\* temporary or legacy tokens are in circulation.
AuthorityIsBounded ==
    \A r \in Slots :
        pc[r] = "handler" /\ check # "none" =>
            \/ role[token[r].user] \in Admins
            \/ checkedAt[r] - adminUntil[token[r].user] < AccessTTL
=============================================================================
