--------------------------- MODULE InternalCalls ---------------------------
(***************************************************************************)
(* The shared token of the /internal/* routes (src/auth/internal_token.go, *)
(* internal_token_client.go).  Each service resolves INTERNAL_API_TOKEN    *)
(* when it boots and keeps the result, while the environments it and the   *)
(* others will boot from next are edited one at a time.                    *)
(***************************************************************************)
EXTENDS Integers

CONSTANTS
    Services,
    MaxEdits   \* bound: edits of an environment

VARIABLES
    env,    \* per service: what INTERNAL_API_TOKEN is set to
    appEnv, \* per service: APP_ENV
    wired,  \* per service: main passes the resolved token on; "" otherwise
    booted, \* per service: the value it booted from
    held,   \* per service: the token it holds; Down before it has booted
    edits

internalVars == <<env, appEnv, wired, booted, held, edits>>

\* A value of the variable: a text, with white space around it or not.
DevInternalToken == "dev-internal-token"
Texts == {"", DevInternalToken, "CHANGE_ME", "change_me", "short", "generated", "other"}
Values == [text : Texts, padded : BOOLEAN]
TrimSpace(value) == [value EXCEPT !.padded = FALSE]
ToUpper(text) == IF text = "change_me" THEN "CHANGE_ME" ELSE text
TooShort(text) == text \in {"", DevInternalToken, "short"}

NoValue == [text |-> "", padded |-> FALSE]
Down    == [text |-> "down", padded |-> FALSE]

\* "Local " stands for the names of development: "", dev, development, local
\* and test, in any case and padded.
AppEnvs == {"Local ", "production"}
IsDevEnv(app) == app = "Local "

InternalInit ==
    /\ env \in [Services -> {NoValue, [text |-> "generated", padded |-> TRUE]}]
    /\ appEnv \in [Services -> AppEnvs]
    /\ wired \in [Services -> BOOLEAN]
    /\ booted = env
    /\ held = [s \in Services |-> Down]
    /\ edits = 0

\* The token, or Down when it is refused.
Refused(token) ==
    \/ token.text = ""
    \/ token.text = DevInternalToken
    \/ ToUpper(token.text) = "CHANGE_ME"
    \/ TooShort(token.text)
Refused_CaseSensitive(token) ==
    \/ token.text = "CHANGE_ME"
    \/ TooShort(token.text)

ResolveInternalToken_NoTrim(app, value) ==
    IF IsDevEnv(app)
    THEN IF value.text = "" THEN [text |-> DevInternalToken, padded |-> FALSE] ELSE value
    ELSE IF Refused(value) THEN Down ELSE value
ResolveInternalToken_CaseSensitive(app, value) ==
    LET token == TrimSpace(value) IN
    IF IsDevEnv(app)
    THEN IF token.text = "" THEN [text |-> DevInternalToken, padded |-> FALSE] ELSE token
    ELSE IF Refused_CaseSensitive(token) THEN Down ELSE token
ResolveInternalToken(app, value) ==
    LET token == TrimSpace(value) IN
    IF IsDevEnv(app)
    THEN IF token.text = "" THEN [text |-> DevInternalToken, padded |-> FALSE] ELSE token
    ELSE IF Refused(token) THEN Down ELSE token

\* main boots, or boots again: MustResolveInternalToken panics on a refusal.
MustResolveInternalToken(s) ==
    /\ booted' = [booted EXCEPT ![s] = env[s]]
    /\ held' = [held EXCEPT ![s] = IF wired[s] THEN ResolveInternalToken(appEnv[s], env[s])
                                   ELSE NoValue]
    /\ UNCHANGED <<env, appEnv, wired, edits>>

Edit(s) ==
    /\ edits < MaxEdits /\ edits' = edits + 1
    /\ \E value \in Values \ {env[s]} : env' = [env EXCEPT ![s] = value]
    /\ UNCHANGED <<appEnv, wired, booted, held>>

InternalNext == \E s \in Services : MustResolveInternalToken(s) \/ Edit(s)

\* The header a client sets: none for an empty token.
RoundTrip(s) == held[s]

\* The middleware of service s on a request with that header.
InternalToken(s, header) ==
    /\ held[s] # NoValue
    /\ header # NoValue
    /\ header = held[s]

Accepts(s, t) == held[s] # Down /\ held[t] # Down /\ InternalToken(t, RoundTrip(s))
=============================================================================
