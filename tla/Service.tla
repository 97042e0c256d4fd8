------------------------------ MODULE Service ------------------------------
(***************************************************************************)
(* A service built on the library, seen from its HTTP routes: its users'   *)
(* routes (Requests), its /internal/* routes (InternalCalls), its readiness *)
(* probe (Readiness) and the errors its handlers answer with (Errors).     *)
(* The four share no state, so a behaviour follows one of them.            *)
(***************************************************************************)
EXTENDS Requests, Readiness

CONSTANTS Services, MaxEdits, MaxLinks

ASSUME DepsAssumption == IsFiniteSet(Deps)

VARIABLES
    route, \* the part this behaviour follows
    env, appEnv, wired, booted, held, edits,
    err

Internal == INSTANCE InternalCalls
Failure  == INSTANCE Errors

internalVars == <<env, appEnv, wired, booted, held, edits>>
serviceVars  == <<route, vars, internalVars, probeVars, err>>

ServiceInit ==
    /\ route \in {"user", "internal", "ready", "error"}
    /\ Init /\ Internal!InternalInit /\ ProbeInit /\ Failure!ErrorsInit
    \* Of the parts that are not followed, one initial state is enough.
    /\ route # "user" => check = "none" /\ minted = {} /\ role = [u \in Users |-> "customer"]
    /\ route # "internal" =>
        /\ env = [s \in Services |-> Internal!NoValue]
        /\ appEnv = [s \in Services |-> "production"] /\ wired = [s \in Services |-> TRUE]
    /\ route # "ready" => deps = {}

UserStep ==
    route = "user" /\ Next /\ UNCHANGED <<route, internalVars, probeVars, err>>
InternalStep ==
    route = "internal" /\ Internal!InternalNext /\ UNCHANGED <<route, vars, probeVars, err>>
ErrorStep ==
    route = "error" /\ Failure!ErrorsNext /\ UNCHANGED <<route, vars, internalVars, probeVars>>

ProbeStep(A) == route = "ready" /\ A /\ UNCHANGED <<route, vars, internalVars, err>>

ServiceNext ==
    \/ UserStep \/ InternalStep \/ ErrorStep \/ ProbeStep(ProbeNext)

\* The readiness timeout fires, the handler and the senders run; the checks
\* themselves need not return.
ServiceSpec ==
    /\ ServiceInit /\ [][ServiceNext]_serviceVars
    /\ WF_serviceVars(ProbeStep(CtxDone))
    /\ WF_serviceVars(ProbeStep(Collector))
    /\ \A d \in Deps : WF_serviceVars(ProbeStep(d \in deps /\ Send(d)))

-----------------------------------------------------------------------------
(* Properties.                                                              *)

\* Outside development an internal route is only opened by a token that
\* something generated: whatever the environments are edited to and whoever
\* reboots when, no call is accepted on a published placeholder, in any case
\* and with any white space around it, on a short text or on none.
PublishedIsRefused ==
    \A s, t \in Services :
        Internal!Accepts(s, t) /\ ~Internal!IsDevEnv(appEnv[t]) =>
            held[s].text \in {"generated", "other"}

\* Services that booted from the same secret accept each other's calls, also
\* when their environments differ in the white space around it: callers and
\* callees are never locked out of each other by how the value was written.
SameSecretAgrees ==
    \A s, t \in Services :
        /\ wired[s] /\ wired[t]
        /\ held[s] # Internal!Down /\ held[t] # Internal!Down
        /\ booted[s].text = booted[t].text
        => Internal!Accepts(s, t)

\* "Returns 200 when all pass, 503 when any fails": a probe is answered 200
\* only when every check that has a name of its own has passed, also when the
\* budget ran out with answers in the channel.  (Checks that share a name
\* overwrite each other's result.)
ReadyMeansAllPassed ==
    code = 200 =>
        \A d \in deps : (\A e \in deps \ {d} : Name[e] # Name[d]) => d \in passed

\* Every probe is answered, even if checks hang, and the goroutine of a check
\* that returns late still ends: "a late check still finishes its send and
\* exits".
ProbeEnds ==
    /\ route = "ready" ~> code # 0
    /\ \A d \in Deps : (d \in deps /\ checks[d] \in {"ok", "fail"}) ~>
                      (d \in deps /\ checks[d] = "exited")

\* WrapError and %w keep what an error means: through any number of layers
\* the HTTP status, the details, every Is... predicate that held and, if a
\* translator knew the error, that it does.
WrappingKeepsMeaning ==
    [][Failure!WrapError \/ Failure!Annotate =>
        /\ Failure!GetHTTPStatus(err') = Failure!GetHTTPStatus(err)
        /\ Failure!DomainLinks(err) # {} =>
            Failure!GetDomainError(err').details = Failure!GetDomainError(err).details
        /\ \A c \in Failure!Codes : Failure!Is(err, c) => Failure!Is(err', c)
        /\ Failure!Translate(err) \subseteq Failure!Translate(err') \cup {500}]_err
=============================================================================
