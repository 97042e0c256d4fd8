------------------------------ MODULE Readiness ------------------------------
(***************************************************************************)
(* GET /health/ready (src/middleware/health.go): a goroutine per check     *)
(* sends its outcome to a buffered channel; the handler collects until     *)
(* every check has answered or the context is done, by the readiness       *)
(* timeout or because the client has gone.  A check may hang for ever.     *)
(***************************************************************************)
EXTENDS Naturals, FiniteSets, Sequences

CONSTANTS
    Deps,
    Name    \* per dependency: its Name()

VARIABLES
    deps,    \* the checks RegisterHealth was given
    checks,  \* per dependency: "running", "ok", "fail", then "exited"
    passed,  \* ghost: the checks that returned no error
    ch,      \* the channel: outcomes in the order they were sent
    results, \* the names answered so far, each "ok" or "fail"
    pending, \* the outcomes still to collect
    done,    \* ctx is done
    code     \* the status of the answer; 0 before it

probeVars == <<deps, checks, passed, ch, results, pending, done, code>>

ProbeInit ==
    /\ deps \in SUBSET Deps
    /\ checks = [d \in deps |-> "running"]
    /\ passed = {}
    /\ ch = <<>>
    /\ results = <<>>
    /\ pending = Cardinality(deps)
    /\ done = FALSE
    /\ code = 0

\* d.Check(ctx) returns, at any time or never.
CheckReturns(d) ==
    /\ checks[d] = "running"
    /\ \/ checks' = [checks EXCEPT ![d] = "ok"] /\ passed' = passed \cup {d}
       \/ checks' = [checks EXCEPT ![d] = "fail"] /\ UNCHANGED passed
    /\ UNCHANGED <<deps, ch, results, pending, done, code>>

\* The send on the channel, whose capacity is the number of checks.
Send_Unbuffered(d) ==
    /\ checks[d] \in {"ok", "fail"} /\ ch = <<>> /\ code = 0
    /\ ch' = Append(ch, [name |-> Name[d], result |-> checks[d]])
    /\ checks' = [checks EXCEPT ![d] = "exited"]
    /\ UNCHANGED <<deps, passed, results, pending, done, code>>
Send(d) ==
    /\ checks[d] \in {"ok", "fail"} /\ Len(ch) < Cardinality(deps)
    /\ ch' = Append(ch, [name |-> Name[d], result |-> checks[d]])
    /\ checks' = [checks EXCEPT ![d] = "exited"]
    /\ UNCHANGED <<deps, passed, results, pending, done, code>>

CtxDone ==
    /\ ~done /\ done' = TRUE
    /\ UNCHANGED <<deps, checks, passed, ch, results, pending, code>>

Put(old, names, result) ==
    [n \in DOMAIN old \cup names |-> IF n \in names THEN result ELSE old[n]]

StatusCode(answers) == IF \A n \in DOMAIN answers : answers[n] = "ok" THEN 200 ELSE 503

\* The select takes an outcome ...
Collect ==
    /\ code = 0 /\ pending > 0 /\ ch # <<>>
    /\ results' = Put(results, {Head(ch).name}, Head(ch).result)
    /\ ch' = Tail(ch) /\ pending' = pending - 1
    /\ UNCHANGED <<deps, checks, passed, done, code>>

\* ... or ctx.Done, also when an outcome is there: the rest has not answered.
BudgetSpent_DropsUnanswered ==
    /\ code = 0 /\ pending > 0 /\ done
    /\ code' = StatusCode(results)
    /\ UNCHANGED <<deps, checks, passed, ch, results, pending, done>>
BudgetSpent ==
    /\ code = 0 /\ pending > 0 /\ done
    /\ results' = Put(results, {Name[d] : d \in deps} \ DOMAIN results, "fail")
    /\ code' = StatusCode(results')
    /\ UNCHANGED <<deps, checks, passed, ch, pending, done>>

\* Every check has answered; cancel runs when the handler returns.
AllAnswered ==
    /\ code = 0 /\ pending = 0
    /\ code' = StatusCode(results)
    /\ done' = TRUE
    /\ UNCHANGED <<deps, checks, passed, ch, results, pending>>

Collector == Collect \/ BudgetSpent \/ AllAnswered

ProbeNext ==
    \/ CtxDone \/ Collector
    \/ \E d \in deps : CheckReturns(d) \/ Send(d)
=============================================================================
