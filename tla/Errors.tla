------------------------------- MODULE Errors -------------------------------
(***************************************************************************)
(* DomainError (src/domain/errors.go) on its way from the layer that fails *)
(* to the response: an error is the chain of errors Unwrap follows, the    *)
(* outermost first.  A link has a code ("" for an error of another type),  *)
(* whether it carries details, and the phrase of its message that an       *)
(* ErrorTranslator (src/response/response.go) may be registered for.       *)
(***************************************************************************)
EXTENDS Sequences, Naturals

CONSTANTS MaxLinks  \* bound: links of a chain

VARIABLES err       \* <<>> is nil

Codes == {"NOT_FOUND", "CONFLICT", "VALIDATION_ERROR", "CONCURRENT_MODIFICATION",
          "INSUFFICIENT_STOCK", "INVALID_STATE_TRANSITION", "UNAUTHORIZED",
          "FORBIDDEN", "INTERNAL_ERROR"}

Phrases == {"", "insufficient stock", "payment failed"}

Link(code, details, phrase) == [code |-> code, details |-> details, phrase |-> phrase]

\* errors.As: the first link that is a DomainError.
DomainLinks(e) == {i \in DOMAIN e : e[i].code # ""}
GetDomainError(e) == e[CHOOSE i \in DomainLinks(e) : \A j \in DomainLinks(e) : i <= j]

GetErrorCode(e) == IF DomainLinks(e) = {} THEN "" ELSE GetDomainError(e).code

\* IsNotFoundError and the others: errors.Is with the sentinel of a code asks
\* every link.
SameCode(link, code) == link.code = code
Is(e, code) == \E i \in DOMAIN e : SameCode(e[i], code)

GetHTTPStatus(e) ==
    LET code == GetErrorCode(e) IN
    CASE code = "NOT_FOUND" -> 404
      [] code \in {"CONFLICT", "CONCURRENT_MODIFICATION"} -> 409
      [] code \in {"VALIDATION_ERROR", "INSUFFICIENT_STOCK", "INVALID_STATE_TRANSITION"} -> 422
      [] code = "UNAUTHORIZED" -> 401
      [] code = "FORBIDDEN" -> 403
      [] OTHER -> 500

\* What Translate may answer: err.Error() holds the text of every link, and
\* with several registered phrases in it the order of a Go map decides.
Translate(e) ==
    LET found == {e[i].phrase : i \in DOMAIN e} \ {""} IN
    IF found = {} THEN {500}
    ELSE {IF p = "insufficient stock" THEN 409 ELSE 402 : p \in found}

ErrorsInit == err = <<>>

\* A constructor, or an error of a driver.
NewError ==
    /\ err = <<>>
    /\ \E code \in Codes \cup {""}, details \in BOOLEAN, phrase \in Phrases :
        /\ code = "" => ~details
        /\ err' = <<Link(code, details, phrase)>>

\* fmt.Errorf with %w.
Annotate ==
    /\ err # <<>> /\ Len(err) < MaxLinks
    /\ \E phrase \in Phrases : err' = <<Link("", FALSE, phrase)>> \o err

\* Of a nil error WrapError makes a nil *DomainError, which a caller compares
\* with nil as that type; stored in an error it would no longer equal nil.
WrapError_Internal ==
    \/ err = <<>> /\ UNCHANGED err
    \/ /\ err # <<>> /\ Len(err) < MaxLinks
       /\ \E phrase \in Phrases : err' = <<Link("INTERNAL_ERROR", FALSE, phrase)>> \o err
WrapError ==
    \/ err = <<>> /\ UNCHANGED err
    \/ /\ err # <<>> /\ Len(err) < MaxLinks
       /\ \E phrase \in Phrases :
            err' = <<IF DomainLinks(err) = {} THEN Link("INTERNAL_ERROR", FALSE, phrase)
                     ELSE Link(GetErrorCode(err), GetDomainError(err).details, phrase)>> \o err

\* The caller decides what the error means: WithError on another DomainError,
\* NewInternalError.
Reclassify ==
    /\ err # <<>> /\ Len(err) < MaxLinks
    /\ \E code \in Codes, details \in BOOLEAN, phrase \in Phrases :
        err' = <<Link(code, details, phrase)>> \o err

\* WithDetails copies the outermost link.
WithDetails ==
    /\ err # <<>> /\ Head(err).code # "" /\ ~Head(err).details
    /\ err' = <<[Head(err) EXCEPT !.details = TRUE]>> \o Tail(err)

ErrorsNext == NewError \/ Annotate \/ WrapError \/ Reclassify \/ WithDetails
=============================================================================
