-------------------------------- MODULE JWT --------------------------------
(***************************************************************************)
(* JWTManager (src/auth/jwt.go): the three kinds of token it signs and the *)
(* checks it makes of one.  A token is the record of its claims, in whole  *)
(* seconds as the claims are; `signed` is FALSE for one that another key   *)
(* has signed.                                                             *)
(***************************************************************************)
EXTENDS Integers

CONSTANTS AccessTTL, RefreshTTL, TempTTL

NoToken == [user |-> "", role |-> "", type |-> "", exp |-> 0, signed |-> FALSE]

generateToken(user, role, type, exp) ==
    [user |-> user, role |-> role, type |-> type, exp |-> exp, signed |-> TRUE]

GenerateTokenPair(user, role, now) ==
    {generateToken(user, role, "access", now + AccessTTL),
     generateToken(user, role, "refresh", now + RefreshTTL)}

\* The purpose is also the role.
GenerateTempToken(user, purpose, now) ==
    generateToken(user, purpose, "temp", now + TempTTL)

\* Signature, method and expiry, and nothing else.
parseToken(token, now) == token.signed /\ now < token.exp

ValidateTokenOfType(token, want, now) == parseToken(token, now) /\ token.type = want

ValidateToken_AnyType(token, now) == parseToken(token, now)
ValidateToken(token, now) == ValidateTokenOfType(token, "access", now)
=============================================================================
