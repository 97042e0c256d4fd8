------------------------------- MODULE Int64 --------------------------------
(***************************************************************************)
(* Go's int and int64, and the float64 conversions of src/domain, for      *)
(* integers of any width and floats of any precision.                      *)
(***************************************************************************)
EXTENDS Integers

CONSTANTS
    MaxInt,     \* math.MaxInt64
    Precision,  \* float64 holds every integer up to this one; 2^53 there
    Scale,      \* floats are counted in quanta, and 1 is this many
    Ulps        \* the gaps between neighbouring floats, in quanta

ASSUME IntAssumption == MaxInt \in Nat \ {0} /\ Precision \in Nat \ {0}

\* The gaps are powers of two from the quantum up, and a hundredth is not so
\* small that digits are lost.
ASSUME FloatAssumption ==
    /\ Ulps \subseteq Nat \ {0} /\ Scale \in Ulps
    /\ \A u \in Ulps : u = 1 \/ \E v \in Ulps : u = 2 * v
    /\ 50 * Precision <= Scale

MinInt == -MaxInt - 1
Modulus == 2 * MaxInt + 2
Ints == MinInt..MaxInt

\* A sum or difference of two integers leaves the range by less than Modulus.
Wrap(x) ==
    IF x > MaxInt THEN x - Modulus ELSE IF x < MinInt THEN x + Modulus ELSE x

\* A product.
WrapProduct(x) == ((x - MinInt) % Modulus) + MinInt

Magnitude(x) == IF x < 0 THEN -x ELSE x

\* The multiple of unit next to x; of two, the even one.
RoundEven(x, unit) ==
    LET below == x - (x % unit)
        rest == 2 * (x - below)
    IN  IF rest < unit \/ (rest = unit /\ (below \div unit) % 2 = 0)
        THEN below ELSE below + unit

\* The gap between the floats around num / den quanta, den > 0.
Ulp(num, den) ==
    LET Fits(u) == Magnitude(num) <= Precision * den * u
    IN  CHOOSE u \in Ulps : Fits(u) /\ \A v \in Ulps : v < u => ~Fits(v)

\* The float next to num / den quanta, the result of every operation.
Float(num, den) ==
    LET size == RoundEven(Magnitude(num), den * Ulp(num, den)) \div den
    IN  IF num < 0 THEN -size ELSE size

\* float64(x), exact up to Precision.
ToFloat(x) ==
    IF Magnitude(x) <= Precision THEN x * Scale ELSE Float(x * Scale, 1)

\* math.Round: half away from zero.
Round(f) ==
    IF f >= 0 THEN (2 * f + Scale) \div (2 * Scale)
    ELSE -((2 * (-f) + Scale) \div (2 * Scale))

\* int64(f) of a whole float: out of range the result is the platform's: the smallest integer
\* on amd64, the nearest one on arm64.
FromFloat(f) ==
    IF f \in Ints THEN {f} ELSE {MinInt, IF f > 0 THEN MaxInt ELSE MinInt}
=============================================================================
