------------------------------- MODULE Money --------------------------------
(***************************************************************************)
(* The value object Money (src/domain/money.go): an amount in cents and a  *)
(* currency.  An operation that may fail returns [ok, value], and one that *)
(* converts a float64 to cents one result per platform.                    *)
(***************************************************************************)
EXTENDS Int64, Sequences

CONSTANTS DefaultCurrency

Money(cents, currency) == [amount |-> cents, currency |-> currency]

OrDefault(currency) == IF currency = "" THEN DefaultCurrency ELSE currency

FromCents(cents, currency) == Money(cents, OrDefault(currency))
Zero(currency) == Money(0, OrDefault(currency))

NewMoney_Truncates(amount, currency) ==
    LET cents == Float(amount * 100, 1)
    IN  {Money(c, OrDefault(currency)) :
            c \in FromFloat(IF cents < 0 THEN -((-cents) \div Scale) ELSE cents \div Scale)}
NewMoney(amount, currency) ==
    {Money(c, OrDefault(currency)) : c \in FromFloat(Round(Float(amount * 100, 1)))}

Amount(m) == Float(ToFloat(m.amount), 100)

Failed == [ok |-> FALSE, value |-> Money(0, "")]
Ok(m) == [ok |-> TRUE, value |-> m]

Add_Saturates(m, other) ==
    IF m.currency # other.currency THEN Failed
    ELSE LET sum == m.amount + other.amount
         IN  Ok(Money(IF sum > MaxInt THEN MaxInt ELSE IF sum < MinInt THEN MinInt
                      ELSE sum, m.currency))
Add(m, other) ==
    IF m.currency # other.currency THEN Failed
    ELSE Ok(Money(Wrap(m.amount + other.amount), m.currency))

Subtract(m, other) ==
    IF m.currency # other.currency THEN Failed
    ELSE Ok(Money(Wrap(m.amount - other.amount), m.currency))

Multiply(m, factor) ==
    {Money(c, m.currency) :
        c \in FromFloat(Round(Float(ToFloat(m.amount) * factor, Scale)))}

\* Of [ok, value].
Divide(m, divisor) ==
    IF divisor = 0 THEN {Failed}
    ELSE LET signed == IF divisor < 0 THEN -ToFloat(m.amount) ELSE ToFloat(m.amount)
         IN  {Ok(Money(c, m.currency)) :
                c \in FromFloat(Round(Float(signed * Scale, Magnitude(divisor))))}

Percentage(m, percent) == Multiply(m, Float(percent, 100))

Negate(m) == Money(Wrap(-m.amount), m.currency)
Abs(m) == IF m.amount < 0 THEN Negate(m) ELSE m

GreaterThan(m, other) == m.currency = other.currency /\ m.amount > other.amount
GreaterThanOrEqual(m, other) == m.currency = other.currency /\ m.amount >= other.amount
LessThan(m, other) == m.currency = other.currency /\ m.amount < other.amount
LessThanOrEqual(m, other) == m.currency = other.currency /\ m.amount <= other.amount

Max(m, other) == IF GreaterThan(other, m) THEN other ELSE m
Min(m, other) == IF LessThan(other, m) THEN other ELSE m

SumMoney(values) ==
    LET sum[i \in 1..Len(values)] ==
            IF i = 1 THEN Ok(values[1])
            ELSE IF sum[i - 1].ok THEN Add(sum[i - 1].value, values[i]) ELSE Failed
    IN  IF values = <<>> THEN Ok(Zero(DefaultCurrency)) ELSE sum[Len(values)]

-----------------------------------------------------------------------------
(* Encodings.  JSON carries the shortest digits that are read as the same   *)
(* float64, and so do the drivers.                                          *)

MarshalJSON(m) == [amount |-> Amount(m), currency |-> m.currency]

\* An object, or a plain number.
UnmarshalJSON(json) == NewMoney(json.amount, json.currency)
UnmarshalNumber(amount) == NewMoney(amount, DefaultCurrency)

\* The column holds the amount alone.
Value(m) == Amount(m)

\* The driver hands Scan a float64 or the digits of a decimal column, an
\* int64 for a whole number, or NULL.
ScanFloat(amount) == NewMoney(amount, DefaultCurrency)
ScanInt(units) == FromCents(WrapProduct(units * 100), DefaultCurrency)
ScanNull == Zero(DefaultCurrency)
=============================================================================
