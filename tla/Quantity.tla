------------------------------ MODULE Quantity ------------------------------
(***************************************************************************)
(* The value object Quantity (src/domain/quantity.go): a number and an     *)
(* optional unit.  An operation that may fail returns [ok, value].         *)
(***************************************************************************)
EXTENDS Int64, Sequences

Quantity(value, unit) == [value |-> value, unit |-> unit]
ZeroQuantity == Quantity(0, "")

Failed == [ok |-> FALSE, value |-> ZeroQuantity]
Ok(q) == [ok |-> TRUE, value |-> q]

QuantityWithUnit(value, unit) == IF value < 0 THEN Failed ELSE Ok(Quantity(value, unit))
NewQuantity(value) == QuantityWithUnit(value, "")

\* Two units clash when both are given and differ.
Clash(q, other) == q.unit # "" /\ other.unit # "" /\ q.unit # other.unit
CommonUnit(q, other) == IF q.unit = "" THEN other.unit ELSE q.unit

Add(q, other) ==
    LET newValue == Wrap(q.value + other.value) IN
    IF Clash(q, other) \/ newValue < q.value THEN Failed
    ELSE Ok(Quantity(newValue, CommonUnit(q, other)))

Subtract_Negative(q, other) ==
    IF Clash(q, other) THEN Failed
    ELSE Ok(Quantity(Wrap(q.value - other.value), CommonUnit(q, other)))
Subtract(q, other) ==
    IF Clash(q, other) \/ other.value > q.value THEN Failed
    ELSE Ok(Quantity(Wrap(q.value - other.value), CommonUnit(q, other)))

CanSubtract(q, other) == ~Clash(q, other) /\ q.value >= other.value

Multiply(q, factor) ==
    IF factor < 0 THEN Failed ELSE Ok(Quantity(WrapProduct(q.value * factor), q.unit))

GreaterThan(q, other) == ~Clash(q, other) /\ q.value > other.value
GreaterThanOrEqual(q, other) == ~Clash(q, other) /\ q.value >= other.value
LessThan(q, other) == ~Clash(q, other) /\ q.value < other.value
LessThanOrEqual(q, other) == ~Clash(q, other) /\ q.value <= other.value

Max(q, other) == IF GreaterThan(other, q) THEN other ELSE q
Min(q, other) == IF LessThan(other, q) THEN other ELSE q

WithUnit(q, unit) == Quantity(q.value, unit)

SumQuantities(values) ==
    LET sum[i \in 1..Len(values)] ==
            IF i = 1 THEN Ok(values[1])
            ELSE IF sum[i - 1].ok THEN Add(sum[i - 1].value, values[i]) ELSE Failed
    IN  IF values = <<>> THEN Ok(ZeroQuantity) ELSE sum[Len(values)]

-----------------------------------------------------------------------------
(* Encodings: a unitless quantity is a plain number in JSON, one with a     *)
(* unit an object; a column holds the value alone.                          *)

MarshalJSON(q) ==
    IF q.unit = "" THEN [number |-> TRUE, value |-> q.value]
    ELSE [number |-> FALSE, value |-> q.value, unit |-> q.unit]

UnmarshalJSON(json) ==
    IF json.number THEN NewQuantity(json.value) ELSE QuantityWithUnit(json.value, json.unit)

Value(q) == q.value

\* An int64 or an int; a float64, in halves, is cut towards zero; or NULL.
ScanInt(value) == NewQuantity(value)
ScanFloat(halves) ==
    NewQuantity(IF halves < 0 THEN -((-halves) \div 2) ELSE halves \div 2)
ScanNull == ZeroQuantity
=============================================================================
