------------------------------- MODULE Ledger -------------------------------
(***************************************************************************)
(* Services computing with the value objects of src/domain: a list of      *)
(* Money or of Quantity values, made by the constructors and decoders and  *)
(* changed by the operations.  An operation that fails changes nothing.    *)
(***************************************************************************)
EXTENDS Int64, Sequences, Functions

CONSTANTS
    DefaultCurrency, Currencies,
    Units,      \* with "", no unit
    Factors,    \* float64 factors, divisors and percentages
    MaxLines    \* bound: the length of the list

ASSUME LedgerAssumption ==
    /\ DefaultCurrency \in Currencies /\ DefaultCurrency # ""
    /\ \A f \in Factors : f \in Int /\ Float(f, 1) = f
    /\ MaxLines \in Nat

VARIABLES
    kind,    \* what the list holds: "money" or "quantity"
    list,
    wrapped  \* ghost: a Quantity.Multiply left the range of int

vars == <<kind, list, wrapped>>

M == INSTANCE Money
Q == INSTANCE Quantity

Init == kind \in {"money", "quantity"} /\ list = <<>> /\ wrapped = FALSE

Line == 1..Len(list)

Appends(x) ==
    /\ Len(list) < MaxLines /\ list' = Append(list, x)
    /\ UNCHANGED <<kind, wrapped>>

Replaces(i, x) == list' = [list EXCEPT ![i] = x] /\ UNCHANGED <<kind, wrapped>>

-----------------------------------------------------------------------------
(* Money                                                                    *)

\* Constructors and decoders of a new value.
MoneyMade ==
    /\ kind = "money"
    /\ \/ \E c \in Ints, cur \in Currencies \cup {""} : Appends(M!FromCents(c, cur))
       \/ \E c \in Ints : \E m \in M!UnmarshalNumber(Float(c * Scale, 100)) : Appends(m)
       \/ \E u \in Ints : Appends(M!ScanInt(u))
       \/ Appends(M!ScanNull)

MoneyComputed ==
    /\ kind = "money"
    /\ \E i, j \in Line :
         \/ \E r \in {M!Add(list[i], list[j]), M!Subtract(list[i], list[j])} :
                r.ok /\ Replaces(i, r.value)
         \/ \E m \in {M!Negate(list[i]), M!Abs(list[i]), M!Max(list[i], list[j]),
                      M!Min(list[i], list[j])} : Replaces(i, m)
         \/ \E f \in Factors :
               \/ \E m \in M!Multiply(list[i], f) \cup M!Percentage(list[i], f) :
                      Replaces(i, m)
               \/ \E r \in M!Divide(list[i], f) : r.ok /\ Replaces(i, r.value)

\* A value written to JSON or to a column, and read back.
MoneyStored ==
    /\ kind = "money"
    /\ \E i \in Line :
         \/ \E m \in M!UnmarshalJSON(M!MarshalJSON(list[i])) : Replaces(i, m)
         \/ \E m \in M!ScanFloat(M!Value(list[i])) : Replaces(i, m)

-----------------------------------------------------------------------------
(* Quantity                                                                 *)

QuantityMade ==
    /\ kind = "quantity"
    /\ \/ \E v \in Ints, u \in Units :
              LET r == Q!QuantityWithUnit(v, u) IN r.ok /\ Appends(r.value)
       \/ \E v \in Ints : LET r == Q!ScanFloat(v) IN r.ok /\ Appends(r.value)
       \/ Appends(Q!ScanNull)

QuantityComputed ==
    /\ kind = "quantity"
    /\ \E i, j \in Line :
         \/ \E r \in {Q!Add(list[i], list[j]), Q!Subtract(list[i], list[j])} :
                r.ok /\ Replaces(i, r.value)
         \/ \E q \in {Q!Max(list[i], list[j]), Q!Min(list[i], list[j])} : Replaces(i, q)
         \/ \E u \in Units : Replaces(i, Q!WithUnit(list[i], u))

\* Multiply checks the sign of the factor and not the range of the product.
QuantityMultiplied ==
    /\ kind = "quantity"
    /\ \E i \in Line, factor \in Ints :
         LET r == Q!Multiply(list[i], factor) IN
         /\ r.ok /\ list' = [list EXCEPT ![i] = r.value]
         /\ wrapped' = (wrapped \/ list[i].value * factor # r.value.value)
    /\ UNCHANGED kind

QuantityStored ==
    /\ kind = "quantity"
    /\ \E i \in Line :
         \E r \in {Q!UnmarshalJSON(Q!MarshalJSON(list[i])), Q!ScanInt(Q!Value(list[i]))} :
             r.ok /\ Replaces(i, r.value)

Next ==
    \/ MoneyMade \/ MoneyComputed \/ MoneyStored
    \/ QuantityMade \/ QuantityComputed \/ QuantityMultiplied \/ QuantityStored

Spec == Init /\ [][Next]_vars

-----------------------------------------------------------------------------
(* Properties.                                                              *)

\* The list in every order.
Orders == {[i \in Line |-> list[p[i]]] : p \in Bijection(Line, Line)}

Total(amounts) ==
    LET upTo[i \in 0..Len(amounts)] == IF i = 0 THEN 0 ELSE upTo[i - 1] + amounts[i]
    IN  upTo[Len(amounts)]

\* SumMoney and SumQuantities depend on nothing but what they add.  In every
\* order of the list SumMoney fails exactly when two currencies differ, and
\* otherwise returns the exact total when that fits an int64, even if a
\* partial sum wrapped around on the way.  For non-negative quantities
\* SumQuantities fails exactly when two units clash or the total does not
\* fit, although Add detects an overflow only by the sign of its result.
SumsAreExact ==
    LET number == [i \in Line |-> IF kind = "money" THEN list[i].amount ELSE list[i].value]
        total == Total(number)
    IN  list # <<>> => \A order \in Orders :
            IF kind = "money"
            THEN LET r == M!SumMoney(order) IN
                 /\ r.ok <=> \A i, j \in Line : list[i].currency = list[j].currency
                 /\ r.ok /\ total \in Ints => r.value.amount = total
            ELSE (\A i \in Line : number[i] >= 0) =>
                 LET r == Q!SumQuantities(order) IN
                 /\ r.ok <=> /\ total <= MaxInt
                             /\ \A i, j \in Line : ~Q!Clash(list[i], list[j])
                 /\ r.ok => r.value.value = total

\* The cents of an amount survive its journey through float64 units: below a
\* quarter of Precision (2^51 cents) the value read back from JSON is the one
\* that was written, and the one read back from a column has its amount, on
\* every platform.  The quotient by 100 and the product with 100 are both
\* rounded; math.Round has to absorb the two errors.
StoredMoneyReturns ==
    kind = "money" => \A i \in Line :
        4 * Magnitude(list[i].amount) < Precision =>
            /\ M!UnmarshalJSON(M!MarshalJSON(list[i])) = {list[i]}
            /\ M!ScanFloat(M!Value(list[i])) = {M!FromCents(list[i].amount, "")}

\* "Quantity represents a non-negative quantity value": no sequence of
\* operations makes a negative one, unless a Multiply left the range of int,
\* which the code does not check.
NonNegative ==
    kind = "quantity" /\ ~wrapped => \A i \in Line : list[i].value >= 0
=============================================================================
