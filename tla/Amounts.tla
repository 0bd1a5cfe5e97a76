------------------------------ MODULE Amounts ------------------------------
(***************************************************************************)
(* The fixed-point amounts of internal/ledger/amount.go: int64 values that *)
(* count units of 1 / AmountScale, the decimal texts the REST interface    *)
(* and the Kafka payload carry them in, and the two checked operations the *)
(* ledger's arithmetic is built from.                                      *)
(*                                                                         *)
(* The widths are constants.  The code has MaxInt = 2^63 - 1,              *)
(* AmountScale = 10^8, MaxAmount = 10^10 * AmountScale, MaxPower = 19 and  *)
(* MaxExponent = 1000; a model has values small enough for TLC that keep   *)
(* the relations the code's values have (AmountsAssumption).               *)
(*                                                                         *)
(* A text is either Malformed or a sign, the number its digits spell       *)
(* (whole part and fraction written together), how many of them are after  *)
(* the point, and the exponent.                                            *)
(***************************************************************************)
EXTENDS Integers

CONSTANTS
    AmountScale,            \* units of the int64 per whole unit of the amount
    AmountFractionDigits,   \* amountFractionDigits: AmountScale is 10^this
    MaxAmount,              \* the largest quantity or price accepted
    MaxInt,                 \* math.MaxInt64
    MaxPower,               \* the largest power of ten mulPow10 multiplies by
    MaxExponent,            \* the largest exponent ParseAmount accepts
    Malformed               \* any text that is not a decimal number

MinInt == -MaxInt - 1
MaxUint == 2 * MaxInt + 1
Ints == MinInt .. MaxInt

PowerOf10[n \in Nat] == IF n = 0 THEN 1 ELSE 10 * PowerOf10[n - 1]

ASSUME AmountsAssumption ==
    /\ AmountScale \in Nat \ {0}
    /\ MaxAmount \in Nat \ {0}
    /\ MaxInt \in Nat
    /\ MaxAmount <= MaxInt

\* The powers a text can need that fit an unsigned integer are the ones
\* mulPow10 computes.
ASSUME PowersAssumption ==
    /\ AmountFractionDigits \in Nat
    /\ MaxPower \in Nat
    /\ MaxExponent \in Nat
    /\ AmountScale = PowerOf10[AmountFractionDigits]
    /\ PowerOf10[MaxPower] <= MaxUint
    /\ PowerOf10[MaxPower + 1] > MaxUint

Abs(n) == IF n < 0 THEN -n ELSE n

\* The value and the error a Go function returns; the value of a failed call
\* is the zero the code returns with the error.
Ok(n) == [err |-> FALSE, value |-> n]
Failed == [err |-> TRUE, value |-> 0]

\* What int64 +, - and unary - compute of an exact result.
Wrap(n) == ((n - MinInt) % (MaxUint + 1)) + MinInt

-----------------------------------------------------------------------------
(* Texts.                                                                  *)

\* What a decimal text says, with or without an exponent, and what is none.
Decimals == [negative : BOOLEAN, digits : Nat, places : Nat, exponent : Int]
Texts == Decimals \cup {Malformed}

ASSUME MalformedAssumption == Malformed \notin Decimals

Text(negative, digits, places, exponent) ==
    [negative |-> negative, digits |-> digits,
     places |-> places, exponent |-> exponent]

\* Mutant of mulPow10: no test before each multiplication.
mulPow10Unchecked(base, power) ==
    LET Result[i \in 0 .. MaxPower] ==
            IF i = 0 THEN base ELSE (Result[i - 1] * 10) % (MaxUint + 1)
    IN  IF base = 0 THEN Ok(0)
        ELSE IF power < 0 \/ power > MaxPower THEN Failed
        ELSE Ok(Result[power])

\* base * 10^power, or an error where it does not fit a uint64.  The loop
\* tests before it multiplies; -1 stands for its error return.
mulPow10(base, power) ==
    LET Result[i \in 0 .. MaxPower] ==
            IF i = 0 THEN base
            ELSE IF Result[i - 1] = -1 \/ Result[i - 1] > MaxUint \div 10 THEN -1
            ELSE Result[i - 1] * 10
    IN  IF base = 0 THEN Ok(0)
        ELSE IF power < 0 \/ power > MaxPower \/ Result[power] = -1 THEN Failed
        ELSE Ok(Result[power])

\* A magnitude times 10^power, where a negative power must divide it exactly.
Rescaled(magnitude, power) ==
    LET divisor == mulPow10(1, -power) IN
    IF power >= 0 THEN mulPow10(magnitude, power)
    ELSE IF divisor.err \/ magnitude % divisor.value # 0 THEN Failed
    ELSE Ok(magnitude \div divisor.value)

\* A text as a signed number of units of 1 / AmountScale.
ParseAmount(text) ==
    IF text = Malformed THEN Failed
    ELSE LET scaled == Rescaled(text.digits, text.exponent - text.places
                                               + AmountFractionDigits)
         IN  IF \/ Abs(text.exponent) > MaxExponent
                \/ text.digits > MaxUint
                \/ scaled.err
                \/ scaled.value > MaxInt
             THEN Failed
             ELSE Ok(IF text.negative THEN -scaled.value ELSE scaled.value)

\* An amount as a text with AmountFractionDigits places.  A negative value is
\* shifted before it is negated, so that MinInt is not negated.
FormatAmount(value) ==
    Text(value < 0, IF value < 0 THEN Wrap(-(value + 1)) + 1 ELSE value,
         AmountFractionDigits, 0)

-----------------------------------------------------------------------------
(* Arithmetic.  MulAmount and DivAmount compute with integers of any size  *)
(* and return an error where the result does not fit.                      *)

\* big.Int.Quo: division that truncates toward zero.
Quo(n, d) ==
    IF (n >= 0) = (d > 0) THEN Abs(n) \div Abs(d) ELSE -(Abs(n) \div Abs(d))

AsInt(n) == IF n \in Ints THEN Ok(n) ELSE Failed

MulAmount(multiplicand, multiplier) ==
    AsInt(Quo(multiplicand * multiplier, AmountScale))

DivAmount(dividend, divisor) ==
    IF divisor = 0 THEN Failed ELSE AsInt(Quo(dividend * AmountScale, divisor))
=============================================================================
