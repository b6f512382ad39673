--------------------------- MODULE AmountConverter --------------------------
(***************************************************************************)
(* The amount conversions of nrs.util.js: NXT amounts at the fixed scale  *)
(* of 8 decimals (convertToNXT, convertToNQT, amountToPrecision) and      *)
(* asset quantities at a caller-given scale (convertToQNTf, convertToQNT).*)
(* Each function is an operator over JavaScript strings (DecimalStrings), *)
(* followed by the reference arithmetic the properties of AmountCalls     *)
(* compare it with.  The functions keep no state.                         *)
(***************************************************************************)
EXTENDS DecimalStrings

\* The scale of NXT: 1 NXT = 10^8 NQT ("100000000" and the loops to 8).
NXT_DECIMALS == 8

\* A call returns a value or throws a (translated) error message key.
Ret(v) == [ok |-> TRUE, val |-> v]
Throw(e) == [ok |-> FALSE, val |-> e]

-----------------------------------------------------------------------------
(***************************************************************************)
(* NRS.convertToNXT(amount, returnAsObject): split |amount| by 10^8 into  *)
(* the whole part and a mantissa "." + 8 digits with trailing zeros cut.  *)
(***************************************************************************)
\* Seeded fault: the remainder is not left-padded to 8 digits.
Mantissa_NoPad(fractionalPart) == <<".">> \o StripTrailingZeros(fractionalPart)

Mantissa(fractionalPart) ==
    <<".">> \o Zeros(NXT_DECIMALS - Len(fractionalPart))
            \o StripTrailingZeros(fractionalPart)

ConvertToNXTObject(amount) ==
    LET abs            == IF amount < 0 THEN -amount ELSE amount
        fractionalPart == ToDecimalString(abs % Pow10(NXT_DECIMALS))
    IN  [negative |-> IF amount < 0 THEN <<"-">> ELSE <<>>,
         amount   |-> ToDecimalString(abs \div Pow10(NXT_DECIMALS)),
         mantissa |-> IF fractionalPart # <<"0">> THEN Mantissa(fractionalPart)
                                                 ELSE <<>>]

\* The string form: negative + amount + mantissa.
Flatten(o) == o.negative \o o.amount \o o.mantissa

ConvertToNXT(amount, returnAsObject) ==
    IF returnAsObject THEN ConvertToNXTObject(amount)
                      ELSE Flatten(ConvertToNXTObject(amount))

-----------------------------------------------------------------------------
(***************************************************************************)
(* NRS.amountToPrecision(amount, decimals): cut trailing zeros of the     *)
(* fraction, then keep at most `decimals` of its digits.                   *)
(***************************************************************************)
\* Seeded fault: substring(0, decimals - 1), one digit too few.
AmountToPrecision_Short(amount, decimals) ==
    LET parts == Split(amount, ".")
        f == StripTrailingZeros(parts[2])
    IN  IF Len(parts) = 1 THEN Ret(parts[1])
        ELSE IF Len(parts) > 2 THEN Throw("error_invalid_input")
        ELSE Ret(parts[1] \o <<".">> \o
                 (IF Len(f) > decimals THEN Substring(f, 0, decimals - 1) ELSE f))

AmountToPrecision(amount, decimals) ==
    LET parts == Split(amount, ".")
    IN  CASE Len(parts) = 1 -> Ret(parts[1])
          [] Len(parts) = 2 ->
               LET f == StripTrailingZeros(parts[2])
                   fraction == IF Len(f) > decimals THEN Substring(f, 0, decimals)
                                                    ELSE f
               IN  Ret(parts[1] \o <<".">> \o fraction)
          [] OTHER -> Throw("error_invalid_input")

-----------------------------------------------------------------------------
(***************************************************************************)
(* NRS.convertToNQT(currency): whole part followed by the first 8         *)
(* fraction digits, zero-padded; digits only; leading zeros removed.      *)
(***************************************************************************)
\* Seeded fault: the fraction is cut at 7 digits instead of 8.
NQTFraction_Short(parts) ==
    IF Len(parts) = 1 THEN Zeros(NXT_DECIMALS)
    ELSE Substring(parts[2], 0, NXT_DECIMALS - 1)

NQTFraction(parts) ==
    IF Len(parts) = 1 THEN Zeros(NXT_DECIMALS)
    ELSE IF Len(parts[2]) <= NXT_DECIMALS THEN parts[2]
    ELSE Substring(parts[2], 0, NXT_DECIMALS)

\* Seeded fault: leading zeros are not removed.
ConvertToNQT_KeepsLeadingZeros(currency) ==
    LET parts  == Split(currency, ".")
        result == parts[1] \o PadRightZeros(NQTFraction(parts), NXT_DECIMALS)
    IN  IF Len(parts) > 2 \/ ~IsAllDigits(result) THEN Throw("error_invalid_input")
                                                 ELSE Ret(result)

ConvertToNQT(currency) ==
    LET parts  == Split(currency, ".")
        result == parts[1] \o PadRightZeros(NQTFraction(parts), NXT_DECIMALS)
        r      == StripLeadingZeros(result)
    IN  IF Len(parts) > 2 \/ ~IsAllDigits(result)
        THEN Throw("error_invalid_input")
        ELSE Ret(IF r = <<>> THEN <<"0">> ELSE r)

-----------------------------------------------------------------------------
(***************************************************************************)
(* NRS.convertToQNTf(quantity, decimals, returnAsObject): left-pad the    *)
(* QNT string to `decimals` digits, move the last `decimals` digits       *)
(* behind a ".", and cut the mantissa's trailing zeros.                    *)
(***************************************************************************)
\* Seeded fault: a quantity shorter than `decimals` is not left-padded.
ConvertToQNTfObject_NoPad(quantity, decimals) ==
    LET a == Substring(quantity, 0, Len(quantity) - decimals)
        m == StripTrailingZeros(<<".">> \o Substring(quantity, Len(quantity) - decimals, Len(quantity)))
    IN  IF decimals = 0 THEN [amount |-> quantity, mantissa |-> <<>>]
        ELSE [amount |-> IF a = <<>> THEN <<"0">> ELSE a,
              mantissa |-> IF m = <<".">> THEN <<>> ELSE m]

ConvertToQNTfObject(quantity, decimals) ==
    LET q  == IF Len(quantity) < decimals THEN PadLeftZeros(quantity, decimals)
                                          ELSE quantity
        a  == Substring(q, 0, Len(q) - decimals)
        m  == StripTrailingZeros(<<".">> \o Substring(q, Len(q) - decimals, Len(q)))
    IN  IF decimals = 0 THEN [amount |-> q, mantissa |-> <<>>]
        ELSE [amount   |-> IF a = <<>> THEN <<"0">> ELSE a,
              mantissa |-> IF m = <<".">> THEN <<>> ELSE m]

ConvertToQNTf(quantity, decimals, returnAsObject) ==
    LET o == ConvertToQNTfObject(quantity, decimals)
    IN  IF returnAsObject THEN o ELSE o.amount \o o.mantissa

(***************************************************************************)
(* NRS.convertToQNT(quantity, decimals): whole part followed by exactly   *)
(* `decimals` fraction digits; a longer fraction is an error, not cut.    *)
(***************************************************************************)
\* Seeded fault: the /^\d+$/ test is dropped.
ConvertToQNT_NoDigitCheck(quantity, decimals) ==
    LET parts == Split(quantity, ".")
        qnt   == IF Len(parts) = 1 THEN parts[1] \o Zeros(decimals)
                 ELSE parts[1] \o PadRightZeros(parts[2], decimals)
    IN  CASE Len(parts) > 2 -> Throw("error_invalid_input")
          [] Len(parts) = 2 /\ Len(parts[2]) > decimals -> Throw("error_fraction_decimals")
          [] IsAllZeros(qnt) -> Ret(<<"0">>)
          [] OTHER -> Ret(StripLeadingZeros(qnt))

\* Seeded fault: a long fraction is cut, as convertToNQT does, not refused.
ConvertToQNT_TruncatesFraction(quantity, decimals) ==
    LET parts == Split(quantity, ".")
        qnt   == IF Len(parts) = 1 THEN parts[1] \o Zeros(decimals)
                 ELSE parts[1] \o PadRightZeros(Substring(parts[2], 0, decimals), decimals)
    IN  CASE Len(parts) > 2 -> Throw("error_invalid_input")
          [] ~IsAllDigits(qnt) -> Throw("error_invalid_input_numbers")
          [] IsAllZeros(qnt) -> Ret(<<"0">>)
          [] OTHER -> Ret(StripLeadingZeros(qnt))

ConvertToQNT(quantity, decimals) ==
    LET parts == Split(quantity, ".")
        qnt   == IF Len(parts) = 1 THEN parts[1] \o Zeros(decimals)
                 ELSE parts[1] \o PadRightZeros(parts[2], decimals)
    IN  CASE Len(parts) > 2 -> Throw("error_invalid_input")
          [] Len(parts) = 2 /\ Len(parts[2]) > decimals -> Throw("error_fraction_decimals")
          [] ~IsAllDigits(qnt) -> Throw("error_invalid_input_numbers")
          [] IsAllZeros(qnt) -> Ret(<<"0">>)
          [] OTHER -> Ret(StripLeadingZeros(qnt))

-----------------------------------------------------------------------------
(***************************************************************************)
(* Reference arithmetic the properties compare the code with.  A decimal *)
(* numeral is digits with at most one "."; its value at scale S is the   *)
(* pair <<whole part, first S fraction digits as a number>>, i.e. the     *)
(* value times 10^S truncated, as quotient and remainder by 10^S.         *)
(***************************************************************************)
DotIndex(s) == SelectInSeq(s, LAMBDA c : c = ".")
IntDigits(s) == IF DotIndex(s) = 0 THEN s ELSE SubSeq(s, 1, DotIndex(s) - 1)
FracDigits(s) == IF DotIndex(s) = 0 THEN <<>> ELSE SubSeq(s, DotIndex(s) + 1, Len(s))

DecimalNumeral(s) ==
    /\ \A i \in 1..Len(s) : s[i] \in Digits \cup {"."}
    /\ \A i, j \in 1..Len(s) : s[i] = "." /\ s[j] = "." => i = j

HasDigit(s) == \E i \in 1..Len(s) : s[i] \in Digits

TruncatedFraction(f, S) ==
    IF Len(f) <= S THEN NumVal(f) * Pow10(S - Len(f))
                   ELSE NumVal(f) \div Pow10(Len(f) - S)

NumeralValue(s, S) == <<NumVal(IntDigits(s)), TruncatedFraction(FracDigits(s), S)>>

\* The value at scale S of an integer string of digits (a QNT or NQT count).
ScaledPair(r, S) ==
    LET p == PadLeftZeros(r, S + 1)
    IN  <<NumVal(SubSeq(p, 1, Len(p) - S)), NumVal(SubSeq(p, Len(p) - S + 1, Len(p)))>>

\* What BigInteger.toString() gives: "0" or digits without a leading zero.
Canonical(r) == IsAllDigits(r) /\ (r[1] = "0" => r = <<"0">>)

(***************************************************************************)
(* A display pair (amount, mantissa) shows the integer n at scale S when  *)
(* the sign is carried by a leading "-" exactly when n < 0, the whole     *)
(* part is canonical, the mantissa is empty or "." and at most S digits   *)
(* with no trailing zero, and together they equal |n| / 10^S.             *)
(***************************************************************************)
ShowsUnsigned(amount, mantissa, n, S) ==
    /\ Canonical(amount)
    /\ \/ mantissa = <<>>
       \/ /\ Head(mantissa) = "." /\ Len(mantissa) \in 2..(S + 1)
          /\ IsAllDigits(Tail(mantissa)) /\ Last(mantissa) # "0"
    /\ NumVal(amount) * Pow10(S) + TruncatedFraction(FracDigits(mantissa), S) = n

Shows(amount, mantissa, n, S) ==
    IF n < 0 THEN amount # <<>> /\ Head(amount) = "-"
                  /\ ShowsUnsigned(Tail(amount), mantissa, -n, S)
             ELSE ShowsUnsigned(amount, mantissa, n, S)

=============================================================================
