--------------------------- MODULE DecimalStrings ---------------------------
(***************************************************************************)
(* The string idioms nrs.util.js builds its amount conversions from.      *)
(* A JavaScript string is a sequence of one-character strings, so that    *)
(* split, substring, slice and the anchored regular expressions the code  *)
(* uses can be stated over it.  BigInteger values (jsbn) are TLA+         *)
(* integers: they are exact, so only their decimal form needs modelling.  *)
(***************************************************************************)
EXTENDS Integers, Sequences, SequencesExt

DigitChars == <<"0", "1", "2", "3", "4", "5", "6", "7", "8", "9">>
Digits == ToSet(DigitChars)

\* The value of one decimal digit character.
DigitVal(c) == CHOOSE i \in 0..9 : DigitChars[i + 1] = c

\* 10^n for the scales the code uses (Math.pow(10, decimals) is exact there).
Pow10(n) == 10 ^ n

(***************************************************************************)
(* /^\d+$/.test(s): a non-empty string of decimal digits only.            *)
(***************************************************************************)
IsAllDigits(s) == s # <<>> /\ \A i \in 1..Len(s) : s[i] \in Digits

\* /^[0]+$/.test(s): a non-empty string of zeros only.
IsAllZeros(s) == s # <<>> /\ \A i \in 1..Len(s) : s[i] = "0"

(***************************************************************************)
(* The value of a digit string: what BigInteger(s) and parseInt(s) parse. *)
(***************************************************************************)
RECURSIVE NumVal(_)
NumVal(s) == IF s = <<>> THEN 0 ELSE 10 * NumVal(Front(s)) + DigitVal(Last(s))

(***************************************************************************)
(* BigInteger.toString(): decimal digits, no leading zero, "-" if < 0.     *)
(***************************************************************************)
RECURSIVE ToDecimalString(_)
ToDecimalString(n) ==
    IF n < 0 THEN <<"-">> \o ToDecimalString(-n)
    ELSE IF n < 10 THEN <<DigitChars[n + 1]>>
    ELSE ToDecimalString(n \div 10) \o <<DigitChars[(n % 10) + 1]>>

(***************************************************************************)
(* s.split(sep): the pieces of s between occurrences of sep, in order.    *)
(* "" splits into one empty piece, as in JavaScript.                       *)
(***************************************************************************)
RECURSIVE Split(_, _)
Split(s, sep) ==
    LET i == SelectInSeq(s, LAMBDA c : c = sep)
    IN  IF i = 0 THEN <<s>>
        ELSE <<SubSeq(s, 1, i - 1)>> \o Split(SubSeq(s, i + 1, Len(s)), sep)

(***************************************************************************)
(* s.replace(/0+$/, ""): drop the trailing run of zeros.                   *)
(***************************************************************************)
RECURSIVE StripTrailingZeros(_)
StripTrailingZeros(s) ==
    IF s # <<>> /\ Last(s) = "0" THEN StripTrailingZeros(Front(s)) ELSE s

\* s.replace(/^0+/, ""): drop the leading run of zeros.
RECURSIVE StripLeadingZeros(_)
StripLeadingZeros(s) ==
    IF s # <<>> /\ Head(s) = "0" THEN StripLeadingZeros(Tail(s)) ELSE s

\* The loops "for (i = s.length; i < n; i++) s += '0'" and its mirror.
Zeros(k) == [i \in 1..k |-> "0"]
PadRightZeros(s, n) == s \o Zeros(n - Len(s))
PadLeftZeros(s, n) == Zeros(n - Len(s)) \o s

(***************************************************************************)
(* s.substring(from, to): both ends clamped to 0..length, then swapped if *)
(* from > to.                                                              *)
(***************************************************************************)
Clamp(x, s) == IF x < 0 THEN 0 ELSE IF x > Len(s) THEN Len(s) ELSE x
Substring(s, from, to) ==
    LET f == Clamp(from, s)
        t == Clamp(to, s)
    IN  IF f <= t THEN SubSeq(s, f + 1, t) ELSE SubSeq(s, t + 1, f)

(***************************************************************************)
(* s.slice(start, end): a negative index counts from the end; no swap.    *)
(***************************************************************************)
SliceIndex(x, s) == IF x < 0 THEN Clamp(Len(s) + x, s) ELSE Clamp(x, s)
Slice(s, start, end) == SubSeq(s, SliceIndex(start, s) + 1, SliceIndex(end, s))
SliceFrom(s, start) == Slice(s, start, Len(s))

=============================================================================
