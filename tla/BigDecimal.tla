------------------------------ MODULE BigDecimal -----------------------------
(***************************************************************************)
(* big.js, the decimal library calculatePercentage uses, modelled by what *)
(* it does: Big(s) parses an unsigned decimal or throws; div rounds to    *)
(* Big.DP = 20 places and toFixed(2) rounds again, both with Big.RM.      *)
(* For denominators q below about 2*10^15 the first rounding cannot move *)
(* the second (a/b is on a 10^-4 half-step or at least 1/(2*10^5*q) from  *)
(* it), so the result is a/b*100 rounded once to 2 places.  Also the      *)
(* three outcomes of NRS.calculatePercentage.                             *)
(***************************************************************************)
EXTENDS DecimalStrings

\* big.js rounding modes: ROUND_DOWN, ROUND_HALF_UP, ROUND_HALF_EVEN, ROUND_UP.
RoundingModes == 0..3
ROUND_HALF_UP == 1

(***************************************************************************)
(* new Big(s): an unsigned decimal with a digit, or it throws.            *)
(***************************************************************************)
DotAt(s) == SelectInSeq(s, LAMBDA c : c = ".")
BigValid(s) ==
    /\ \A i \in 1..Len(s) : s[i] \in Digits \cup {"."}
    /\ \A i, j \in 1..Len(s) : s[i] = "." /\ s[j] = "." => i = j
    /\ \E i \in 1..Len(s) : s[i] \in Digits

\* The value of a valid Big numeral as <<numerator, 10^(fraction digits)>>.
BigRatio(s) ==
    IF DotAt(s) = 0 THEN <<NumVal(s), 1>>
    ELSE <<NumVal(SubSeq(s, 1, DotAt(s) - 1) \o SubSeq(s, DotAt(s) + 1, Len(s))),
           Pow10(Len(s) - DotAt(s))>>

(***************************************************************************)
(* Rounding the non-negative rational num/den to an integer under a       *)
(* big.js rounding mode (rnd in big.js).                                  *)
(***************************************************************************)
Rnd(num, den, rm) ==
    LET q == num \div den
        r == num % den
    IN  CASE r = 0  -> q
          [] rm = 0 -> q
          [] rm = 3 -> q + 1
          [] 2 * r > den -> q + 1
          [] 2 * r < den -> q
          [] rm = 1 -> q + 1
          [] OTHER  -> q + (q % 2)

\* a.div(b).times(100).toFixed(2), in hundredths of a percent.
PercentHundredths(a, b, rm) ==
    LET x == BigRatio(a)
        y == BigRatio(b)
    IN  Rnd(10000 * x[1] * y[2], x[2] * y[1], rm)

-----------------------------------------------------------------------------
\* What NRS.calculatePercentage returns: "0", a fixed 2-place string (in
\* hundredths of a percent), or a throw; NoCall before the first call.
Zero == [kind |-> "zero", hundredths |-> 0]
Fixed(h) == [kind |-> "fixed", hundredths |-> h]
Thrown == [kind |-> "throw", hundredths |-> 0]
NoCall == [kind |-> "none", hundredths |-> 0]

=============================================================================
