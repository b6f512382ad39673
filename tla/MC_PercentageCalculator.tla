---------------------- MODULE MC_PercentageCalculator -----------------------
(***************************************************************************)
(* Bounded inputs for PercentageCalculator.  1/3 and 1/32 give a ratio   *)
(* below and exactly on a half-step at 2 places (3.125%), where the four  *)
(* rounding modes disagree; "0" is the guarded zero denominator.          *)
(***************************************************************************)
EXTENDS PercentageCalculator

\* What String() gives for the counts callers pass (BigInteger strings).
MC_Numerals == {<<"0">>, <<"1">>, <<"3">>, <<"5">>, <<"3", "2">>}

\* Adds a zero not spelled "0" and a non-numeral (String(undefined)).
MC_AnyStrings == MC_Numerals \cup {<<"0", ".", "0">>, <<"x">>}

=============================================================================
