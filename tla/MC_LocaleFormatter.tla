------------------------- MODULE MC_LocaleFormatter --------------------------
(***************************************************************************)
(* Bounded inputs for LocaleFormatter.  Three entries of LOCALE_DATA with *)
(* different punctuation (a "," decimal, a no-break-space separator, a    *)
(* month-first pattern), a bare code that expands to an entry ("de"), one *)
(* that expands to none ("en" -> "en-EN", the default).  Numbers reach 7  *)
(* integer digits where the scale allows; BigInteger NQT amounts stay     *)
(* below 2^31, so formatAmount shows at most 2 integer digits.  EPOCH is  *)
(* a small stand-in for the real epoch beginning: the conversions only    *)
(* add and subtract it.                                                   *)
(***************************************************************************)
EXTENDS LocaleFormatter, TLC

Chars(str) == [i \in 1..Len(str) |-> SubSeq(str, i, i)]

MC_LOCALE_DATA ==
    [code |-> "de", region |-> "DE"] :> [dateFormat |-> Chars("dd.MM.yyyy"), decimal |-> ",", section |-> "."]
 @@ [code |-> "en", region |-> "US"] :> [dateFormat |-> Chars("M/d/yyyy"), decimal |-> ".", section |-> ","]
 @@ [code |-> "hu", region |-> "HU"] :> [dateFormat |-> Chars("yyyy. MM. dd."), decimal |-> ",", section |-> NBSP]

MC_Languages ==
    { [code |-> "de", region |-> "DE"], [code |-> "de", region |-> ""],
      [code |-> "en", region |-> "US"], [code |-> "en", region |-> ""],
      [code |-> "hu", region |-> "HU"] }

MC_Upper == ("de" :> "DE") @@ ("en" :> "EN") @@ ("hu" :> "HU")

MC_Amounts == {0, 12345, 1234500000, -100000001}
MC_QNTValues == {0, 5, 1234, 1234567}
MC_SignedQNTValues == MC_QNTValues \cup {-5, -150, -1234}
MC_Decimals == {0, 2, 4}
MC_PricesNQT == {0, 3, 25}
MC_Weights == {7, 1234567}
MC_FormatInputs == {<<"0">>, Chars("1234567"), Chars("-1234"), Chars("-5")}

MC_Dates ==
    { [valid |-> TRUE, d |-> 5, M |-> 3, yyyy |-> 2016, hours |-> 0, minutes |-> 7, seconds |-> 9],
      [valid |-> TRUE, d |-> 15, M |-> 11, yyyy |-> 2005, hours |-> 12, minutes |-> 30, seconds |-> 45],
      [valid |-> TRUE, d |-> 1, M |-> 10, yyyy |-> 2017, hours |-> 23, minutes |-> 59, seconds |-> 0],
      [valid |-> TRUE, d |-> 28, M |-> 2, yyyy |-> 2016, hours |-> 13, minutes |-> 0, seconds |-> 10],
      [valid |-> FALSE, d |-> 0, M |-> 0, yyyy |-> 0, hours |-> 0, minutes |-> 0, seconds |-> 0] }

MC_EpochTimes == {0, 86399}
MC_Times == {1499, 1500}

=============================================================================
