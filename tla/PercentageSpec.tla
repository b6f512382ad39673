---------------------------- MODULE PercentageSpec ----------------------------
(***************************************************************************)
(* What NRS.calculatePercentage(a, b, rounding_mode) promises (spec §4.4, *)
(* §4.5): a pure function of its arguments.  "0" for b spelled "0"; a    *)
(* throw when a or b is not a decimal or b is zero; otherwise a/b*100     *)
(* rounded to 2 places with the mode passed, or half-up when none is.     *)
(* It has no rounding-mode state.                                         *)
(***************************************************************************)
EXTENDS BigDecimal

CONSTANTS Inputs, UNDEFINED

VARIABLES arg, res

Outcome(a, b, rm) ==
    CASE b = <<"0">>                                      -> Zero
      [] ~BigValid(a) \/ ~BigValid(b) \/ BigRatio(b)[1] = 0 -> Thrown
      [] rm = UNDEFINED                                    -> Fixed(PercentHundredths(a, b, ROUND_HALF_UP))
      [] OTHER                                             -> Fixed(PercentHundredths(a, b, rm))

Init ==
    /\ arg = [a |-> <<>>, b |-> <<>>, rm |-> UNDEFINED]
    /\ res = NoCall

Call ==
    \E a, b \in Inputs, rm \in RoundingModes \cup {UNDEFINED} :
        /\ arg' = [a |-> a, b |-> b, rm |-> rm]
        /\ res' = Outcome(a, b, rm)

Spec == Init /\ [][Call]_<<arg, res>>

=============================================================================
