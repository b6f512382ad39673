------------------------- MODULE PercentageCalculator -----------------------
(***************************************************************************)
(* NRS.calculatePercentage(a, b, rounding_mode) and the one piece of      *)
(* process-wide state it touches: big.js's rounding mode Big.RM, which    *)
(* the call overwrites with its rounding_mode argument and resets to 1    *)
(* (ROUND_HALF_UP) after computing.  Every later call that passes no      *)
(* rounding mode rounds with whatever Big.RM then holds.  big.js itself  *)
(* is in BigDecimal.  The module is checked against PercentageSpec, the   *)
(* stateless promise of §4.5, with Big.RM hidden.                          *)
(***************************************************************************)
EXTENDS BigDecimal

CONSTANTS
    Inputs,      \* String(a) and String(b) values tried
    UNDEFINED    \* the rounding_mode argument left out

(***************************************************************************)
(* `if (rounding_mode != undefined) Big.RM = rounding_mode`: the mode the *)
(* call computes with, given Big.RM as it finds it.                       *)
(***************************************************************************)
EffectiveMode(rm, current) == IF rm = UNDEFINED THEN current ELSE rm

\* `Big.RM = 1` after toFixed: what the call leaves in Big.RM when it returns.
\* Seeded fault: the reset is missing.
RMAfterCall_NoReset(mode) == mode
RMAfterCall(mode) == ROUND_HALF_UP

-----------------------------------------------------------------------------
VARIABLES
    bigRM,   \* Big.RM
    arg,     \* the arguments of the last call
    res      \* its outcome: "0", a fixed 2-place result, or a throw

vars == <<bigRM, arg, res>>

Init ==
    /\ bigRM = ROUND_HALF_UP
    /\ arg = [a |-> <<>>, b |-> <<>>, rm |-> UNDEFINED]
    /\ res = NoCall

(***************************************************************************)
(* One call.  String(b) == "0" returns "0" before anything else; then     *)
(* Big.RM is set, both arguments are parsed, divided (division by a zero  *)
(* that is not spelled "0" throws) and the mode is reset to 1.  A throw   *)
(* in between leaves Big.RM as set.                                       *)
(***************************************************************************)
CalculatePercentage ==
    \E a, b \in Inputs, rm \in RoundingModes \cup {UNDEFINED} :
        LET mode == EffectiveMode(rm, bigRM)
            fails == ~BigValid(a) \/ ~BigValid(b) \/ BigRatio(b)[1] = 0
        IN  /\ arg' = [a |-> a, b |-> b, rm |-> rm]
            /\ IF b = <<"0">>
               THEN /\ res' = Zero
                    /\ UNCHANGED bigRM
               ELSE IF fails
               THEN /\ res' = Thrown
                    /\ bigRM' = mode
               ELSE /\ res' = Fixed(PercentHundredths(a, b, mode))
                    /\ bigRM' = RMAfterCall(mode)

Next == CalculatePercentage

Spec == Init /\ [][Next]_vars

-----------------------------------------------------------------------------
(***************************************************************************)
(* §4.5: a call that passes no rounding mode rounds a/b*100 half-up to   *)
(* 2 places, whatever calls came before it: the rounding mode of an      *)
(* earlier call must not leak through Big.RM.                             *)
(***************************************************************************)
DefaultModeHalfUp ==
    res.kind = "fixed" /\ arg.rm = UNDEFINED =>
        res.hundredths = PercentHundredths(arg.a, arg.b, ROUND_HALF_UP)

-----------------------------------------------------------------------------
(***************************************************************************)
(* Refinement: with Big.RM hidden, every call is a call of the stateless  *)
(* PercentageSpec -- its outcome depends on its own arguments only, never *)
(* on a rounding mode an earlier call left behind.  The mapping keeps the *)
(* call and its outcome and drops bigRM.                                   *)
(***************************************************************************)
Abstract == INSTANCE PercentageSpec
                WITH arg <- arg, res <- res, Inputs <- Inputs, UNDEFINED <- UNDEFINED

PercentageRefinement == Abstract!Spec

=============================================================================
