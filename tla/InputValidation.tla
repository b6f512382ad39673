--------------------------- MODULE InputValidation ---------------------------
(***************************************************************************)
(* NRS.validateDecimals(maxFractionLength, charCode, val, e), the keydown  *)
(* filter of the amount and quantity fields: it returns false (and calls  *)
(* e.preventDefault()) for a key that must not reach the field.  The      *)
(* growl messages are left out.  NRS.getSelectedText() enters only as     *)
(* whether the selected text equals the whole field value.                *)
(***************************************************************************)
EXTENDS DecimalStrings

\* keyCodes of the "." keys (main and numeric pad) and of ",".
PERIOD_KEYS == {110, 190}
COMMA_KEY == 188
\* backspace, left, right, delete
EDIT_KEYS == {8, 37, 39, 46}

\* String.fromCharCode for the codes the filter looks at: digits, "." for
\* 46, and a character that is neither for the others.
OTHER_CHAR == "?"
CharOfCode(c) ==
    CASE c >= 48 /\ c <= 57 -> DigitChars[c - 47]
      [] c = 46             -> "."
      [] OTHER              -> OTHER_CHAR

\* The numeric pad's 96..105 become the codes of "0".."9".
NormalizedCode(c) == IF c >= 96 /\ c <= 105 THEN c + 48 - 96 ELSE c

\* input.match(/\.(\d*)$/): the digits after the last "." when nothing but
\* digits follows it, or -1 when the regex does not match.
MantissaLength(s) ==
    LET dots == {i \in 1..Len(s) : s[i] = "."}
        k    == IF dots = {} THEN 0 ELSE CHOOSE i \in dots : \A j \in dots : j <= i
        rest == SubSeq(s, k + 1, Len(s))
    IN  IF k > 0 /\ (rest = <<>> \/ IsAllDigits(rest)) THEN Len(rest) ELSE -1

\* Seeded fault: a second "." is let through when decimals are allowed.
ValidateDecimals_SecondPeriod(maxFractionLength, charCode, val, selectedIsVal) ==
    IF maxFractionLength # 0 /\ charCode \in PERIOD_KEYS THEN TRUE
    ELSE IF maxFractionLength = 0 /\ charCode \in PERIOD_KEYS \cup {COMMA_KEY} THEN FALSE
    ELSE LET code  == NormalizedCode(charCode)
             input == val \o <<CharOfCode(code)>>
         IN  IF MantissaLength(input) > maxFractionLength /\ ~selectedIsVal THEN FALSE
             ELSE code \in EDIT_KEYS \/ (code >= 48 /\ code <= 57)

ValidateDecimals(maxFractionLength, charCode, val, selectedIsVal) ==
    IF maxFractionLength # 0 /\ charCode \in PERIOD_KEYS
    THEN SelectInSeq(val, LAMBDA c : c = ".") = 0
    ELSE IF maxFractionLength = 0 /\ charCode \in PERIOD_KEYS \cup {COMMA_KEY} THEN FALSE
    ELSE LET code  == NormalizedCode(charCode)
             input == val \o <<CharOfCode(code)>>
         IN  IF MantissaLength(input) > maxFractionLength /\ ~selectedIsVal THEN FALSE
             ELSE code \in EDIT_KEYS \/ (code >= 48 /\ code <= 57)

(***************************************************************************)
(* What a key that is let through types, when it types a character: the   *)
(* digit keys of both keyboards and the two "." keys.                     *)
(***************************************************************************)
TypedChar(c) ==
    IF c \in PERIOD_KEYS THEN "." ELSE CharOfCode(NormalizedCode(c))
TypesChar(c) == c \in PERIOD_KEYS \/ (NormalizedCode(c) >= 48 /\ NormalizedCode(c) <= 57)

=============================================================================
