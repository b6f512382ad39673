------------------------------- MODULE Versions -------------------------------
(***************************************************************************)
(* NRS.versionCompare(v1, v2): dotted numeric versions with an optional   *)
(* trailing "e", compared part by part as Numbers.  It returns 1, 0, -1,  *)
(* or NaN when a part is not all digits; a missing version gives -1       *)
(* whichever side it is on.                                               *)
(***************************************************************************)
EXTENDS DecimalStrings

CONSTANT NaN    \* the Number NaN, equal to no result but itself here

\* v.slice(-1) == 'e' and v.substring(0, v.length - 1).
HasE(v) == v # <<>> /\ Last(v) = "e"
WithoutE(v) == IF HasE(v) THEN Front(v) ELSE v

\* v.split('.').every(isValidPart), then .map(Number).
ValidParts(v) == \A i \in 1..Len(Split(v, ".")) : IsAllDigits(Split(v, ".")[i])
PartNumbers(v) == LET p == Split(v, ".") IN [i \in 1..Len(p) |-> NumVal(p[i])]

(***************************************************************************)
(* The loop over v1's parts: 1 when v2 has run out, the sign of the first *)
(* differing part, or "equal so far" (0) when v1 is exhausted.            *)
(***************************************************************************)
RECURSIVE CompareParts(_, _, _)
CompareParts(a, b, i) ==
    CASE i > Len(a)   -> 0
      [] i > Len(b)   -> 1
      [] a[i] > b[i]  -> 1
      [] a[i] < b[i]  -> -1
      [] OTHER        -> CompareParts(a, b, i + 1)

\* Seeded fault: the `v1parts.length != v2parts.length` test is missing.
VersionCompare_NoLengthCheck(v1, v2, undef) ==
    IF v2 = undef \/ v1 = undef THEN -1
    ELSE IF ~ValidParts(WithoutE(v1)) \/ ~ValidParts(WithoutE(v2)) THEN NaN
    ELSE LET c == CompareParts(PartNumbers(WithoutE(v1)), PartNumbers(WithoutE(v2)), 1)
         IN  CASE c # 0                -> c
               [] HasE(v1) /\ HasE(v2) -> 0
               [] HasE(v1)             -> 1
               [] HasE(v2)             -> -1
               [] OTHER                -> 0

VersionCompare(v1, v2, undef) ==
    IF v2 = undef \/ v1 = undef THEN -1
    ELSE IF ~ValidParts(WithoutE(v1)) \/ ~ValidParts(WithoutE(v2)) THEN NaN
    ELSE LET a == PartNumbers(WithoutE(v1))
             b == PartNumbers(WithoutE(v2))
             c == CompareParts(a, b, 1)
         IN  CASE c # 0                -> c
               [] Len(a) # Len(b)      -> -1
               [] HasE(v1) /\ HasE(v2) -> 0
               [] HasE(v1)             -> 1
               [] HasE(v2)             -> -1
               [] OTHER                -> 0

-----------------------------------------------------------------------------
(***************************************************************************)
(* Reference order: numeric parts lexicographically, a proper prefix      *)
(* first, then a version with "e" after the same version without it.      *)
(***************************************************************************)
Sign(x) == IF x > 0 THEN 1 ELSE IF x < 0 THEN -1 ELSE 0

LexCompare(a, b) ==
    LET diff == {i \in 1..Len(a) : i <= Len(b) /\ a[i] # b[i]}
    IN  IF diff # {} THEN LET m == CHOOSE i \in diff : \A j \in diff : i <= j
                          IN  Sign(a[m] - b[m])
        ELSE Sign(Len(a) - Len(b))

VersionOrderRef(v1, v2) ==
    LET c == LexCompare(PartNumbers(WithoutE(v1)), PartNumbers(WithoutE(v2)))
    IN  IF c # 0 THEN c ELSE Sign((IF HasE(v1) THEN 1 ELSE 0) - (IF HasE(v2) THEN 1 ELSE 0))

=============================================================================
