------------------------------ MODULE ByteCodecs ------------------------------
(***************************************************************************)
(* The string codecs of nrs.util.js.  A JS string is here a sequence of   *)
(* UTF-16 code units (integers below 2^16); a hex string a sequence of    *)
(* lowercase hex-digit characters.                                         *)
(*   convertToHex16 / convertFromHex16: 4 hex digits per code unit;        *)
(*   convertToHex8 / convertFromHex8: unpadded hex per unit, read back     *)
(*   two digits at a time;                                                 *)
(*   strToUTF8Arr: UTF-8 by hand, with surrogate pairs;                    *)
(*   getUtf8Bytes: unescape(encodeURIComponent(str)).                      *)
(***************************************************************************)
EXTENDS DecimalStrings, Bitwise

HexChars == DigitChars \o <<"a", "b", "c", "d", "e", "f">>
HexVal(c) == CHOOSE i \in 0..15 : HexChars[i + 1] = c

\* Number.prototype.toString(16).
RECURSIVE ToHex(_)
ToHex(n) == IF n < 16 THEN <<HexChars[n + 1]>> ELSE ToHex(n \div 16) \o <<HexChars[(n % 16) + 1]>>

\* parseInt(s, 16): the value of the longest prefix of hex digits, NaN
\* (here -1) when there is none.
RECURSIVE HexPrefixVal(_, _)
HexPrefixVal(s, acc) ==
    IF s # <<>> /\ Head(s) \in ToSet(HexChars) THEN HexPrefixVal(Tail(s), 16 * acc + HexVal(Head(s)))
    ELSE acc
ParseInt16(s) == IF s # <<>> /\ Head(s) \in ToSet(HexChars) THEN HexPrefixVal(s, 0) ELSE -1

\* String.fromCharCode: the value modulo 2^16; NaN gives code unit 0.
FromCharCode(n) == IF n < 0 THEN 0 ELSE n % 65536

\* Consecutive pieces of s of length k, the last one possibly shorter
\* (hex.match(/.{1,4}/g), and substr(i, 2) for i = 0, 2, 4, ...).
Chunks(s, k) == [j \in 1..((Len(s) + k - 1) \div k) |-> SubSeq(s, k * (j - 1) + 1, IF k * j < Len(s) THEN k * j ELSE Len(s))]

\* Seeded fault: ("00" + hex).slice(-3), three digits per unit.
ConvertToHex16_ThreeDigits(str) ==
    FlattenSeq([i \in 1..Len(str) |-> SliceFrom(<<"0", "0">> \o ToHex(str[i]), -3)])

ConvertToHex16(str) ==
    FlattenSeq([i \in 1..Len(str) |-> SliceFrom(<<"0", "0", "0">> \o ToHex(str[i]), -4)])

ConvertFromHex16(hex) ==
    [j \in DOMAIN Chunks(hex, 4) |-> FromCharCode(ParseInt16(Chunks(hex, 4)[j]))]

\* Seeded fault: ("0" + hex).slice(-2), the convertToHex16 pattern with
\* two digits per unit.
ConvertToHex8_PadTwo(str) ==
    FlattenSeq([i \in 1..Len(str) |-> SliceFrom(<<"0">> \o ToHex(str[i]), -2)])

ConvertToHex8(str) == FlattenSeq([i \in 1..Len(str) |-> ToHex(str[i])])

ConvertFromHex8(hex) ==
    [j \in DOMAIN Chunks(hex, 2) |-> FromCharCode(ParseInt16(Chunks(hex, 2)[j]))]

(***************************************************************************)
(* strToUTF8Arr.  A unit in D800..DFFF is taken as the first half of a    *)
(* pair and the next unit as the second; past the end charCodeAt gives    *)
(* NaN, and NaN & 0x3ff is 0.                                              *)
(***************************************************************************)
\* Seeded fault: `charcode <= 0x800` for the two-byte form.
Utf8Unit_TwoByteInclusive(c, next) ==
    LET cp == 65536 + (c & 1023) * 1024 + (next & 1023)
    IN  CASE c < 128                 -> <<c>>
          [] c <= 2048               -> <<192 | shiftR(c, 6), 128 | (c & 63)>>
          [] c < 55296 \/ c >= 57344 -> <<224 | shiftR(c, 12), 128 | (shiftR(c, 6) & 63), 128 | (c & 63)>>
          [] OTHER -> <<240 | shiftR(cp, 18), 128 | (shiftR(cp, 12) & 63),
                        128 | (shiftR(cp, 6) & 63), 128 | (cp & 63)>>

Utf8Unit(c, next) ==
    LET cp == 65536 + (c & 1023) * 1024 + (next & 1023)
    IN  CASE c < 128                 -> <<c>>
          [] c < 2048                -> <<192 | shiftR(c, 6), 128 | (c & 63)>>
          [] c < 55296 \/ c >= 57344 -> <<224 | shiftR(c, 12), 128 | (shiftR(c, 6) & 63), 128 | (c & 63)>>
          [] OTHER -> <<240 | shiftR(cp, 18), 128 | (shiftR(cp, 12) & 63),
                        128 | (shiftR(cp, 6) & 63), 128 | (cp & 63)>>

IsSurrogate(c) == c >= 55296 /\ c < 57344

RECURSIVE Utf8Loop(_, _)
Utf8Loop(str, i) ==
    IF i > Len(str) THEN <<>>
    ELSE LET next == IF i + 1 <= Len(str) THEN str[i + 1] ELSE 0
         IN  Utf8Unit(str[i], next) \o Utf8Loop(str, IF IsSurrogate(str[i]) THEN i + 2 ELSE i + 1)

StrToUTF8Arr(str) == Utf8Loop(str, 1)

-----------------------------------------------------------------------------
(***************************************************************************)
(* encodeURIComponent: the UTF-8 of the code points of a well-formed      *)
(* UTF-16 string; a lone surrogate throws URIError.  unescape turns each  *)
(* %XX back into one code unit, so getUtf8Bytes returns the UTF-8 bytes.  *)
(***************************************************************************)
IsHigh(c) == c >= 55296 /\ c < 56320
IsLow(c) == c >= 56320 /\ c < 57344
WellFormed(s) ==
    \A i \in 1..Len(s) : /\ IsHigh(s[i]) => i < Len(s) /\ IsLow(s[i + 1])
                         /\ IsLow(s[i]) => i > 1 /\ IsHigh(s[i - 1])

RECURSIVE CodePoints(_)
CodePoints(s) ==
    IF s = <<>> THEN <<>>
    ELSE IF IsHigh(Head(s))
         THEN <<65536 + (Head(s) - 55296) * 1024 + (s[2] - 56320)>> \o CodePoints(SubSeq(s, 3, Len(s)))
         ELSE <<Head(s)>> \o CodePoints(Tail(s))

\* The UTF-8 form of a code point, by the table of RFC 3629.
Utf8OfCodePoint(cp) ==
    CASE cp < 128   -> <<cp>>
      [] cp < 2048  -> <<192 + cp \div 64, 128 + (cp % 64)>>
      [] cp < 65536 -> <<224 + cp \div 4096, 128 + ((cp \div 64) % 64), 128 + (cp % 64)>>
      [] OTHER      -> <<240 + cp \div 262144, 128 + ((cp \div 4096) % 64),
                         128 + ((cp \div 64) % 64), 128 + (cp % 64)>>

GetUtf8Bytes(str) ==
    IF WellFormed(str)
    THEN [ok |-> TRUE, val |-> FlattenSeq([i \in DOMAIN CodePoints(str) |-> Utf8OfCodePoint(CodePoints(str)[i])])]
    ELSE [ok |-> FALSE, val |-> "URIError"]

=============================================================================
