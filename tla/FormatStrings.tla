---------------------------- MODULE FormatStrings ----------------------------
(***************************************************************************)
(* The pure string work of the display functions of nrs.util.js: the     *)
(* digit-grouping loop of format/formatWeight, the first-"." replacement  *)
(* of the mantissa, the /x/g replacement chain of formatTimestamp, its    *)
(* 12-hour clock, escapeHTML, and the epoch conversions.  Characters are  *)
(* one-element strings as in DecimalStrings; a locale's no-break space    *)
(* and an HTML entity are single tokens.                                   *)
(***************************************************************************)
EXTENDS DecimalStrings

(***************************************************************************)
(* The loop of format() over digits = amount.split("").reverse():         *)
(*   if (i > 0 && i % 3 == 0) out = SEPARATOR + out;  out = digits[i] + out *)
(* k is the 1-based position, i = k - 1.                                   *)
(***************************************************************************)
RECURSIVE GroupLoop(_, _, _, _)
GroupLoop(digits, k, out, sep) ==
    IF k > Len(digits) THEN out
    ELSE GroupLoop(digits, k + 1,
                   <<digits[k]>> \o (IF k > 1 /\ (k - 1) % 3 = 0 THEN <<sep>> \o out ELSE out),
                   sep)

\* The grouped form of a string of characters, as format() builds it.
Grouping(amount, sep) == GroupLoop(Reverse(amount), 1, <<>>, sep)

\* params.mantissa.replace(".", DECIMAL): the first "." only.
ReplaceFirst(s, c, r) ==
    LET i == SelectInSeq(s, LAMBDA x : x = c)
    IN  IF i = 0 THEN s ELSE SubSeq(s, 1, i - 1) \o <<r>> \o SubSeq(s, i + 1, Len(s))

(***************************************************************************)
(* String.prototype.escapeHTML, defined by the application outside this   *)
(* file: each of & < > " ' becomes its entity.  Of these only "'" (the    *)
(* default group separator) can occur in a formatted amount.              *)
(***************************************************************************)
EscapeHTML(s) == [i \in 1..Len(s) |-> IF s[i] = "'" THEN "&#39;" ELSE s[i]]

(***************************************************************************)
(* s.replace(/pat/g, rep): every non-overlapping occurrence, left to right *)
(* (ReplaceAllSubSeqs of SequencesExt, without its enumeration of SubSeqs). *)
(***************************************************************************)
RECURSIVE ReplaceGlobal(_, _, _)
ReplaceGlobal(s, pat, rep) ==
    IF Len(s) < Len(pat) THEN s
    ELSE IF SubSeq(s, 1, Len(pat)) = pat
         THEN rep \o ReplaceGlobal(SubSeq(s, Len(pat) + 1, Len(s)), pat, rep)
         ELSE <<Head(s)>> \o ReplaceGlobal(Tail(s), pat, rep)

\* '0' + n for n < 10, else n: the dd, MM, minutes and seconds fields.
TwoDigits(n) == IF n < 10 THEN <<"0">> \o ToDecimalString(n) ELSE ToDecimalString(n)

(***************************************************************************)
(* The date part of formatTimestamp: LOCALE_DATA_DATE.replace(/dd/g, dd)  *)
(* .replace(/d/g, d).replace(/MM/g, MM).replace(/M/g, M)                  *)
(* .replace(/yyyy/g, yyyy).replace(/yy/g, yy), yy = String(yyyy).         *)
(* substring(2).  A date is [d, M, yyyy, hours, minutes, seconds].        *)
(***************************************************************************)
\* Seeded fault: /d/g is replaced before /dd/g.
RenderDate_SingleFirst(pattern, date) ==
    LET yyyy == ToDecimalString(date.yyyy)
        s1 == ReplaceGlobal(ReplaceGlobal(pattern, <<"d">>, ToDecimalString(date.d)),
                         <<"d", "d">>, TwoDigits(date.d))
        s2 == ReplaceGlobal(ReplaceGlobal(s1, <<"M", "M">>, TwoDigits(date.M)),
                         <<"M">>, ToDecimalString(date.M))
    IN  ReplaceGlobal(ReplaceGlobal(s2, <<"y", "y", "y", "y">>, yyyy),
                   <<"y", "y">>, Substring(yyyy, 2, Len(yyyy)))

RenderDate(pattern, date) ==
    LET yyyy == ToDecimalString(date.yyyy)
        s1 == ReplaceGlobal(ReplaceGlobal(pattern, <<"d", "d">>, TwoDigits(date.d)),
                         <<"d">>, ToDecimalString(date.d))
        s2 == ReplaceGlobal(ReplaceGlobal(s1, <<"M", "M">>, TwoDigits(date.M)),
                         <<"M">>, ToDecimalString(date.M))
    IN  ReplaceGlobal(ReplaceGlobal(s2, <<"y", "y", "y", "y">>, yyyy),
                   <<"y", "y">>, Substring(yyyy, 2, Len(yyyy)))

(***************************************************************************)
(* The clock of formatTimestamp: without NRS.settings or with             *)
(* "24_hour_format" == "0", hour 0 shows as 12 and 13..23 as 1..11, and   *)
(* AM/PM follows the original hour.                                        *)
(***************************************************************************)
ShownHours(h, twelveHour) ==
    CASE twelveHour /\ h = 0             -> h + 12
      [] twelveHour /\ h >= 13 /\ h <= 23 -> h - 12
      [] OTHER                            -> h

RenderTime(date, twelveHour) ==
    <<" ">> \o ToDecimalString(ShownHours(date.hours, twelveHour))
            \o <<":">> \o TwoDigits(date.minutes) \o <<":">> \o TwoDigits(date.seconds)
            \o (IF twelveHour THEN <<" ", IF date.hours >= 12 THEN "PM" ELSE "AM">>
                              ELSE <<>>)

(***************************************************************************)
(* NRS.fromEpochTime / NRS.toEpochTime, over milliseconds.  Math.floor of *)
(* a quotient by 1000 is \div, which floors for negative numerators too. *)
(***************************************************************************)
\* Seeded fault: the half second added instead of taken off.
FromEpochTime_PlusHalf(epochTime, epochBeginning) == epochTime * 1000 + epochBeginning + 500

FromEpochTime(epochTime, epochBeginning) == epochTime * 1000 + epochBeginning - 500
ToEpochTime(currentTime, epochBeginning) == (currentTime - epochBeginning) \div 1000

(***************************************************************************)
(* Reference definitions for the properties.                              *)
(***************************************************************************)
\* Digits grouped by three from the right, the rule of spec §4.6.
RECURSIVE GroupedRef(_, _)
GroupedRef(s, sep) ==
    IF Len(s) <= 3 THEN s
    ELSE GroupedRef(SubSeq(s, 1, Len(s) - 3), sep) \o <<sep>> \o SubSeq(s, Len(s) - 2, Len(s))

\* A date pattern read token by token: the longest run of one field letter.
RECURSIVE RunLength(_, _)
RunLength(s, c) == IF s # <<>> /\ Head(s) = c THEN 1 + RunLength(Tail(s), c) ELSE 0

RECURSIVE DateRef(_, _)
DateRef(p, date) ==
    IF p = <<>> THEN <<>>
    ELSE LET c == Head(p)
             n == RunLength(p, c)
             field == CASE c = "d" /\ n = 2 -> TwoDigits(date.d)
                        [] c = "d"          -> ToDecimalString(date.d)
                        [] c = "M" /\ n = 2 -> TwoDigits(date.M)
                        [] c = "M"          -> ToDecimalString(date.M)
                        [] c = "y" /\ n = 4 -> ToDecimalString(date.yyyy)
                        [] c = "y"          -> TwoDigits(date.yyyy % 100)
                        [] OTHER            -> <<c>>
             used == IF c \in {"d", "M", "y"} THEN n ELSE 1
         IN  field \o DateRef(SubSeq(p, used + 1, Len(p)), date)

=============================================================================
