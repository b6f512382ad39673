--------------------------- MODULE LocaleFormatter ---------------------------
(***************************************************************************)
(* The display side of nrs.util.js and the process-wide state it shares: *)
(* the locale cache LOCALE_DATA_DATE/DECIMAL/SEPARATOR that getLocale     *)
(* fills from the browser's language, and NRS.constants.EPOCH_BEGINNING   *)
(* that the server's constants set.  format() refreshes the cache on      *)
(* every call; formatTimestamp() only while LOCALE_DATA_DATE is unset.    *)
(* The language and the constants change under the formatters: they are  *)
(* environment actions.                                                   *)
(***************************************************************************)
EXTENDS OrderMath, FormatStrings

CONSTANTS
    LOCALE_DATA,       \* [code, region] tag -> [dateFormat, decimal, section]
    Languages,         \* values of window.javaFxLanguage / navigator.language
    Upper,             \* lang.toUpperCase() of the 2-letter codes
    UNDEFINED,         \* an unset variable or missing argument
    EPOCH,             \* EPOCH_BEGINNING as the server reports it (ms)
    LogConsoleDefined, \* NRS.logConsole exists
    LangDeclared,      \* a global `lang` exists (it is local to getLocale)
    Amounts,           \* NQT amounts (BigInteger) given to formatAmount
    QNTValues,         \* QNT counts given to formatQuantity
    Decimals,          \* asset decimals
    PricesNQT,         \* prices given to formatOrderPricePerWholeQNT
    Weights,           \* integers given to formatWeight
    FormatInputs,      \* strings given to format() directly
    Dates,             \* Date values a timestamp denotes
    EpochTimes,        \* epoch timestamps (s) given to fromEpochTime
    Times              \* Date values (ms) given to toEpochTime

VARIABLES
    language,               \* the browser's language signal
    LOCALE_DATA_DATE,
    LOCALE_DATA_DECIMAL,
    LOCALE_DATA_SEPARATOR,
    constants,              \* NRS.constants.EPOCH_BEGINNING, UNDEFINED if unset
    op, arg, res            \* the last call, its arguments and outcome

vars == <<language, LOCALE_DATA_DATE, LOCALE_DATA_DECIMAL, LOCALE_DATA_SEPARATOR,
          constants, op, arg, res>>

NBSP == "nbsp"
SPAN_OPEN == "<span style='font-size:12px'>"
SPAN_CLOSE == "</span>"
TO_LOCALE_STRING == "toLocaleString"

\* The punctuation getLocale uses when the tag is not in LOCALE_DATA.
DefaultLocale == [dateFormat |-> <<"d", "d", "/", "M", "M", "/", "y", "y", "y", "y">>,
                  decimal |-> ".", section |-> "'"]

(***************************************************************************)
(* NRS.getLocale: a 2-letter tag becomes lang + "-" + lang.toUpperCase(), *)
(* then the table or the default.                                         *)
(***************************************************************************)
GetLocale(lang) ==
    LET tag == IF lang.region = "" THEN [code |-> lang.code, region |-> Upper[lang.code]]
                                   ELSE lang
    IN  IF tag \in DOMAIN LOCALE_DATA THEN LOCALE_DATA[tag] ELSE DefaultLocale

\* The three cache variables as one locale record.
Cache == [dateFormat |-> LOCALE_DATA_DATE, decimal |-> LOCALE_DATA_DECIMAL,
          section |-> LOCALE_DATA_SEPARATOR]

SetCache(loc) ==
    /\ LOCALE_DATA_DATE' = loc.dateFormat
    /\ LOCALE_DATA_DECIMAL' = loc.decimal
    /\ LOCALE_DATA_SEPARATOR' = loc.section

(***************************************************************************)
(* The locale format() reads: NRS.getLocale() runs on every call.          *)
(***************************************************************************)
\* Seeded fault: the cache is read as it stands, never refreshed.
FormatLocale_Cached(cache, lang) == cache
\* Seeded fault: refreshed only while unset, as formatTimestamp does it.
FormatLocale_Lazy(cache, lang) ==
    IF cache.dateFormat = UNDEFINED THEN GetLocale(lang) ELSE cache
FormatLocale(cache, lang) == GetLocale(lang)

\* `if (!LOCALE_DATA_DATE) NRS.getLocale()` in formatTimestamp.
TimestampLocale(cache, lang) ==
    IF cache.dateFormat = UNDEFINED THEN GetLocale(lang) ELSE cache

(***************************************************************************)
(* NRS.format(params, no_escaping), given the locale it has just loaded.  *)
(* A string parameter is split into sign and digits first; an object      *)
(* without "negative" (convertToQNTf's) has an empty sign.                *)
(***************************************************************************)
StringParams(s) ==
    IF s # <<>> /\ Head(s) = "-"
    THEN [negative |-> <<"-">>, amount |-> Tail(s), mantissa |-> <<>>]
    ELSE [negative |-> <<>>, amount |-> s, mantissa |-> <<>>]

Format(params, no_escaping, loc) ==
    LET out == params.negative \o Grouping(params.amount, loc.section)
                               \o ReplaceFirst(params.mantissa, ".", loc.decimal)
    IN  IF no_escaping THEN out ELSE EscapeHTML(out)

\* convertToQNTf's object has no "negative" field: params.negative is undefined.
QNTfParams(o) == [negative |-> <<>>, amount |-> o.amount, mantissa |-> o.mantissa]

\* NRS.formatAmount for a BigInteger (a string is parsed to one first).
FormatAmount(amount, no_escaping, loc) ==
    IF amount = UNDEFINED THEN <<"0">>
    ELSE Format(ConvertToNXT(amount, TRUE), no_escaping, loc)

\* NRS.formatStyledAmount: split the formatted amount at the decimal mark.
StyledAmount(formatted, loc) ==
    LET parts == Split(formatted, loc.decimal)
    IN  IF Len(parts) = 2
        THEN parts[1] \o <<SPAN_OPEN, loc.decimal>> \o parts[2] \o <<SPAN_CLOSE>>
        ELSE parts[1]

\* NRS.formatWeight: the same grouping loop with a fixed "'" and escaping.
FormatWeight(weight) == EscapeHTML(Grouping(ToDecimalString(weight), "'"))

(***************************************************************************)
(* formatTimestamp's rendering of a valid Date with the date pattern.      *)
(***************************************************************************)
RenderTimestamp(pattern, date, dateOnly, settings24) ==
    LET twelveHour == settings24 \in {UNDEFINED, "0"}
    IN  RenderDate(pattern, date) \o (IF dateOnly THEN <<>> ELSE RenderTime(date, twelveHour))

-----------------------------------------------------------------------------
(***************************************************************************)
(* The application around the formatters.                                 *)
(***************************************************************************)
Str == Seq(Digits \cup {"-", ".", ",", "'", NBSP, "&#39;", SPAN_OPEN, SPAN_CLOSE,
                        ":", " ", "/", "d", "M", "y", "AM", "PM", TO_LOCALE_STRING})
Locales == {GetLocale(l) : l \in Languages}
Unset == [dateFormat |-> UNDEFINED, decimal |-> UNDEFINED, section |-> UNDEFINED]

TypeOK ==
    /\ language \in Languages
    /\ Cache \in Locales \cup {Unset}
    /\ constants \in {UNDEFINED, 0, EPOCH}
    /\ res.ok => res.val \in IF op \in {"fromEpochTime", "toEpochTime"} THEN Int ELSE Str

Init ==
    /\ language \in Languages
    /\ LOCALE_DATA_DATE = UNDEFINED
    /\ LOCALE_DATA_DECIMAL = UNDEFINED
    /\ LOCALE_DATA_SEPARATOR = UNDEFINED
    /\ constants \in {UNDEFINED, 0}
    /\ op = "none"
    /\ arg = [n |-> 0, scale |-> 0, localized |-> FALSE, lang |-> language]
    /\ res = Ret(<<>>)

\* The browser or the JavaFX host reports another language.
ChangeLanguage ==
    /\ \E l \in Languages \ {language} : language' = l
    /\ UNCHANGED <<LOCALE_DATA_DATE, LOCALE_DATA_DECIMAL, LOCALE_DATA_SEPARATOR,
                   constants, op, arg, res>>

\* The server's constants arrive and set EPOCH_BEGINNING.
LoadConstants ==
    /\ constants # EPOCH
    /\ constants' = EPOCH
    /\ UNCHANGED <<language, LOCALE_DATA_DATE, LOCALE_DATA_DECIMAL, LOCALE_DATA_SEPARATOR,
                   op, arg, res>>

\* A call of a formatter that shows the integer n at the given scale.
FormatterCall(name, n, scale, localized, result) ==
    /\ op' = name
    /\ arg' = [n |-> n, scale |-> scale, localized |-> localized, lang |-> language]
    /\ res' = Ret(result)
    /\ UNCHANGED <<language, constants>>

\* The value a signed integer string stands for.
SignedVal(s) == IF s # <<>> /\ Head(s) = "-" THEN -NumVal(Tail(s)) ELSE NumVal(s)

CallFormat ==
    \E s \in FormatInputs, noEsc \in BOOLEAN :
        LET loc == FormatLocale(Cache, language)
        IN  /\ SetCache(loc)
            /\ FormatterCall("format", SignedVal(s), 0, TRUE, Format(StringParams(s), noEsc, loc))

CallFormatAmount ==
    \E a \in Amounts \cup {UNDEFINED}, noEsc \in BOOLEAN :
        LET loc == FormatLocale(Cache, language)
        IN  /\ IF a = UNDEFINED
               THEN UNCHANGED <<LOCALE_DATA_DATE, LOCALE_DATA_DECIMAL, LOCALE_DATA_SEPARATOR>>
               ELSE SetCache(loc)
            /\ FormatterCall("formatAmount", IF a = UNDEFINED THEN 0 ELSE a, NXT_DECIMALS, TRUE,
                     FormatAmount(a, noEsc, loc))

CallFormatQuantity ==
    \E q \in QNTValues, d \in Decimals, noEsc \in BOOLEAN :
        LET loc == FormatLocale(Cache, language)
        IN  /\ SetCache(loc)
            /\ FormatterCall("formatQuantity", q, d, TRUE,
                     Format(QNTfParams(ConvertToQNTf(ToDecimalString(q), d, TRUE)), noEsc, loc))

CallFormatOrderPricePerWholeQNT ==
    \E p \in PricesNQT, d \in Decimals :
        LET loc == FormatLocale(Cache, language)
        IN  /\ SetCache(loc)
            /\ FormatterCall("formatOrderPricePerWholeQNT", p * Pow10(d), NXT_DECIMALS, TRUE,
                     Format(CalculateOrderPricePerWholeQNT(p, d, TRUE), FALSE, loc))

CallFormatStyledAmount ==
    \E a \in Amounts \cup {UNDEFINED} :
        LET loc == FormatLocale(Cache, language)
        IN  /\ SetCache(loc)
            /\ FormatterCall("formatStyledAmount", IF a = UNDEFINED THEN 0 ELSE a, NXT_DECIMALS, TRUE,
                     StyledAmount(FormatAmount(a, FALSE, loc), loc))

CallFormatWeight ==
    \E w \in Weights :
        /\ UNCHANGED <<LOCALE_DATA_DATE, LOCALE_DATA_DECIMAL, LOCALE_DATA_SEPARATOR>>
        /\ FormatterCall("formatWeight", w, 0, FALSE, FormatWeight(w))

(***************************************************************************)
(* NRS.formatTimestamp(timestamp, date_only, isAbsoluteTime).  The Date   *)
(* a timestamp denotes (a Date object, new Date(ms), or new Date of       *)
(* fromEpochTime) is drawn from Dates: the calendar is not modelled.       *)
(* The log line after the first getLocale reads `lang`, which is local to *)
(* getLocale: with NRS.logConsole defined and no global `lang` it throws. *)
(***************************************************************************)
\* The log line runs inside `if (!LOCALE_DATA_DATE)`: on a call that loads the cache.
\* Seeded fault: the log line moved out of the block, run on every call.
TimestampLogs_Always(cache) == TRUE
TimestampLogs(cache) == cache.dateFormat = UNDEFINED

CallFormatTimestamp ==
    \E kind \in {"object", "absolute", "epoch"}, date \in Dates,
      dateOnly \in BOOLEAN, settings24 \in {UNDEFINED, "0", "1"} :
        LET loc == TimestampLocale(Cache, language)
            logThrows == TimestampLogs(Cache) /\ LogConsoleDefined /\ ~LangDeclared
        IN  /\ SetCache(loc)
            /\ op' = "formatTimestamp"
            /\ arg' = [kind |-> kind, date |-> date, dateOnly |-> dateOnly,
                       settings24 |-> settings24, lang |-> language]
            /\ res' = CASE logThrows -> Throw("ReferenceError")
                         [] kind = "epoch" /\ constants \in {UNDEFINED, 0}
                                  -> Throw("undefined epoch beginning")
                         [] ~date.valid -> Ret(<<TO_LOCALE_STRING>>)
                         [] OTHER -> Ret(RenderTimestamp(loc.dateFormat, date, dateOnly, settings24))
            /\ UNCHANGED <<language, constants>>

CallFromEpochTime ==
    \E t \in EpochTimes :
        /\ op' = "fromEpochTime"
        /\ arg' = [t |-> t]
        /\ res' = IF constants \in {UNDEFINED, 0} THEN Throw("undefined epoch beginning")
                                                ELSE Ret(FromEpochTime(t, constants))
        /\ UNCHANGED <<language, LOCALE_DATA_DATE, LOCALE_DATA_DECIMAL,
                       LOCALE_DATA_SEPARATOR, constants>>

\* NRS.toEpochTime reads NRS.constants.EPOCH_BEGINNING unguarded: a TypeError if unset.
CallToEpochTime ==
    \E ms \in Times :
        /\ op' = "toEpochTime"
        /\ arg' = [ms |-> ms]
        /\ res' = CASE constants = UNDEFINED -> Throw("TypeError")
                     [] constants = 0 -> Throw("undefined epoch beginning")
                     [] OTHER -> Ret(ToEpochTime(ms, constants))
        /\ UNCHANGED <<language, LOCALE_DATA_DATE, LOCALE_DATA_DECIMAL,
                       LOCALE_DATA_SEPARATOR, constants>>

Next ==
    \/ ChangeLanguage
    \/ LoadConstants
    \/ CallFormat
    \/ CallFormatAmount
    \/ CallFormatQuantity
    \/ CallFormatOrderPricePerWholeQNT
    \/ CallFormatStyledAmount
    \/ CallFormatWeight
    \/ CallFormatTimestamp
    \/ CallFromEpochTime
    \/ CallToEpochTime

Spec == Init /\ [][Next]_vars

-----------------------------------------------------------------------------
(***************************************************************************)
(* Reference definitions, from spec §4.6 rather than from the code.        *)
(***************************************************************************)
\* The table entry for the language's own tag, or for "xx-XX" if it is a bare code.
LocaleRef(l) ==
    LET entries == {t \in DOMAIN LOCALE_DATA :
                      t.code = l.code /\ (t.region = l.region \/ (l.region = "" /\ t.region = Upper[l.code]))}
    IN  IF entries = {} THEN DefaultLocale ELSE LOCALE_DATA[CHOOSE t \in entries : TRUE]

\* The display of the integer n at scale S: sign, integer part grouped by
\* three, and the fraction without trailing zeros after the decimal mark.
ExpectedDisplay(n, S, loc) ==
    LET a == IF n < 0 THEN -n ELSE n
        f == a % Pow10(S)
    IN  (IF n < 0 THEN <<"-">> ELSE <<>>)
        \o GroupedRef(ToDecimalString(a \div Pow10(S)), loc.section)
        \o (IF f = 0 THEN <<>>
            ELSE <<loc.decimal>> \o StripTrailingZeros(PadLeftZeros(ToDecimalString(f), S)))

\* What a reader sees: entities decoded, the styling span removed.
Shown(out) == ReplaceAll(SelectSeq(out, LAMBDA c : c \notin {SPAN_OPEN, SPAN_CLOSE}), "&#39;", "'")

Pad2(n) == <<DigitChars[(n \div 10) + 1], DigitChars[(n % 10) + 1]>>

\* The clock as spec'd: 12-hour time is ((h + 11) mod 12) + 1 with AM before noon.
TimeRef(date, dateOnly, settings24) ==
    IF dateOnly THEN <<>>
    ELSE LET twelve == settings24 # "1"
             h == IF twelve THEN ((date.hours + 11) % 12) + 1 ELSE date.hours
         IN  <<" ">> \o ToDecimalString(h) \o <<":">> \o Pad2(date.minutes)
                    \o <<":">> \o Pad2(date.seconds)
                    \o (IF twelve THEN <<" ", IF date.hours < 12 THEN "AM" ELSE "PM">> ELSE <<>>)

-----------------------------------------------------------------------------
(***************************************************************************)
(* Every formatter that shows a number (format, formatAmount,              *)
(* formatQuantity, formatOrderPricePerWholeQNT, formatStyledAmount,       *)
(* formatWeight) shows its exact value with the punctuation of the        *)
(* language in force when it is called (arg.lang): format() must reload   *)
(* the locale cache after any change of language, the converters must    *)
(* hand it a well-formed (sign, digits, mantissa) triple, and the        *)
(* grouping loop must put separators every three digits of the integer   *)
(* part only.                                                              *)
(***************************************************************************)
FormatShowsAmount ==
    op \in {"format", "formatAmount", "formatQuantity", "formatOrderPricePerWholeQNT",
           "formatStyledAmount", "formatWeight"} =>
        Shown(res.val) = ExpectedDisplay(arg.n, arg.scale,
                                         IF arg.localized THEN LocaleRef(arg.lang) ELSE DefaultLocale)

(***************************************************************************)
(* formatTimestamp renders a valid Date with the date pattern it leaves in *)
(* LOCALE_DATA_DATE, field by field (dd before d, MM before M, yyyy       *)
(* before yy in its replace chain), and a 12-hour clock with 12 for noon  *)
(* and midnight unless the 24-hour setting is on.                         *)
(***************************************************************************)
TimestampRendered ==
    op = "formatTimestamp" /\ res.ok /\ arg.date.valid =>
        res.val = DateRef(LOCALE_DATA_DATE, arg.date)
                  \o TimeRef(arg.date, arg.dateOnly, arg.settings24)

(***************************************************************************)
(* The ReferenceError of formatTimestamp's log line (it reads `lang`,     *)
(* local to getLocale) is a first-call failure only: a call throws it     *)
(* only when it finds LOCALE_DATA_DATE unset, and that call leaves the    *)
(* date pattern loaded, so no later formatTimestamp, after any language   *)
(* change or format() call, throws it again.  (The steps that leave the   *)
(* language and the constants alone are the calls.)                       *)
(***************************************************************************)
TimestampLogThrowsOnce ==
    [][op' = "formatTimestamp" /\ res' = Throw("ReferenceError")
       /\ UNCHANGED <<language, constants>> =>
           LOCALE_DATA_DATE = UNDEFINED /\ LOCALE_DATA_DATE' # UNDEFINED]_vars

(***************************************************************************)
(* Spec §2/§9: the locale punctuation is recomputed on use, so a          *)
(* timestamp is shown in the date pattern of the language in force.       *)
(***************************************************************************)
TimestampUsesCurrentLocale ==
    op = "formatTimestamp" /\ res.ok /\ arg.date.valid =>
        res.val = DateRef(LocaleRef(arg.lang).dateFormat, arg.date)
                  \o TimeRef(arg.date, arg.dateOnly, arg.settings24)

(* fromEpochTime gives the Date half a second before the start of       *)
(* second t, and toEpochTime floors: the two never agree, a timestamp    *)
(* taken to a Date and back is always one second early -- for every      *)
(* timestamp and epoch beginning, not only at a boundary.                *)
(***************************************************************************)
EpochRoundTripLagsOneSecond ==
    op = "fromEpochTime" /\ res.ok => ToEpochTime(res.val, constants) = arg.t - 1

=============================================================================
