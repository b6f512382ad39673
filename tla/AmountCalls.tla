----------------------------- MODULE AmountCalls -----------------------------
(***************************************************************************)
(* A caller of the stateless functions of nrs.util.js: the amount and   *)
(* order functions (AmountConverter, OrderMath), the keydown filter      *)
(* validateDecimals of the same amount fields (InputValidation),         *)
(* versionCompare (Versions), the string codecs (ByteCodecs),           *)
(* isPrivateIP (Network), translateServerError (ServerErrors) and the   *)
(* unconfirmed-transaction lookup (UnconfirmedCache) and the encoding   *)
(* of generateToken (TokenEncoding).  Each step calls                   *)
(* one function with arguments                                           *)
(* drawn from the constant sets and keeps the function's name, its       *)
(* arguments and its outcome, so that the invariants can hold what the   *)
(* code returned against reference definitions and against the function *)
(* that is meant to undo it.                                              *)
(***************************************************************************)
EXTENDS OrderMath, InputValidation, Versions, ByteCodecs, Network, ServerErrors,
        UnconfirmedCache, TokenEncoding

CONSTANTS
    NXTAmounts,      \* BigInteger amounts in NQT given to convertToNXT
    NQTInputs,       \* strings typed into an NXT amount field
    QNTValues,       \* QNT counts given to convertToQNTf
    QNTInputs,       \* strings typed into an asset quantity field
    PrecisionInputs, \* strings given to amountToPrecision
    Decimals,        \* asset decimal counts tried for quantities
    QuantitiesQNT,   \* order quantities (QNT)
    PricesNQT,       \* order prices (NQT per QNT)
    WholePricesNQT,  \* prices per whole asset unit (NQT) to be cut to NQT per QNT
    AssetDecimals,   \* asset decimal counts tried for prices
    FieldValues,     \* values an amount field holds when a key goes down
    KeyCodes,        \* keydown keyCodes
    VersionInputs,   \* version strings given to versionCompare
    NoVersion,       \* a version argument that is undefined
    CodeUnitStrings, \* strings, as UTF-16 code units, given to the codecs
    IPs,             \* strings given to isPrivateIP
    Responses,       \* server error responses given to translateServerError
    MessageKeys,     \* errorCode -1 texts -> the key that names what they report
    Accounts,        \* account ids of cached transactions
    Caches,          \* contents of NRS.unconfirmedTransactions
    TypeArgs,        \* `type` arguments: a number or an array
    SubtypeArgs,     \* `subtype` arguments: a number or an array
    FieldArgs,       \* `fields` arguments: <<key, value>> pairs, or Undefined
    Answers,         \* getDGSGood responses
    PublicKeys,      \* 32-byte public keys getPublicKey returns
    Signatures,      \* 64-byte signatures signBytes returns
    Timestamps       \* toEpochTime() at the time of the call


-----------------------------------------------------------------------------
(***************************************************************************)
(* The caller.  `op` names the function called last, `arg` its arguments *)
(* and `res` its outcome; before the first call op = "none".              *)
(***************************************************************************)
VARIABLES op, arg, res
vars == <<op, arg, res>>

Ops == {"none", "convertToNXT", "amountToPrecision", "convertToNQT",
        "convertToQNTf", "convertToQNT", "calculateOrderTotalNQT",
        "calculateOrderTotal", "calculateOrderPricePerWholeQNT",
        "calculatePricePerWholeQNT", "validateDecimals", "versionCompare",
        "convertToHex16", "convertFromHex16", "convertToHex8", "convertFromHex8",
        "strToUTF8Arr", "getUtf8Bytes", "isPrivateIP", "translateServerError",
        "getUnconfirmedTransactionsFromCache", "generateToken"}

\* The characters a result may hold: what BigInteger and the inputs give.
Chars == Digits \cup {".", "-"}
ErrorKeys == {"error_invalid_input", "error_fraction_decimals", "error_invalid_input_numbers", "URIError"}
Str == Seq(Chars)
DisplayResult == IF arg.returnAsObject
                 THEN [negative : Str, amount : Str, mantissa : Str] \cup [amount : Str, mantissa : Str]
                 ELSE Str

Tokens == [w : STRING] \cup [f : Seq(STRING)]
FieldNames == [tr : Seq(STRING)] \cup [lowtr : Seq(STRING)] \cup [text : Seq(STRING)]
Account == {Undefined} \cup Accounts
CachedTx == [transaction : Int, type : Int, subtype : Int, sender : Account, recipient : Account,
             name : {Undefined} \cup STRING, buyer : Account, seller : Account,
             goods : {Undefined} \cup Int, attachment : {Undefined} \cup Int]
Translations == [t : STRING, names : Seq(FieldNames), reason : Seq(Tokens)] \cup [raw : Seq(Tokens)]

TypeOK ==
    /\ op \in Ops
    /\ res.ok \in BOOLEAN
    /\ ~res.ok => res.val \in ErrorKeys
    /\ res.ok => res.val \in CASE op \in {"convertToNXT", "convertToQNTf", "calculateOrderPricePerWholeQNT"} -> DisplayResult
                                [] op \in {"validateDecimals", "isPrivateIP"} -> BOOLEAN
                                [] op = "versionCompare"   -> {-1, 0, 1, NaN}
                                [] op \in {"convertToHex16", "convertToHex8"} -> Seq(ToSet(HexChars))
                                [] op \in {"convertFromHex16", "convertFromHex8"} -> Seq(0..65535)
                                [] op \in {"strToUTF8Arr", "getUtf8Bytes"} -> Seq(0..255)
                                [] op = "translateServerError" -> [text : Translations, response : Responses]
                                [] op = "generateToken" -> Seq(ToSet(Base32Chars))
                                [] op = "getUnconfirmedTransactionsFromCache" ->
                                       [result : {False} \cup IF arg.single THEN CachedTx ELSE Seq(CachedTx),
                                        cache : Seq(CachedTx)]
                                [] OTHER                   -> Str

Init ==
    /\ op = "none"
    /\ arg = <<>>
    /\ res = Ret(<<>>)

CallConvertToNXT ==
    \E a \in NXTAmounts, asObject \in BOOLEAN :
        /\ op' = "convertToNXT"
        /\ arg' = [amount |-> a, returnAsObject |-> asObject]
        /\ res' = Ret(ConvertToNXT(a, asObject))

CallAmountToPrecision ==
    \E s \in PrecisionInputs, d \in Decimals :
        /\ op' = "amountToPrecision"
        /\ arg' = [amount |-> s, decimals |-> d]
        /\ res' = AmountToPrecision(s, d)

CallConvertToNQT ==
    \E s \in NQTInputs :
        /\ op' = "convertToNQT"
        /\ arg' = [currency |-> s]
        /\ res' = ConvertToNQT(s)

CallConvertToQNTf ==
    \E n \in QNTValues, d \in Decimals, asObject \in BOOLEAN :
        LET q == ToDecimalString(n)    \* String(quantity)
        IN  /\ op' = "convertToQNTf"
            /\ arg' = [quantity |-> q, decimals |-> d, returnAsObject |-> asObject]
            /\ res' = Ret(ConvertToQNTf(q, d, asObject))

CallConvertToQNT ==
    \E s \in QNTInputs, d \in Decimals :
        /\ op' = "convertToQNT"
        /\ arg' = [quantity |-> s, decimals |-> d]
        /\ res' = ConvertToQNT(s, d)

CallCalculateOrderTotalNQT ==
    \E q \in QuantitiesQNT, p \in PricesNQT :
        /\ op' = "calculateOrderTotalNQT"
        /\ arg' = [quantityQNT |-> q, priceNQT |-> p]
        /\ res' = Ret(CalculateOrderTotalNQT(q, p))

CallCalculateOrderTotal ==
    \E q \in QuantitiesQNT, p \in PricesNQT :
        /\ op' = "calculateOrderTotal"
        /\ arg' = [quantityQNT |-> q, priceNQT |-> p]
        /\ res' = Ret(CalculateOrderTotal(q, p))

CallCalculateOrderPricePerWholeQNT ==
    \E p \in PricesNQT, d \in AssetDecimals, asObject \in BOOLEAN :
        /\ op' = "calculateOrderPricePerWholeQNT"
        /\ arg' = [price |-> p, decimals |-> d, returnAsObject |-> asObject]
        /\ res' = Ret(CalculateOrderPricePerWholeQNT(p, d, asObject))

CallCalculatePricePerWholeQNT ==
    \E w \in WholePricesNQT, d \in AssetDecimals :
        LET price == ToDecimalString(w)    \* String(price)
        IN  /\ op' = "calculatePricePerWholeQNT"
            /\ arg' = [price |-> price, decimals |-> d]
            /\ res' = CalculatePricePerWholeQNT(price, d)

(***************************************************************************)
(* A key goes down in a field holding val, with the caret at `caret`     *)
(* (0 = before the first character) and the whole value selected or not. *)
(* validateDecimals only sees val; where the key would type is kept for  *)
(* the properties.                                                        *)
(***************************************************************************)
CallValidateDecimals ==
    \E d \in Decimals, c \in KeyCodes, val \in FieldValues, sel \in BOOLEAN :
    \E caret \in 0..Len(val) :
        /\ op' = "validateDecimals"
        /\ arg' = [maxFractionLength |-> d, charCode |-> c, val |-> val,
                   selectedIsVal |-> sel, caret |-> caret]
        /\ res' = Ret(ValidateDecimals(d, c, val, sel))

CallVersionCompare ==
    \E v1, v2 \in VersionInputs \cup {NoVersion} :
        /\ op' = "versionCompare"
        /\ arg' = [v1 |-> v1, v2 |-> v2]
        /\ res' = Ret(VersionCompare(v1, v2, NoVersion))

(***************************************************************************)
(* The caller takes the outcome and is ready for its next call.  None of *)
(* the functions reads anything a call leaves behind, so a call from the *)
(* initial state reaches every outcome a longer history could.           *)
(***************************************************************************)
TakeResult ==
    /\ op # "none"
    /\ op' = "none"
    /\ arg' = <<>>
    /\ res' = Ret(<<>>)

\* The codecs: a string in, or the hex the matching encoder makes of one.
CallConvertToHex16 ==
    \E str \in CodeUnitStrings :
        /\ op' = "convertToHex16"
        /\ arg' = [str |-> str]
        /\ res' = Ret(ConvertToHex16(str))

CallConvertFromHex16 ==
    \E str \in CodeUnitStrings :
        /\ op' = "convertFromHex16"
        /\ arg' = [hex |-> ConvertToHex16(str)]
        /\ res' = Ret(ConvertFromHex16(ConvertToHex16(str)))

CallConvertToHex8 ==
    \E str \in CodeUnitStrings :
        /\ op' = "convertToHex8"
        /\ arg' = [str |-> str]
        /\ res' = Ret(ConvertToHex8(str))

CallConvertFromHex8 ==
    \E str \in CodeUnitStrings :
        /\ op' = "convertFromHex8"
        /\ arg' = [hex |-> ConvertToHex8(str)]
        /\ res' = Ret(ConvertFromHex8(ConvertToHex8(str)))

CallStrToUTF8Arr ==
    \E str \in CodeUnitStrings :
        /\ op' = "strToUTF8Arr"
        /\ arg' = [str |-> str]
        /\ res' = Ret(StrToUTF8Arr(str))

CallGetUtf8Bytes ==
    \E str \in CodeUnitStrings :
        /\ op' = "getUtf8Bytes"
        /\ arg' = [str |-> str]
        /\ res' = GetUtf8Bytes(str)

CallIsPrivateIP ==
    \E ip \in IPs :
        /\ op' = "isPrivateIP"
        /\ arg' = [ip |-> ip]
        /\ res' = Ret(IsPrivateIP(ip))

CallTranslateServerError ==
    \E r \in Responses :
        /\ op' = "translateServerError"
        /\ arg' = [response |-> r]
        /\ res' = Ret(TranslateServerError(r))

\* The getDGSGood requests made by the call are answered from Answers; there
\* is at most one per hit.
CallGetUnconfirmedTransactionsFromCache ==
    \E cache \in Caches, type \in TypeArgs, subtype \in SubtypeArgs, fields \in FieldArgs,
      single \in BOOLEAN :
        \E answers \in [1..Len(Hits(cache, AsArray(type), AsArray(subtype), fields)) -> Answers] :
            /\ op' = "getUnconfirmedTransactionsFromCache"
            /\ arg' = [cache |-> cache, type |-> type, subtype |-> subtype,
                       fields |-> fields, single |-> single]
            /\ res' = Ret(GetUnconfirmedTransactionsFromCache(cache, type, subtype, fields, single, answers))

CallGenerateToken ==
    \E pk \in PublicKeys, ts \in Timestamps, sig \in Signatures :
        /\ op' = "generateToken"
        /\ arg' = [pubKey |-> pk, ts |-> ts, signature |-> sig]
        /\ res' = Ret(GenerateToken(pk, ts, sig))

Next ==
    \/ /\ op = "none"
       /\ \/ CallConvertToNXT
          \/ CallAmountToPrecision
          \/ CallConvertToNQT
          \/ CallConvertToQNTf
          \/ CallConvertToQNT
          \/ CallCalculateOrderTotalNQT
          \/ CallCalculateOrderTotal
          \/ CallCalculateOrderPricePerWholeQNT
          \/ CallCalculatePricePerWholeQNT
          \/ CallValidateDecimals
          \/ CallVersionCompare
          \/ CallConvertToHex16
          \/ CallConvertFromHex16
          \/ CallConvertToHex8
          \/ CallConvertFromHex8
          \/ CallStrToUTF8Arr
          \/ CallGetUtf8Bytes
          \/ CallIsPrivateIP
          \/ CallTranslateServerError
          \/ CallGetUnconfirmedTransactionsFromCache
          \/ CallGenerateToken
    \/ TakeResult

Spec == Init /\ [][Next]_vars


-----------------------------------------------------------------------------
(***************************************************************************)
(* convertToNXT shows every NQT amount, negative ones included, as the   *)
(* normalized display triple of §3: exact, no ".0", no trailing zero.     *)
(* It depends on the zero padding of the remainder to 8 places.           *)
(***************************************************************************)
NXTDisplayExact ==
    op = "convertToNXT" /\ arg.returnAsObject =>
        Shows(res.val.negative \o res.val.amount, res.val.mantissa,
              arg.amount, NXT_DECIMALS)

(***************************************************************************)
(* Round trip of §8: typing the string convertToNXT displays back into an *)
(* amount field gives, through convertToNQT, the NQT amount displayed     *)
(* (for a negative amount, after its "-").  Two functions written apart   *)
(* must agree on padding, truncation and zero handling.                   *)
(***************************************************************************)
NXTRoundTrip ==
    op = "convertToNXT" /\ ~arg.returnAsObject =>
        IF arg.amount < 0
        THEN Head(res.val) = "-" /\ ConvertToNQT(Tail(res.val)) = Ret(ToDecimalString(-arg.amount))
        ELSE ConvertToNQT(res.val) = Ret(ToDecimalString(arg.amount))

(***************************************************************************)
(* convertToNQT accepts every decimal numeral (the empty one is 0) and   *)
(* returns its value truncated, not rounded, to 8 places as a canonical   *)
(* integer string (§4.3, §8 "1.999999995").                               *)
(***************************************************************************)
NQTExact ==
    op = "convertToNQT" /\ DecimalNumeral(arg.currency) =>
        /\ res.ok
        /\ Canonical(res.val)
        /\ ScaledPair(res.val, NXT_DECIMALS) = NumeralValue(arg.currency, NXT_DECIMALS)

(***************************************************************************)
(* §4.3 / §7: convertToNQT fails with InvalidFormat on any character that *)
(* is not a digit once the one "." is removed.                            *)
(***************************************************************************)
NQTRejectsMalformed ==
    op = "convertToNQT" /\ res.ok => DecimalNumeral(arg.currency)

(***************************************************************************)
(* convertToQNT is strict: it accepts exactly the numerals with at most  *)
(* `decimals` fraction digits (and some digit, unless the scale supplies  *)
(* one), never another string, and returns their exact QNT count.         *)
(***************************************************************************)
QNTExact ==
    op = "convertToQNT" =>
        LET s == arg.quantity
            d == arg.decimals
        IN  /\ res.ok => /\ DecimalNumeral(s) /\ Len(FracDigits(s)) <= d
                         /\ Canonical(res.val)
                         /\ NumVal(res.val) = NumVal(IntDigits(s)) * Pow10(d)
                                              + TruncatedFraction(FracDigits(s), d)
            /\ DecimalNumeral(s) /\ Len(FracDigits(s)) <= d /\ HasDigit(s) => res.ok

(***************************************************************************)
(* convertToQNTf shows a QNT count at the asset's scale as a normalized   *)
(* display pair, and typing the string it returns back into a quantity   *)
(* field gives, through convertToQNT, the count displayed.                *)
(***************************************************************************)
QNTRoundTrip ==
    op = "convertToQNTf" =>
        LET n == IF Head(arg.quantity) = "-" THEN -NumVal(Tail(arg.quantity))
                                             ELSE NumVal(arg.quantity)
            d == arg.decimals
        IN  IF arg.returnAsObject
            THEN Shows(res.val.amount, res.val.mantissa, n, d)
            ELSE n >= 0 => ConvertToQNT(res.val, d) = Ret(arg.quantity)

(***************************************************************************)
(* amountToPrecision cuts a numeral to `decimals` places without rounding *)
(* (§4.3): the value it returns is the argument's, truncated.             *)
(***************************************************************************)
PrecisionTruncates ==
    op = "amountToPrecision" /\ DecimalNumeral(arg.amount) =>
        /\ res.ok
        /\ NumeralValue(res.val, arg.decimals) = NumeralValue(arg.amount, arg.decimals)
        /\ Len(FracDigits(res.val)) <= arg.decimals

(***************************************************************************)
(* §4.3: what amountToPrecision returns has its trailing zeros stripped:  *)
(* no "0" at the end of a fraction, and no "." left without digits.       *)
(***************************************************************************)
PrecisionNormalized ==
    op = "amountToPrecision" /\ res.ok /\ DotIndex(res.val) > 0 =>
        Last(res.val) \notin {".", "0"}


(***************************************************************************)
(* §8 order total exactness: the NXT total calculateOrderTotal displays, *)
(* typed back through convertToNQT, is the NQT total calculateOrder-      *)
(* TotalNQT returns for the same order.                                   *)
(***************************************************************************)
OrderTotalsAgree ==
    op = "calculateOrderTotal" =>
        ConvertToNQT(res.val) = Ret(CalculateOrderTotalNQT(arg.quantityQNT, arg.priceNQT))

(***************************************************************************)
(* calculatePricePerWholeQNT divides a price per whole unit by 10^d: it  *)
(* succeeds exactly when the division is exact, and the digits it        *)
(* returns are worth the quotient.                                        *)
(***************************************************************************)
PricePerQNTExact ==
    op = "calculatePricePerWholeQNT" =>
        LET w == NumVal(arg.price)
            d == arg.decimals
        IN  /\ res.ok <=> w % Pow10(d) = 0
            /\ res.ok => NumVal(res.val) * Pow10(d) = w

(***************************************************************************)
(* The order form's price round trip: the price per whole unit shown by  *)
(* calculateOrderPricePerWholeQNT, read back by convertToNQT and cut by  *)
(* calculatePricePerWholeQNT, is the NQT-per-QNT price string it started *)
(* from, as BigInteger prints it.                                         *)
(***************************************************************************)
PriceRoundTrip ==
    op = "calculateOrderPricePerWholeQNT" /\ ~arg.returnAsObject =>
        CalculatePricePerWholeQNT(ConvertToNQT(res.val).val, arg.decimals)
            = Ret(ToDecimalString(arg.price))

\* The field value after a key typed at the caret, or replacing the whole
\* value when it is all selected.
FieldAfterKey(a) ==
    IF a.selectedIsVal THEN <<TypedChar(a.charCode)>>
    ELSE SubSeq(a.val, 1, a.caret) \o <<TypedChar(a.charCode)>> \o SubSeq(a.val, a.caret + 1, Len(a.val))

\* A key that types a character, let through in a field convertToQNT accepts.
AcceptedKeyInValidField ==
    /\ op = "validateDecimals" /\ res.val /\ TypesChar(arg.charCode)
    /\ ConvertToQNT(arg.val, arg.maxFractionLength).ok

(***************************************************************************)
(* The keydown filter and convertToQNT agree: a key validateDecimals lets *)
(* through, pressed in a field whose value convertToQNT accepts at the   *)
(* field's decimals, leaves a decimal numeral wherever the caret is (one *)
(* "." at most, even when the whole value is selected and replaced), and *)
(* typed at the end of the value -- what the filter's check assumes --   *)
(* a value convertToQNT still accepts.                                    *)
(***************************************************************************)
KeystrokeKeepsQuantityValid ==
    AcceptedKeyInValidField =>
        /\ DecimalNumeral(FieldAfterKey(arg))
        /\ arg.caret = Len(arg.val) => ConvertToQNT(FieldAfterKey(arg), arg.maxFractionLength).ok

(***************************************************************************)
(* validateDecimals' own comment: "only allow as many as there are        *)
(* decimals allowed".  Wherever the caret is, a key it lets through      *)
(* leaves at most maxFractionLength digits after the ".", so the value   *)
(* still passes convertToQNT.                                             *)
(***************************************************************************)
FractionLimitKept ==
    AcceptedKeyInValidField =>
        ConvertToQNT(FieldAfterKey(arg), arg.maxFractionLength).ok

(***************************************************************************)
(* versionCompare orders valid versions as numeric part sequences, a     *)
(* proper prefix first ("1.5" < "1.5.0"), and an "e" version after the   *)
(* same version without it; so it is antisymmetric.  A part that is not  *)
(* all digits gives NaN.                                                  *)
(***************************************************************************)
VersionOrder ==
    op = "versionCompare" /\ arg.v1 # NoVersion /\ arg.v2 # NoVersion =>
        IF ValidParts(WithoutE(arg.v1)) /\ ValidParts(WithoutE(arg.v2))
        THEN res.val = VersionOrderRef(arg.v1, arg.v2)
        ELSE res.val = NaN

(***************************************************************************)
(* convertFromHex16 undoes convertToHex16 for every string: each code    *)
(* unit, below 2^16, is written as exactly 4 hex digits and read back 4  *)
(* at a time, so the padding and the chunking must agree.                *)
(***************************************************************************)
Hex16RoundTrip ==
    op = "convertToHex16" => ConvertFromHex16(res.val) = arg.str

(***************************************************************************)
(* convertToHex8 writes each code unit without padding and               *)
(* convertFromHex8 reads the text back two digits at a time: the round   *)
(* trip gives the string back exactly when every unit fits a byte and    *)
(* every unit but the last has two hex digits (16..255) -- a last unit   *)
(* below 16 is read back from the one-digit tail.  Anywhere else, a unit *)
(* below 16 or above 255 shifts the chunking and what follows is wrong.  *)
(***************************************************************************)
Hex8RoundTripOnBytes ==
    op = "convertToHex8" =>
        (ConvertFromHex8(res.val) = arg.str <=>
            /\ \A i \in 1..Len(arg.str) : arg.str[i] <= 255
            /\ \A i \in 1..Len(arg.str) - 1 : arg.str[i] >= 16)

(***************************************************************************)
(* The two UTF-8 encoders of the file agree: on every string that        *)
(* encodeURIComponent accepts (no lone surrogate), the hand-written      *)
(* strToUTF8Arr gives the bytes getUtf8Bytes does -- at the 1/2/3/4-byte *)
(* boundaries and for surrogate pairs.                                    *)
(***************************************************************************)
Utf8EncodersAgree ==
    op = "strToUTF8Arr" /\ GetUtf8Bytes(arg.str).ok => res.val = GetUtf8Bytes(arg.str).val

(***************************************************************************)
(* isPrivateIP, which tests the first two parts partly as strings and    *)
(* partly as numbers, classifies every canonical IPv4 address by its      *)
(* octet values: private exactly in 10/8, 127/8, 172.16/12 and           *)
(* 192.168/16, with the edges 172.15, 172.16, 172.31 and 172.32.          *)
(***************************************************************************)
PrivateBlocksRecognized ==
    op = "isPrivateIP" /\ CanonicalIPv4(arg.ip) => (res.val <=> InPrivateBlock(arg.ip))


(***************************************************************************)
(* translateServerError writes errorDescription and errorCode into the    *)
(* response it is given.  Translating the same response again -- as a     *)
(* caller that logs the error and then shows it does -- gives the same    *)
(* text: the code it switches on is the one it has just filled in.        *)
(***************************************************************************)
TranslationStable ==
    op = "translateServerError" =>
        TranslateServerError(res.val.response).text = res.val.text

(***************************************************************************)
(* A server text with errorCode -1 is shown with the key that names what  *)
(* it reports, whatever other phrases of the table it also contains: the  *)
(* === cases before the chain, and in the chain the specific leasing test *)
(* before the generic one, a regular expression matched in full.          *)
(***************************************************************************)
ServerMessageTranslated ==
    op = "translateServerError" /\ res.val.response.errorCode = -1
    /\ res.val.response.errorDescription \in DOMAIN MessageKeys =>
        res.val.text = Key(MessageKeys[res.val.response.errorDescription])

(***************************************************************************)
(* A parameter is named alike in both forms of the errorCode 3 message:   *)
(* each field of "At least one of [a,b] must be specified", lower-cased,  *)
(* is shown as the same field is in '"a" not specified' -- the            *)
(* getTranslatedFieldName of its own name, lower-cased.                   *)
(***************************************************************************)
FieldNamesAgree ==
    op = "translateServerError" /\ "t" \in DOMAIN res.val.text
    /\ res.val.text.t = "error_not_specified" /\ ListCapture(res.val.response.errorDescription) # <<>> =>
        LET fields == Split(ListCapture(res.val.response.errorDescription), W(","))
        IN  \A k \in 1..Len(fields) :
                LowerName(res.val.text.names[k]) = LowerName(GetTranslatedFieldName(TokensText(fields[k])))

(***************************************************************************)
(* The unconfirmed-transaction lookup, against what its arguments ask     *)
(* for: a cached transaction is wanted when its type is one of `type`,    *)
(* its subtype one of `subtype` (any when the array is empty) and, when   *)
(* `fields` is given, one of the fields has the given value.              *)
(***************************************************************************)
Wanted(t, a) ==
    /\ t.type \in ToSet(AsArray(a.type))
    /\ AsArray(a.subtype) = <<>> \/ t.subtype \in ToSet(AsArray(a.subtype))
    /\ a.fields = Undefined \/ \E k \in 1..Len(a.fields) : t[a.fields[k][1]] = a.fields[k][2]

WantedIds(a) == {a.cache[i].transaction : i \in {i \in 1..Len(a.cache) : Wanted(a.cache[i], a)}}

\* What the caller gets back as a set of objects.
Returned ==
    IF res.val.result = False THEN {}
    ELSE IF arg.single THEN {res.val.result} ELSE Range(res.val.result)

(***************************************************************************)
(* The list form returns exactly the wanted transactions of the cache --  *)
(* a number or an array for type and subtype, an empty subtype array as   *)
(* "any", fields OR-ed -- and false when there is none.                   *)
(***************************************************************************)
CacheFilterExact ==
    op = "getUnconfirmedTransactionsFromCache" /\ ~arg.single =>
        IF WantedIds(arg) = {} THEN res.val.result = False
        ELSE res.val.result # False /\ {t.transaction : t \in Range(res.val.result)} = WantedIds(arg)

(***************************************************************************)
(* The single form returns the first wanted transaction in cache order   *)
(* (the one the list form lists first), and false when there is none.   *)
(***************************************************************************)
SingleIsFirstWanted ==
    op = "getUnconfirmedTransactionsFromCache" /\ arg.single =>
        LET wanted == {i \in 1..Len(arg.cache) : Wanted(arg.cache[i], arg)}
        IN  IF wanted = {} THEN res.val.result = False
            ELSE res.val.result # False
                 /\ res.val.result.transaction = arg.cache[Min(wanted)].transaction

(***************************************************************************)
(* A lookup only completes the cache in place: afterwards the cache holds *)
(* the same transactions in the same order, every object the caller got   *)
(* back is the cached one (so a completed purchase keeps its name, buyer  *)
(* and seller for the next lookup), and no transaction it did not return *)
(* was changed.                                                           *)
(***************************************************************************)
CacheCompletedInPlace ==
    op = "getUnconfirmedTransactionsFromCache" =>
        /\ Len(res.val.cache) = Len(arg.cache)
        /\ \A i \in 1..Len(arg.cache) :
               /\ res.val.cache[i].transaction = arg.cache[i].transaction
               /\ res.val.cache[i] # arg.cache[i] => res.val.cache[i] \in Returned
        /\ Returned \subseteq Range(res.val.cache)

(***************************************************************************)
(* The list form names each transaction once, however many of `fields`   *)
(* it matches.                                                            *)
(***************************************************************************)
CacheResultsDistinct ==
    op = "getUnconfirmedTransactionsFromCache" /\ ~arg.single /\ res.val.result # False =>
        IsInjective([k \in DOMAIN res.val.result |-> res.val.result[k].transaction])

(***************************************************************************)
(* A token is read back as the server reads it: 8 characters at a time,  *)
(* each group a base-32 number of 40 bits, little-endian over 5 bytes.   *)
(***************************************************************************)
Base32Value(c) == CHOOSE p \in 0..31 : Base32Chars[p + 1] = c

TokenBytesRef(text) ==
    [n \in 1..(5 * (Len(text) \div 8)) |->
        LET g == (n - 1) \div 5          \* group, from 0
            i == (n - 1) % 5             \* byte within the group
            digit(j) == Base32Value(text[8 * g + 8 - j])
        IN  SumSet({2 ^ t * ((digit((8 * i + t) \div 5) \div 2 ^ ((8 * i + t) % 5)) % 2) : t \in 0..7})]

(***************************************************************************)
(* A token is 160 characters and gives back the public key, the           *)
(* timestamp and the signature it was made of: the padding chain writes  *)
(* every 5-byte group, 0 and each power of 32 and the number below it    *)
(* included, as exactly 8 base-32 digits.                                 *)
(***************************************************************************)
TokenDecodes ==
    op = "generateToken" =>
        /\ Len(res.val) = 160
        /\ LET bytes == TokenBytesRef(res.val)
           IN  /\ SubSeq(bytes, 1, 32) = arg.pubKey
               /\ SubSeq(bytes, 33, 36) = [i \in 1..4 |-> (arg.ts \div 256 ^ (i - 1)) % 256]
               /\ SubSeq(bytes, 37, 100) = arg.signature

====
