# TLA+ models of the amount engine of `nrs.util.js`

The repository's one source file, `src/html/ui/js/nrs.util.js`, is the
utility module of the NRS wallet UI. Its core (spec.md §1–§4) is a fixed-point
amount engine. It converts typed decimal strings to exact integer atomic units
and back: NQT is 10^-8 NXT, and QNT is 10^-decimals of an asset. On top of
that it computes order totals, prices and percentages, and renders the results
with locale punctuation. The rest of the file is DOM glue, a table of server
error messages and token/crypto helpers.

## Inventory

| Part (spec.md) | Code | State | Operations |
|---|---|---|---|
| DecimalScale §4.1 | string idioms in every converter | none | split, substring, slice, `/0+$/`, `/^0+/`, `/^\d+$/`, zero-padding loops |
| BigIntAmount §4.2 | jsbn `BigInteger` | none | parse, toString, multiply, mod, divide |
| AmountConverter §4.3 | `convertToNXT`, `amountToPrecision`, `convertToNQT`, `convertToQNTf`, `convertToQNT` (l. 358–541) | none | one pure function each |
| OrderMath §4.4 | `calculateOrderTotal(NQT)`, `calculateOrderPricePerWholeQNT`, `calculatePricePerWholeQNT` (l. 293–340) | none | pure |
| PercentageCalculator §4.5 | `calculatePercentage` (l. 342–356) | **`Big.RM`**, big.js's process-wide rounding mode | set mode, parse, divide, reset mode |
| LocaleFormatter §4.6 | `getLocale`, `format`, `formatAmount`, `formatQuantity`, `formatVolume`, `formatWeight` (l. 238–626) | **`LOCALE_DATA_DATE/DECIMAL/SEPARATOR`** | lookup, grouping, punctuation |
| Timestamps | `formatTimestamp`, `fromEpochTime`, `toEpochTime` (l. 628–707) | reads the `LOCALE_DATA_DATE` cache | |
| Input validation | `validateDecimals`, `isControlKey` (l. 1501–1565) | the field value and caret | keystroke filter |
| versionCompare | `versionCompare` (l. 1730–1793) | none | pure comparison |
| String codecs | `convertToHex16/8`, `convertFromHex16/8`, `strToUTF8Arr`, `getUtf8Bytes` (l. 721–758, 1583–1656) | none | pure |
| isPrivateIP | `isPrivateIP` (l. 709–719) | none | regex + range test |
| Server error translation | `translateServerError`, `getTranslatedFieldName` (l. 1246–1500) | writes into the response it is given | lookup by errorCode, `===`, `indexOf`, regexes |
| Unconfirmed-transaction cache | `getUnconfirmedTransactionsFromCache`, `completeUnconfirmedTransactionDetails` (l. 1058–1129) | **`NRS.unconfirmedTransactions`**, filled by the poller; lookups write into its objects | filter, complete in place |
| Token generation | `generateToken`, `byteArrayToBigInteger` (l. 1658–1728) | none | timestamp bytes, 5-byte groups to 8 base-32 digits |
| Other | DOM helpers | DOM | not in the spec's core |

How the parts interact: the converters are built from the DecimalScale idioms
and from BigInteger. OrderMath displays its results through `convertToNXT`.
LocaleFormatter renders the object form of `convertToNXT`/`convertToQNTf`.
JavaScript is single-threaded, so there are no interleavings within a call.
What makes the code hard is (a) exactness at the boundaries of the string
manipulations (padding, truncation, empty parts, signs), and (b) two pieces of
process-wide mutable state, `Big.RM` and the locale cache. Each of them
carries a value from one call into the next.

## Modules

- `DecimalStrings`: a JS string is a sequence of one-character strings. It
  defines `Split`, `Substring` (clamp and swap), `Slice` (negative indexes),
  the regexes, `NumVal` (BigInteger parse) and `ToDecimalString`
  (BigInteger toString) as recursive operators.
- `AmountConverter`: one operator per converter, written statement by
  statement from the code. It is followed by reference arithmetic (`Shows`,
  `NumeralValue`, `ScaledPair`) that says what a decimal numeral and a display
  pair are worth.
- `OrderMath`: the order functions, over `AmountConverter`.
- `InputValidation`: `validateDecimals`, the keydown filter of the amount
  fields, as one operator. `String.fromCharCode` is reduced to what the
  filter tells apart: a digit, `.`, or another character. The growl
  messages are left out.
- `Versions`: `versionCompare` as an operator (`CompareParts` is its loop),
  with a reference order `VersionOrderRef`. `NaN` is a model value.
- `ByteCodecs`: the hex codecs (`ToHex`, `ParseInt16`, `Chunks`) and the
  two UTF-8 encoders. `strToUTF8Arr` is written with `Bitwise` (`&`, `|`,
  `>>`) as in the code. `getUtf8Bytes` goes through
  `unescape(encodeURIComponent(str))`, which is defined outside this file; it
  is modelled as RFC 3629 encoding of code points that throws `URIError` on
  a lone surrogate (`spec_modelled`). Strings here are sequences of UTF-16
  code units.
- `Network`: `isPrivateIP`: the dotted-quad regex, then the three ranges
  compared on the parsed octets. `CanonicalIPv4` and `InPrivateBlock` are the
  reference: the three private blocks of RFC 1918 plus loopback 127/8.
- `ServerErrors`: `translateServerError` and `getTranslatedFieldName`. A
  server text is a sequence of tokens. A token is either a phrase `W(p)`
  that the code compares with, or a field name `F(cs)` given as its
  characters. Every pattern of the code begins and ends on a token
  boundary, so the tests become operations on token sequences:
  - `indexOf` is a contiguous run of tokens (`At`);
  - a regex `A.*B` is its pieces found in order (`MatchesPieces`);
  - `===` is equality with a one-phrase text (`Phrase`).

  The operators follow the function from top to bottom:
  - `Normalize` is the head. It writes `errorDescription` and, for a
    string `error`, `errorCode = -1` into the response.
  - `Dispatch` is the `switch`. It uses the `===` tables (`ExactMinusOne`,
    `Exact1`…`Exact9`), then the 19-test chain of the -1 default (`Chain`),
    then the capturing regexes of codes 3, 4 and 5 (`NotSpecified`,
    `Incorrect`, `UnknownName`).

  `$.t(key, params)` is kept as its key and parameters (`Tr`, `Key`),
  because the translations are not in this repository. `getTranslatedFieldName`
  is modelled character by character. It strips `NQT|QNT|RS$`, removes
  spaces, turns camel case into snake case and drops a leading `_`. Then
  `I18nKeys` decides whether the key exists.
- `UnconfirmedCache`: the lookup over `NRS.unconfirmedTransactions`.
  - `AsArray` wraps a number `type`/`subtype` in an array. An argument is
    `[number |-> n]` or `[array |-> a]`, because TLC cannot compare a number
    with an array.
  - `Skipped` is the loop's type and subtype test, where an empty `subtype`
    array means "any".
  - `Hits` is the positions the loop reaches a push or a return at, in
    order. With `fields` given, that is once per matching key.
  - `Picked` is the single form's early return at the first hit.
  - `Complete` is `completeUnconfirmedTransactionDetails`: the `getDGSGood`
    callback fills in a purchase without a name, and a listing gets `goods`.
    `sendRequest` is called with `async = false`, so the callback has run
    when it returns. Each request is answered by a member of `Answers`:
    the good found, or an error response with no name and no seller.
  - `CompleteEach` is the `$.each`. Its entries are the cached objects, so
    each completion lands in the cache, and the list shows them as they
    are at the end.

  `false` and `undefined` are the model values `False` and `Undefined`.
- `TokenEncoding`: the text half of `generateToken`.
  - `TimestampBytes` is the four `ts >> 8k & 0xFF`.
  - Each group of 5 bytes is a 40-bit number (`byteArrayToBigInteger`).
    That is past TLC's integers, so `ByteArrayToBigInteger` holds it as its
    8 base-32 digits taken from the bits of the bytes.
  - `Below(number, k)` is the code's `number < 32^k`.
  - `PadZeros` is the if/else chain of comparisons, and `ToString32` is
    `toString(32)`.

  The public key and the signature come from `getPublicKey` and
  `signBytes`, which are outside this repository, so they are arguments.
- `AmountCalls` (+ `MC_AmountCalls`): a caller of every stateless function
  above. Each action calls one function with inputs drawn by `\E` from
  constant sets. It records `op`, `arg` and `res` (`Ret(v)` or
  `Throw(errorKey)`); `TakeResult` clears them before the next call. The
  functions keep no state, so one call from the initial state reaches every
  outcome, and every property is an invariant over the last call. A key
  press also draws where the caret is and whether the whole value is
  selected; `validateDecimals` does not see the caret, the properties do.
  The cache lookup takes the cache's contents as an argument, so each call
  reads a cache the poller may have filled; caches that hold an
  already-completed purchase stand for earlier lookups.
- `PercentageCalculator` (+ `MC_PercentageCalculator`): its state is `bigRM`
  (Big.RM). The action `CalculatePercentage` is the whole function:
  - `"0"` returns early;
  - otherwise Big.RM is set, then the parse or divide may throw;
  - otherwise the result is rounded and Big.RM is reset.

  big.js itself is not in `src/`. `Big(s)` validity and the rounding modes
  (`BigValid`, `BigRatio`, `Rnd`) are in `BigDecimal`. They are modelled
  from big.js's documented behaviour and marked `spec_modelled`.
- `PercentageSpec`: the abstract specification of `calculatePercentage`.
  Its state is only the last call and its outcome. Each outcome is a
  function of the arguments alone: `"0"` gives `"0"`, an invalid operand or
  a zero divisor throws, and otherwise the quotient is rounded at two
  places by the mode passed, or half-up when there is none. The
  specification has no Big.RM. `PercentageCalculator` instantiates it with
  the identity refinement mapping on `arg` and `res`, hiding `bigRM`, and
  checks `PercentageRefinement == Abstract!Spec` as a temporal property.
- `FormatStrings`: the pure string work of the display functions:
  - the grouping loop of `format`/`formatWeight` (`GroupLoop`);
  - the first-`.` replacement of the mantissa;
  - `escapeHTML`, which is defined outside this file and is `spec_modelled`;
  - the `replace(/dd/g, …)` chain and the 12-hour clock of `formatTimestamp`;
  - `fromEpochTime` and `toEpochTime`.

  It also holds the reference definitions `GroupedRef` and `DateRef`.
- `LocaleFormatter` (+ `MC_LocaleFormatter`): its state is the locale cache
  `LOCALE_DATA_DATE/DECIMAL/SEPARATOR` and `NRS.constants.EPOCH_BEGINNING`
  (`constants`). Two environment actions change what the code reads:
  - `ChangeLanguage`: the browser or JavaFX host reports another language;
  - `LoadConstants`: the server's constants arrive.

  One action per formatter models it whole, including its `getLocale` call:
  - `format()` always reloads the locale (`FormatLocale`);
  - `formatTimestamp` reloads it only while `LOCALE_DATA_DATE` is unset
    (`TimestampLocale`), then logs, which reads the undeclared `lang`.

  The Date a timestamp denotes is drawn from `Dates`; the calendar is not
  modelled.

## Runs

| Run | Checks | Result |
|---|---|---|
| `amounts` | exactness and round trips of all 9 amount/order functions; a key `validateDecimals` lets through keeps the field a numeral `convertToQNT` accepts; `versionCompare` is the reference order; the hex16 codecs round-trip, and the unpadded hex8 codecs exactly on strings whose units fit a byte with two hex digits except possibly the last (`Hex8RoundTripOnBytes`); the two UTF-8 encoders agree on well-formed strings; `isPrivateIP` recognises exactly the private blocks (10/8, 172.16/12, 192.168/16) and loopback 127/8 among canonical dotted quads; `translateServerError` gives the same text when it is run again on the response it has rewritten, and a -1 server text that contains several phrases of the chain is named by its own key; the cache lookup lists exactly the wanted transactions (`CacheFilterExact`), its single form answers the first of them in cache order (`SingleIsFirstWanted`), and it only completes cached objects in place, handing back the cached objects themselves (`CacheCompletedInPlace`); a token is 160 characters and reads back, 8 base-32 digits per 5 bytes, as the key, timestamp and signature it was made of (`TokenDecodes`) | pass (54k states) |
| `cache_duplicates` | the list form of the cache lookup names each transaction once | **violated**: with `fields` = {sender: a1, recipient: a1}, a payment from a1 to itself is listed twice |
| `field_names` | `translateServerError` names a parameter the same way in `"x" not specified` and in `At least one of [x, y] must be specified` | **violated**: `publicKey` is shown as `publickey` in the list form and as the translated `public key` in the single form; `amountNQT` as `amountnqt` against `amount` |
| `caret_bypass` | a key `validateDecimals` accepts never leaves more fraction digits than the asset allows | **violated**: `.` typed before `15` at 1 decimal gives `.15` |
| `nqt_malformed` | `convertToNQT` rejects non-digits | **violated**: `"0.00000000x"` → `"0"` |
| `precision_normalized` | `amountToPrecision` output has no trailing `.`/`0` | **violated**: `"1.0"` → `"1."`, `"1.05"`,1 → `"1.0"` |
| `price_round_trip` | price → per-whole → NQT → per-QNT is the identity | **violated**: price 0 comes back as `""` |
| `percentage` | on numerals, `calculatePercentage` refines `PercentageSpec` (every call's outcome depends on its arguments alone)) | pass (126 states) |
| `locale` | across language changes, `format`, `formatAmount`, `formatQuantity`, `formatOrderPricePerWholeQNT`, `formatStyledAmount` and `formatWeight` show the exact value with the punctuation of the language in force; timestamps render fields and the 12-hour clock correctly; the `ReferenceError` of `formatTimestamp`'s log line (it reads `lang`, local to `getLocale`) can happen only on the call that loads the date pattern, never again after it (action property `TimestampLogThrowsOnce`); `toEpochTime(fromEpochTime(t))` is always `t - 1`, for every timestamp and epoch beginning (`EpochRoundTripLagsOneSecond`, the spec gap recorded in the findings) | pass (41k states) |
| `format_signed_quantity` | the same, with negative quantities | **violated**: `formatQuantity(-150, 0)` → `-.150` (de-DE); with decimals `convertToQNTf` puts the `-` inside the digits (`-5` at 2 decimals → `0.-5`) |
| `timestamp_stale_locale` | timestamps use the current language's date pattern | **violated**: after a language change, the pattern of the most recent `getLocale` lookup is used, the old language's until some `format()` call looks it up again |
| `percentage_leak` | a call without a mode rounds half-up after any history, with throwing inputs allowed | **violated**: a throwing call with mode 0 leaves Big.RM = 0, and the next default call gives 166.66 for 5/3 |

The findings in PROJECT.json explain each violation against the spec.
Every property of a passing run has a mutant in PROJECT.json: a seeded fault
defined just before the operator it replaces, which TLC must catch.

## Bounds and why they suffice

- NQT amounts straddle 10^8. They have fractions with leading and trailing
  zeros, and both signs.
- Typed strings are every string of length ≤ 4 over `0 1 5 . x`. This covers
  empty parts, several dots, a stray character and leading zeros. Six longer
  strings reach past the 8th decimal.
- Scales are 0..3 for quantities and 0..8 for prices, so strings both shorter
  and longer than the scale occur.
- Key presses: field values are every string of up to 4 characters over
  `1 5 .` (none, one and two dots, fractions longer than the scale), every
  caret position, the digit keys of both keyboards, both `.` keys, `,`,
  backspace, delete and a letter, at scales 0..3.
- Versions: equal prefixes of different length (`1.5`, `1.5.0`), `e` on
  either or both sides, `1.10` against `1.9.9` (numeric, not string,
  order), and two malformed versions; and `undefined` on either side.
- Code units: the edges of the 1-, 2- and 3-byte UTF-8 ranges (127/128,
  2047/2048), both surrogate ranges at both ends, 65535, a newline, and the
  edges of one, two and three hex digits (15/16, 255/256); every string of
  up to 2 of them, so pairs, lone and reversed surrogates occur.
- Unconfirmed cache: four transactions and every cache of up to three of
  them in any order. They are a payment to oneself, a purchase without a
  name, a completed purchase and a goods listing. `type` is a number or an
  array. `subtype` is a number, an array or the empty array. `fields` is
  absent, empty, one key, or two keys that one transaction matches at
  once. The answers to a purchase request are found and not found. Up to
  three transactions let a match sit behind a non-match and let the
  single and list forms differ in which transaction they return.
- Tokens: one token whose 20 groups hold 32^k and 32^k − 1 for k = 1..7,
  0, 2^40 − 1 and single bits, plus the all-0 and all-255 tokens. Its key
  and signature are combined with timestamps that fill each of the 4
  bytes, up to 2^31 − 1. Every branch of the padding chain and both sides
  of each bound are therefore reached.
- IPs: the first and last address of each private block, the neighbours
  just outside (`172.15`, `172.32`, `9.255…`, `11.0…`, `192.167`), a
  non-canonical `010.0.0.1`, an out-of-range octet and a malformed string.
- Server responses: every combination of a description, an `errorMessage`,
  an `error` and an `errorCode` that takes a different branch of the head.
  The empty string and `NONE` are both falsy, and `error` may be an object.
  The codes are -1, 1, 3, 4, 5, 6 and 8. The texts include:
  - an exact -1 text;
  - a -1 text that contains two chain phrases (specific and generic
    leasing), and the generic one alone;
  - multi-piece regexes (`Goods … not yet listed`, `Wrong buyer for …
    expected:`);
  - a text no test knows;
  - both code-3 forms, over field names with a unit suffix (`amountNQT`), a
    trailing `RS`, camel case (`publicKey`) and a plain name;
  - the code-4 and code-5 capture forms.
- TLC's integers are 32-bit, so products stay below 2^31.
- For percentages, 1/3 and 1/32 are off a half-step and on one (3.125%),
  where the four rounding modes disagree. `"0.0"` and `"x"` make the parse
  and the divide throw.
- Locale: three LOCALE_DATA entries with different punctuation. de-DE has
  a "," decimal, hu-HU a no-break-space separator, and en-US a month-first
  date. There is also a bare code that expands to a table entry ("de") and
  one that does not ("en" → "en-EN"). Quantities and weights reach 7 digits,
  so there are two group separators. NQT amounts below 2^31 show at most 2
  integer digits, so formatAmount's grouping is exercised only through the
  other callers of the same loop. The dates cover hours 0, 12, 13 and 23,
  both edges of the 12-hour clock, single- and double-digit days and
  months, and an invalid Date.
- The model rounds once at 2 places. The code rounds at 20 places and then
  at 2. The two agree for denominators below about 2*10^15: a/b with denominator
  q is either on a 10^-4 half-step or at least 1/(2*10^5*q) from it, which
  is more than the 0.5*10^-20 the first rounding can move it. Larger denominators are
  the hazard recorded at line 352.

## Fairness

None. The code is synchronous and nothing must eventually happen. Every
property is a safety invariant over sequences of calls, an action
property (`TimestampLogThrowsOnce`), or, for the
refinement, a safety property (`[][Call]_<<arg, res>>` has no fairness
conjunct).

## Not modelled yet, and the plan

1. A codec disagreement found while modelling, recorded as a hazard and
   planned as a violation run (the hex8 codec is characterised by
   `Hex8RoundTripOnBytes` in the `amounts` run):
   - on a lone surrogate `getUtf8Bytes` throws `URIError` while
     `strToUTF8Arr` encodes it as three bytes.
2. LocaleFormatter leftovers:
   - `formatAmount` of a JS number (the float path, with `round`);
   - a property that `formatTimestamp` never throws on valid input. This
     depends on whether a global `lang` exists outside this repository;
     `TimestampLogThrowsOnce` confines the throw to the first call.
3. An abstract exact-decimal specification that `AmountConverter` refines.
4. `translateServerError`: the regexes of codes 3 to 5 are case-insensitive
   (`/i`) and capture any run of text. The model matches their phrases as
   tokens in the case the server uses, and it captures field-name tokens
   only.
5. The unconfirmed-transaction cache leaves out two things:
   - a `subtype` of `undefined`, whose `.length` throws; its callers are outside
     this repository;
   - `==`'s conversions between numbers and strings in the `fields` test.
     Keys and values are compared as equal values of one type.

Out of scope:
- DOM glue, and the small display helpers next to it (`getAccountLink`,
  `getAccountTitle`, `getTransactionLink`, `getUrlParameter`, `initialCaps`,
  `addEllipsis`, ...). They build HTML or copy fields, so a property of them
  would restate their one expression. They read `NRS.contacts`, `$.t` and
  `window.location`, which are outside this file;
- the signing inside `generateToken` (`getPublicKey`, `signBytes`), which is
  outside this repository. What `signBytes` returns on failure (a token
  read past a short signature comes out zero-filled) is listed as hazard
  1719;
- float paths (`formatAmount` of a JS number, `formatVolume`'s logarithm).
