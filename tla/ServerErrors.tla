---------------------------- MODULE ServerErrors ----------------------------
(***************************************************************************)
(* NRS.translateServerError and NRS.getTranslatedFieldName.               *)
(*                                                                         *)
(* A server text is a sequence of tokens: a phrase W(p), one of the       *)
(* phrases the code compares with, or a field name F(cs), the characters  *)
(* of a request parameter such as amountNQT.  Every pattern of the code   *)
(* begins and ends on a token boundary, so String.indexOf is a contiguous *)
(* run of tokens (SubSeqs), a regular expression A.*B is its pieces found *)
(* in order, and === is equality.  $.t(key, params) is kept as the key    *)
(* and the parameters; the translations themselves are not in this file.  *)
(***************************************************************************)
EXTENDS FormatStrings

CONSTANTS
    NONE,      \* an absent response field
    OBJECT,    \* response.error that is not a string
    I18nKeys   \* the keys $.i18n.exists knows

W(p) == [w |-> p]
F(cs) == [f |-> cs]
QUOTE == W("\"")

Tr(key, names, reason) == [t |-> key, names |-> names, reason |-> reason]
Key(key) == Tr(key, <<>>, <<>>)
Raw(d) == [raw |-> d]

(***************************************************************************)
(* getTranslatedFieldName: String(name).replace(/NQT|QNT|RS$/, "")        *)
(* .replace(/\s+/g, "").replace(/([A-Z])/g, "_" + lower), a leading "_"   *)
(* dropped; then $.t(nameKey) if the key exists, else nameKey with spaces *)
(* for "_", both through escapeHTML.                                      *)
(***************************************************************************)
UpperToLower == "N" :> "n" @@ "Q" :> "q" @@ "T" :> "t" @@ "R" :> "r" @@
                "S" :> "s" @@ "K" :> "k" @@ "P" :> "p"
LowerCase(cs) == [i \in 1..Len(cs) |-> IF cs[i] \in DOMAIN UpperToLower
                                       THEN UpperToLower[cs[i]] ELSE cs[i]]

\* The leftmost position where NQT, QNT, or RS at the end, matches; one removal.
StripUnit(cs) ==
    LET At(i, p) == i + Len(p) - 1 <= Len(cs) /\ SubSeq(cs, i, i + Len(p) - 1) = p
        RSEnd(i) == At(i, <<"R", "S">>) /\ i = Len(cs) - 1
        hits == {i \in 1..Len(cs) : At(i, <<"N", "Q", "T">>) \/ At(i, <<"Q", "N", "T">>) \/ RSEnd(i)}
    IN  IF hits = {} THEN cs
        ELSE LET i == Min(hits)
             IN  SubSeq(cs, 1, i - 1) \o SubSeq(cs, i + (IF RSEnd(i) THEN 2 ELSE 3), Len(cs))

\* .replace(/([A-Z])/g, function ($1) { return "_" + $1.toLowerCase(); })
Snake(cs) == FlattenSeq([i \in 1..Len(cs) |->
                 IF cs[i] \in DOMAIN UpperToLower THEN <<"_", UpperToLower[cs[i]]>> ELSE <<cs[i]>>])

NameKey(cs) ==
    LET key == Snake(SelectSeq(StripUnit(cs), LAMBDA c : c # " "))
    IN  IF key # <<>> /\ Head(key) = "_" THEN Tail(key) ELSE key

GetTranslatedFieldName(cs) ==
    LET key == NameKey(cs)
    IN  IF key \in I18nKeys THEN [tr |-> key]
        ELSE [text |-> EscapeHTML([i \in 1..Len(key) |-> IF key[i] = "_" THEN " " ELSE key[i]])]

\* .toLowerCase() of a field name as getTranslatedFieldName returns it.
LowerName(n) == IF "text" \in DOMAIN n THEN [text |-> LowerCase(n.text)] ELSE [lowtr |-> n.tr]

-----------------------------------------------------------------------------
(***************************************************************************)
(* The tables of translateServerError: for each errorCode, the texts the  *)
(* inner switch compares with ===, and for -1 the indexOf/match chain of  *)
(* its default branch, in the order of the code.                          *)
(***************************************************************************)
ExactMinusOne ==
    "Invalid ordinary payment" :> "error_invalid_ordinary_payment" @@
    "Missing alias name" :> "error_missing_alias_name" @@
    "Transferring aliases to Genesis account not allowed" :> "error_alias_transfer_genesis" @@
    "Ask order already filled" :> "error_ask_order_filled" @@
    "Bid order already filled" :> "error_bid_order_filled" @@
    "Only text encrypted messages allowed" :> "error_encrypted_text_messages_only" @@
    "Missing feedback message" :> "error_missing_feedback_message" @@
    "Only text public messages allowed" :> "error_public_text_messages_only" @@
    "Purchase does not exist yet or not yet delivered" :> "error_purchase_delivery" @@
    "Purchase does not exist or is not delivered or is already refunded" :> "error_purchase_refund" @@
    "Recipient account does not have a public key, must attach a public key announcement"
        :> "error_recipient_no_public_key_announcement" @@
    "Transaction is not signed yet" :> "error_transaction_not_signed" @@
    "Transaction already signed" :> "error_transaction_already_signed" @@
    "PublicKeyAnnouncement cannot be attached to transactions with no recipient"
        :> "error_public_key_announcement_no_recipient" @@
    "Announced public key does not match recipient accountId" :> "error_public_key_different_account_id" @@
    "Public key for this account has already been announced" :> "error_public_key_already_announced"

\* A pattern is a sequence of pieces found in order (".*" between them);
\* an indexOf test is a pattern of one piece.
Ph(p) == <<W(p)>>
Chain ==
    << <<<<Ph("Alias already owned by another account")>>, "error_alias_owned_by_other_account">>,
       <<<<Ph("Invalid alias sell price")>>, "error_invalid_alias_sell_price">>,
       <<<<Ph("Alias hasn't been registered yet")>>, "error_alias_not_yet_registered">>,
       <<<<Ph("Alias doesn't belong to sender")>>, "error_alias_not_from_sender">>,
       <<<<Ph("Alias is owned by account other than recipient")>>, "error_alias_not_from_recipient">>,
       <<<<Ph("Alias is not for sale")>>, "error_alias_not_for_sale">>,
       <<<<Ph("Invalid alias name")>>, "error_invalid_alias_name">>,
       <<<<Ph("Invalid URI length")>>, "error_invalid_alias_uri_length">>,
       <<<<Ph("Invalid ask order")>>, "error_invalid_ask_order">>,
       <<<<Ph("Invalid bid order")>>, "error_invalid_bid_order">>,
       <<<<Ph("Goods price or quantity changed")>>, "error_dgs_price_quantity_changed">>,
       <<<<Ph("Invalid digital goods price change")>>, "error_invalid_dgs_price_change">>,
       <<<<Ph("Invalid digital goods refund")>>, "error_invalid_dgs_refund">>,
       <<<<Ph("Purchase does not exist yet, or already delivered")>>, "error_purchase_not_exist_or_delivered">>,
       <<<<Ph("Goods"), Ph("not yet listed or already delisted")>>, "error_dgs_not_listed">>,
       <<<<Ph("Delivery deadline has already expired")>>, "error_dgs_delivery_deadline_expired">>,
       <<<<<<W("Invalid effective balance leasing"), W(":")>>, Ph("recipient account"),
           Ph("not found or no public key published")>>, "error_invalid_balance_leasing_no_public_key">>,
       <<<<Ph("Invalid effective balance leasing")>>, "error_invalid_balance_leasing">>,
       <<<<Ph("Wrong buyer for"), <<W("expected"), W(":")>>>>, "error_wrong_buyer_for_alias">> >>

Exact1 == "This request is only accepted using POST!" :> "error_post_only" @@
          "Incorrect request" :> "error_incorrect_request"
Exact5 == "Account is not forging" :> "error_not_forging"
Exact6 == "Not enough assets" :> "error_not_enough_assets" @@ "Not enough funds" :> "error_not_enough_funds"
Exact7 == "Not allowed" :> "error_not_allowed"
Exact8 == "Goods have not been delivered yet" :> "error_goods_not_delivered_yet" @@
          "Feedback already sent" :> "error_feedback_already_sent" @@
          "Refund already sent" :> "error_refund_already_sent" @@
          "Purchase already delivered" :> "error_purchase_already_delivered" @@
          "Decryption failed" :> "error_decryption_failed" @@
          "No attached message found" :> "error_no_attached_message" @@
          "recipient account does not have public key" :> "error_recipient_no_public_key"
Exact9 == "Feature not available" :> "error_feature_not_available"

-----------------------------------------------------------------------------
\* The description as the one phrase it is equal to, if it is one.
Phrase(d) == IF Len(d) = 1 /\ "w" \in DOMAIN d[1] THEN d[1].w ELSE ""
Exact(table, d) == IF Phrase(d) \in DOMAIN table THEN Key(table[Phrase(d)]) ELSE Raw(d)

\* The positions where the piece p begins in d.
At(p, d) == {i \in 1..(Len(d) - Len(p) + 1) : SubSeq(d, i, i + Len(p) - 1) = p}
\* The characters of a run of field-name tokens.
TokensText(ts) == FlattenSeq([i \in 1..Len(ts) |-> ts[i].f])

\* Seeded fault: a regular expression tested as indexOf of its first piece.
MatchesPieces_FirstPieceOnly(d, pieces) == At(Head(pieces), d) # {}
RECURSIVE MatchesPieces(_, _)
MatchesPieces(d, pieces) ==
    \/ pieces = <<>>
    \/ /\ At(Head(pieces), d) # {}
       /\ MatchesPieces(SubSeq(d, Min(At(Head(pieces), d)) + Len(Head(pieces)), Len(d)), Tail(pieces))

\* errorCode -1: the === cases, then the first test of the chain that holds.
TranslateMinusOne(d) ==
    LET hits == {i \in 1..Len(Chain) : MatchesPieces(d, Chain[i][1])}
    IN  CASE Phrase(d) \in DOMAIN ExactMinusOne -> Key(ExactMinusOne[Phrase(d)])
          [] hits # {} -> Key(Chain[Min(hits)][2])
          [] OTHER -> Raw(d)

\* match[1] of /At least one of \[(.*)\] must be specified/i, empty if none.
ListCapture(d) ==
    LET open == At(<<W("At least one of [")>>, d)
        close == {j \in At(<<W("] must be specified")>>, d) : open # {} /\ j > Min(open)}
    IN  IF close = {} THEN <<>> ELSE SubSeq(d, Min(open) + 1, Max(close) - 1)

\* errorCode 3: /"([^"]+)" not specified/i, else the "At least one of" list.
NotSpecified(d) ==
    LET quoted == {i \in 1..(Len(d) - 3) : d[i] = QUOTE /\ d[i + 1] # QUOTE /\ d[i + 2] = QUOTE
                                          /\ d[i + 3] = W("not specified")}
        list == ListCapture(d)
        fields == Split(list, W(","))
    IN  CASE quoted # {} ->
                Tr("error_not_specified",
                   <<LowerName(GetTranslatedFieldName(d[Min(quoted) + 1].f))>>, <<>>)
          [] list # <<>> ->
                Tr("error_not_specified",
                   [k \in 1..Len(fields) |-> GetTranslatedFieldName(LowerCase(TokensText(fields[k])))], <<>>)
          [] OTHER -> Raw(d)

\* errorCode 4: /Incorrect "(.*)"(.*)/i, both groups non-empty.
Incorrect(d) ==
    LET starts == {i \in At(<<W("Incorrect"), QUOTE>>, d) : \E j \in (i + 2)..Len(d) : d[j] = QUOTE}
        i == Min(starts)
        j == Max({k \in (i + 2)..Len(d) : d[k] = QUOTE})
    IN  IF starts # {} /\ j > i + 2 /\ j < Len(d)
        THEN Tr("error_incorrect_name",
                <<LowerName(GetTranslatedFieldName(TokensText(SubSeq(d, i + 2, j - 1))))>>,
                SubSeq(d, j + 1, Len(d)))
        ELSE Raw(d)

\* errorCode 5: /Unknown (.*)/i, else the "Account is not forging" test.
UnknownName(d) ==
    LET starts == {i \in At(<<W("Unknown")>>, d) : i < Len(d)}
    IN  IF starts # {}
        THEN Tr("error_unknown_name",
                <<LowerName(GetTranslatedFieldName(TokensText(SubSeq(d, Min(starts) + 1, Len(d)))))>>, <<>>)
        ELSE Exact(Exact5, d)

(***************************************************************************)
(* The head of translateServerError: a response without errorDescription  *)
(* takes errorMessage, or a string error with errorCode -1 -- written into *)
(* the response object itself -- or is "error_unknown".  An empty string  *)
(* is falsy.                                                              *)
(***************************************************************************)
Falsy == {NONE, <<>>}
Normalize(r) ==
    CASE r.errorDescription \notin Falsy -> r
      [] r.errorMessage \notin Falsy -> [r EXCEPT !.errorDescription = r.errorMessage]
      [] r.error \notin Falsy \cup {OBJECT} -> [r EXCEPT !.errorDescription = r.error, !.errorCode = -1]
      [] OTHER -> NONE

Dispatch(code, d) ==
    CASE code = -1 -> TranslateMinusOne(d)
      [] code = 1 -> Exact(Exact1, d)
      [] code = 3 -> NotSpecified(d)
      [] code = 4 -> Incorrect(d)
      [] code = 5 -> UnknownName(d)
      [] code = 6 -> Exact(Exact6, d)
      [] code = 7 -> Exact(Exact7, d)
      [] code = 8 -> Exact(Exact8, d)
      [] code = 9 -> Exact(Exact9, d)
      [] OTHER -> Raw(d)

\* The text translateServerError returns and the response object after the call.
\* Seeded fault: errorCode read into a local before the head fills it in.
TranslateServerError_StaleCode(r) ==
    LET n == Normalize(r)
    IN  IF n = NONE THEN [text |-> Key("error_unknown"), response |-> r]
        ELSE [text |-> Dispatch(r.errorCode, n.errorDescription), response |-> n]
TranslateServerError(r) ==
    LET n == Normalize(r)
    IN  IF n = NONE THEN [text |-> Key("error_unknown"), response |-> r]
        ELSE [text |-> Dispatch(n.errorCode, n.errorDescription), response |-> n]

====
