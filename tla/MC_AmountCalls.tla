---------------------------- MODULE MC_AmountCalls ---------------------------
(***************************************************************************)
(* Bounded inputs for AmountCalls.  NQT amounts straddle the 10^8         *)
(* boundary, carry zeros inside and at the end of the fraction and take   *)
(* both signs; typed strings are every string of up to 4 characters over  *)
(* digits, "." and a stray character, plus longer ones that reach past    *)
(* the 8th decimal.  Products and prices times 10^8 stay below 2^31.      *)
(***************************************************************************)
EXTENDS AmountCalls

CONSTANTS a1, a2    \* two accounts

MC_NXTAmounts == {0, 1, 10, 12345, 99999999, 100000000, 100000001, 150000000,
                  1234500000, 2000000000, -1, -12345, -150000000}

\* Strings of more than 8 fraction digits, typed or pasted.
LongInputs ==
    { <<"1", ".", "9", "9", "9", "9", "9", "9", "9", "9", "5">>,
      <<"0", ".", "0", "0", "0", "0", "0", "0", "0", "1">>,
      <<"0", ".", "0", "0", "0", "0", "0", "0", "0", "1", "5">>,
      <<"1", "2", ".", "3", "4", "5", "6", "7", "8", "9">>,
      <<"0", ".", "0", "0", "0", "0", "0", "0", "0", "0", "x">>,
      <<"1", ".", "5", "0", "0", "0", "0", "0", "0", "0", "1">> }

MC_NQTInputs == BoundedSeq({"0", "1", "5", ".", "x"}, 4) \cup LongInputs
MC_QNTInputs == BoundedSeq({"0", "1", "5", ".", "x"}, 4)
MC_PrecisionInputs == BoundedSeq({"0", "1", "5", "."}, 4)
MC_QNTValues == {0, 1, 5, 10, 100, 105, 1000, 12340}
\* Signed quantities, as a holding's change in the account ledger is.
MC_SignedQNTValues == MC_QNTValues \cup {-5, -150, -12340}
MC_Decimals == 0..3
MC_QuantitiesQNT == {0, 7, 1000, 150000, 100000000}
MC_PricesNQT == {0, 1, 3, 12, 20}
MC_WholePricesNQT == {0, 5, 100, 500, 1000, 12000, 100000000, 120000000}
MC_AssetDecimals == 0..8
\* Field values of up to 4 characters; keys: "0", "5", numeric-pad "5",
\* both "." keys, ",", backspace, delete and a letter.
MC_FieldValues == BoundedSeq({"1", "5", "."}, 4)
MC_KeyCodes == {48, 53, 101, 110, 190, 188, 8, 46, 65}
\* Equal prefixes of different lengths, a two-digit part against a
\* one-digit one, "e" suffixes and a malformed part.
MC_VersionInputs == { <<"1", ".", "5">>, <<"1", ".", "5", "e">>,
                      <<"1", ".", "5", ".", "0">>, <<"1", ".", "5", ".", "0", "e">>,
                      <<"1", ".", "1", "0">>, <<"1", ".", "9", ".", "9">>,
                      <<"1", ".", "x">>, <<"1", ".", ".", "5">> }

\* Code units at the 1/2/3-byte boundaries of UTF-8, both halves of a
\* surrogate pair at their ends, a control character, the largest unit, and
\* the one- to three-hex-digit boundaries 15|16 and 255|256.
MC_CodeUnits == {10, 15, 16, 65, 127, 128, 2047, 2048, 55295, 55296, 56319, 56320,
                 57343, 57344, 65535, 255, 256}
MC_CodeUnitStrings == BoundedSeq(MC_CodeUnits, 2)

\* The edges of each block, a public address, leading zeros, three parts
\* and a non-digit part.
MC_IPs == { AsChars(s) : s \in
            {"10.0.0.1", "127.0.0.1", "172.15.0.1", "172.16.0.1", "172.31.255.255",
             "172.32.0.1", "192.168.1.1", "192.169.1.1", "193.168.1.1", "8.8.8.8",
             "100.0.0.1", "010.0.0.1", "172.016.0.1", "1.2.3", "a.b.c.d"} }


\* Server texts as tokens.  Field names: a unit suffix (amountNQT, RS at
\* the end), a camel-case name (publicKey) and a plain one (asset).
MC_Field(s) == F(AsChars(s))
MC_ErrorTexts ==
    [ordinary |-> <<W("Invalid ordinary payment")>>,
     purchase |-> <<W("Purchase does not exist yet or not yet delivered")>>,
     aliasOwned |-> <<W("Alias already owned by another account"), W(":"), W("X")>>,
     leaseRecipient |-> <<W("Invalid effective balance leasing"), W(":"), W("recipient account"),
                          W("X"), W("not found or no public key published")>>,
     leaseGeneric |-> <<W("Invalid effective balance leasing"), W(":"), W("period")>>,
     delisted |-> <<W("Goods"), W("X"), W("not yet listed or already delisted")>>,
     wrongBuyer |-> <<W("Wrong buyer for"), W("X"), W("expected"), W(":"), W("Y")>>,
     other |-> <<W("Some other failure")>>,
     notSpecKey |-> <<QUOTE, MC_Field("publicKey"), QUOTE, W("not specified")>>,
     notSpecAmount |-> <<QUOTE, MC_Field("amountNQT"), QUOTE, W("not specified")>>,
     atLeastOne |-> <<W("At least one of ["), MC_Field("publicKey"), W(","), MC_Field("amountNQT"),
                      W("] must be specified")>>,
     incorrect |-> <<W("Incorrect"), QUOTE, MC_Field("recipientRS"), QUOTE, W("is not valid")>>,
     unknown |-> <<W("Unknown"), MC_Field("asset")>>,
     forging |-> <<W("Account is not forging")>>,
     funds |-> <<W("Not enough funds")>>]
MC_Texts == {MC_ErrorTexts[k] : k \in DOMAIN MC_ErrorTexts}

\* Every field combination that leads to a different branch of the head.
MC_Responses ==
    [errorDescription : MC_Texts \cup {NONE, <<>>},
     errorMessage : {NONE, <<>>, MC_ErrorTexts.funds},
     error : {NONE, OBJECT, <<>>, MC_ErrorTexts.ordinary, MC_ErrorTexts.leaseGeneric},
     errorCode : {-1, 1, 3, 4, 5, 6, 8, NONE}]

MC_MessageKeys ==
    MC_ErrorTexts.ordinary :> "error_invalid_ordinary_payment" @@
    MC_ErrorTexts.purchase :> "error_purchase_delivery" @@
    MC_ErrorTexts.aliasOwned :> "error_alias_owned_by_other_account" @@
    MC_ErrorTexts.leaseRecipient :> "error_invalid_balance_leasing_no_public_key" @@
    MC_ErrorTexts.leaseGeneric :> "error_invalid_balance_leasing" @@
    MC_ErrorTexts.delisted :> "error_dgs_not_listed" @@
    MC_ErrorTexts.wrongBuyer :> "error_wrong_buyer_for_alias"

MC_I18nKeys == {AsChars(k) : k \in {"public_key", "amount", "recipient", "asset"}}


(***************************************************************************)
(* The unconfirmed-transaction cache: a payment to oneself (it matches     *)
(* both sender and recipient), a purchase not yet completed, a purchase a *)
(* lookup has completed, and a goods listing; every cache of up to three  *)
(* of them in any order.  Arguments: a type as a number and as an array, *)
(* subtypes as numbers and arrays, the empty array among them; fields     *)
(* absent, empty, one key and two keys.                                    *)
(***************************************************************************)
MC_Tx(id, type, subtype, sender, recipient, name, buyer, seller, attachment) ==
    [transaction |-> id, type |-> type, subtype |-> subtype, sender |-> sender,
     recipient |-> recipient, name |-> name, buyer |-> buyer, seller |-> seller,
     goods |-> Undefined, attachment |-> attachment]

MC_Pool ==
    { MC_Tx(1, 0, 0, a1, a1, Undefined, Undefined, Undefined, Undefined),
      MC_Tx(2, 3, 4, a2, a1, Undefined, Undefined, Undefined, 7),
      MC_Tx(3, 3, 4, a1, a2, "Hat", a1, a2, 7),
      MC_Tx(4, 3, 0, a1, Undefined, Undefined, Undefined, Undefined, Undefined) }

MC_Accounts == {a1, a2}
MC_Caches == {c \in BoundedSeq(MC_Pool, 3) : IsInjective(c)}
MC_TypeArgs == {[number |-> 0], [number |-> 3], [array |-> <<0, 3>>]}
MC_SubtypeArgs == {[number |-> 0], [number |-> 4], [array |-> <<>>], [array |-> <<0, 4>>]}
MC_FieldArgs == {Undefined, <<>>, <<<<"sender", a1>>>>, <<<<"recipient", a2>>>>,
                 <<<<"sender", a1>>, <<"recipient", a1>>>>}
MC_Answers == {[name |-> "Hat", seller |-> a2], [name |-> Undefined, seller |-> Undefined]}

(***************************************************************************)
(* Token bytes.  A group of 5 bytes is given by the set of its bits.      *)
(* The boundary token puts 32^k and 32^k - 1 (k = 1..7), 0, 2^40 - 1 and *)
(* a few single bits in its 20 groups; groups 7 and 8 hold the timestamp. *)
(* Timestamps reach each of the 4 bytes and 2^31 - 1.                     *)
(***************************************************************************)
MC_Group(bits) == [i \in 1..5 |-> SumSet({2 ^ t : t \in {t \in 0..7 : 8 * (i - 1) + t \in bits}})]
MC_Power(k) == {5 * k}
MC_BelowPower(k) == 0..(5 * k - 1)

MC_BoundaryToken ==
    FlattenSeq(<< MC_Group(MC_Power(1)), MC_Group(MC_BelowPower(1)),
                  MC_Group(MC_Power(2)), MC_Group(MC_BelowPower(2)),
                  MC_Group(MC_Power(3)), MC_Group(MC_BelowPower(3)),
                  MC_Group({}), MC_Group(0..39),
                  MC_Group(MC_Power(4)), MC_Group(MC_BelowPower(4)),
                  MC_Group(MC_Power(5)), MC_Group(MC_BelowPower(5)),
                  MC_Group(MC_Power(6)), MC_Group(MC_BelowPower(6)),
                  MC_Group(MC_Power(7)), MC_Group(MC_BelowPower(7)),
                  MC_Group({0}), MC_Group({39}), MC_Group({4, 5}), MC_Group({34, 35}) >>)

MC_TokenBytes == {MC_BoundaryToken, [n \in 1..100 |-> 0], [n \in 1..100 |-> 255]}
MC_PublicKeys == {SubSeq(t, 1, 32) : t \in MC_TokenBytes}
MC_Signatures == {SubSeq(t, 37, 100) : t \in MC_TokenBytes}
MC_Timestamps == {0, 1, 255, 256, 65536, 16777216, 2147483647}
=============================================================================
