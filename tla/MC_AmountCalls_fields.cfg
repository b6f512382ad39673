CONSTANTS
    NXTAmounts <- MC_NXTAmounts
    NQTInputs <- MC_NQTInputs
    QNTValues <- MC_QNTValues
    QNTInputs <- MC_QNTInputs
    PrecisionInputs <- MC_PrecisionInputs
    Decimals <- MC_Decimals
    QuantitiesQNT <- MC_QuantitiesQNT
    PricesNQT <- MC_PricesNQT
    WholePricesNQT <- MC_WholePricesNQT
    AssetDecimals <- MC_AssetDecimals
    FieldValues <- MC_FieldValues
    KeyCodes <- MC_KeyCodes
    VersionInputs <- MC_VersionInputs
    NoVersion = NoVersion
    NaN = NaN
    CodeUnitStrings <- MC_CodeUnitStrings
    IPs <- MC_IPs
    Responses <- MC_Responses
    MessageKeys <- MC_MessageKeys
    I18nKeys <- MC_I18nKeys
    NONE = NONE
    OBJECT = OBJECT
    Undefined = Undefined
    False = False
    a1 = a1
    a2 = a2
    Accounts <- MC_Accounts
    Caches <- MC_Caches
    TypeArgs <- MC_TypeArgs
    SubtypeArgs <- MC_SubtypeArgs
    FieldArgs <- MC_FieldArgs
    Answers <- MC_Answers
    PublicKeys <- MC_PublicKeys
    Signatures <- MC_Signatures
    Timestamps <- MC_Timestamps

SPECIFICATION Spec


INVARIANT
    FieldNamesAgree
