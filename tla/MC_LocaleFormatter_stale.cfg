CONSTANTS
    LOCALE_DATA <- MC_LOCALE_DATA
    Languages <- MC_Languages
    Upper <- MC_Upper
    UNDEFINED = UNDEFINED
    EPOCH = 1000
    LogConsoleDefined = TRUE
    LangDeclared = TRUE
    Amounts <- MC_Amounts
    QNTValues <- MC_QNTValues
    Decimals <- MC_Decimals
    PricesNQT <- MC_PricesNQT
    Weights <- MC_Weights
    FormatInputs <- MC_FormatInputs
    Dates <- MC_Dates
    EpochTimes <- MC_EpochTimes
    Times <- MC_Times

SPECIFICATION Spec

INVARIANT
    TimestampUsesCurrentLocale
