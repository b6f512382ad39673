CONSTANTS
    Inputs <- MC_Numerals
    UNDEFINED = UNDEFINED

SPECIFICATION Spec

PROPERTY
    PercentageRefinement
