CONSTANTS
    Inputs <- MC_AnyStrings
    UNDEFINED = UNDEFINED

SPECIFICATION Spec

INVARIANT
    DefaultModeHalfUp
