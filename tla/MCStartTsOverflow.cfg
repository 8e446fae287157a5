CONSTANTS
    Width = 6
    YEAR_SECONDS = 10
    POP_MAX_SKEW_SECONDS = 1
    MaxTime = 4
    StartValues <- MC_StartValues
    PeriodSecondsValues <- MC_PeriodSecondsValues
    ExpiresValues <- MC_ExpiresValues
    IssuedValues <- MC_IssuedValues
SPECIFICATION Spec
INVARIANT OpenGrantClaimable
