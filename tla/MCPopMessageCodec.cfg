CONSTANTS
    KeyW = 2
    IntW = 2
    ByteBase = 4
    FieldBytes <- MC_FieldBytes
    PeriodValues <- MC_PeriodValues
    IssuedValues <- MC_IssuedValues
SPECIFICATION Spec
INVARIANT RoundTrip Canonical
CHECK_DEADLOCK FALSE
