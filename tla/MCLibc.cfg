\* A byte of three values and memory of five; an int of six bits: INT_MAX is 31,
\* which two pieces pass.
CONSTANTS
    MaxAddress = 4
    ByteValues = 3
    SetValues <- MCSetValues
    IntMax = 31
    BoolValues = 4
    Meanings <- Formats
SPECIFICATION LibcSpec
INVARIANTS
    TypeOK
    CopiedBeforeOverwritten
    ReturnsLength
    ValuePrinted
    FieldFilled
    ReadAsMeant
PROPERTY CStringSpec
CHECK_DEADLOCK FALSE
