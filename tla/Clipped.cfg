SPECIFICATION Spec
CONSTANTS
    AddrSpace = 8
    RegCap = 4
    CoilCap = 4
    MaxLength = 4
    MaxResponse = 4
    WordBits = 4
    Mantissa = 10
    Finest = 10
    Coarsest = 8
    None = None
    Files <- MCFiles
    Missing <- MCMissing
    Amounts <- MCAmounts
INVARIANT
    RefusesOutOfRange
CHECK_DEADLOCK FALSE
