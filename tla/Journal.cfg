CONSTANTS
    v1 = v1
    v2 = v2
    Value <- MCValue
    Blank = Blank
    Torn = Torn
    MaxGeneration = 5
    CacheModel = "reference"
    RetryWithoutReset = TRUE
SPECIFICATION MCSpec
SYMMETRY ValueSymmetry
INVARIANTS AcknowledgedSurvives
PROPERTY ImplementsRegister
