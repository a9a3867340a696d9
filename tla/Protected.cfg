SPECIFICATION MCSpec
CONSTANTS
    b1 = b1
    b2 = b2
    Bindings <- MCBindings
    NoBinding = NoBinding
    Blank = Blank
    Torn = Torn
    MaxSequence = 2
    MaxAttemptSequence = 2
    MaxTrialAttempts = 2
    FirstFloor = 0
    MaxGeneration = 4
    CacheModel = "reference"
    RetryWithoutReset = TRUE
SYMMETRY BindingSymmetry
INVARIANTS TypeOK
PROPERTIES FloorIsMonotonic ImplementsRegister
