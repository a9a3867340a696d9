SPECIFICATION PolicySpec
CONSTANTS
    MaxSequence = 2
    MaxAttemptSequence = 0
    MaxTrialAttempts = 2
    Bindings <- MCBindings
    NoBinding = NoBinding
INVARIANTS PolicyTypeOK RunsWithinGrant OneActionPerTransaction
PROPERTIES FloorIsNeverRefused
