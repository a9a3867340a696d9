SPECIFICATION FairSpec
CONSTANTS
    factory = factory
    second = second
    sibling = sibling
    third = third
    n1 = n1
    n2 = n2
    Images <- MCImages
    Sequence <- MCSequence
    Nonces <- MCNonces
    Factory = factory
    NoImage = NoImage
    NoBinding = NoBinding
    Attempts = 2
    MaxAttempts = 2
    MaxGeneration = 9
    MaxSequence = 3
    MaxAttemptSequence = 5
INVARIANTS TypeOK JournalsAgree AttemptBudget AttemptsAreFresh
PROPERTIES HalfConfirmedCloses OnlyHealthyAttemptsConfirm
CHECK_DEADLOCK FALSE
