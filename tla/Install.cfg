SPECIFICATION MCSpec
CONSTANTS
    factory = factory
    update = update
    Images <- MCImages
    Factory = factory
    NoImage = NoImage
    Blank = Blank
    Torn = Torn
    MaxAttempts = 1
    Attempts = 1
    MaxGeneration = 9
    LastComponent = 2
    CacheModel = "reference"
    RetryWithoutReset = TRUE
INVARIANTS TypeOK PayloadMatchesState RecordsAreCoherent
PROPERTIES DurableHistoryIsLegal ReferenceConverges
