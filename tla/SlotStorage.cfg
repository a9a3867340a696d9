SPECIFICATION Spec

CONSTANTS
    image1 = image1
    image2 = image2
    factory = factory
    foreign = foreign
    NoImage = none
    none = none
    Images <- MCImages
    Bundles <- MCBundles
    OtherLayout = {foreign}
    MaxAttempts = 1
    MaxGeneration = 6
    WordBits = 6
    MetadataBytes = 1
    Devices <- MCDevices
    CallOffsets = {0, 3, 62}
    CallSizes = {0, 2, 6}

CHECK_DEADLOCK FALSE

INVARIANTS
    BackingsApart
    VerifiedContent

PROPERTIES
    WritesStagedSlotOnly
