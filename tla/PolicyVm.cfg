SPECIFICATION Spec

CONSTANTS
    Capacity = 2
    MaxGeneration = 3
    Objects = {o1, o2, o3}
    NoObject = null
    slot = slot
    image = image
    verified = verified
    Types = {slot, image, verified}
    CopyTypes = {slot}
    NoType = none
    Helpers <- MCHelpers
    NoHelper = nohelper
    Contract <- MCContract
    MaxCalls = 5
    Payloads = {p1, p2}
    ZeroPayload = zero
    ErrorPayload = error

SYMMETRY ObjectSymmetry

CHECK_DEADLOCK FALSE

INVARIANTS
    TypeOK
    UsableObjectsExist
    AuthorityIsUnique
    OutcomeIsClosed
    JournalKeepsWorst
    TokensDenote

PROPERTIES
    RefinesHandles
