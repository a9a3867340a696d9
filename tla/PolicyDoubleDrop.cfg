SPECIFICATION Spec

CONSTANTS
    Capacity = 2
    MaxGeneration = 4
    Objects = {o1, o2, o3, o4}
    NoObject = null
    slot = slot
    image = image
    verified = verified
    Types = {slot, image, verified}
    CopyTypes = {slot}
    NoType = none
    Helpers <- MCHelpers
    NoHelper = nohelper
    Contract <- MCContract
    MaxCalls = 6
    Payloads = {p1, p2}
    ZeroPayload = zero
    ErrorPayload = error

SYMMETRY ObjectSymmetry

CHECK_DEADLOCK FALSE

INVARIANTS
    DropsOnce
