SPECIFICATION Spec

CONSTANTS
    ObjectCount = 1
    LastBlock = 4
    MaxBytes = 4
    MaxSessions = 1
    PxeDeadline = 1
    Deployments <- OptionlessDeployment

INVARIANTS
    ExactReceipt
