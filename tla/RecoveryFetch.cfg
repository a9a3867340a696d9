SPECIFICATION FairSpec
CONSTANTS
    ObjectCount = 2
    LastBlock = 4
    MaxBytes = 4
    MaxSessions = 3
    PxeDeadline = 1
    Deployments <- MCDeployments
INVARIANTS TypeOK ExactReceipt WipedOnFailure FailsForAReason
PROPERTIES FetchReturns
