SPECIFICATION FairSpec
CONSTANTS
    MaxRetries = 1
    MaxHandoff = 5
    ArtifactSizes = {1, 2}
    ExitAttempts = 3
    MaxMap = 4
    MaxTransactions = 2
INVARIANTS AttemptPrecedesControl FinalMapHandedOver OutputWithinBudget
PROPERTIES StageAdvances CallReturns
