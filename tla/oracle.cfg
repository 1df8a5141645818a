SPECIFICATION Spec
CONSTANTS
    Nodes = {"m", "n"}
    Validators = {"v1", "v2", "v3"}
    Committee = {"v1", "v2", "v3"}
    Prices = {10, 20}
    CbePrices = {7, 8}
    NoPrice = 0
    NoUpdate = NoUpdate
    Chains <- MCChains
    Epochs = {0, 1, 2}
    InitialDuration = 2
    MaxDeviationBps = 1000
    MinLead = 1
INVARIANTS
    SovAgreement
    SlashedForCause
    VotesFromCommittee
PROPERTY PriceImmutable
CONSTRAINT Small
CHECK_DEADLOCK FALSE
