SPECIFICATION Spec
CONSTANTS
    Holders = {"a", "b"}
    Citizens = {"a", "b"}
    CitizenSince <- MCCitizenSince
    Keys <- MCKeys
    InitialKeys <- MCInitialKeys
    InitialBalance = 4
    Amounts = {2}
    MaxAmount = 2
    Schedules <- MCSchedules
    Proposals = {"p"}
    None = None
    MintDelay = 1
    PoolCap = 2
    MaxSupply = 6
    MaxEpoch = 2
INVARIANTS
    SupplyIsSum
    SupplyExplained
    ReleasedWithinVested
    LockedIsOwed
    DueIsReleasable
    UbiWithinPool
PROPERTY EntitlementKept
CONSTRAINT Few
CHECK_DEADLOCK FALSE
