\* Blocks within the first epoch whose coinbase claims more than the reward.
CONSTANTS
    BPE = 2
    SPB = 5
    GenDiff = 3
    GenTime = 0
    InitReward = 4
    W = 3
    Gaps = {5}
    GarbageTs = {0}
    CbAmounts <- MCAllCb
    OutLists <- MCOneOutput
    MaxInputs = 1
    MaxHeight = 1
SPECIFICATION Spec
CHECK_DEADLOCK FALSE
INVARIANT SupplyWithinSchedule
