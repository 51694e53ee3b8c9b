\* Grow the chain across the first epoch boundary.
CONSTANTS
    BPE = 2
    SPB = 5
    GenDiff = 3
    GenTime = 0
    InitReward = 4
    W = 3
    Gaps = {4, 6}
    GarbageTs = {0}
    CbAmounts <- MCHonestCb
    OutLists <- MCOutLists
    MaxInputs = 1
    MaxHeight = 3
SPECIFICATION Spec
CHECK_DEADLOCK FALSE
INVARIANT NoUndefinedBehaviour
