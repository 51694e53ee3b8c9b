\* build_tree on every short string a computation's expression may hold.
CONSTANTS
    Exprs <- AllStrings
    LeafVal <- MCLeafVal
SPECIFICATION Spec
CHECK_DEADLOCK FALSE
INVARIANT NoUndefinedBehaviour
