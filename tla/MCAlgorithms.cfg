\* build_tree on every well-formed expression of WellFormed; the codecs
\* with 2-bit bytes (every value of every width enumerable) and TXIDs of
\* two bytes.
CONSTANTS
    Exprs <- WellFormed
    LeafVal <- MCLeafVal
    ByteBits = 2
    TxidLen = 2
SPECIFICATION AlgSpec
\* The constructor ends once every token is consumed, and a Codec input
\* takes no step.
CHECK_DEADLOCK FALSE
INVARIANTS
    TypeOK
    ShuntMatchesGrammar
    TreeMatchesPostfix
    DepthsMatchTree
    NoUndefinedBehaviour
    CodecRoundTrip
    PoolKeyOrder
    MerkleRootBinding
