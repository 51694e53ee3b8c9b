\* A block evicts only mempool transactions sharing an output hash, so a double spend survives.
CONSTANTS
    Genesis = G
    Blocks <- TreeBlocks
    Txs <- MCTxs
    Comps <- MCComps
    Parent <- MCParent
    BlockTxs <- MCBlockTxs
    Ins <- MCIns
    NOut <- MCNOut
    OutHash <- MCOutHash
    Mine <- MCMine
    BlockComps <- MCBlockComps
    HdrOK <- MCHdrOK
    BodyOK <- MCBodyOK
    TxOK <- MCTxOK
    Time <- MCTime
    NDEBUG = FALSE
    D = 1
    Peers = {p1, p2}
    MaxMsgs = 2
    G = G
    a1 = a1  a2 = a2  b1 = b1  b2 = b2  b3 = b3  b4 = b4  x = x
    cg = cg  ca1 = ca1  ca2 = ca2  cb1 = cb1  cb2 = cb2  cb3 = cb3  cb4 = cb4  cx = cx
    y1 = y1  y2 = y2  y3 = y3  cy1 = cy1  cy2 = cy2  cy3 = cy3
    t1 = t1  t2 = t2  c1 = c1  c2 = c2
SPECIFICATION Spec
\* A crashed node takes no more steps, and the tree is finite.
CHECK_DEADLOCK FALSE
INVARIANT
    MempoolConflictFree
