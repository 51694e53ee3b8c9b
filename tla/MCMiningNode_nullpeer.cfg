\* The io thread before start_sync: a gossiped block is added and the
\* sync request goes to the null sync_peer_.
CONSTANTS
    Genesis = G
    PeerBlocks <- MCPeerBlocks
    Blocks <- BlocksT1
    Txs <- MCTxsAll
    Comps <- MCComps
    Parent <- MCParent
    BlockTxs <- MCBlockTxs
    Ins <- MCIns
    NOut <- MCNOut
    OutHash <- MCOutHash
    Mine <- MCMine
    BlockComps <- MCBlockComps
    HdrOK <- MCTrueB
    BodyOK <- MCTrueB
    TxOK <- MCTxOK
    Time <- MCTime
    FeeKey <- MCFeeKey
    NDEBUG = FALSE
    D = 1
    TxLimit = 2
    MaxLen = 3
    Peers = {p1}
    MaxMsgs = 1
    SyncPeer = p1
    SMain <- MCSMain
    SPool <- MCSPool
    Payments <- MCPayments
    Amount <- CoinbaseAmount
    G = G  a1 = a1  b1 = b1  b2 = b2
    cg = cg  ca1 = ca1  cb1 = cb1  cb2 = cb2  t1 = t1  t3 = t3  c1 = c1  c2 = c2
SPECIFICATION MSpec
CHECK_DEADLOCK FALSE
INVARIANT NoAbort
