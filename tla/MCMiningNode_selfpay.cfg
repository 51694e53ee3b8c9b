\* Clients send Transaction RPCs to a node whose wallet holds the coinbase
\* of the block it mined; the sync peer's chain is genesis only.
CONSTANTS
    Genesis = G
    PeerBlocks <- MCPeerBlocks
    Blocks <- BlocksWallet
    Txs <- MCTxsWallet
    Comps <- MCComps
    Parent <- MCParent
    BlockTxs <- MCBlockTxs
    Ins <- MCInsWallet
    NOut <- MCNOutWallet
    OutHash <- MCOutHashWallet
    Mine <- MCMineWallet
    BlockComps <- MCBlockComps
    HdrOK <- MCTrueB
    BodyOK <- MCTrueB
    TxOK <- MCTxOKWallet
    Time <- MCTime
    FeeKey <- MCFeeKey
    NDEBUG = FALSE
    D = 1
    TxLimit = 2
    MaxLen = 3
    Peers = {}
    MaxMsgs = 1
    SyncPeer = p1
    SMain <- MCSMainGenesis
    SPool <- MCSPool
    Payments <- MCPaymentsSelf
    Amount <- CoinbaseAmount
    G = G  a1 = a1  b1 = b1  b2 = b2
    cg = cg  ca1 = ca1  cb1 = cb1  cb2 = cb2  t1 = t1  t3 = t3  c1 = c1  c2 = c2
SPECIFICATION MSpecWallet
\* A crash ends the process: no step follows it.
CHECK_DEADLOCK FALSE
INVARIANT NoAbort
