----------------------------- MODULE MiningNode -----------------------------
(***************************************************************************)
(* The node with its mining loop (src/src/node/node.cpp Node::start,      *)
(* src/src/chain/chain_manager.cpp start_mining and add_block(_, true),   *)
(* src/src/chain/miner.cpp Miner::mine) running beside the io thread of   *)
(* ChainManager.                                                           *)
(*                                                                         *)
(* Two threads share the stores.  The io thread runs the handlers of      *)
(* ChainManager one message at a time; handle_info_tx is split at the one *)
(* point where it lets go of every lock: add_tx reads the chainstate,     *)
(* then add_valid_tx takes the pool's lock.  The mining thread runs one   *)
(* iteration of Node::start's loop as three steps, each taking only the   *)
(* lock of the store it reads: get_top (the pool's mutex), the reads of   *)
(* the computation store and the head followed by Miner::mine, and the    *)
(* trusted add_block under chain_manager_mu_.  The stop flag is reset to  *)
(* false before every iteration and never raised, so no step cancels the  *)
(* miner.                                                                  *)
(*                                                                         *)
(* Before the loop Node::start runs start_sync and waits on sync_cv_.     *)
(* Initial sync is a conversation with one peer over one connection, in   *)
(* order both ways (toS, fromS): SyncBlock(h) is answered with the peer's *)
(* main block at h or out_of_range; every block handle_info_block_sync    *)
(* adds, gossiped or answered, asks for current_height() + 1.  Until     *)
(* is_synced_ the router hands every InfoBlock to the sync handler, also  *)
(* in the seconds before start_sync has chosen sync_peer_.                *)
(*                                                                         *)
(* A mined block is a record [parent, height, txs, comp]; the model's     *)
(* universe Blocks holds every record the miner can build (see            *)
(* MCMiningNode), and the constant functions of BlockModel are defined on *)
(* them from their fields.                                                 *)
(***************************************************************************)
EXTENDS ChainManager

CONSTANTS
    PeerBlocks,   \* the blocks peers send; Blocks \ PeerBlocks are mined
    FeeKey,       \* FeeKey[t]: the rank of fee ++ TXID in tx_set_
    TxLimit,      \* config chain.default_tx_per_block
    MaxLen,       \* bound: the miner builds no block at height MaxLen
    SyncPeer,     \* sync_peer_: the outbound peer get_one_outbound returns
    SMain,        \* the sync peer's main chain, genesis first
    SPool,        \* the TXIDs in the sync peer's mempool
    Payments,     \* the Transaction RPCs clients send: [amount, fee, to]
    Amount(_)     \* Amount(o): the amount of the coin o the wallet can collect

VARIABLES
    miner,    \* the mining thread: [phase, txs, block]
    pending,  \* the transaction add_tx has checked and not yet stored: {} or {t}
    sync,     \* "init" before start_sync, "syncing", "synced" once is_synced_
    toS,      \* the sync peer's connection, node to peer: SyncBlock, SyncTransactions
    fromS,    \* the sync peer's connection, peer to node: its answers
    nullSend  \* a send to the still null sync_peer_ is posted to the io thread

syncVars == <<sync, toS, fromS, nullSend>>
mvars == <<vars, miner, pending, syncVars>>

\* The miner's result before Miner::mine sets it (a placeholder of the
\* record's shape).
NoBlock == [parent |-> Genesis, height |-> 0, txs |-> <<>>, comp |-> Genesis]

\* A variant of MinedBlock that numbers the block one height too high.
MinedBlockNextHeight(prev, h, txs, c) == [parent |-> prev, height |-> h + 1, txs |-> txs, comp |-> c]

\* The block Miner::mine builds on prev with the pool snapshot txs and the
\* collected computation c (one computation meets the difficulty D).
MinedBlock(prev, h, txs, c) == [parent |-> prev, height |-> h, txs |-> txs, comp |-> c]

\* The coinbase Miner::mine creates: its TXID hashes the height and the
\* amount reward + fees, so it is named by the height and the fee payers.
MinedCoinbase(h, txs) == [cbHeight |-> h, fees |-> ToSet(txs)]

\* A variant of GetTop that ignores the limit.
GetTopNoLimit(storage) == SetToSortSeq(storage, LAMBDA s, t : FeeKey[s] < FeeKey[t])

\* MemPool::get_top(limit): tx_set_ from begin(), at most limit
\* transactions, conflicts not filtered.  Under comp (v1 > v2) begin() is
\* the highest fee ++ TXID key; FeeKey[t] is t's rank in that order.
GetTop(storage) ==
    LET sorted == SetToSortSeq(storage, LAMBDA s, t : FeeKey[s] < FeeKey[t])
    IN  SubSeq(sorted, 1, IF Len(sorted) < TxLimit THEN Len(sorted) ELSE TxLimit)

MInit ==
    /\ Init
    /\ miner = [phase |-> "idle", txs |-> <<>>, block |-> NoBlock]
    /\ pending = {}
    /\ sync = "init" /\ toS = <<>> /\ fromS = <<>> /\ nullSend = FALSE

-----------------------------------------------------------------------------
(***************************************************************************)
(* The io thread.                                                          *)
(***************************************************************************)

\* add_tx's checks: every input is in the chainstate and
\* validate_transaction accepts the signatures and amounts.
AddTxCheck(t) == Ins[t] \subseteq chain.cs.utxo /\ TxOK[t]

\* handle_info_tx up to add_valid_tx: a TXID the pool holds is skipped, a
\* transaction add_tx refuses is dropped, one it accepts is about to be
\* stored.
HandleInfoTxCheck(p, t) ==
    /\ pending = {}
    /\ <<p, t>> \in txMsgs
    /\ txMsgs' = txMsgs \ {<<p, t>>}
    /\ pending' = IF ~TxExists(chain.pool, t) /\ AddTxCheck(t) THEN {t} ELSE {}
    /\ UNCHANGED <<chain, forks, walletVars, status, blockMsgs, miner, syncVars>>

\* add_valid_tx: the checked transaction enters the pool.
HandleInfoTxCommit ==
    /\ pending # {}
    /\ chain' = [chain EXCEPT !.pool = AddValidTx(@, CHOOSE t \in pending : TRUE)]
    /\ pending' = {}
    /\ UNCHANGED <<forks, walletVars, status, blockMsgs, txMsgs, miner, syncVars>>

\* handle_info_block_sync's tail: once add_block returned true, ask
\* sync_peer_ for current_height() + 1.  Before start_sync has set
\* sync_peer_ the pointer is null, and the posted send dereferences it.
SyncFollowUp(added) ==
    /\ toS' = IF added /\ sync = "syncing"
              THEN Append(toS, [type |-> "block", h |-> Len(chain'.main)])
              ELSE toS
    /\ nullSend' = (nullSend \/ (added /\ sync = "init"))

\* Router::route sends InfoBlock to handle_info_block_sync until
\* is_synced(), and to handle_info_block (whose broadcast reaches peers
\* the model leaves free) after.
InfoBlockFollowUp(added) ==
    IF sync = "synced" THEN UNCHANGED <<toS, nullSend>> ELSE SyncFollowUp(added)

\* Both InfoBlock handlers past block_exists: add_block(block), then the
\* handler's use of its return value.
AddInfoBlock(b) ==
    \E added \in BOOLEAN :
        /\ \/ AddBlockMain(b, added)
           \/ AddBlockFork(b, added)
           \/ AddBlockNewFork(b, added)
           \/ AddBlockOrphan(b, added)
        /\ InfoBlockFollowUp(added)

\* Every other handler is one atomic step of ChainManager; none runs while
\* handle_info_tx is between its check and its store.
IoHandler ==
    /\ pending = {}
    /\ \/ /\ \E p \in Peers, b \in PeerBlocks : PeerSendsBlock(p, b) \/ HandleKnownBlock(p, b)
          /\ UNCHANGED syncVars
       \/ /\ \/ \E p \in Peers, t \in RelayedTxs : PeerSendsTx(p, t)
             \/ \E c \in Comps : ReceiveComputation(c)
          /\ UNCHANGED syncVars
    /\ UNCHANGED <<miner, pending>>

\* An InfoBlock with a block the store lacks, read from a gossiping peer's
\* connection or as the sync peer's next answer, goes to add_block.
HandleNewInfoBlock ==
    /\ pending = {}
    /\ \E b \in PeerBlocks :
          /\ \/ \E p \in Peers : NewBlock(p, b) /\ UNCHANGED fromS
             \/ /\ fromS # <<>> /\ Head(fromS) = [type |-> "block", b |-> b]
                /\ b \notin chain.store
                /\ fromS' = Tail(fromS)
                /\ UNCHANGED <<blockMsgs, txMsgs>>
          /\ AddInfoBlock(b)
    /\ UNCHANGED <<miner, pending, sync>>

-----------------------------------------------------------------------------
(***************************************************************************)
(* The RPC handlers (src/src/net/rpc_router.cpp RPCRouter::route and the  *)
(* rpc_handle_* methods of Node).  The RPC server's coroutines run on the *)
(* io thread, so each request is one io handler.  Test only broadcasts    *)
(* and Output only reads the header chain; neither changes state here.    *)
(* A payment is sent by a client that knows the wallet's public key or   *)
(* another one: to is "self" or "other".                                   *)
(***************************************************************************)

\* The sum of the amounts of a set of outputs (uint64 sums; the amounts
\* here stay far below a wrap, which ChainValues models).
CoinsTotal(S) == MapThenSumSet(LAMBDA o : Amount(o), S)

\* The Transaction constructor for a payment: the main output of amount
\* to the recipient, then a change output to the wallet's own key when
\* the inputs exceed amount + fee.  An output is its (amount, public key),
\* the bytes TransactionOutput::hash hashes.
TxOutputs(ins, r) ==
    LET total == CoinsTotal(ins)
    IN  <<[amount |-> r.amount, key |-> r.to]>>
        \o (IF total > r.amount + r.fee
             THEN <<[amount |-> total - r.amount - r.fee, key |-> "self"]>>
             ELSE <<>>)

\* The transaction new_transaction returns: its TXID hashes its inputs
\* and outputs, so it is named by them.
WalletTx(ins, r) == [ins |-> ins, outs |-> TxOutputs(ins, r)]

\* Wallet::new_transaction's loop: coins_ in the hash map's order, each
\* collected until the sum covers amount + fee.  The order is
\* unspecified, so the result is any nonempty set of coins that covers
\* the total and whose last coin was still needed.  No set: the loop ran
\* out of coins and runtime_error is thrown.
Collected(cs, total) ==
    {S \in SUBSET cs :
        /\ S # {}
        /\ CoinsTotal(S) >= total
        /\ \E o \in S : S = {o} \/ CoinsTotal(S \ {o}) < total}

\* rpc_handle_transaction: new_transaction (no cover: 402, nothing
\* changes), then add_tx with its result ignored, InvTransaction
\* broadcast and 200.  The inputs new_transaction builds the transaction
\* from are the TransactionInput objects of coins_ themselves, and
\* Transaction::sign signs them in place: a coin an earlier payment signed
\* makes sign throw invalid_argument, which rpc_handle_transaction does
\* not catch, and the request ends with nothing changed.  The coins stay
\* in coins_ until a block spends them.  add_tx is split as in
\* handle_info_tx; a client pays only while the chain is below MaxLen.
\* Transaction::sign on the coins S: an input already signed throws
\* invalid_argument; otherwise set_signature marks every input signed.
Sign(S) ==
    /\ S \cap signedCoins = {}
    /\ signedCoins' = signedCoins \cup S

RpcTransaction(r) ==
    /\ pending = {}
    /\ Len(chain.main) < MaxLen
    /\ \E S \in Collected(coins, r.amount + r.fee) :
          /\ Sign(S)
          /\ pending' = IF AddTxCheck(WalletTx(S, r)) THEN {WalletTx(S, r)} ELSE {}
    /\ UNCHANGED <<chain, forks, coins, status, blockMsgs, txMsgs, miner, syncVars>>

\* rpc_handle_computation: a FHEComputer that parses (a constructor that
\* throws answers 500 and changes nothing) goes to add_computation, and
\* InvComputation is broadcast whether or not the store took it.  A
\* computation the store has leaves every variable as it was, a stutter,
\* so only a new one is a step.
RpcComputation(c) ==
    /\ pending = {}
    /\ ~CompExists(chain.comps, c)
    /\ chain' = [chain EXCEPT !.comps = StoreComputation(@, c)]
    /\ UNCHANGED <<forks, walletVars, status, blockMsgs, txMsgs, miner, pending, syncVars>>

-----------------------------------------------------------------------------
(***************************************************************************)
(* Initial sync (Node::start_sync and the sync handlers on both ends of   *)
(* the sync peer's connection, which delivers in order).                  *)
(***************************************************************************)

\* start_sync, on the main thread after its sleep: take an outbound peer
\* and send it SyncBlock(1).  The node is bootstrapped with its sync
\* peer, so get_one_outbound's out_of_range branch (set_synced at once,
\* node.cpp 153-157) is not taken and not modelled.
StartSync ==
    /\ sync = "init"
    /\ sync' = "syncing"
    /\ toS' = Append(toS, [type |-> "block", h |-> 1])
    /\ UNCHANGED <<vars, miner, pending, fromS, nullSend>>

\* The sync peer's handle_sync_transactions: ListTransactions with its
\* mempool's TXIDs (the model reads them from SPool when they arrive).
ListTxsAnswer == [type |-> "list", b |-> Genesis]

\* A variant of SyncAnswer that reports out of range one height early.
SyncAnswerEarlyEnd(r) ==
    CASE r.type = "txs"          -> ListTxsAnswer
      [] r.h >= Len(SMain) - 1   -> [type |-> "oor", b |-> Genesis]
      [] OTHER                   -> [type |-> "block", b |-> SMain[r.h + 1]]

\* The sync peer's handle_sync_block (out of range above its
\* current_height(), else its main block at that height) and
\* handle_sync_transactions (its mempool's TXIDs).
SyncAnswer(r) ==
    CASE r.type = "txs"          -> ListTxsAnswer
      [] r.h > Len(SMain) - 1    -> [type |-> "oor", b |-> Genesis]
      [] OTHER                   -> [type |-> "block", b |-> SMain[r.h + 1]]

\* The sync peer reads the next request and writes its answer.
SyncPeerAnswers ==
    /\ toS # <<>>
    /\ toS' = Tail(toS)
    /\ fromS' = Append(fromS, SyncAnswer(Head(toS)))
    /\ UNCHANGED <<vars, miner, pending, sync, nullSend>>

\* sync_mempool: SyncTransactions to sync_peer_.
SyncMempoolRequest == [type |-> "txs", h |-> 0]

\* handle_list_transactions: GetTransaction for every TXID, broadcast;
\* the sync peer, whose pool holds them, answers with InfoTransaction.
GetTxAnswers == {<<SyncPeer, t>> : t \in SPool}

\* The node reads the sync peer's next answer.  out_of_range while not
\* synced: set_synced, then sync_mempool sends SyncTransactions; after
\* synced an InfoBlock without a block attaches nowhere.  A block the
\* store has is skipped by either InfoBlock handler (a new one is
\* HandleNewInfoBlock).  handle_list_transactions broadcasts
\* GetTransaction for every TXID and the sync peer answers InfoTransaction.
HandleSyncAnswer ==
    /\ pending = {}
    /\ fromS # <<>>
    /\ LET m == Head(fromS) IN
       /\ m.type = "block" => m.b \in chain.store
       /\ fromS' = Tail(fromS)
       /\ CASE m.type = "oor" /\ sync # "synced" ->
                 /\ sync' = "synced"
                 /\ toS' = Append(toS, SyncMempoolRequest)
                 /\ UNCHANGED <<vars, nullSend>>
            [] m.type = "list" ->
                 /\ txMsgs' = txMsgs \cup GetTxAnswers
                 /\ UNCHANGED <<chain, forks, walletVars, status, blockMsgs, sync, toS, nullSend>>
            [] OTHER ->
                 UNCHANGED <<vars, sync, toS, nullSend>>
    /\ UNCHANGED <<miner, pending>>

\* The coroutine posted with the null sync_peer_ runs: Peer::async_send
\* locks a member of a null object and the process dies.
NullPeerSend ==
    /\ nullSend
    /\ status' = "crashed"
    /\ UNCHANGED <<chain, forks, walletVars, blockMsgs, txMsgs, miner, pending, syncVars>>

-----------------------------------------------------------------------------
(***************************************************************************)
(* The mining thread: one iteration of Node::start's loop.                *)
(***************************************************************************)

\* A variant of MiningPaused that also returns when get_top found nothing.
MiningPausedNoTxs == CollectComputations(chain.comps) = {} \/ Len(chain.main) >= MaxLen \/ miner.txs = <<>>

\* start_mining's early return: collect_computations found nothing (or
\* the model's height bound is reached).
MiningPaused == CollectComputations(chain.comps) = {} \/ Len(chain.main) >= MaxLen

\* start_mining resets the result and takes the pool snapshot.
MinerGetTop ==
    /\ sync = "synced"
    /\ miner.phase = "idle"
    /\ miner' = [phase |-> "top", txs |-> GetTop(chain.pool.storage), block |-> NoBlock]
    /\ UNCHANGED <<vars, pending, syncVars>>

\* No computation to use: sleep and return; Node::start sees no result.
MinerPause ==
    /\ miner.phase = "top"
    /\ MiningPaused
    /\ miner' = [miner EXCEPT !.phase = "idle"]
    /\ UNCHANGED <<vars, pending, syncVars>>

\* A variant of MinerMine that numbers the block current_height() + 2.
MinerMineHeightOff ==
    /\ miner.phase = "top"
    /\ ~MiningPaused
    /\ \E c \in CollectComputations(chain.comps) :
          miner' = [miner EXCEPT !.phase = "mined",
                                 !.block = MinedBlock(Last(chain.main), Len(chain.main) + 1, miner.txs, c)]
    /\ UNCHANGED <<vars, pending, syncVars>>

\* collect_computations takes the first stored computation in the hash
\* map's order, then Miner::mine builds on head_header() at height
\* current_height() + 1 with the snapshot taken before.
MinerMine ==
    /\ miner.phase = "top"
    /\ ~MiningPaused
    /\ \E c \in CollectComputations(chain.comps) :
          miner' = [miner EXCEPT !.phase = "mined",
                                 !.block = MinedBlock(Last(chain.main), Len(chain.main), miner.txs, c)]
    /\ UNCHANGED <<vars, pending, syncVars>>

\* handle_add_valid_block: add_block(block, true) appends without
\* validation; a filtered wallet on success.  CannotAttach propagates out
\* of Node::start uncaught and terminates the process.
MinerAppend ==
    /\ miner.phase = "mined"
    /\ LET m == miner.block
           r == AppendBlock(chain, m, TRUE)
       IN  Settle([ch |-> r.ch, forks |-> forks,
                   outcome |-> IF r.res = "cannot_attach" THEN "crashed" ELSE r.res,
                   coins |-> IF r.res = "added"
                             THEN WalletSpendBlock(FilterBlock(coins, m), m)
                             ELSE coins])
    /\ miner' = [phase |-> "idle", txs |-> <<>>, block |-> NoBlock]
    /\ UNCHANGED <<blockMsgs, txMsgs, pending, syncVars>>

\* One pass of Node::start's mining loop.  The loop's first statement
\* breaks out unless listening_port is 5000 (node.cpp 83-87, marked as
\* testing code): the model is the one node that mines, the node on port
\* 5000; every other node runs the io thread only.
MinerStep == MinerGetTop \/ MinerPause \/ MinerMine \/ MinerAppend

MNext ==
    /\ status = "running"
    /\ \/ IoHandler
       \/ HandleNewInfoBlock
       \/ \E p \in Peers, t \in RelayedTxs : HandleInfoTxCheck(p, t)
       \/ HandleInfoTxCommit
       \/ MinerStep
       \/ StartSync \/ SyncPeerAnswers \/ HandleSyncAnswer \/ NullPeerSend
       \/ \E c \in Comps : RpcComputation(c)

\* The node with clients that also send Transaction RPCs.
MNextWallet == MNext \/ (status = "running" /\ \E r \in Payments : RpcTransaction(r))

\* The io thread reads the sync connection's next answer (HandleSyncAnswer
\* or the sync branch of HandleNewInfoBlock, the only steps that take
\* fromS's head).  Weak fairness with the enabling condition written out:
\* both actions are enabled exactly when an answer waits, no handler is
\* half done and the process runs.
SyncRead == fromS # <<>> /\ fromS' = Tail(fromS)
SyncReadFair ==
    \/ []<>(fromS = <<>> \/ pending # {} \/ status # "running")
    \/ []<><<SyncRead>>_mvars

\* The mining thread loops forever and the io thread finishes a handler it
\* started; the main thread calls start_sync after its sleep, the sync
\* peer answers every request it reads, the io thread reads every answer
\* the sync connection delivers and runs every coroutine posted to it.
\* Gossip from other connections, clients and users owe the node nothing.
Fairness ==
    /\ WF_mvars(MinerStep) /\ WF_mvars(HandleInfoTxCommit)
    /\ WF_mvars(StartSync) /\ WF_mvars(SyncPeerAnswers)
    /\ WF_mvars(NullPeerSend)
    /\ SyncReadFair

MSpec == MInit /\ [][MNext]_mvars /\ Fairness
MSpecWallet == MInit /\ [][MNextWallet]_mvars /\ Fairness
-----------------------------------------------------------------------------
(***************************************************************************)
(* Properties.                                                             *)
(***************************************************************************)

\* The miner's snapshot and result have the shape start_mining gives
\* them: at most default_tx_per_block pool transactions, and a mined block
\* one of the blocks of height below MaxLen whose parent is a block.
MiningTypeOK ==
    /\ TypeOK
    /\ miner.phase \in {"idle", "top", "mined"}
    /\ miner.txs \in Seq(Txs) /\ Len(miner.txs) <= TxLimit
    /\ miner.phase = "mined" => miner.block \in Blocks \ PeerBlocks
    /\ pending \subseteq Txs /\ Cardinality(pending) <= 1
    /\ sync \in {"init", "syncing", "synced"} /\ nullSend \in BOOLEAN
    /\ toS \in Seq([type : {"block", "txs"}, h : Nat])
    /\ fromS \in Seq([type : {"block", "oor", "list"}, b : AllBlocks])

\* The node never stalls with work available: it is never the case that
\* from some point on a computation waits in the store, the chain is below
\* the bound and the process runs, for ever.  The miner waits on sync_cv_
\* until initial sync sets is_synced_, so a sync that never ends breaks
\* this as much as a mining loop that never builds a block.
MiningProgress ==
    []<>(chain.comps = {} \/ Len(chain.main) >= MaxLen \/ status = "crashed")

\* The block Node::start hands to add_block(block, true) still extends
\* the head: the miner read head_header() without chain_manager_mu_, and
\* append_block throws CannotAttach, uncaught, for a block that does not.
MinedOnHead == miner.phase = "mined" => Parent[miner.block] = Last(chain.main)

\* Once is_synced_ is set, the node's main chain is at least as long (as
\* heavy) as the sync peer's: out_of_range answered a request for
\* current_height() + 1 sent when the node's chain was that long, and
\* neither add_block nor a reorg shortens it.
SyncedCaughtUp == sync = "synced" => Len(chain.main) >= Len(SMain)
=============================================================================
