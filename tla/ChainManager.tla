---------------------------- MODULE ChainManager ----------------------------
(***************************************************************************)
(* ChainManager (src/src/chain/chain_manager.cpp) driven by the network   *)
(* handlers of Node (src/src/node/node.cpp).                              *)
(*                                                                         *)
(* Node's handlers all run on the one io_context thread, and each calls   *)
(* ChainManager::add_block, add_tx or add_computation without awaiting,   *)
(* so each delivered message is one atomic step.  add_block itself runs   *)
(* under chain_manager_mu_, and a reorg happens inside it.                *)
(*                                                                         *)
(* A handler that throws ends the peer's listen coroutine, but the node   *)
(* keeps running with whatever state the handler left.  An abort (a      *)
(* failed assert) or undefined behaviour the build turns into a crash     *)
(* ends the process: status becomes "crashed" and nothing happens after.  *)
(***************************************************************************)
EXTENDS Fork, Wallet

CONSTANTS
    Peers,     \* the peers that answer GetBlock and GetTransaction
    MaxMsgs    \* bound on the InfoBlock messages in flight

VARIABLES
    chain,     \* the main chain and the stores it updates (see Chain)
    forks,     \* forks_: a sequence of fork records (see Fork), in vector order
    coins,     \* the wallet's coins_
    signedCoins, \* the coins whose TransactionInput object in coins_ is signed
    status,    \* "running" or "crashed"
    blockMsgs, \* InfoBlock messages in flight: <<peer, block>>
    txMsgs     \* InfoTransaction messages in flight: <<peer, tx>>

walletVars == <<coins, signedCoins>>

vars == <<chain, forks, walletVars, status, blockMsgs, txMsgs>>

\* A chain value the process cannot survive: an assert in the chainstate
\* or the mempool failed, or a missing undo record was dereferenced.
Faulted(ch) == ch.cs.fault \/ ch.pool.fault

\* The main blocks after code index src, in chain order.
Above(main, src) == SubSeq(main, src + 2, Len(main))

\* The rewind loop of reorg: rewind_block from the tip down to the block
\* after code index src.
RewindTo(cs, main, src) ==
    FoldLeft(LAMBDA acc, b : RewindBlock(acc, b), cs, Reverse(Above(main, src)))

\* The replay loop of reorg: main_chain_->append_block for each block, in
\* order, until one is invalid or the call throws.  n counts the blocks
\* appended; res is the result of the call that stopped the loop, or
\* "added" when every block was appended.
RECURSIVE ReplayFork(_, _)
ReplayFork(ch, hdrs) ==
    IF hdrs = <<>> THEN [ch |-> ch, n |-> 0, res |-> "added"]
    ELSE LET r == AppendBlock(ch, Head(hdrs), FALSE)
         IN  IF r.res # "added" THEN [ch |-> ch, n |-> 0, res |-> r.res]
             ELSE LET rest == ReplayFork(r.ch, Tail(hdrs))
                  IN  [rest EXCEPT !.n = @ + 1]

\* A variant of OldMainFork whose copy loop starts at chain_src instead of
\* chain_src + 1, so the shadow fork repeats its own source block.
OldMainForkFromSrc(ch, src) ==
    [src |-> src, srcHdr |-> ch.main[src + 1],
     hdrs |-> SubSeq(ch.main, src + 1, Len(ch.main)), diff |-> ch.mainDiff]

\* old_main_fork in reorg: a fork pinned at src holding the main blocks
\* after it, pushed directly, with the main chain's total difficulty.
OldMainFork(ch, src) ==
    [src |-> src, srcHdr |-> ch.main[src + 1],
     hdrs |-> Above(ch.main, src), diff |-> ch.mainDiff]

\* A variant of ForkHeavier that also reorganises to an equally heavy fork.
ForkAtLeastAsHeavy(f, ch) == f.diff >= ch.mainDiff

\* The condition under which add_block reorganises to fork f.
ForkHeavier(f, ch) == f.diff > ch.mainDiff

\* The forks_ vector with the element at position k erased.
EraseFork(fs, k) == SubSeq(fs, 1, k - 1) \o SubSeq(fs, k + 1, Len(fs))

\* A variant of TrimFork that cuts the headers but not the difficulty.
TrimForkKeepDiff(f, n) == [f EXCEPT !.hdrs = SubSeq(@, 1, n)]

\* Trim fork f to its first n blocks, subtracting the difficulty of the
\* rest (the last loop of the invalid branch of reorg, correct for n > 0).
TrimFork(f, n) == [f EXCEPT !.hdrs = SubSeq(@, 1, n), !.diff = @ - D * (Len(f.hdrs) - n)]

\* ChainManager::reorg(forks[k]) from chain ch, with the wallet's coins c.
\* The result carries the new chain, forks and coins and the outcome:
\* "done" (main replaced), "rolled_back" (an invalid fork block was found),
\* "raised" (append_block threw: the state is left as it was at the throw)
\* or "crashed".
Reorg(ch, fs, c, k) ==
    LET f    == fs[k]
        src  == f.src
        omf  == OldMainFork(ch, src)
        cut  == [ch EXCEPT !.cs = RewindTo(@, ch.main, src), !.main = SubSeq(@, 1, src + 1)]
        rp   == ReplayFork(cut, f.hdrs)
        back == [rp.ch EXCEPT !.cs = RewindTo(@, rp.ch.main, src), !.main = SubSeq(@, 1, src + 1)]
        re   == IF NDEBUG THEN [ch |-> back, n |-> 0, res |-> "added"]
                ELSE ReplayFork(back, omf.hdrs)
    IN  CASE src + 1 > Len(ch.main) ->
               [ch |-> ch, forks |-> fs, coins |-> c, outcome |-> "crashed"]
          [] rp.res = "cannot_attach" ->
               [ch |-> rp.ch, forks |-> fs, coins |-> c, outcome |-> "raised"]
          [] rp.res = "added" ->
               [ch |-> [rp.ch EXCEPT !.mainDiff = f.diff],
                forks |-> Append(EraseFork(fs, k), omf),
                coins |-> Rescan(c, rp.ch.main), outcome |-> "done"]
          [] re.res = "cannot_attach" ->
               [ch |-> re.ch, forks |-> fs, coins |-> c, outcome |-> "raised"]
          [] re.res = "invalid" \/ rp.n = 0 ->
               [ch |-> re.ch, forks |-> fs, coins |-> c, outcome |-> "crashed"]
          [] OTHER ->
               [ch |-> [re.ch EXCEPT !.mainDiff = ch.mainDiff],
                forks |-> [fs EXCEPT ![k] = TrimFork(f, rp.n)],
                coins |-> Rescan(c, re.ch.main), outcome |-> "rolled_back"]

\* The state add_block leaves after a reorg or a single append: a crash
\* freezes the state, anything else installs the new values.  rescan
\* (after a reorg and after its rollback) rebuilds coins_ from fresh,
\* unsigned TransactionInput objects; filter_block and spend_block add
\* fresh objects for new coins and erase spent ones.
Settle(r) ==
    IF r.outcome = "crashed" \/ Faulted(r.ch)
    THEN status' = "crashed" /\ UNCHANGED <<chain, forks, walletVars>>
    ELSE /\ chain' = r.ch /\ forks' = r.forks /\ coins' = r.coins
         /\ signedCoins' = IF r.outcome \in {"done", "rolled_back"} THEN {}
                           ELSE signedCoins \cap r.coins
         /\ UNCHANGED status

(***************************************************************************)
(* Initial state: the Chain constructor stores the genesis block, applies *)
(* it to the chainstate and counts its difficulty; the stores and the     *)
(* wallet (a fresh Wallet) are empty and no fork exists.                  *)
(***************************************************************************)
Init ==
    /\ chain = [main |-> <<Genesis>>, mainDiff |-> D,
                cs |-> AddBlock([utxo |-> {}, spent |-> {}, fault |-> FALSE], Genesis),
                store |-> {Genesis}, pool |-> EmptyPool, comps |-> {}]
    /\ forks = <<>>
    /\ coins = {} /\ signedCoins = {}
    /\ status = "running"
    /\ blockMsgs = {}
    /\ txMsgs = {}

\* The transactions peers relay: the non-coinbase ones.
RelayedTxs == UNION {ToSet(SpendingTxs(b)) : b \in AllBlocks}

\* handle_inv_block answers an InvBlock with GetBlock only for a block the
\* block store lacks; the peer's handle_get_block then sends InfoBlock.
PeerSendsBlock(p, b) ==
    /\ ~BlockExists(chain.store, b)
    /\ <<p, b>> \notin blockMsgs
    /\ Cardinality(blockMsgs) < MaxMsgs
    /\ blockMsgs' = blockMsgs \cup {<<p, b>>}
    /\ UNCHANGED <<chain, forks, walletVars, status, txMsgs>>

\* handle_info_block for a block the store already has (flooding): nothing.
HandleKnownBlock(p, b) ==
    /\ <<p, b>> \in blockMsgs
    /\ BlockExists(chain.store, b)
    /\ blockMsgs' = blockMsgs \ {<<p, b>>}
    /\ UNCHANGED <<chain, forks, walletVars, status, txMsgs>>

\* handle_info_block for a new block: add_block(block) with
\* is_main_and_valid false, under chain_manager_mu_.
NewBlock(p, b) ==
    /\ <<p, b>> \in blockMsgs
    /\ ~BlockExists(chain.store, b)
    /\ blockMsgs' = blockMsgs \ {<<p, b>>}
    /\ UNCHANGED txMsgs

\* The first fork of forks_ that can_attach accepts b.
AttachesToFork(k, b) == ChainCanAttach(forks[k].hdrs, b)
FirstFork(b) == CHOOSE k \in DOMAIN forks :
                   AttachesToFork(k, b) /\ \A j \in 1 .. k - 1 : ~AttachesToFork(j, b)

\* add_block, main branch: b extends the tip, so append_block validates
\* it fully; if added, the wallet filters then spends the block.  Each
\* branch equates its parameter added with add_block's return value.
AddBlockMain(b, added) ==
    /\ ChainCanAttach(chain.main, b)
    /\ LET r == AppendBlock(chain, b, FALSE)
       IN  /\ added = (r.res = "added")
           /\ Settle([ch |-> r.ch, forks |-> forks, outcome |-> r.res,
                      coins |-> IF r.res = "added"
                                THEN WalletSpendBlock(FilterBlock(coins, b), b)
                                ELSE coins])

\* A reorg's result installed; add_block returns true unless reorg threw.
SettleReorg(re, added) == added = (re.outcome # "raised") /\ Settle(re)

\* add_block, fork branch: the first fork that can attach b takes it;
\* a bad header rejects the block, otherwise the fork grows and, if it is
\* now heavier than the main chain, add_block reorganises to it (a reorg
\* that throws returns nothing).
AddBlockFork(b, added) ==
    /\ ~ChainCanAttach(chain.main, b)
    /\ \E k \in DOMAIN forks : AttachesToFork(k, b)
    /\ LET k  == FirstFork(b)
           r  == ForkAppendBlock(forks[k], chain.store, b)
           fs == [forks EXCEPT ![k] = r.fork]
           ch == [chain EXCEPT !.store = r.store]
       IN  CASE r.res # "added" ->
                  ~added /\ UNCHANGED <<chain, forks, walletVars, status>>
             [] ForkHeavier(r.fork, ch) ->
                  SettleReorg(Reorg(ch, fs, coins, k), added)
             [] OTHER ->
                  /\ added
                  /\ chain' = ch /\ forks' = fs
                  /\ UNCHANGED <<walletVars, status>>

\* A variant of NewForkFor that pins the fork one index too high.
NewForkOffByOne(main, b) ==
    LET i == CHOOSE j \in DOMAIN main : Parent[b] = main[j]
    IN  NewFork(i, main[i], D * i)

\* A variant of NewForkFor that converts the position to a code index
\* twice, pinning the fork one block below its source.
NewForkBelow(main, b) ==
    LET i == CHOOSE j \in DOMAIN main : Parent[b] = main[j]
    IN  NewFork(i - 2, main[i], D * i)

\* A variant of NewForkFor that compares the prev_hash before adding the
\* source block's difficulty to the running sum.
NewForkDiffBeforeAdd(main, b) ==
    LET i == CHOOSE j \in DOMAIN main : Parent[b] = main[j]
    IN  NewFork(i - 1, main[i], D * (i - 1))

\* The linear scan of add_block: the first main block (code index i) whose
\* hash is b's prev_hash, and the fork pinned there with the summed
\* difficulty of main blocks 0..i.
NewForkFor(main, b) ==
    LET i == CHOOSE j \in DOMAIN main : Parent[b] = main[j]
    IN  NewFork(i - 1, main[i], D * i)

\* add_block, new-fork branch: the first main block (by code index i)
\* whose hash is b's prev_hash becomes the source of a new fork carrying
\* the summed difficulty of main blocks 0..i; it is kept only if b's
\* header is valid.
AddBlockNewFork(b, added) ==
    /\ ~ChainCanAttach(chain.main, b)
    /\ \A k \in DOMAIN forks : ~AttachesToFork(k, b)
    /\ \E i \in DOMAIN chain.main : Parent[b] = chain.main[i]
    /\ LET r == ForkAppendBlock(NewForkFor(chain.main, b), chain.store, b)
       IN  /\ added = (r.res = "added")
           /\ IF r.res = "added"
              THEN /\ forks' = Append(forks, r.fork)
                   /\ chain' = [chain EXCEPT !.store = r.store]
                   /\ UNCHANGED <<walletVars, status>>
              ELSE UNCHANGED <<chain, forks, walletVars, status>>

\* add_block, no attachment point: the orphan is dropped.
AddBlockOrphan(b, added) ==
    /\ ~ChainCanAttach(chain.main, b)
    /\ \A k \in DOMAIN forks : ~AttachesToFork(k, b)
    /\ \A i \in DOMAIN chain.main : Parent[b] # chain.main[i]
    /\ ~added
    /\ UNCHANGED <<chain, forks, walletVars, status>>

\* handle_info_block hands a new block to add_block and broadcasts InvBlock
\* (to peers the model leaves free) when it was added.
AddToMain(p, b)  == NewBlock(p, b) /\ \E added \in BOOLEAN : AddBlockMain(b, added)
AddToFork(p, b)  == NewBlock(p, b) /\ \E added \in BOOLEAN : AddBlockFork(b, added)
AddNewFork(p, b) == NewBlock(p, b) /\ \E added \in BOOLEAN : AddBlockNewFork(b, added)
DropOrphan(p, b) == NewBlock(p, b) /\ \E added \in BOOLEAN : AddBlockOrphan(b, added)

\* handle_inv_tx asks only for a TXID the mempool lacks.
PeerSendsTx(p, t) ==
    /\ ~TxExists(chain.pool, t)
    /\ <<p, t>> \notin txMsgs
    /\ Cardinality(txMsgs) < MaxMsgs
    /\ txMsgs' = txMsgs \cup {<<p, t>>}
    /\ UNCHANGED <<chain, forks, walletVars, status, blockMsgs>>

\* handle_info_tx: skip a TXID the mempool has; otherwise add_tx, which
\* checks every input is in the chainstate and validate_transaction, and
\* then add_valid_tx.
HandleInfoTx(p, t) ==
    /\ <<p, t>> \in txMsgs
    /\ txMsgs' = txMsgs \ {<<p, t>>}
    /\ chain' = IF ~TxExists(chain.pool, t) /\ Ins[t] \subseteq chain.cs.utxo /\ TxOK[t]
                THEN [chain EXCEPT !.pool = AddValidTx(@, t)]
                ELSE chain
    /\ UNCHANGED <<forks, walletVars, status, blockMsgs>>

\* handle_inv/get/info_computation: a computation the store lacks is
\* stored (add_computation).
ReceiveComputation(c) ==
    /\ ~CompExists(chain.comps, c)
    /\ chain' = [chain EXCEPT !.comps = StoreComputation(@, c)]
    /\ UNCHANGED <<forks, walletVars, status, blockMsgs, txMsgs>>

Next ==
    /\ status = "running"
    /\ \/ \E p \in Peers, b \in Blocks :
            \/ PeerSendsBlock(p, b)
            \/ HandleKnownBlock(p, b)
            \/ AddToMain(p, b)
            \/ AddToFork(p, b)
            \/ AddNewFork(p, b)
            \/ DropOrphan(p, b)
       \/ \E p \in Peers, t \in RelayedTxs : PeerSendsTx(p, t) \/ HandleInfoTx(p, t)
       \/ \E c \in Comps : ReceiveComputation(c)

Spec == Init /\ [][Next]_vars

-----------------------------------------------------------------------------
(***************************************************************************)
(* Properties.                                                             *)
(***************************************************************************)

ForkRecords == [src : Nat, srcHdr : AllBlocks, hdrs : Seq(Blocks), diff : Nat]

\* Every variable has the shape the code's containers give it.
TypeOK ==
    /\ chain.main \in Seq(AllBlocks) /\ chain.main # <<>> /\ chain.main[1] = Genesis
    /\ chain.mainDiff \in Nat
    /\ chain.cs.utxo \subseteq Outpoints /\ chain.cs.spent \subseteq Outpoints
    /\ chain.store \subseteq AllBlocks
    /\ chain.pool.storage \subseteq Txs /\ chain.comps \subseteq Comps
    /\ forks \in Seq(ForkRecords)
    /\ coins \subseteq Outpoints /\ signedCoins \subseteq coins
    /\ status \in {"running", "crashed"}
    /\ blockMsgs \subseteq Peers \X Blocks /\ txMsgs \subseteq Peers \X Txs

\* The UTXO set a sequence of blocks leaves when applied from nothing.
UtxoOf(bs) == UNION {Creates(bs[i]) : i \in DOMAIN bs} \ UNION {Spends(bs[i]) : i \in DOMAIN bs}

\* The chainstate is the main chain applied from genesis: every UTXO was
\* created and not spent by a main block, and the SpentSet holds exactly
\* the outpoints main blocks spent.  add_block, the two rewind loops and
\* the replays of reorg must keep this in every order blocks arrive in.
ChainstateMatchesMain ==
    /\ chain.cs.utxo = UtxoOf(chain.main)
    /\ chain.cs.spent = UNION {Spends(chain.main[i]) : i \in DOMAIN chain.main}

\* The wallet's coins are exactly the UTXOs paying its key: filter_block
\* and spend_block on appends and rescan after reorgs keep it in step.
WalletMatchesChainstate == coins = {o \in chain.cs.utxo : Mine[o]}

\* total_difficulty_ of the main chain and of every fork is the sum of
\* their blocks' difficulties (a fork counting the main blocks up to its
\* source), across fork creation, appends, rollbacks and reorgs.
DifficultyAccounting ==
    /\ chain.mainDiff = D * Len(chain.main)
    /\ \A k \in DOMAIN forks : forks[k].diff = D * (forks[k].src + 1 + Len(forks[k].hdrs))

\* Every fork still leaves the main chain where it says: its source index
\* is on main and holds its source block, and its blocks are a chain from
\* that block.  reorg relies on this when it truncates main at src.
ForksAnchored ==
    \A k \in DOMAIN forks :
        LET f == forks[k]
        IN  /\ f.src + 1 <= Len(chain.main)
            /\ chain.main[f.src + 1] = f.srcHdr
            /\ \A j \in DOMAIN f.hdrs :
                   Parent[f.hdrs[j]] = IF j = 1 THEN f.srcHdr ELSE f.hdrs[j - 1]

\* No delivery order of blocks and transactions makes the node abort.
NoAbort == status = "running"

\* The abstract main chain of HeaviestChain is the header chain, and the
\* blocks it has seen are the block store.
HC == INSTANCE HeaviestChain WITH best <- chain.main, seen <- chain.store

\* ChainManager implements HeaviestChain: every add_block, completed or
\* rolled-back reorg, in any delivery order, leaves main a valid chain of
\* stored blocks that is the old one or strictly heavier, and never drops
\* a stored block.
RefinesHeaviestChain == HC!HSpec

\* No transaction in the mempool conflicts with a transaction of the main
\* chain: spend_tx_unsafe is meant to evict the pool's double spends of
\* every transaction a block confirms.
MempoolConflictFree ==
    \A t \in chain.pool.storage :
        \A u \in TxsOf(chain.main) \ {t} : Ins[t] \cap Ins[u] = {}
=============================================================================
