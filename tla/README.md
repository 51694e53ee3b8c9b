# TLA+ models of the fhe-blockchain node

These modules model the C++ node in `src/`. The node keeps a UTXO chain whose
blocks carry verified homomorphic computations in place of proof of work. The
models cover the chain manager and the stores it updates: the chain and its
forks, reorganisation, the chainstate with its spent-set undo log, the mempool,
the computation store and the wallet's coin set. They are driven by the network
handlers that deliver blocks, transactions and computations. Further modules
cover the mining thread and initial sync, the peer maps, one peer's socket on
the io thread, the expression parser, the difficulty and amount arithmetic,
and the byte codecs and Merkle root. TLC checks them
over small block trees that reach every branch of `ChainManager::add_block` and
`ChainManager::reorg`.

## 1. The system (inventory)

**Parts and how they interact.** Peer messages reach `Router::route`
(`src/src/net/router.cpp`), which calls one `Node` handler
(`src/src/node/node.cpp`). All handlers run on the single `io_context` thread.
Block, transaction and computation handlers call `ChainManager`
(`src/src/chain/chain_manager.cpp`). `ChainManager::add_block` holds
`chain_manager_mu_` and does one of four things:

- it appends to the main `Chain` (`chain.cpp`, full validation);
- it extends a `Fork` (`fork.cpp`, header validation only), and reorganises when
  the fork becomes heavier;
- it opens a new fork;
- it drops an orphan.

An append updates the `MemChainstate` (UTXO set plus `SpentSet` undo log), the
`MemBlockStore`, the `MemPool`, the `MemCompStore` and the `Wallet`. A mining
thread (`Node::start`, `ChainManager::start_mining`, `Miner::mine`) builds
blocks from `MemPool::get_top` and `MemCompStore::collect_computations`. It
appends them through the trusted path `add_block(block, true)`.

**State.** The state has these parts:

- the main header chain and its `total_difficulty_`;
- `forks_`, a vector of forks, each with `chain_src_`, `chain_src_header_`, its
  headers and its difficulty;
- the UTXO keys and the spent-set keys;
- the block store;
- the mempool (`tx_storage_`, `tx_set_` and the `utxo_ref_` index by output
  hash);
- the computation store;
- the wallet's `coins_`;
- the miner's result and the stop flag;
- the sync flag, `sync_peer_`, and the requests and answers on the sync
  connection.

**Operations.** The operations are:

- `add_block` (its four branches above);
- `reorg` (its success path, its rollback path, and an exception out of either);
- `add_tx`;
- `add_computation`;
- the gossip handlers (`handle_inv_*`, `handle_get_*`, `handle_info_*`);
- initial sync (`handle_sync_block`, `handle_info_block_sync`);
- mining;
- the RPC transaction, computation and output handlers.

**Hard behaviours.** These are where the code is hardest to test:

- any delivery order of blocks;
- a reorg that meets an invalid block halfway;
- an exception thrown in the middle of a reorg;
- unsigned loop bounds;
- `assert` with side effects;
- the mining thread racing the io thread;
- the difficulty schedule at epoch boundaries.

`PROJECT.json` lists every component with its status. Its `hazards` list gives
each risk at its source line.

## 2. Modules and how they correspond to the code

| Module | Models | State and operations |
|---|---|---|
| `BlockModel` | `incl/core/*.hpp` | Blocks, transactions and outpoints as names, and constant functions of them (`Parent`, `BlockTxs`, `Ins`, `NOut`, `OutHash`, `Mine`, `BlockComps`, `Time`). The chain-independent verdicts are `HdrOK`, `BodyOK` and `TxOK`. `NDEBUG` is the build. |
| `Chainstate` | `mem_chainstate.cpp` | `[utxo, spent, fault]`. `AddBlock` and `RewindBlock` fold over the block's transactions in order. A failed `assert(removed)` or a missing undo record sets `fault`. |
| `Mempool` | `mem_pool.cpp` | `[storage, ref, fault]`. `AddValidTx`, `MempoolSpendTx` (eviction by output hash, as the code does it) and `MempoolSpendBlock`. |
| `CompStore` | `mem_compstore.cpp` | A set of computation hashes, with `StoreComputation`, `CompExists`, `CollectComputations` (the computations `collect_computations` may return first, since each meets the difficulty alone and the hash map's order is unspecified) and `CompSpendBlock`. |
| `Chain` | `chain.cpp`, `mem_blockstore.cpp`, `fhe_computation.cpp` (`bind_inputs_to_data`) | `ChainCanAttach`, `ValidateBlock` and `AppendBlock`; the block store's `StoreBlock` and `BlockExists`. `AppendBlock` returns the new chain value and `added`, `invalid` or `cannot_attach` (a throw). `ProofVerifies` is the proof check of `validate_header_unsafe`: `HdrOK[b]`, and the block object not yet stored. Every stored object was validated, and so bound, once; binding adds to the current ciphertexts, not the archive, so a second validation of the same object fails. |
| `Fork` | `fork.cpp` | `NewFork` and `ForkAppendBlock` (header check only). |
| `Wallet` | `wallet.cpp` | `FilterBlock`, `WalletSpendBlock` and `Rescan` over the coin set. |
| `ChainManager` | `chain_manager.cpp`, `node.cpp`, `router.cpp` | Each branch of `add_block` is a block-level action (`AddBlockMain`, `AddBlockFork`, `AddBlockNewFork`, `AddBlockOrphan`) whose parameter `added` equals the call's return value, so either `InfoBlock` handler can act on it. The variables are `chain`, `forks`, `coins`, `status`, `blockMsgs` and `txMsgs`. Each `add_block` branch is an action: `AddToMain`, `AddToFork` (with `Reorg`), `AddNewFork` and `DropOrphan`. The handler actions are `PeerSendsBlock`, `HandleKnownBlock`, `PeerSendsTx`, `HandleInfoTx` and `ReceiveComputation`. |
| `HeaviestChain` | spec.md §5, §7, §9 | The abstract specification of the main chain: `best` (the main chain) and `seen` (the stored blocks). `Receive` stores blocks; `Adopt` makes `best` a strictly heavier chain of stored blocks that is fully valid from genesis (`ChainValid`). `ChainManager` maps `best` to `chain.main` and `seen` to `chain.store`. |
| `MCChainManager` | — | The block trees and the constant tables the runs use. |
| `Expression` | `computer/ast.cpp`, `computer/fhe_computer.cpp` (`eval`) | The `ASTree` constructor on one expression string. `Shunt` is `ASTree::shunt` (shunting-yard to a postfix token queue, throwing `invalid syntax`). The variables are `expr`, `post`, `k` (tokens consumed), `tree` and `phase`. `tree` holds the node records by id, `root_`, `node_stack`, `build_tree`'s `curr_node` and `node_counter_`. `BuildStep` is one iteration of `build_tree`'s loop: `SkipFull` (pop full nodes), `PlaceNode` (number and link the new node), `InsertChild`, then `ReorgFrom` with `Rebalance` and the four rotation cases. A `top()` or `pop()` of an empty stack, or a null `curr_node`, is undefined behaviour and sets `phase` to `"ub"`. `EvalNode` is `FHEComputer::eval` on plaintexts. |
| `MCExpression` | — | The input sets: `WellFormed`, every expression tree over the leaves `1` and `2` printed with minimal parentheses, and `AllStrings`, every string of up to five characters over the lexer's alphabet. |
| `ChainValues` | `chain.cpp` (`get_difficulty_for_height`, `reward_for_height`, the coinbase check of `validate_block`, `append_block`), `transaction.cpp` (amount sums, `fee`), `miner.cpp` (coinbase amount) | The numbers the other modules abstract away. The variables are `hdrs` (the header chain's timestamps and difficulties), `utxo` (UTXO records with amounts) and `ub`. `ReceiveBlock` is a peer block that passes `validate_block`; `MineBlock` is a mined block appended without validation. Amounts are `uint64` modelled at width `W` (`U(x) = x % 2^W`). The header index `(i - 1) * blocks_per_epoch` that wraps below zero is kept negative, and an out-of-range read is undefined behaviour whose value is any of `GarbageTs` and which sets `ub`. `std::round` of an inexact quotient is the set `RoundOutcomes`. |
| `MCChainValues` | — | The coinbase and output amount sets. |
| `MiningNode` | `node.cpp` (`Node::start`, `handle_info_tx`), `chain_manager.cpp` (`start_mining`, `add_block(_, true)`, `add_tx`), `miner.cpp`, `mem_pool.cpp` (`get_top`), `mem_compstore.cpp` (`collect_computations`) | `ChainManager` plus the mining thread. The new variables are `miner` (phase, the `get_top` snapshot, the mined block) and `pending` (the transaction `add_tx` has checked and not yet stored). The miner's loop is `MinerGetTop`, then `MinerMine` (collect a computation, read the head, build the block) or `MinerPause` (no computation: `start_mining` returns), then `MinerAppend` (the trusted append; `CannotAttach` is uncaught and ends the process). `handle_info_tx` is split into `HandleInfoTxCheck` and `HandleInfoTxCommit`, the one point where it holds no lock; the io thread runs nothing else in between. A mined block is a record `[parent, height, txs, comp]`. Initial sync adds `sync` (`init`, `syncing`, `synced`), `toS` and `fromS` (the sync connection, in order both ways) and `nullSend` (a send to the still null `sync_peer_` is posted). `StartSync` is `start_sync`; `SyncPeerAnswers` is the peer's `handle_sync_block` or `handle_sync_transactions`; `HandleNewInfoBlock` is either `InfoBlock` handler with a new block, gossiped or answered, routed by `is_synced()` (`InfoBlockFollowUp`); `HandleSyncAnswer` takes `out_of_range` (`set_synced`, `sync_mempool`), a known block, or `ListTransactions`; `NullPeerSend` is the posted coroutine dereferencing the null peer. `MinerGetTop` waits for `synced` (`sync_cv_`). The RPC server is spawned on the io context, so the RPC handlers are io-thread steps: `RpcComputation` is `rpc_handle_computation` (a new computation goes to the store), and `RpcTransaction` is `rpc_handle_transaction`: `Collected` is `new_transaction`'s greedy walk over `coins_` (any order, since `coins_` is a hash map), `WalletTx` the `Transaction` constructor (main output, change to the wallet's key), `Sign` is `Transaction::sign` on the shared input objects of `coins_`, and `add_tx` follows as in `handle_info_tx`. `signedCoins` (a `ChainManager` variable) holds the coins whose input object is signed; `rescan` rebuilds `coins_` from fresh objects, so `Settle` clears it after every reorg. `MSpecWallet` adds clients' Transaction RPCs to `MSpec`. |
| `MCMiningNode` | — | The peer blocks `a1`, `b1`, `b2` and the universe of every block the miner can build below height `MaxLen`, with the constant functions of `BlockModel` defined from the record fields. For the wallet runs, the payments the wallet can build from the coinbase of a mined block at height 1 (`WalletTxs`) and the blocks mined on it with those payments. ASSUMEs tie the spelt-out universes to `WalletTx` and `TopOf`. |
| `PeerManager` | `conn_mngr.cpp`, `node.cpp` (`bootstrap_from_config`, `handle_get_peer_addrs`, `handle_addr`), `peer.cpp` (the `Peer` id) | `peers` (every `Peer` object: remote node, `_id`, side, open, awaiting an `Addr`), `inMap` and `outMap` (the two peer maps, id to peer index, `Null` for the empty `shared_ptr` that `operator[]` inserts), `bootNext` and `status`. `BootstrapStep` is one `net.bootstrap` entry of the constructor (`send_to_peer`, then `handle_addr` on the answer). After it the io thread runs `Accept` (listener and `add_to_inbound`), `HandleGetAddr` (`update_inb_peer_addr_info`), `HandleAddr` (`handle_addr`'s loop with `connect_to_peer` and `add_to_outbound`), `Close` (a failed listen; only inbound Peers are erased) and `Broadcast`. |
| `MCPeerManager` | — | Two remote nodes, one bootstrap entry, the `Addr` lists a remote node can answer with. |
| `PeerIO` | `peer.cpp` (`listen`, `async_send`), `conn_mngr.cpp` (`async_send_to_peer`, `async_broadcast`), `node.cpp` (`handle_mined_block`) | One `Peer` on the io thread. The variables are `ready` (the `io_context` queue), `lpc` (listen's place: read, route, write), `spc` (each spawned `async_send`), `left` and `inflight` (an `async_write`'s remaining chunks and its `write_some` at the OS), `mu` (`_socket_mu`'s owner), `blocked` (the io thread stuck in the lock), `wire` (the chunks on the socket) and `sent`. `Receive` is a request read; `Route` runs the handler, spawns its sends and starts the response write without the mutex; `Broadcast` is `co_spawn` from another thread; `StartSend` takes `_socket_mu` (or blocks the thread: the owner is a suspended coroutine of the same thread); `WriteSome` is the OS writing chunks; `WriteDone` resumes the writer. |
| `MCPeerIO` | `node.cpp` (`handle_inv_block`, `handle_info_block`, `handle_list_transactions`) | The three handler shapes: a response and no spawn, one broadcast and no response, two broadcasts. |
| `Codec` | `util.cpp`, `message.cpp`, `mem_pool.cpp` (`concat_txid_fee_pair`, `txid_from_pair`), `mem_pool.hpp` (`comp`), `merkle.cpp` | Pure operators: the big-endian codecs (`ToBigEndian`, `CharsToUint`, `CharsToInt32`), `WriteHeader`/`ParseHeader`, the mempool key and its order, `TxidVoutPairToKey`, and `ComputeRoot` (RECURSIVE). A byte is `ByteBits` bits so every value of every width can be enumerated; the hash is a collision-free record. |
| `MCAlgorithms` | — | Extends `MCExpression` and `Codec` so one run checks the pure algorithms. A behaviour either builds one expression (`cin = NoInput`) or holds one Codec input (a value of a width, a header, a pair of pool entries, a pair of TXID lists) and takes no step, so the two sets of states add rather than multiply and a failing input is named by its state. |

Each delivered message is one atomic step. This is faithful to the code for
two reasons. The handlers run on one thread and do not await inside
`add_block`. `add_block` holds the manager lock throughout, reorg included.
The one exception is `handle_info_tx`, which `MiningNode` splits where
`add_tx` holds no lock, because the mining thread can act in between.

`Reorg` follows the code step by step:

1. It builds `old_main_fork`.
2. It rewinds the chainstate from the tip.
3. It truncates main.
4. It replays the fork with full validation (`ReplayFork`, a RECURSIVE operator).

Then it takes one of these outcomes. With binding as the code does it, the
replay always fails on the first fork block (`ProofVerifies`), so only the
invalid-block outcome is reachable, and it aborts; the other outcomes are
modelled and would be reached once binding is idempotent:

- **Success:** it erases the fork, takes the fork's difficulty and pushes
  `old_main_fork`.
- **Invalid block:** it rewinds again and replays the old main (skipped when
  `NDEBUG`). An `idx` of 0 crashes in the unsigned trim loop. Otherwise it trims
  the fork and restores the difficulty.
- **Throw:** the state is left as it was when the exception was thrown.

**Refinement.** `ChainManager` defines
`HC == INSTANCE HeaviestChain WITH best <- chain.main, seen <- chain.store`,
and the runs check `HC!HSpec` as the property `RefinesHeaviestChain`. Every
step must be a `Receive`, an `Adopt` or leave both unchanged. A rolled-back
reorg must therefore restore main exactly, and a crash freezes the state.

The wallet is rescanned on success and after a rollback. A reorg returns no
rewound transaction to the mempool and removes none that spent a rewound
output. These defects, the rescan that unsigns coins, and a stale fork
pinned below main are latent: every reorg aborts before reaching them (see
the `hazards` notes).

An exception that leaves a handler ends one peer's coroutine. The node keeps
the state the handler left. An exception out of the mining loop, an abort (a
failed `assert`), or undefined behaviour that crashes sets `status` to
`"crashed"`, and no step follows it.

## 3. Runs

The chain manager runs use `MCChainManager` with the tree drawn in its header. There are
two peers and at most two messages in flight (`MaxMsgs = 2`), and `D = 1`.

| Run | cfg | Expect | What it shows |
|---|---|---|---|
| `chain_manager` | `MCChainManager.cfg` | pass | Every delivery order keeps `ChainstateMatchesMain`, `WalletMatchesChainstate`, `DifficultyAccounting` and `ForksAnchored`, and the node implements `HeaviestChain` (`RefinesHeaviestChain`). The orders include an equal fork, a header-invalid block, conflicting pool transactions and the heavier `b` fork, whose reorg ends the process (next run), after which nothing changes. 142k states. |
| `pool_double_spend` | `MCChainManager_conflict.cfg` | violation | Peers relay `t2`; `a1`, confirming the conflicting `t1`, is appended. `spend_tx_unsafe` looks up pool transactions by `t1`'s output hashes, so `t2` stays in the pool although its input is spent (`MempoolConflictFree`, `mem_pool.cpp:118`). |
| `reorg_rebind_crash` | `MCChainManager_reorg.cfg` | violation | `b1 b2 b3` outweigh `a1 a2`. The replay calls `append_block` on the stored `b1`, which `Fork::append_block` already bound; the second binding breaks its proof and the replay fails at index 0. The rollback's `assert(append_block)` re-validates the stored `a1`, fails the same way and aborts (`NoAbort`). Every reorg of the node ends like this (`fhe_computation.cpp:89`). |
| `inbound_limit_crash` | `MCPeerManager.cfg` | violation | With `inbound_peers_limit = 1`, a second node connects: `add_to_inbound` drops its `Peer` silently but its listen loop runs. Its `GetAddr` handshake reaches `update_inb_peer_addr_info`, whose `inbound_peer_map_[peerID]` inserts an empty `shared_ptr` that the next line dereferences (`conn_mngr.cpp:108`): any node connecting past the limit kills this one. |
| `algorithms` | `MCAlgorithms.cfg` | pass | For every well-formed expression, `shunt` accepts it, as a recursive-descent reference grammar does, and its postfix evaluates to the reference value (`ShuntMatchesGrammar`); that `shunt` rejects what the grammar rejects is not claimed, since it does not (`ast.cpp:340`, run `malformed_expression`). `build_tree` never reaches undefined behaviour, its tree evaluates to the postfix value (`TreeMatchesPostfix`), and every `depth_` is the subtree's multiplicative depth after all rotations (`DepthsMatchTree`). Every uint32, uint64 and int32 and every message header round-trips through the codecs (`CodecRoundTrip`); the pool key orders by fee, then TXID, descending, and gives the TXID back (`PoolKeyOrder`); distinct TXID lists of up to four get distinct Merkle roots (`MerkleRootBinding`). 205k states. |
| `malformed_expression` | `MCExpression_malformed.cfg` | violation | `"2*2 2"` passes `shunt`, then `build_tree` pops an empty `node_stack` (`ast.cpp:186`). A peer reaches this with one `info_computation` message. |
| `epoch_boundary` | `MCChainValues_underflow.cfg` | violation | The first block of epoch 1 makes `get_difficulty_for_height` read `header_chain_[(0 - 1) * bpe]`, an index wrapped to about 2^32 (`chain.cpp:312`). |
| `coinbase_overmint` | `MCChainValues_overmint.cfg` | violation | A peer block whose coinbase pays more than the reward is accepted, because the check at `chain.cpp:149` is inverted. The UTXO total then exceeds what the schedule minted (`SupplyWithinSchedule`). |
| `mining` | `MCMiningNode.cfg` | pass | Initial sync with a peer whose main chain is `G a1`, gossip of `a1`, `b1`, `b2` (the last two a heavier fork, whose reorg ends the process) and `t1`, and the mining thread racing the io thread. Clients send Computation RPCs. The node still implements `HeaviestChain`; the wallet's coins stay the UTXOs paying its key through mined appends (`WalletMatchesChainstate`); once synced the node's chain is at least as long as the sync peer's (`SyncedCaughtUp`); and under the fairness below a stored computation never waits forever unless the node has crashed (`MiningProgress`). |
| `mined_block_stale` | `MCMiningNode_stale.cfg` | violation | The miner reads the head (`b1` in TLC's trace, after sync or gossip put it on main) without the manager lock, a gossiped block extending that head (`b2`) is appended, and the mined block no longer extends the head (`MinedOnHead`): its `append_block(block, true)` throws `CannotAttach` out of `Node::start`. |
| `async_send_deadlock` | `MCPeerIO.cfg` | violation | Two broadcasts to one peer overlap. The first `async_send` holds `_socket_mu` while suspended in `async_write`; the second, on the same io thread, locks it again and the thread waits forever, so neither message arrives (`SentArrive`, `peer.cpp:165`). |
| `sync_null_peer` | `MCMiningNode_nullpeer.cfg` | violation | Before `start_sync` (the main thread sleeps four seconds first) a peer block whose parent is the tip (`a1` or `b1`, depending on the trace TLC reports) is gossiped; `handle_info_block_sync` adds it and sends `SyncBlock(2)` to the null `sync_peer_`, whose `async_send` coroutine kills the process (`node.cpp:501`). |

**Why these bounds are enough.** The chain manager tree has three fork shapes.
One fork is equally heavy and causes no reorg. Two forks are heavier, one
holding an invalid block and one valid; with binding as the code does it both
reorgs fail on the first fork block and abort, and with binding idempotent
(`ProofVerifies` replaced by `HdrOK[b]`) they reach the rollback and the
success path. The tree also has a header-invalid block and two conflicting
transactions. Together these reach every branch of `add_block` and every
reachable outcome of `reorg`. Two peers let a block arrive twice, which exercises the
`block_exists` re-check. Two messages in flight let any two blocks arrive in
either order.

**ChainValues bounds.** `blocks_per_epoch = 2`, `seconds_per_block = 5`,
genesis difficulty 3, reward 4, width `W = 3`. Heights up to 3 cross the first
epoch boundary, where the index underflow and the rounding happen. Gaps of 4
and 6 seconds make an epoch shorter and longer than expected. At width 3 two
outputs (6 and 3) wrap; with that output list `SupplyWithinSchedule` also
catches the `transaction.cpp:222` overflow.

**Mining bounds.** Two computations, one peer fork that outweighs a one-block
main chain, `MaxLen = 3` (the miner builds at heights 1 and 2),
`default_tx_per_block = 2`, one gossiping peer (also the sync peer) and one
gossip message in flight. The sync peer's chain `G a1` makes sync take one
block and then an out-of-range answer; a gossiped `b1` or `b2` can arrive
before, between or after the answers, so the node may sync onto a chain the
sync peer does not have, or reorganise in the middle of sync. Each mined
block uses one computation, so the miner can build, lose its block to a reorg
and build again. The stale-head race needs one peer block. The wallet cfgs
use a sync peer at genesis, so the node mines its own coin at height 1. Two
payments (1 and 2, no fee) give change outputs that differ, and the self
payment gives two equal outputs. Clients pay only while the chain holds fewer than
`MaxLen = 3` blocks, so the height-1 coinbase is the one coin a payment
collects. `MCMiningNode_wallet.cfg` checks `MempoolConflictFree` with
payments and finds it holding: the wallet's double spend needs a rescan
after a rolled-back reorg, and the rollback aborts first.

**Peer manager bounds.** Two remote nodes, one bootstrap entry, one inbound
and two outbound slots, and at most four `Peer` objects (`MaxPeers`). One
inbound slot is the smallest limit a second connection can exceed; two
outbound slots let `handle_addr` connect to both nodes before it stops. The
`Addr` lists (empty, the other node, us and the other node) reach every
branch of `handle_addr`'s loop. A listener may be down at each connect.

**Codec bounds.** `ByteBits = 2` (bytes of 0..3) and `TxidLen = 2`: every
uint32 (256 values), uint64 (65536) and int32 is enumerated, so each
conversion's sign bit, every byte position and both ends of every width are
reached. The fees in `PoolKeyOrder` sit at each byte and width boundary,
where an order by the wrong byte would show. Four TXIDs and lists of up to
four reach compute_root's odd levels at lengths 1, 3 and (one level up) 2.

**PeerIO bounds.** Two requests, three `async_send` coroutines and messages
of two chunks. Two chunks let a write be split by the OS; three sends let a
handler's two broadcasts and another thread's overlap; two requests let a
response write overlap a send.

**Expression bounds.** Trees of up to three operators over `+ - *` and four
over `+ *`, plus the `*` chains of five. These reach every branch of
`reorg_from`: both single rotations, both double rotations (which push onto
`node_stack`), and climbs through `+` nodes that do not count for depth. The
leaf values `2i+3` make different trees evaluate differently. Strings of up
to five characters are enough to reach the malformed-input defect.

**Fairness.** The chain manager runs assume none: their properties are safety
properties, and a peer may send or stop sending anything. The mining run
assumes weak fairness of:

- the mining thread (`WF(MinerStep)`): `Node::start` runs `for (;;)` around
  `start_mining` on its own thread;
- the second half of `handle_info_tx` (`WF(HandleInfoTxCommit)`): a handler
  that has started finishes;
- `start_sync` (`WF(StartSync)`): the main thread calls it after its sleep;
- the sync peer answering a request it has read (`WF(SyncPeerAnswers)`);
- the io thread reading the sync connection's next answer (`SyncReadFair`,
  weak fairness written out with its enabling condition: an answer waits, no
  handler is half done, the process runs). TCP delivers in order and
  `Peer::listen` loops until the socket fails;
- the io thread running a coroutine posted to it (`WF(NullPeerSend)`).

Gossip from other peers, clients and users gets no fairness.

`PeerIO` assumes weak fairness of the io thread (`IoStep`: asio runs the
handlers of its queue while its thread runs) and of the OS completing a
`write_some` in flight (the remote node's listen loop keeps reading). Requests
and broadcasts get none. `SentArrive` is violated under this fairness: the
io thread stops inside `pthread_mutex_lock`, which no fairness can resume.

`CHECK_DEADLOCK FALSE` is used for three reasons. The chain manager idles once
the finite tree is stored. A crashed node takes no more steps. `PeerIO` stops
when the bounded requests are served, and, the defect, when its io thread
blocks.

## 4. What is not modelled, and why

- Cryptography is not modelled: hashes, signatures, FHE evaluation and SNARK
  proofs. Their verdicts are the constants `HdrOK`, `BodyOK` and `TxOK`. The
  one exception is the effect of binding on a proof (`ProofVerifies`): it
  decides whether a stored block can be validated again. `Codec` checks the
  Merkle root with a collision-free hash.
- Protobuf serialization of blocks, transactions and messages is not
  modelled. The 8-byte header, the integer codecs and the keys built from
  bytes are in `Codec`. The hazard at `transaction_input.cpp:56` (unchecked
  TXID and signature lengths) is at byte level and has no property.
- The address-list and JSON helpers of `util.cpp` are file and text I/O.
- The difficulty and reward schedule and the amounts are modelled only in
  `ChainValues`, along one main chain. The chain manager modules keep every
  block below the first epoch, where the difficulty is the constant `D`.
- The `remove_utxo` use-after-free is only listed as a hazard, because record
  values are abstracted.
- The FHE engine itself (`FHEComputer` key generation, encryption, the
  evaluator) is a library call. Only the shape of its `eval` recursion over
  the tree is modelled, on plaintext values.
- Proof generation (`generate_proof`) is a library call; the miner builds its
  block in one step. The miner's timestamp is the wall clock, later than every
  peer block.
- RPC answers (status codes) are not modelled, only the state each handler
  changes. So two hazards have no property. A payment that collects a coin a
  pending payment signed throws `invalid_argument`, which nothing catches,
  and the client gets no answer. `add_tx`'s result is ignored, so a refused
  payment is still answered 200. The Test RPC (a hello broadcast) and the
  Output RPC (a read of the header chain) change no modelled state.
- The reorg defects behind the binding bug (a fork pinned below main whose
  replay throws `CannotAttach`, rewound transactions not returned to the pool,
  pool transactions spending rewound outputs, the rescan that unsigns coins
  and lets the wallet double-spend) are modelled but unreachable: the replay
  aborts first. They are recorded as hazards with notes, not as runs.
- `MCMiningNode_selfpay.cfg` reproduces the abort on a transaction with two
  identical outputs (`mem_pool.cpp:120`). A client pays 2 to the wallet's
  own key from a coin of 4 with no fee, so the change output equals the
  payment byte for byte. Once the payment is mined, `spend_tx_unsafe` erases
  the shared `utxo_ref_` entry once per output and the second lookup fails
  its `assert` (`NoAbort`). It is kept beside the runs.
- `MCChainManager_ndebug.cfg` reproduces the release build's reorg crash: the
  rollback's replay sits inside `assert()` and is skipped, and the unsigned
  trim loop (`chain_manager.cpp:153`) wraps with `idx = 0` (`NoAbort`). It is
  kept beside the runs: a default build keeps `assert()`, which
  `reorg_rebind_crash` checks.
- The peer maps are modelled in `PeerManager`, one peer's socket in
  `PeerIO`. The synchronous `Peer::send` of initial sync, and the wait of
  `listen` on `_async_cv` while it runs, are modelled only as the in-order
  sync connection of `MiningNode`. `PeerManager` has only its violation run:
  with the maps as the code keeps them, every configuration lets a node
  connect past the inbound limit, so no passing run of it could check
  `NoAbort`. Closed outbound Peers are never erased; the model keeps them,
  but no run states a property about it. `PeerIO` has only its violation
  run, for the same kind of reason: every configuration with two sends in
  flight deadlocks. The response write of `listen` interleaving with an
  `async_send` (`peer.cpp:66`) is reachable in `PeerIO`, but the deadlock is
  the shorter counterexample to `SentArrive`.
- `Node::start`'s mining loop breaks at once unless the node listens on port
  5000 (`node.cpp:83-87`, marked as testing code). `MiningNode` is the node on
  port 5000, the only one that mines; every other node is its io thread.
- `start_sync`'s branch for a node with no outbound peer (`set_synced` at
  once) is not modelled: the mining runs bootstrap the node with its sync peer.
- No property checks the race between `add_tx`'s unlocked chainstate check
  and a mined block confirming the same input (`chain_manager.cpp:253`). Only a
  conflicting relay can race, because a second relay of a pooled transaction is
  dropped by `tx_exists`, and a conflicting relay already breaks
  `MempoolConflictFree` without any race (`pool_double_spend`).
- A stall of initial sync needs a sync answer whose parent is a non-tip fork
  block; that takes about seven blocks, beyond the mining run's bounds.

## 5. Plan

The modules are built in this order, most important first:

1. **Done:** the chain manager under network delivery, as described above.
2. **Done:** the mining loop (`MiningNode`).
3. **Done:** initial sync, in `MiningNode`: `start_sync`,
   `handle_sync_block`, `handle_info_block_sync`, the mempool sync, and the
   `is_synced_` switch in the router.
4. **Done:** the expression parser and tree builder (`Expression`).
5. **Done:** the schedule and the amounts (`ChainValues`).
6. **Done:** the abstract specification `HeaviestChain`, refined by
   `ChainManager` and by `MiningNode`.
7. **Done:** the peer maps and peer discovery (`PeerManager`).
8. **Done:** wallet payments and the Transaction and Computation RPCs, in
   `MiningNode`.
9. **Done:** one peer's socket on the io thread (`PeerIO`), the byte codecs
   and the Merkle root (`Codec`), and the effect of binding on a proof
   (`ProofVerifies`).
