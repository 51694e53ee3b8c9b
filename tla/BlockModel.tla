----------------------------- MODULE BlockModel -----------------------------
(***************************************************************************)
(* The data the chain modules share: blocks, their transactions and the    *)
(* outpoints those create and spend (src/incl/core/block.hpp,              *)
(* transaction.hpp, transaction_input.hpp, transaction_output.hpp).        *)
(*                                                                         *)
(* A block is a name.  Everything the code derives from a block's bytes   *)
(* (the previous hash, the transaction list, the verdict of the checks    *)
(* that read no chain state) is a constant function of that name, so a    *)
(* model fixes a whole tree of blocks and lets peers send them in any     *)
(* order.  An outpoint is <<TXID, vout>>, the key MemChainstate builds in *)
(* pair_to_key.                                                            *)
(***************************************************************************)
EXTENDS Naturals, Sequences, FiniteSets, SequencesExt

CONSTANTS
    Genesis,      \* the block Chain::create_genesis rebuilds from the config
    Blocks,       \* every other block a peer may send to the node
    Parent,       \* Parent[b]: the block whose header hash is b's prev_hash
    Txs,          \* every transaction, coinbases included
    BlockTxs,     \* BlockTxs[b]: b's transactions in order, its coinbase first
    Ins,          \* Ins[t]: the outpoints the inputs of t reference
    NOut,         \* NOut[t]: the number of outputs of t
    OutHash,      \* OutHash[o]: TransactionOutput::hash of output o
    Mine,         \* Mine[o]: output o pays the node wallet's public key
    Comps,        \* hashes of the computations clients can register
    BlockComps,   \* BlockComps[b]: the computations in b's header
    HdrOK,        \* HdrOK[b]: what validate_header_unsafe says of b
    BodyOK,       \* BodyOK[b]: the checks of validate_block that read no chain state
    TxOK,         \* TxOK[t]: Transaction::validate_transaction (signatures, amounts, fee)
    Time,         \* Time[b]: b's header timestamp
    NDEBUG        \* TRUE when the build defines NDEBUG and assert() is a no-op

AllBlocks == Blocks \cup {Genesis}

\* The outpoints transaction t creates: vout 0 .. NOut[t]-1.
Outs(t) == {<<t, i>> : i \in 0 .. NOut[t] - 1}

Outpoints == UNION {Outs(t) : t \in Txs}

\* The output hashes of t, in vout order (MemPool walks tx->outputs_).
OutHashSeq(t) == [i \in 1 .. NOut[t] |-> OutHash[<<t, i - 1>>]]

\* The transactions of b after its coinbase: validate_block, MemChainstate
\* and MemPool all treat the first transaction as the coinbase and the
\* rest as spending transactions.
SpendingTxs(b) == Tail(BlockTxs[b])

\* The outpoints b's spending transactions reference.
Spends(b) == UNION {Ins[t] : t \in ToSet(SpendingTxs(b))}

\* The outpoints b's transactions create, coinbase included.
Creates(b) == UNION {Outs(t) : t \in ToSet(BlockTxs[b])}

\* The spending transactions of a chain of blocks.
TxsOf(chain) == UNION {ToSet(SpendingTxs(chain[i])) : i \in DOMAIN chain}

ASSUME /\ Genesis \notin Blocks
       /\ Parent \in [Blocks -> AllBlocks]
       /\ BlockTxs \in [AllBlocks -> Seq(Txs)]
       /\ \A b \in AllBlocks : Len(BlockTxs[b]) >= 1
       /\ Ins \in [Txs -> SUBSET Outpoints]
       /\ BlockComps \in [AllBlocks -> SUBSET Comps]
       /\ NDEBUG \in BOOLEAN
       /\ TxOK \in [Txs -> BOOLEAN]
=============================================================================
