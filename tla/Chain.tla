------------------------------- MODULE Chain -------------------------------
(***************************************************************************)
(* Chain (src/src/chain/chain.cpp): the main chain and the stores its     *)
(* append_block updates.  A chain value is a record                       *)
(*   [main, mainDiff, cs, store, pool, comps]                             *)
(* with main the header_chain_ (a sequence of blocks, Genesis first: code *)
(* index i is main[i+1]), mainDiff its total_difficulty_, and the shared  *)
(* chainstate, block store, mempool and computation store.                *)
(*                                                                         *)
(* Every block is modelled below the first difficulty epoch, where        *)
(* get_difficulty_for_height returns genesis_difficulty (D), so the part  *)
(* of validate_header_unsafe that reads chain state is a constant and     *)
(* HdrOK holds the rest.                                                   *)
(***************************************************************************)
EXTENDS Chainstate, Mempool, CompStore

CONSTANT D   \* config "genesis_difficulty": the difficulty of every block

\* Chain::can_attach: an empty header chain accepts any block.
ChainCanAttach(hdrs, b) == Len(hdrs) = 0 \/ Parent[b] = Last(hdrs)

\* No outpoint is referenced by two inputs of b's spending transactions
\* (the temp_utxo_ref set of validate_block spans the whole block).
NoDoubleSpendInBlock(b) ==
    \A i, j \in 2 .. Len(BlockTxs[b]) :
        i # j => Ins[BlockTxs[b][i]] \cap Ins[BlockTxs[b][j]] = {}

\* MemBlockStore::exists.
BlockExists(store, b) == b \in store

\* A variant of the proof check that ignores verify_proof's result.
ProofNotChecked(store, b) == ~BlockExists(store, b)

\* The proof check of validate_header_unsafe.  bind_to_data adds an
\* encryption of zero, derived from the header bytes, to the computation's
\* current ciphertexts (only the first call archives the unbound ones),
\* and verify_proof reads the current ciphertexts as public input.  A
\* block object decoded from the network is unbound, so its proof
\* verifies exactly when HdrOK says.  Every object in the block store was
\* bound once before it was stored (by the validation that accepted it,
\* or by the miner before its trusted append), so validating a stored
\* object binds it a second time and its proof no longer verifies.
ProofVerifies(store, b) == HdrOK[b] /\ ~BlockExists(store, b)

\* A variant of validate_block that skips the lookup of the inputs in the
\* chainstate.
ValidateBlockNoUtxo(ch, b) ==
    BodyOK[b] /\ NoDoubleSpendInBlock(b) /\ ProofVerifies(ch.store, b)

\* Chain::validate_block against the chainstate cs: the checks that read
\* no chain state (BodyOK: non-empty, signatures, amounts, reward, Merkle
\* root), no double spend inside the block, every input in the UTXO set
\* (chainstate_->pubkey throws out_of_range otherwise), and the header.
ValidateBlock(ch, b) ==
    /\ BodyOK[b]
    /\ NoDoubleSpendInBlock(b)
    /\ Spends(b) \subseteq ch.cs.utxo
    /\ ProofVerifies(ch.store, b)

\* MemBlockStore::store_block: a block already present is not stored
\* again (returns false), otherwise it is added; either way the store
\* then holds b.
StoreBlock(store, b) == store \cup {b}

\* A variant of AppendBlock that skips the prev_hash check for a trusted
\* block.
AppendBlockNoAttachCheck(ch, b, trusted) ==
    LET head == Last(ch.main)
    IN  IF ~trusted /\ Parent[b] # head THEN [ch |-> ch, res |-> "cannot_attach"]
        ELSE IF ~trusted /\ ~ValidateBlock(ch, b) THEN [ch |-> ch, res |-> "invalid"]
        ELSE IF Time[b] <= Time[head] THEN [ch |-> ch, res |-> "invalid"]
        ELSE [ch |-> [ch EXCEPT !.main     = Append(@, b),
                                !.cs       = AddBlock(@, b),
                                !.store    = StoreBlock(@, b),
                                !.pool     = MempoolSpendBlock(@, b),
                                !.comps    = CompSpendBlock(@, b),
                                !.mainDiff = @ + D],
              res |-> "added"]

\* Chain::append_block(block, is_already_valid): the result record carries
\* the new chain value and what the call did: "added" (returned true),
\* "invalid" (returned false, nothing changed) or "cannot_attach" (threw
\* invalid_argument, nothing changed).  An accepted block is pushed, then
\* applied to the chainstate, stored, spent from the mempool and from the
\* computation store, and its difficulty added, in that order.
AppendBlock(ch, b, trusted) ==
    LET head == Last(ch.main)
    IN  IF Parent[b] # head THEN [ch |-> ch, res |-> "cannot_attach"]
        ELSE IF ~trusted /\ ~ValidateBlock(ch, b) THEN [ch |-> ch, res |-> "invalid"]
        ELSE IF Time[b] <= Time[head] THEN [ch |-> ch, res |-> "invalid"]
        ELSE [ch |-> [ch EXCEPT !.main     = Append(@, b),
                                !.cs       = AddBlock(@, b),
                                !.store    = StoreBlock(@, b),
                                !.pool     = MempoolSpendBlock(@, b),
                                !.comps    = CompSpendBlock(@, b),
                                !.mainDiff = @ + D],
              res |-> "added"]
=============================================================================
