------------------------------ MODULE Mempool ------------------------------
(***************************************************************************)
(* MemPool (src/src/store/mem_pool.cpp), as a record [storage, ref,       *)
(* fault]: storage the TXIDs of tx_storage_ (tx_set_ holds the same       *)
(* transactions keyed by fee ++ TXID and is erased at the same places),   *)
(* ref the utxo_ref_ index from an output hash to the transactions that   *)
(* have an output with that hash (an absent key is the empty set: the     *)
(* code never keeps an empty vector), and fault TRUE once an assert       *)
(* failed.  Every operation runs under the pool's mutex and is called     *)
(* from a chain manager step, so the operations are operators.           *)
(***************************************************************************)
EXTENDS BlockModel

OutHashes == {OutHash[o] : o \in Outpoints}

EmptyPool == [storage |-> {}, ref |-> [h \in OutHashes |-> {}], fault |-> FALSE]

\* MemPool::exists: the TXID is a key of tx_storage_.
TxExists(mp, t) == t \in mp.storage

\* add_valid_tx_unsafe: a TXID already stored is refused; otherwise the
\* transaction is stored and listed under the hash of each of its outputs.
AddValidTx(mp, t) ==
    IF t \in mp.storage THEN mp
    ELSE [mp EXCEPT !.storage = @ \cup {t},
                    !.ref = [h \in OutHashes |->
                               IF h \in ToSet(OutHashSeq(t)) THEN mp.ref[h] \cup {t} ELSE mp.ref[h]]]

\* One output of spend_tx_unsafe: assert the hash is indexed, evict every
\* other transaction listed under it from tx_storage_ and tx_set_, and
\* erase the index entry.  Evicted transactions stay listed under their
\* other output hashes.
SpendOutput(mp, t, h) ==
    [mp EXCEPT !.storage = @ \ (mp.ref[h] \ {t}),
               !.ref[h] = {},
               !.fault = @ \/ (~NDEBUG /\ mp.ref[h] = {})]

\* spend_tx_unsafe: nothing for a transaction the pool does not hold;
\* otherwise remove it and walk its outputs in vout order.
MempoolSpendTx(mp, t) ==
    IF t \notin mp.storage THEN mp
    ELSE FoldLeft(LAMBDA acc, h : SpendOutput(acc, t, h),
                  [mp EXCEPT !.storage = @ \ {t}], OutHashSeq(t))

\* MemPool::spend_block: spend_tx_unsafe for every transaction after the
\* coinbase, in block order.
MempoolSpendBlock(mp, b) ==
    FoldLeft(LAMBDA acc, t : MempoolSpendTx(acc, t), mp, SpendingTxs(b))
=============================================================================
