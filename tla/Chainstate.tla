----------------------------- MODULE Chainstate -----------------------------
(***************************************************************************)
(* MemChainstate and its SpentSet (src/src/store/mem_chainstate.cpp).     *)
(*                                                                         *)
(* The chainstate is a record [utxo, spent, fault]: utxo the keys of      *)
(* storage_, spent the keys of the SpentSet's spent_storage_, and fault   *)
(* TRUE once an assert failed or a missing undo record was dereferenced.  *)
(* The UTXORecord behind a key (height, coinbase flag, amount, pubkey) is *)
(* a function of the outpoint, so the keys are all the state there is.    *)
(* The chainstate is only ever changed by Chain::append_block and         *)
(* ChainManager::reorg under the manager's lock, so its operations are    *)
(* operators those actions compose.                                        *)
(***************************************************************************)
EXTENDS BlockModel

\* A variant of the add_block step that removes the spent UTXOs without
\* archiving them in the SpentSet.
AddTxOutputsNoArchive(cs, t, isCb) ==
    LET withOuts == cs.utxo \cup Outs(t)
        ins      == IF isCb THEN {} ELSE Ins[t]
    IN  [utxo  |-> withOuts \ ins,
         spent |-> cs.spent,
         fault |-> cs.fault \/ (~NDEBUG /\ ~(ins \subseteq withOuts))]

\* One transaction of add_block: every output becomes a UTXO (add_utxo
\* keeps a key already present), then, unless the transaction is the
\* coinbase, every referenced UTXO is removed and archived in the SpentSet.
\* remove_utxo returns false for a key that is not there, and
\* assert(removed) aborts the process unless NDEBUG.
AddTxOutputsAndSpend(cs, t, isCb) ==
    LET withOuts == cs.utxo \cup Outs(t)
        ins      == IF isCb THEN {} ELSE Ins[t]
    IN  [utxo  |-> withOuts \ ins,
         spent |-> cs.spent \cup (ins \cap withOuts),
         fault |-> cs.fault \/ (~NDEBUG /\ ~(ins \subseteq withOuts))]

\* MemChainstate::add_block: the transactions in block order.
AddBlock(cs, b) ==
    FoldLeftDomain(LAMBDA acc, k : AddTxOutputsAndSpend(acc, BlockTxs[b][k], k = 1),
                   cs, BlockTxs[b])

\* A variant of the rewind step that restores the inputs but leaves the
\* transaction's own outputs in the UTXO set.
RewindTxKeepOutputs(cs, t, isCb) ==
    LET ins == IF isCb THEN {} ELSE Ins[t]
    IN  [utxo  |-> cs.utxo \cup ins,
         spent |-> cs.spent \ ins,
         fault |-> cs.fault \/ ~(ins \subseteq cs.spent)]

\* One transaction of rewind_block: its outputs are removed without
\* archiving, then, unless it is the coinbase, every input is restored from
\* the SpentSet and its undo record dropped.  A missing undo record fails
\* assert(undo_rec) and is then dereferenced: a crash in every build.
RewindTxOutputsAndRestore(cs, t, isCb) ==
    LET ins == IF isCb THEN {} ELSE Ins[t]
    IN  [utxo  |-> (cs.utxo \ Outs(t)) \cup ins,
         spent |-> cs.spent \ ins,
         fault |-> cs.fault \/ ~(ins \subseteq cs.spent)]

\* MemChainstate::rewind_block: the transactions in block order, the same
\* order add_block used (not the reverse).
RewindBlock(cs, b) ==
    FoldLeftDomain(LAMBDA acc, k : RewindTxOutputsAndRestore(acc, BlockTxs[b][k], k = 1),
                   cs, BlockTxs[b])
=============================================================================
