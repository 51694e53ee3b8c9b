------------------------------ MODULE Wallet ------------------------------
(***************************************************************************)
(* The coin set of Wallet (src/src/wallet/wallet.cpp): the outpoints the  *)
(* wallet believes it can spend (coins_ is keyed by pair_to_key of TXID   *)
(* and vout).  ChainManager keeps it in step with the main chain through  *)
(* filter_block and spend_block on every append, and rescan after every   *)
(* reorg.  Each of these holds the wallet mutex, so each is an operator.  *)
(***************************************************************************)
EXTENDS BlockModel

\* The outputs of b paying the wallet's public key.
MineOuts(b) == {o \in Creates(b) : Mine[o]}

\* Every outpoint an input of b references, the coinbase's included:
\* spend_block does not skip the coinbase.
AllIns(b) == UNION {Ins[t] : t \in ToSet(BlockTxs[b])}

\* A variant of filter_block that keeps every output, whoever it pays.
FilterBlockAnyKey(coins, b) == coins \cup Creates(b)

\* Wallet::filter_block: a coin for every output paying the wallet.
FilterBlock(coins, b) == coins \cup MineOuts(b)

\* Wallet::spend_block: drop every coin an input references.
WalletSpendBlock(coins, b) == coins \ AllIns(b)

\* A variant of rescan that does not clear coins_ first.
RescanWithoutClear(coins, chain) ==
    FoldLeft(LAMBDA acc, b : FilterBlock(WalletSpendBlock(acc, b), b), coins, chain)

\* Wallet::rescan: clear the coins, then for every block of the header
\* chain, genesis first, spend_block and then filter_block (the reverse of
\* the order add_block uses).
Rescan(coins, chain) ==
    FoldLeft(LAMBDA acc, b : FilterBlock(WalletSpendBlock(acc, b), b), {}, chain)
=============================================================================
