---------------------------- MODULE HeaviestChain ----------------------------
(***************************************************************************)
(* What the node promises of its main chain (spec.md sections 5 and 9):  *)
(* the main chain is always a fully valid chain from genesis, made of     *)
(* blocks the node has stored, and it changes only to a strictly heavier  *)
(* valid chain: an append of one valid block, or the atomic replacement   *)
(* of a suffix by a fork of higher total difficulty.  A reorg that fails  *)
(* part way restores the old main exactly, so it is no change at all.     *)
(* The store only grows.                                                   *)
(***************************************************************************)
EXTENDS BlockModel

CONSTANT D   \* the difficulty of every block

VARIABLES
    best,   \* the main chain
    seen    \* the blocks the node has stored

hvars == <<best, seen>>

\* The UTXOs a chain leaves when applied from nothing.
Unspent(c) == UNION {Creates(c[i]) : i \in DOMAIN c} \ UNION {Spends(c[i]) : i \in DOMAIN c}

\* Block b may follow chain c: it names c's tip, is later, passes every
\* check that reads no state, spends no outpoint twice and only c's UTXOs.
ValidSuccessor(c, b) ==
    /\ Parent[b] = Last(c)
    /\ Time[b] > Time[Last(c)]
    /\ HdrOK[b] /\ BodyOK[b]
    /\ \A i, j \in 2 .. Len(BlockTxs[b]) :
          i # j => Ins[BlockTxs[b][i]] \cap Ins[BlockTxs[b][j]] = {}
    /\ Spends(b) \subseteq Unspent(c)

ChainValid(c) ==
    /\ c # <<>> /\ c[1] = Genesis
    /\ \A i \in 2 .. Len(c) : ValidSuccessor(SubSeq(c, 1, i - 1), c[i])

Weight(c) == D * Len(c)

HInit == best = <<Genesis>> /\ seen = {Genesis}

\* Blocks arrive and are stored.
Store == seen \subseteq seen' /\ seen' \subseteq AllBlocks

Receive == Store /\ UNCHANGED best

\* The main chain becomes a heavier valid chain of stored blocks.
Adopt ==
    /\ Store
    /\ ChainValid(best')
    /\ Weight(best') > Weight(best)
    /\ ToSet(best') \subseteq seen'

HSpec == HInit /\ [][Receive \/ Adopt]_hvars
=============================================================================
