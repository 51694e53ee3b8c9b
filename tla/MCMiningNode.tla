---------------------------- MODULE MCMiningNode ----------------------------
(***************************************************************************)
(* Blocks for MiningNode.  Peers send the tree                             *)
(*                                                                         *)
(*        G -- a1                a1 holds computation c1                   *)
(*        |                                                                *)
(*        b1 -- b2               b1 and b2 hold c2: a fork that outweighs  *)
(*                               a main chain of one block after G         *)
(*                                                                         *)
(* and the miner may build, on G, on a peer block or on its own block,    *)
(* any block of height below MaxLen from a get_top snapshot of the pool   *)
(* and one computation.  t1 spends G's coinbase; t3 (only in the pool    *)
(* sets that list it) spends t1's output.                                 *)
(***************************************************************************)
EXTENDS MiningNode, TLC

CONSTANTS G, a1, b1, b2, cg, ca1, cb1, cb2, t1, t3, c1, c2

MCPeerBlocks == {a1, b1, b2}
MCComps      == {c1, c2}
MCTxs        == {cg, ca1, cb1, cb2, t1, t3}

ParentTable == (a1 :> G) @@ (b1 :> G) @@ (b2 :> b1)
HeightTable == (G :> 0) @@ (a1 :> 1) @@ (b1 :> 1) @@ (b2 :> 2)
TxTable     == (G :> <<cg>>) @@ (a1 :> <<ca1>>) @@ (b1 :> <<cb1>>) @@ (b2 :> <<cb2>>)
TimeTable   == (G :> 0) @@ (a1 :> 1) @@ (b1 :> 1) @@ (b2 :> 2)
CompTable   == (G :> {}) @@ (a1 :> {c1}) @@ (b1 :> {c2}) @@ (b2 :> {c2})

\* The sync peer's main chain and mempool.
MCSMain == <<G, a1>>
MCSMainGenesis == <<G>>
MCSPool == {t1}

\* fee ++ TXID orders t1 before t3 and both before the payments, and the
\* payments (every client here pays the same fee) by TXID: here the coin
\* collected, then the amount.  Key is defined on every record the
\* universe is built from, so the snapshots below can sort with it before
\* the universe Txs exists.
Key(t) == CASE t = t3       -> 2
            [] t \in MCTxs  -> 1
            [] OTHER        -> 100 + 10 * Cardinality((CHOOSE o \in t.ins : TRUE)[1].fees) + t.outs[1].amount

\* A mined coinbase carries the reward 4 plus a fee of 1 per payer.
CoinbaseAmount(o) == 4 + Cardinality(o[1].fees)

\* get_top's snapshot of S, in the order of Key.
TopOf(S) ==
    LET sorted == SetToSortSeq(S, LAMBDA x, y : Key(x) < Key(y))
    IN  SubSeq(sorted, 1, IF Len(sorted) < TxLimit THEN Len(sorted) ELSE TxLimit)

\* The get_top snapshots of the subsets of U for a limit of 2: none, one
\* transaction, or two in ascending Key.  The ASSUMEs below check that
\* they are the TopOf of the subsets, for each U the universes use.
Snapshots(U) == {<<>>} \cup {<<x>> : x \in U} \cup {p \in U \X U : Key(p[1]) < Key(p[2])}

\* The transactions the pool can hold, per cfg.
PoolWithT1   == {t1}
PoolWithT1T3 == {t1, t3}

\* The blocks the miner can build at height h: a parent at height h - 1,
\* a get_top snapshot of some pool content, one computation.
RECURSIVE MinedAt(_, _)
MinedAt(h, pool) ==
    LET parents == {p \in MCPeerBlocks \cup {G} : HeightTable[p] = h - 1}
                   \cup (IF h = 1 THEN {} ELSE MinedAt(h - 1, pool))
    IN  {MinedBlock(p, h, s, c) : p \in parents, s \in Snapshots(pool), c \in MCComps}

MCMinedOf(pool) == UNION {MinedAt(h, pool) : h \in 1 .. MaxLen - 1}

MinedT1   == MCMinedOf(PoolWithT1)
MinedT1T3 == MCMinedOf(PoolWithT1T3)

IsMined(b) == b \notin MCPeerBlocks \cup {G}

BlocksT1   == MCPeerBlocks \cup MinedT1
BlocksT1T3 == MCPeerBlocks \cup MinedT1T3

MCTxsAll == MCTxs \cup {MinedCoinbase(m.height, m.txs) : m \in MinedT1T3}

\* Two clients pay other keys with different amounts and no fee: from a
\* coin of 4 the change outputs (3 and 2) differ, so the two payments
\* share no output hash.
MCPayments == {[amount |-> 1, fee |-> 0, to |-> "other"],
               [amount |-> 2, fee |-> 0, to |-> "other"]}

\* A client pays the wallet's own key 2 from a coin of 4: the change
\* output equals the payment, byte for byte.
MCPaymentsSelf == {[amount |-> 2, fee |-> 0, to |-> "self"]}

\* With payments, MaxLen is 3: the wallet's one coin is the coinbase of
\* the one mined block at height 1 on main (no payment can be in it, and
\* no other block of height 1 outweighs it), and payments spend it.
\* Blocks at height 2 take get_top snapshots of t1 and, on a mined block,
\* of those payments.
\* (MinedAt spelt out for heights 1 and 2; get_top of a subset of {t1}
\* is <<>> or <<t1>>.)
H1Snapshots == {<<>>, <<t1>>}
H1Blocks    == {MinedBlock(G, 1, s, c) : s \in H1Snapshots, c \in MCComps}
H1Coins     == {<<MinedCoinbase(1, m.txs), 0>> : m \in H1Blocks}

\* The payment new_transaction builds from the one coin o for r, written
\* out from the coin's amount (the ASSUME below ties it to WalletTx).
PaymentFrom(o, r) ==
    [ins  |-> {o},
     outs |-> <<[amount |-> r.amount, key |-> r.to]>>
              \o (IF CoinbaseAmount(o) > r.amount + r.fee
                  THEN <<[amount |-> CoinbaseAmount(o) - r.amount - r.fee, key |-> "self"]>>
                  ELSE <<>>)]

WalletTxs   == {PaymentFrom(o, r) : o \in H1Coins, r \in Payments}

ASSUME \A o \in H1Coins, r \in Payments : PaymentFrom(o, r) = WalletTx({o}, r)

H2Blocks    == {MinedBlock(p, 2, s, c) : p \in {a1, b1}, s \in H1Snapshots, c \in MCComps}
               \cup {MinedBlock(p, 2, s, c) : p \in H1Blocks,
                                             s \in Snapshots(PoolWithT1 \cup WalletTxs),
                                             c \in MCComps}

ASSUME TxLimit = 2
ASSUME \A U \in {PoolWithT1, PoolWithT1T3, PoolWithT1 \cup WalletTxs} :
          Snapshots(U) = {TopOf(S) : S \in SUBSET U}
ASSUME H1Snapshots = Snapshots(PoolWithT1)

BlocksWallet == MCPeerBlocks \cup H1Blocks \cup H2Blocks
MCFeeKey == [t \in MCTxs \cup WalletTxs |-> Key(t)]

\* Peers relay the transactions of their own blocks: none of them spends
\* a coin of this node's wallet, which only this node can sign.
MCRelayedTxs == UNION {ToSet(SpendingTxs(b)) : b \in MCPeerBlocks}

\* b2's body fails validation: the reorg to b1, b2 rolls back.
MCBodyOKNoB2 == [b \in Blocks \cup {Genesis} |-> b # b2]

MCTxsWallet  == MCTxs \cup WalletTxs \cup {MinedCoinbase(m.height, m.txs) : m \in H1Blocks \cup H2Blocks}

MCParent == [b \in Blocks |-> IF IsMined(b) THEN b.parent ELSE ParentTable[b]]
MCBlockTxs == [b \in Blocks \cup {G} |->
                 IF IsMined(b) THEN <<MinedCoinbase(b.height, b.txs)>> \o b.txs ELSE TxTable[b]]
MCBlockComps == [b \in Blocks \cup {G} |-> IF IsMined(b) THEN {b.comp} ELSE CompTable[b]]

\* Miner::mine stamps the wall clock, later than every peer timestamp.
MCTime == [b \in Blocks \cup {G} |-> IF IsMined(b) THEN 10 + b.height ELSE TimeTable[b]]

\* A payment of the wallet, told apart from the named transactions and
\* the mined coinbases by its outputs.
IsWalletTx(t) == t \notin MCTxs /\ "outs" \in DOMAIN t

\* The constants of the transactions in a universe T.
InsOf(T) == [t \in T |-> CASE t = t1 -> {<<cg, 0>>}
                            [] t = t3 -> {<<t1, 0>>}
                            [] IsWalletTx(t) -> t.ins
                            [] OTHER  -> {}]
NOutOf(T) == [t \in T |-> IF IsWalletTx(t) THEN Len(t.outs) ELSE 1]
OutpointsOf(T) == UNION {{<<t, i>> : i \in 0 .. NOutOf(T)[t] - 1} : t \in T}

\* A mined coinbase pays the wallet's key its amount, and a payment's
\* outputs are their (amount, key); every other output hashes
\* differently.
OutHashOf(T) == [o \in OutpointsOf(T) |->
                   CASE o[1] \in MCTxs      -> o[1]
                     [] IsWalletTx(o[1]) -> o[1].outs[o[2] + 1]
                     [] OTHER             -> [amount |-> 4 + Cardinality(o[1].fees), key |-> "self"]]
MineOf(T) == [o \in OutpointsOf(T) |-> IF IsWalletTx(o[1]) THEN o[1].outs[o[2] + 1].key = "self"
                                                             ELSE o[1] \notin MCTxs]
TxOKOf(T) == [t \in T |-> TRUE]

MCIns     == InsOf(MCTxsAll)
MCNOut    == NOutOf(MCTxsAll)
MCOutHash == OutHashOf(MCTxsAll)
MCMine    == MineOf(MCTxsAll)
MCTxOK    == TxOKOf(MCTxsAll)

MCInsWallet     == InsOf(MCTxsWallet)
MCNOutWallet    == NOutOf(MCTxsWallet)
MCOutHashWallet == OutHashOf(MCTxsWallet)
MCMineWallet    == MineOf(MCTxsWallet)
MCTxOKWallet    == TxOKOf(MCTxsWallet)


MCTrueB == [b \in Blocks \cup {G} |-> TRUE]
=============================================================================
