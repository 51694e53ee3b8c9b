--------------------------- MODULE MCChainManager ---------------------------
(***************************************************************************)
(* Block trees for ChainManager.  Main starts at genesis G.               *)
(*                                                                         *)
(*        G -- a1 -- a2          a1 spends G's output in t1               *)
(*        |     | \                                                        *)
(*        |     |  x             x: header invalid                         *)
(*        |     y1 -- y2 -- y3   StaleBlocks: a fork pinned below main  *)
(*        |                                                                *)
(*        b1 -- b2 -- b3         b1 spends G's output in t2; b3 holds t1, *)
(*                \              a double spend on the b branch            *)
(*                 b4                                                      *)
(*                                                                         *)
(* With a1 a2 on main, b1 b2 make an equally heavy fork (no reorg), b3    *)
(* or b4 make it heavier and add_block reorganises to it.  The replay      *)
(* re-validates the stored b1, already bound, its proof fails and the      *)
(* rollback aborts (reorg_rebind_crash), so past that point the node takes *)
(* no step.  t1 and t2 are relayed as mempool transactions and conflict    *)
(* with each other.                                                        *)
(* A cfg picks the tree through Blocks; the tables below cover every      *)
(* name and each function is taken on the blocks the cfg chose.           *)
(***************************************************************************)
EXTENDS ChainManager, TLC

CONSTANTS G, a1, a2, b1, b2, b3, b4, x, y1, y2, y3,
          cg, ca1, ca2, cb1, cb2, cb3, cb4, cx, cy1, cy2, cy3, t1, t2,
          c1, c2

TreeBlocks  == {a1, a2, b1, b2, b3, b4, x}
StaleBlocks == TreeBlocks \cup {y1, y2, y3}
MCTxs   == {cg, ca1, ca2, cb1, cb2, cb3, cb4, cx, cy1, cy2, cy3, t1, t2}
MCComps == {c1, c2}

ParentTable == (a1 :> G) @@ (a2 :> a1) @@ (x :> a1) @@ (b1 :> G) @@ (b2 :> b1)
               @@ (b3 :> b2) @@ (b4 :> b2) @@ (y1 :> a1) @@ (y2 :> y1) @@ (y3 :> y2)

TxTable == (G :> <<cg>>) @@ (a1 :> <<ca1, t1>>) @@ (a2 :> <<ca2>>) @@ (x :> <<cx>>)
           @@ (b1 :> <<cb1, t2>>) @@ (b2 :> <<cb2>>) @@ (b3 :> <<cb3, t1>>)
           @@ (b4 :> <<cb4>>) @@ (y1 :> <<cy1>>) @@ (y2 :> <<cy2>>) @@ (y3 :> <<cy3>>)

TimeTable == (G :> 0) @@ (a1 :> 1) @@ (a2 :> 2) @@ (x :> 2) @@ (b1 :> 1) @@ (b2 :> 2)
             @@ (b3 :> 3) @@ (b4 :> 3) @@ (y1 :> 2) @@ (y2 :> 3) @@ (y3 :> 4)

MCParent   == [b \in Blocks |-> ParentTable[b]]
MCBlockTxs == [b \in Blocks \cup {G} |-> TxTable[b]]
MCTime     == [b \in Blocks \cup {G} |-> TimeTable[b]]

\* Coinbases have no real inputs; t1 and t2 both spend genesis output 0.
MCIns == [t \in MCTxs |-> IF t \in {t1, t2} THEN {<<cg, 0>>} ELSE {}]

MCNOut == [t \in MCTxs |-> 1]

MCOutputs == {<<t, 0>> : t \in MCTxs}

\* Every output hashes differently: t1 and t2 pay different keys.
MCOutHash == [o \in MCOutputs |-> o[1]]

\* The wallet owns a1's coinbase and t1's output.
MCMine == [o \in MCOutputs |-> o[1] \in {ca1, t1}]

MCBlockComps == [b \in Blocks \cup {G} |-> IF b \in {a1, b1} THEN {c1} ELSE {c2}]

MCHdrOK == [b \in Blocks \cup {G} |-> b # x]
MCTxOK  == [t \in MCTxs |-> TRUE]

\* Every body passes the chain-independent checks.
MCBodyOK == [b \in Blocks \cup {G} |-> TRUE]

\* b1 carries a bad signature: the fork from G is invalid from its first block.
MCBodyOKBadB1 == [b \in Blocks \cup {G} |-> b # b1]
=============================================================================
