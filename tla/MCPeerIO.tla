------------------------------ MODULE MCPeerIO ------------------------------
(***************************************************************************)
(* The requests a remote node sends over one connection, by what their    *)
(* handlers in src/src/node/node.cpp do with them:                         *)
(*   InvBlock of an unknown block: answered with GetBlock, nothing spawned *)
(*   InfoBlock of a new block: InvBlock broadcast, empty answer            *)
(*   ListTransactions of two TXIDs: one GetTransaction broadcast per TXID *)
(***************************************************************************)
EXTENDS PeerIO

InvBlockReq  == [spawns |-> 0, resp |-> TRUE]
InfoBlockReq == [spawns |-> 1, resp |-> FALSE]
ListTxsReq   == [spawns |-> 2, resp |-> FALSE]

MCKinds == {InvBlockReq, InfoBlockReq, ListTxsReq}
=============================================================================
