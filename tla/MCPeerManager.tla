--------------------------- MODULE MCPeerManager ---------------------------
(***************************************************************************)
(* Two remote nodes, one of them the bootstrap entry.  A remote node's    *)
(* collect_peers lists the peers it knows: nothing, the other remote      *)
(* node, or us and the other remote node.                                 *)
(***************************************************************************)
EXTENDS PeerManager

CONSTANTS n1, n2, s0

MCNodes == {n1, n2}
MCBoot  == <<n1>>
MCAddrLists == {<<>>, <<n2>>, <<s0, n2>>}
=============================================================================
