---------------------------- MODULE PeerManager ----------------------------
(***************************************************************************)
(* The connection manager and peer discovery (src/src/net/conn_mngr.cpp,  *)
(* the GetAddr and Addr handlers and bootstrap_from_config of             *)
(* src/src/node/node.cpp).                                                 *)
(*                                                                         *)
(* A Peer object is an entry of peers, in creation order: the remote node *)
(* behind it, its _id (the remote endpoint; an inbound connection comes   *)
(* from an ephemeral endpoint, named here by the peer's own index, until  *)
(* GetAddr replaces it with the node's listening address), the side that  *)
(* opened it, whether its socket is open, and whether a GetAddr we sent   *)
(* on it still waits for its Addr answer.  inbound_peer_map_ and          *)
(* outbound_peer_map_ are functions from an id to a peer index, Null      *)
(* standing for the empty shared_ptr that std::map::operator[] inserts    *)
(* for a missing key.  Dereferencing it kills the process.                *)
(*                                                                         *)
(* The Node constructor runs bootstrap_from_config before any thread      *)
(* exists; after it the io thread runs every other step one at a time.    *)
(* Remote nodes run the same code: they open connections to us and send  *)
(* GetAddr on them, and answer our GetAddr with an Addr list.             *)
(***************************************************************************)
EXTENDS Naturals, Sequences, FiniteSets, SequencesExt

CONSTANTS
    Nodes,      \* the listening addresses of the remote nodes
    Self,       \* this node's net.address and net.port
    Boot,       \* net.bootstrap, in order
    InLim,      \* net.inbound_peers_limit
    OutLim,     \* net.outbound_peers_limit
    AddrLists,  \* the Addr lists a remote node may answer GetAddr with
    MaxPeers    \* bound: the most Peer objects one behaviour creates

VARIABLES
    peers,     \* the Peer objects: [node, id, dir, open, awaiting]
    inMap,     \* inbound_peer_map_: id -> peer index, or Null
    outMap,    \* outbound_peer_map_: id -> peer index, or Null
    bootNext,  \* the next net.bootstrap entry the constructor handles
    status     \* "running", or "crashed" once a null Peer is dereferenced

pvars == <<peers, inMap, outMap, bootNext, status>>

Null == 0

Ids == Nodes \cup (1 .. MaxPeers)

EmptyMap == [x \in {} |-> Null]

\* m[k] = v on a std::map.
Put(m, k, v) == [x \in DOMAIN m \cup {k} |-> IF x = k THEN v ELSE m[x]]

\* m.erase(k).
Erase(m, k) == [x \in DOMAIN m \ {k} |-> m[x]]

\* outbound_full and inbound_full: the map's size equals the limit.
OutboundFull(m) == Cardinality(DOMAIN m) = OutLim
InboundFull(m)  == Cardinality(DOMAIN m) = InLim

\* peer_exists(address, port): the id is a key of either map.
PeerExists(s, a) == a \in DOMAIN s.in \cup DOMAIN s.out

\* The state one handler works on, and its commit.
Handler == [peers |-> peers, in |-> inMap, out |-> outMap, crashed |-> FALSE, stop |-> FALSE]
Commit(s) ==
    /\ Len(s.peers) <= MaxPeers
    /\ peers' = s.peers /\ inMap' = s.in /\ outMap' = s.out
    /\ status' = IF s.crashed THEN "crashed" ELSE status

NewPeer(n, id, dir) == [node |-> n, id |-> id, dir |-> dir, open |-> TRUE, awaiting |-> FALSE]

\* add_to_outbound: the Peer k is kept under its id a unless the map is
\* full.
AddToOutbound(m, a, k) == IF OutboundFull(m) THEN m ELSE Put(m, a, k)

\* connect_to_peer: a connected socket becomes a Peer whose id is the
\* endpoint a; add_to_outbound keeps it unless the map is full; its listen
\* loop is spawned detached either way.
ConnectToPeer(s, a) ==
    [s EXCEPT !.peers = Append(@, NewPeer(a, a, "out")),
              !.out = AddToOutbound(@, a, Len(s.peers) + 1)]

\* The Peer async_send_to_peer and send_to_peer take after connecting:
\* outbound_peer_map_[peerID], a null entry inserted if the add was
\* refused.
Connected(c, a) == IF a \in DOMAIN c.out THEN c.out[a] ELSE Null

\* async_send_to_peer(addr, port, GetAddr) for an address peer_exists
\* denied: a listener that is down makes connect throw (handle_addr
\* catches it); otherwise the send of GetAddr is posted on the new Peer.
AsyncSendGetAddr(s, a, up) ==
    IF a \notin up THEN s
    ELSE LET c == ConnectToPeer(s, a)
             p == Connected(c, a)
         IN  [c EXCEPT !.out = Put(@, a, p),
                       !.peers = IF p = Null THEN @ ELSE [@ EXCEPT ![p].awaiting = TRUE],
                       !.crashed = @ \/ p = Null]

\* One pair of handle_addr's loop: stop once the outbound map is full,
\* skip our own address, connect to an address no map knows.
AddrEntry(s, a, up) ==
    CASE s.stop                 -> s
      [] OutboundFull(s.out)    -> [s EXCEPT !.stop = TRUE]
      [] a = Self               -> s
      [] ~PeerExists(s, a)      -> AsyncSendGetAddr(s, a, up)
      [] OTHER                  -> s

\* Node::handle_addr on an Addr list.
HandleAddrList(s, list, up) ==
    FoldLeft(LAMBDA acc, a : AddrEntry(acc, a, up), [s EXCEPT !.stop = FALSE], list)

Init ==
    /\ peers = <<>>
    /\ inMap = EmptyMap /\ outMap = EmptyMap
    /\ bootNext = 1
    /\ status = "running"

Booted == bootNext > Len(Boot)

-----------------------------------------------------------------------------
(***************************************************************************)
(* The Node constructor: bootstrap_from_config, one net.bootstrap entry   *)
(* per step.                                                               *)
(***************************************************************************)

\* send_to_peer(ep, GetAddr, true) and the Addr answer routed to
\* handle_addr.  A known id reuses its Peer; otherwise connect_to_peer
\* (a listener that is down throws, and the loop's catch moves on) and
\* outbound_peer_map_[ep], whose Peer the synchronous send dereferences.
BootstrapStep ==
    /\ ~Booted
    /\ \E up \in SUBSET Nodes, list \in AddrLists :
          LET a == Boot[bootNext]
              s == Handler
              c == ConnectToPeer(s, a)
              p == Connected(c, a)
          IN  CASE PeerExists(s, a) -> Commit(HandleAddrList(s, list, up))
                [] a \notin up      -> Commit(s)
                [] p = Null         -> Commit([c EXCEPT !.out = Put(@, a, Null), !.crashed = TRUE])
                [] OTHER            -> Commit(HandleAddrList(c, list, up))
    /\ bootNext' = bootNext + 1

-----------------------------------------------------------------------------
(***************************************************************************)
(* The io thread, once the constructor has returned.                      *)
(***************************************************************************)

\* add_to_inbound: the Peer k is kept under its id unless the map is full.
AddToInbound(m, k) == IF InboundFull(m) THEN m ELSE Put(m, k, k)

\* ConnectionManager::listener: node n connects from an ephemeral
\* endpoint; add_to_inbound keeps the Peer unless the map is full, and its
\* listen loop is spawned either way.
Accept(n) ==
    /\ Len(peers) < MaxPeers
    /\ LET k == Len(peers) + 1 IN
       /\ peers' = Append(peers, NewPeer(n, k, "in"))
       /\ inMap' = AddToInbound(inMap, k)
    /\ UNCHANGED <<outMap, bootNext, status>>

\* update_inb_peer_addr_info(id, n): inbound_peer_map_[id], a null Peer
\* inserted when id is no key, which peer->update_addr_info dereferences;
\* otherwise that Peer is renamed n, stored under n and erased under id.
UpdateInbPeerAddrInfo(s, id, n) ==
    IF id \notin DOMAIN s.in
    THEN [s EXCEPT !.in = Put(@, id, Null), !.crashed = TRUE]
    ELSE LET q == s.in[id]
             m == Put(s.in, n, q)
         IN  [s EXCEPT !.peers[q].id = n, !.in = IF id # n THEN Erase(m, id) ELSE m]

\* A remote node's GetAddr on the connection it opened, carrying its
\* listening address: handle_get_peer_addrs passes the Peer's current id
\* to update_inb_peer_addr_info; collect_peers and the Addr answer change
\* nothing here.
HandleGetAddr(k) ==
    /\ peers[k].open /\ peers[k].dir = "in"
    /\ Commit(UpdateInbPeerAddrInfo(Handler, peers[k].id, peers[k].node))
    /\ UNCHANGED bootNext

\* The Addr answer to a GetAddr handle_addr sent on an outbound Peer.
HandleAddr(k) ==
    /\ peers[k].open /\ peers[k].dir = "out" /\ peers[k].awaiting
    /\ \E up \in SUBSET Nodes, list \in AddrLists :
          Commit(HandleAddrList([Handler EXCEPT !.peers[k].awaiting = FALSE], list, up))
    /\ UNCHANGED bootNext

\* The remote end closes a connection and its listen loop throws.  The
\* listener's completion handler erases the Peer's current id from
\* inbound_peer_map_; connect_to_peer spawned outbound loops detached, so
\* their Peers stay in outbound_peer_map_.
Close(k) ==
    /\ peers[k].open
    /\ peers' = [peers EXCEPT ![k].open = FALSE, ![k].awaiting = FALSE]
    /\ inMap' = IF peers[k].dir = "in" THEN Erase(inMap, peers[k].id) ELSE inMap
    /\ UNCHANGED <<outMap, bootNext, status>>

\* async_broadcast (an RPC Test, a new transaction, block or computation):
\* a send is posted on every Peer of both maps, a null one included; a
\* write to a closed socket fails inside its detached coroutine.
Broadcast ==
    /\ status' = IF Null \in {inMap[i] : i \in DOMAIN inMap} \cup {outMap[i] : i \in DOMAIN outMap}
                 THEN "crashed" ELSE status
    /\ UNCHANGED <<peers, inMap, outMap, bootNext>>

Next ==
    /\ status = "running"
    /\ \/ BootstrapStep
       \/ /\ Booted
          /\ \/ \E n \in Nodes : Accept(n)
             \/ \E k \in DOMAIN peers : HandleGetAddr(k) \/ HandleAddr(k) \/ Close(k)
             \/ Broadcast

Spec == Init /\ [][Next]_pvars

-----------------------------------------------------------------------------
(***************************************************************************)
(* Properties.                                                             *)
(***************************************************************************)

\* The node never dereferences a null Peer: every lookup of a peer map by
\* the handlers finds a Peer, whatever connections remote nodes open and
\* however many net.bootstrap lists.
NoAbort == status = "running"
=============================================================================
