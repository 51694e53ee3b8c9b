--------------------------- MODULE MCAlgorithms ---------------------------
(***************************************************************************)
(* The pure algorithms of the node checked together: the expression       *)
(* builder of MCExpression (a state machine over every well-formed input)  *)
(* and the byte codecs, mempool key and Merkle root of Codec.  The two     *)
(* are checked side by side, not as a product: a behaviour either runs     *)
(* build_tree on one expression (cin = NoInput) or holds one input of a    *)
(* Codec algorithm, which takes no step.                                   *)
(***************************************************************************)
EXTENDS MCExpression, Codec

VARIABLE cin   \* the Codec input of this behaviour, or NoInput

NoInput == [kind |-> "none"]

\* A fixed expression state for the Codec behaviours: the constructor
\* about to build "1+2".
IdleExpr ==
    /\ expr = <<"1", "+", "2">>
    /\ post = Shunt(expr)
    /\ k = 0
    /\ tree = EmptyTree
    /\ phase = "build"

AlgInit ==
    \/ Init /\ cin = NoInput
    \/ IdleExpr /\ cin \in CodecInputs \cup KeyPairs \cup ListPairs

AlgNext == cin = NoInput /\ Next /\ UNCHANGED cin

AlgSpec == AlgInit /\ [][AlgNext]_<<vars, cin>>

\* util.cpp's encoders and decoders are inverse on every value of every
\* width, negative int32s through their two's complement included, and
\* msg::parse_header gives back the length and type msg::write_header
\* wrote, as Peer::listen relies on to frame each message.
CodecRoundTrip == cin \in CodecInputs => RoundTrips(cin)

\* tx_set_ under comp orders the keys concat_txid_fee_pair builds by
\* descending fee and, among equal fees, by descending TXID, so get_top's
\* walk from begin() takes the highest fees first (spec section 4.5); and
\* txid_from_pair recovers the TXID of every key.
PoolKeyOrder == cin \in KeyPairs => KeyOrdered(cin)

\* Merkle::compute_root commits to the transaction list: two different
\* lists of distinct TXIDs never share a root, so validate_block's
\* comparison with the header's merkle_root_ pins the block's
\* transactions and their order.
MerkleRootBinding == cin \in ListPairs => RootsDiffer(cin)
=============================================================================
