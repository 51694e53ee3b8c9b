------------------------------- MODULE Fork -------------------------------
(***************************************************************************)
(* Fork (src/src/chain/fork.cpp): a side branch that leaves the main      *)
(* chain after code index src.  A fork value is a record                  *)
(*   [src, srcHdr, hdrs, diff]                                            *)
(* with src its chain_src_, srcHdr its chain_src_header_ (the main block  *)
(* it was created on, which the fork keeps even when main later changes), *)
(* hdrs its own header_chain_ (without srcHdr) and diff its               *)
(* total_difficulty_, which counts the main blocks up to src as well.     *)
(* A fork only checks headers; bodies are checked when a reorg replays    *)
(* the fork onto the main chain.                                          *)
(***************************************************************************)
EXTENDS Chain

\* Fork::Fork(..., chain_src, chain_src_header, diff) with no blocks yet.
NewFork(src, srcHdr, diff) == [src |-> src, srcHdr |-> srcHdr, hdrs |-> <<>>, diff |-> diff]

\* Fork::append_block: the inherited Chain::can_attach (which accepts any
\* block on an empty fork, whatever its parent), then the header check,
\* then push the header, store the block and add its difficulty.  The
\* result carries the new fork, the new block store and "added",
\* "invalid" or "cannot_attach" (threw invalid_argument).
ForkAppendBlock(f, store, b) ==
    IF ~ChainCanAttach(f.hdrs, b) THEN [fork |-> f, store |-> store, res |-> "cannot_attach"]
    ELSE IF ~ProofVerifies(store, b) THEN [fork |-> f, store |-> store, res |-> "invalid"]
    ELSE [fork |-> [f EXCEPT !.hdrs = Append(@, b), !.diff = @ + D],
          store |-> store \cup {b}, res |-> "added"]
=============================================================================
