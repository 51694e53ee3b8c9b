----------------------------- MODULE CompStore -----------------------------
(***************************************************************************)
(* MemCompStore (src/src/store/mem_compstore.cpp): the computations       *)
(* clients registered and no accepted block has used yet, as the set of   *)
(* their hashes (storage_ is keyed by the computation hash).  Every       *)
(* operation holds the store's mutex, so each is one operator.            *)
(***************************************************************************)
EXTENDS BlockModel

\* store_computation: a hash already stored is refused, anything else added.
StoreComputation(store, c) == IF c \in store THEN store ELSE store \cup {c}

\* MemCompStore::exists.
CompExists(store, c) == c \in store

\* collect_computations(target): the stored computations, in the hash
\* map's order, until their difficulties reach target; none when they
\* never do.  Each computation here meets the target alone, so the result
\* is the first stored one, and the map's order may put any one first:
\* the set of computations it may return.
CollectComputations(store) == store

\* MemCompStore::spend_block: remove_computation for every computation of
\* b's header; one the store does not hold is skipped.
CompSpendBlock(store, b) == store \ BlockComps[b]
=============================================================================
