----------------------------- MODULE ChainValues -----------------------------
(***************************************************************************)
(* The numbers of the main chain (src/src/chain/chain.cpp,                *)
(* src/src/core/transaction.cpp, src/src/chain/miner.cpp): the header     *)
(* timestamps and the difficulty schedule get_difficulty_for_height, the  *)
(* reward schedule reward_for_height, the uint64 amount sums of           *)
(* validate_transaction and fee(), and the coinbase check of              *)
(* validate_block.  Blocks extend the main chain one at a time, either    *)
(* from a peer through validate_block and append_block, or from the       *)
(* local miner through the trusted append.  Everything else a block is    *)
(* (hashes, signatures, computations) is left to ChainManager.            *)
(*                                                                         *)
(* uint64 amounts are modelled at width W (arithmetic % 2^W).  A uint32   *)
(* header index that would wrap below zero is kept negative: it stands    *)
(* for an index of at least 2^32 - BPE, beyond any header_chain_ here.    *)
(***************************************************************************)
EXTENDS Integers, Sequences, FiniteSets, SequencesExt

CONSTANTS
    BPE,         \* chain.blocks_per_epoch
    SPB,         \* chain.seconds_per_block
    GenDiff,     \* chain.genesis.difficulty
    GenTime,     \* chain.genesis.timestamp
    InitReward,  \* chain.genesis.reward
    W,           \* the width uint64 amounts are modelled at
    Gaps,        \* the seconds between a block and its parent
    GarbageTs,   \* what an out-of-range header_chain_ read may yield
    CbAmounts,   \* coinbase amounts a peer's block may carry
    OutLists,    \* output amount lists a transaction may carry
    MaxInputs,   \* the most inputs of one transaction
    MaxHeight    \* the last height the chain is grown to

U(x) == x % (2 ^ W)

\* Chain::get_epoch.
Epoch(h) == h \div BPE

\* x >> s for x < 2^W.
ShiftRight(x, s) == IF s >= W THEN 0 ELSE x \div (2 ^ s)

\* Chain::reward_for_height: init_reward >> epoch.  A shift by 64 or more
\* is undefined; the x86 shr the build emits masks the count to six bits.
RewardForHeight(h) == ShiftRight(InitReward, Epoch(h) % 64)
RewardUB(h)        == Epoch(h) >= 64

(***************************************************************************)
(* get_difficulty_for_height.  Floating point makes the result a set: an  *)
(* exact half may round either way once exp / actual is inexact.          *)
(***************************************************************************)

\* std::round(num / den) for num >= 0, den > 0.
RoundOutcomes(num, den) ==
    LET q == num \div den
        r == num % den
    IN  CASE 2 * r > den -> {q + 1}
          [] 2 * r < den -> {q}
          [] OTHER       -> {q, q + 1}

\* One iteration: ratio = exp / actual clamped to [0.25, 4], then
\* difficulty = round(ratio * difficulty).  A zero actual gives +inf and a
\* negative one a negative ratio; the clamps catch both.  0.25 and 4 are
\* exact doubles, so the clamped products round exactly (halves up).
EpochStep(d, first, last) ==
    LET actual == last - first
        exp    == SPB * BPE
    IN  CASE actual = 0 \/ (actual > 0 /\ exp > 4 * actual) -> {4 * d}
          [] actual < 0 \/ 4 * exp < actual                 -> {(d + 2) \div 4}
          [] OTHER                                         -> RoundOutcomes(exp * d, actual)

\* header_chain_[idx]->timestamp_: an index out of range is undefined
\* behaviour; the read yields whatever GarbageTs allows.
TsRead(H, idx) ==
    IF 0 <= idx /\ idx < Len(H) THEN {[ub |-> FALSE, ts |-> H[idx + 1].ts]}
    ELSE {[ub |-> TRUE, ts |-> g] : g \in GarbageTs}

\* The loop for (uint32_t i = 0; i < epochs; ++i) over the outcome o.
RECURSIVE DiffLoop(_, _, _, _)
DiffLoop(H, i, epochs, o) ==
    IF i >= epochs THEN {o}
    ELSE UNION {UNION {DiffLoop(H, i + 1, epochs, [ub |-> o.ub \/ f.ub \/ l.ub, d |-> d2]) :
                         d2 \in EpochStep(o.d, f.ts, l.ts)} :
                  f \in TsRead(H, (i - 1) * BPE), l \in TsRead(H, i * BPE - 1)}

\* Chain::get_difficulty_for_height(h) on the header chain H: [ub, d].
DifficultyForHeight(H, h) == DiffLoop(H, 0, Epoch(h), [ub |-> FALSE, d |-> GenDiff])

(***************************************************************************)
(* Amounts.                                                                *)
(***************************************************************************)

\* The uint64 accumulations of validate_transaction and fee(): inputs are
\* a set of UTXO records, outputs a sequence of amounts.
InTotal(S)     == FoldSet(LAMBDA r, a : U(r.amt + a), 0, S)
OutTotal(outs) == FoldLeft(LAMBDA a, x : U(a + x), 0, outs)

\* validate_transaction's funds check (signatures are left to TxOK).
FundsOK(S, outs) == InTotal(S) >= OutTotal(outs)

\* Transaction::fee once the funds check passed.
Fee(S, outs) == InTotal(S) - OutTotal(outs)

\* validate_block's coinbase check: the block is refused only when the
\* reward exceeds the coinbase amount plus the fees.
CoinbaseAccepted(h, cb, fee) == ~(RewardForHeight(h) > U(cb + fee))
-----------------------------------------------------------------------------
VARIABLES
    hdrs,   \* header_chain_: [ts, diff] per height, genesis first
    utxo,   \* the chainstate's UTXOs: [id, amt] records
    ub      \* TRUE once a step read or shifted out of range

vars == <<hdrs, utxo, ub>>

\* The genesis block: one coinbase output of init_reward.
Init ==
    /\ hdrs = <<[ts |-> GenTime, diff |-> GenDiff]>>
    /\ utxo = {[id |-> <<0, 0>>, amt |-> InitReward]}
    /\ ub = FALSE

\* The outputs of the block at height h: the coinbase, then those of the
\* transaction spending S (none when S is empty).
NewOutputs(h, cb, S, outs) ==
    {[id |-> <<h, 0>>, amt |-> cb]}
      \cup (IF S = {} THEN {} ELSE {[id |-> <<h, k>>, amt |-> outs[k]] : k \in 1 .. Len(outs)})

\* append_block for a block at height h that carries difficulty o.d and
\* was made g seconds after its parent (g > 0 passes the timestamp check).
Extend(h, o, g, cb, S, outs) ==
    /\ hdrs' = Append(hdrs, [ts |-> Last(hdrs).ts + g, diff |-> o.d])
    /\ utxo' = (utxo \ S) \cup NewOutputs(h, cb, S, outs)
    /\ ub' = (ub \/ o.ub \/ RewardUB(h))

\* A peer's block at the next height passes validate_block: its header
\* carries the difficulty the node computes, the transaction's inputs are
\* in the chainstate and cover its outputs, and the coinbase check passes.
ReceiveBlock ==
    LET h == Len(hdrs) IN
    /\ h <= MaxHeight
    /\ \E g \in Gaps, o \in DifficultyForHeight(hdrs, h), cb \in CbAmounts,
          S \in {s \in SUBSET utxo : Cardinality(s) <= MaxInputs}, outs \in OutLists :
          /\ S # {} => FundsOK(S, outs)
          /\ CoinbaseAccepted(h, cb, IF S = {} THEN 0 ELSE Fee(S, outs))
          /\ Extend(h, o, g, cb, S, outs)

\* Miner::mine's coinbase amount: reward + allowed_fee in uint64.
MinerCoinbase(h, fee) == U(RewardForHeight(h) + fee)

\* start_mining and Miner::mine at current_height + 1 with a pool
\* transaction (add_tx checked its funds), then add_block(block, true):
\* the coinbase pays reward + fee in uint64, and nothing is re-validated.
MineBlock ==
    LET h == Len(hdrs) IN
    /\ h <= MaxHeight
    /\ \E g \in Gaps, o \in DifficultyForHeight(hdrs, h),
          S \in {s \in SUBSET utxo : Cardinality(s) <= MaxInputs}, outs \in OutLists :
          LET fee == IF S = {} THEN 0 ELSE Fee(S, outs)
          IN  /\ S # {} => FundsOK(S, outs)
              /\ Extend(h, o, g, MinerCoinbase(h, fee), S, outs)

Next == ReceiveBlock \/ MineBlock

Spec == Init /\ [][Next]_vars
-----------------------------------------------------------------------------
\* The reward schedule of spec section 4.1: init_reward halved per epoch.
ScheduledReward(h) == ShiftRight(InitReward, Epoch(h))

\* Spec section 8, property 1, summed over the chain: the value held in
\* UTXOs never exceeds what the reward schedule has minted so far, since
\* transactions move value and a coinbase may add only reward plus fees
\* (validate_block's coinbase check, validate_transaction's sums).
SupplyWithinSchedule ==
    MapThenSumSet(LAMBDA r : r.amt, utxo)
      <= FoldLeft(LAMBDA a, x : a + ScheduledReward(x), 0, [i \in 1 .. Len(hdrs) |-> i - 1])

\* get_difficulty_for_height and reward_for_height never read a header
\* out of range or shift by the operand's width, at any height.
NoUndefinedBehaviour == ~ub
=============================================================================
