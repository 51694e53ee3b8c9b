---------------------------- MODULE MCChainValues ----------------------------
(***************************************************************************)
(* Inputs for ChainValues: amounts three bits wide, a genesis reward of 4 *)
(* and difficulty 3, two blocks per epoch.  A transaction spends one      *)
(* UTXO into either one output of 2 or the two outputs 6 and 3, whose     *)
(* sum 9 wraps to 1 at this width as a sum past 2^64 does in the code.    *)
(***************************************************************************)
EXTENDS ChainValues

MCOutLists == {<<2>>, <<6, 3>>}

\* Only the single output of 2: no output sum wraps.
MCOneOutput == {<<2>>}

\* A peer's coinbase claims the reward, or the largest amount there is.
MCAllCb    == {4, 7}

\* A peer's coinbase claims exactly the reward.
MCHonestCb == {4}
=============================================================================
