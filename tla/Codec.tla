------------------------------- MODULE Codec -------------------------------
(***************************************************************************)
(* The byte codecs of src/src/util/util.cpp, the message header of        *)
(* src/src/msg/message.cpp, the mempool's order key and the chainstate's  *)
(* outpoint key, and Merkle::compute_root (src/src/core/merkle.cpp).       *)
(*                                                                         *)
(* A byte is ByteBits bits (8 in the code): every shift by 8k becomes a   *)
(* division by Radix^k and every mask 0xff a remainder by Radix, so a     *)
(* smaller byte keeps the algorithms and makes every value of every width *)
(* enumerable.  A byte vector is a sequence of numbers in 0 .. Radix - 1. *)
(***************************************************************************)
EXTENDS Integers, Sequences, SequencesExt

CONSTANTS
    ByteBits,   \* bits per byte
    TxidLen     \* bytes of a TXID (crypto_generichash_BYTES in the code)

Radix == 2 ^ ByteBits

\* The unsigned values of a w-byte integer, and the signed ones of an int.
UintRange(w) == 0 .. Radix ^ w - 1
IntRange(w)  == -(Radix ^ w \div 2) .. Radix ^ w \div 2 - 1

\* The w bytes of num, most significant first: res[w-1-k] is
\* (num >> 8k) & 0xff.  >> on a negative int is arithmetic, so the bytes
\* of a negative num are those of its two's complement.
ToBigEndian(num, w) == [i \in 1 .. w |-> (num \div Radix ^ (w - i)) % Radix]

\* int32_to_vector_big_endian and int32_to_uchar_big_endian.
Int32ToVector(num) == ToBigEndian(num, 4)

\* uint32_to_vector_big_endian and uint32_to_uchar_big_endian.
Uint32ToVector(num) == ToBigEndian(num, 4)

\* uint64_to_vector_big_endian and uint64_to_uchar_big_endian.
Uint64ToVector(num) == ToBigEndian(num, 8)

\* The bytes shifted into place and or-ed together.
CharsToUint(buf) == FoldLeft(LAMBDA acc, b : acc * Radix + b, 0, buf)

\* chars_to_uint32_big_endian: the first four bytes of the buffer.
CharsToUint32(buf) == CharsToUint(SubSeq(buf, 1, 4))

\* chars_to_uint64_big_endian: the first eight bytes of the buffer.
CharsToUint64(buf) == CharsToUint(SubSeq(buf, 1, 8))

\* A variant of chars_to_int32_big_endian that keeps 0x80 in the first
\* byte positive.
CharsToInt32Gt(buf) ==
    LET v == CharsToUint(SubSeq(buf, 1, 4))
    IN  IF v > Radix ^ 4 \div 2 THEN v - Radix ^ 4 ELSE v

\* chars_to_int32_big_endian: the same four bytes, read back as an int; a
\* first byte of 0x80 or more lands in the sign bit.
CharsToInt32(buf) ==
    LET v == CharsToUint(SubSeq(buf, 1, 4))
    IN  IF v >= Radix ^ 4 \div 2 THEN v - Radix ^ 4 ELSE v

\* msg::write_header: length, then type, each as an int32 (every caller
\* allocates 8 + len bytes, so the size check never throws).
WriteHeader(len, type) == Int32ToVector(len) \o Int32ToVector(type)

\* msg::parse_header, and the two reads of Peer::listen and Peer::send.
ParseHeader(h) == <<CharsToInt32(SubSeq(h, 1, 4)), CharsToInt32(SubSeq(h, 5, 8))>>

\* std::vector's lexicographic operator<.
RECURSIVE LexLess(_, _)
LexLess(a, b) ==
    CASE b = <<>>          -> FALSE
      [] a = <<>>          -> TRUE
      [] Head(a) # Head(b) -> Head(a) < Head(b)
      [] OTHER             -> LexLess(Tail(a), Tail(b))

\* A variant of concat_txid_fee_pair that puts the TXID first.
ConcatFeeAfterTxid(txid, fee) == txid \o Uint64ToVector(fee)

\* MemPool::concat_txid_fee_pair: the fee's eight bytes, then the TXID.
ConcatTxidFeePair(txid, fee) == Uint64ToVector(fee) \o txid

\* MemPool::txid_from_pair: the bytes after the fee.
TxidFromPair(pair) == SubSeq(pair, 9, Len(pair))

\* comp, tx_set_'s comparator: v1 before v2 when v1 > v2.
PoolBefore(v1, v2) == LexLess(v2, v1)

\* util::txid_vout_pair_to_key, the chainstate's and validate_block's key.
TxidVoutPairToKey(txid, vout) == txid \o Uint64ToVector(vout)

-----------------------------------------------------------------------------
(***************************************************************************)
(* Merkle::compute_root.  crypto_generichash of a byte string is a record *)
(* holding the string: two digests are equal exactly when the strings    *)
(* are, a collision-free hash.  A digest is TxidLen bytes, so the        *)
(* concatenation of two of them is the pair.                              *)
(***************************************************************************)
GenericHash(s) == [pre |-> s]

\* A variant of compute_root that drops the odd hash out of a level.
RECURSIVE ComputeRootDropOdd(_)
ComputeRootDropOdd(level) ==
    IF Len(level) = 1 THEN level[1]
    ELSE LET even == IF Len(level) % 2 = 1 THEN Front(level) ELSE level
         IN  ComputeRootDropOdd([i \in 1 .. Len(even) \div 2 |-> GenericHash(<<even[2 * i - 1], even[2 * i]>>)])

\* An odd level duplicates its last hash; each pair is hashed into the
\* next level; a level of one hash is the root.
RECURSIVE ComputeRoot(_)
ComputeRoot(level) ==
    IF Len(level) = 1 THEN level[1]
    ELSE LET even == IF Len(level) % 2 = 1 THEN Append(level, Last(level)) ELSE level
         IN  ComputeRoot([i \in 1 .. Len(even) \div 2 |-> GenericHash(<<even[2 * i - 1], even[2 * i]>>)])

-----------------------------------------------------------------------------
(***************************************************************************)
(* The inputs the properties are checked on, and what must hold of each.  *)
(* A checking module holds one input per state, so a failure names it.    *)
(***************************************************************************)

\* The TXIDs of TxidLen bytes, and fees at the edges of each byte and of
\* the 32-bit and 64-bit ranges.
Txids    == [1 .. TxidLen -> 0 .. Radix - 1]
FeeEdges == {0, 1, Radix - 1, Radix, Radix ^ 4 - 1, Radix ^ 4, Radix ^ 8 - 1}

\* The message types of message.hpp are small non-negative ints; the
\* largest int32 stands for the top of the range.
MsgTypes == {0, 1, Radix ^ 4 \div 2 - 1}

\* Every uint32, uint64 and int32, and every header whose length a
\* protobuf ByteSizeLong fits in an int.
CodecInputs ==
    {[kind |-> "u32", v |-> v] : v \in UintRange(4)}
    \cup {[kind |-> "u64", v |-> v] : v \in UintRange(8)}
    \cup {[kind |-> "i32", v |-> v] : v \in IntRange(4)}
    \cup {[kind |-> "hdr", len |-> l, type |-> t] : l \in 0 .. Radix ^ 4 \div 2 - 1, t \in MsgTypes}

\* The value survives its encoder followed by its decoder.
RoundTrips(c) ==
    CASE c.kind = "u32" -> CharsToUint32(Uint32ToVector(c.v)) = c.v
      [] c.kind = "u64" -> CharsToUint64(Uint64ToVector(c.v)) = c.v
      [] c.kind = "i32" -> CharsToInt32(Int32ToVector(c.v)) = c.v
      [] c.kind = "hdr" -> ParseHeader(WriteHeader(c.len, c.type)) = <<c.len, c.type>>

\* Two pool entries: a TXID and a fee each.
KeyPairs == [a : Txids, f : FeeEdges, b : Txids, g : FeeEdges]

\* comp orders the two keys by descending fee, then descending TXID, and
\* txid_from_pair gives the first TXID back.
KeyOrdered(p) ==
    /\ PoolBefore(ConcatTxidFeePair(p.a, p.f), ConcatTxidFeePair(p.b, p.g))
          <=> (p.f > p.g \/ (p.f = p.g /\ LexLess(p.b, p.a)))
    /\ TxidFromPair(ConcatTxidFeePair(p.a, p.f)) = p.a

\* The TXIDs of four transactions, each a digest of the transaction's
\* bytes, and every pair of lists of distinct TXIDs a block can carry.
TxHashes == {GenericHash(<<i>>) : i \in 1 .. 4}
TxLists  == UNION {{l \in [1 .. n -> TxHashes] : IsInjective(l)} : n \in 1 .. 4}
ListPairs == [l1 : TxLists, l2 : TxLists]

\* Two different lists get different roots.
RootsDiffer(p) == p.l1 # p.l2 => ComputeRoot(p.l1) # ComputeRoot(p.l2)
=============================================================================
