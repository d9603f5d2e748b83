---------------------------- MODULE BloomFilter ----------------------------
(***************************************************************************)
(* The Bloom filter of a data block (src/internal/lsm/filter/              *)
(* bloom_filter.go), made from the hashes of the keys of the block.  The   *)
(* number k of hash functions depends on the number of keys, so it differs *)
(* from block to block: a bitmap starts with it.                           *)
(*                                                                         *)
(* A bitmap is its first byte, its length in bytes, and the bits that are  *)
(* set.                                                                    *)
(***************************************************************************)
EXTENDS Integers, Sequences

CONSTANTS
    High, Low,      \* 2^17 and 2^15 in the code: a word has 17 + 15 bits
    m,              \* the bits of a bitmap
    maxK            \* the bound on k: 30 in the code

ASSUME BloomFilterAssumption ==
    /\ High \in Nat \ {0} /\ Low \in Nat \ {0}
    /\ m \in Nat \ {0}
    /\ maxK \in 1 .. 255            \* k is stored in a byte

NumWords == High * Low
Word == 0 .. NumWords - 1
Bitmaps == [k : 0 .. maxK, bytes : Nat, bits : SUBSET Nat]

\* h>>17 | h<<15: what is shifted out on the left is lost.
Rotated(h) == (h \div High) + Low * (h % High)

\* The position of the i-th hash of a key: the arithmetic is that of words.
getPos(h, i) == ((h + i * Rotated(h)) % NumWords) % m

\* round(m / n * ln 2), at least 1 and at most maxK.
calcK(n) ==
    IF n = 0 THEN 1
    ELSE LET k == (2 * m * 693147 + n * 1000000) \div (2 * n * 1000000)
         IN  IF k < 1 THEN 1 ELSE IF k > maxK THEN maxK ELSE k

\* The k in the first byte of the bitmap of n keys.
Header_OfOneKey(n) == calcK(1)
Header(n) == calcK(n)

BitmapBytes == (m + 7) \div 8

Hash(hashedKeys) ==
    LET k == calcK(Len(hashedKeys)) IN
    [k     |-> Header(Len(hashedKeys)),
     bytes |-> BitmapBytes,
     bits  |-> {getPos(hashedKeys[j], i) : j \in DOMAIN hashedKeys, i \in 0 .. k - 1}]

\* Exist, of a key with hash h.
Exist(bitmap, h) ==
    /\ bitmap.k # 0
    /\ \A i \in 0 .. bitmap.k - 1 :
          LET pos == getPos(h, i)
          IN  pos \div 8 < bitmap.bytes /\ pos \in bitmap.bits
=============================================================================
