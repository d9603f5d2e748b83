--------------------------- MODULE SSTableProofs ---------------------------
(***************************************************************************)
(* Proofs about SSTable, for every set of keys, every hash function, every *)
(* size of a bitmap, every bound on the number of hash functions and every *)
(* way to cut the keys into blocks: no filter denies a key of its block,   *)
(* and the index of a finished file tiles it.                              *)
(***************************************************************************)
EXTENDS SSTable, TLAPS, SequenceTheorems, WellFoundedInduction

-----------------------------------------------------------------------------
(* The filter of one block.                                                *)

\* The words and their rotations are numbers.
LEMMA WordArithmetic ==
    /\ NumWords \in Nat \ {0}
    /\ \A h \in Word : h \in Nat /\ Rotated(h) \in Nat
<1>1. NumWords \in Nat \ {0}
  BY BloomFilterAssumption, SMT DEF NumWords
<1>2. ASSUME NEW h \in Word PROVE h \in Nat /\ Rotated(h) \in Nat
  <2>1. h \in Nat
    BY <1>1, SMT DEF Word
  <2>2. h \div High \in Nat /\ h % High \in Nat
    BY <2>1, BloomFilterAssumption, SMT
  <2> QED
    BY <2>1, <2>2, BloomFilterAssumption, SMT DEF Rotated
<1> QED
  BY <1>1, <1>2

\* Every position of a word is one of the bits of a bitmap.
LEMMA PosFits ==
    ASSUME NEW h \in Word, NEW i \in Nat
    PROVE  getPos(h, i) \in Nat /\ getPos(h, i) \div 8 < BitmapBytes
<1> DEFINE x == (h + i * Rotated(h)) % NumWords
<1>1. x \in Nat
  <2>1. h + i * Rotated(h) \in Nat
    BY WordArithmetic, SMT
  <2> QED
    BY <2>1, WordArithmetic, SMT
<1> HIDE DEF x
<1>2. x % m \in Nat /\ x % m < m
  BY <1>1, BloomFilterAssumption, SMT
<1>3. \A p \in Nat : p < m => p \div 8 < (m + 7) \div 8
  BY BloomFilterAssumption, SMT
<1>4. getPos(h, i) = x % m
  BY DEF getPos, x
<1> QED
  BY <1>2, <1>3, <1>4 DEF BitmapBytes

\* The number of hash functions is at least one.
LEMMA KInRange == \A n \in Nat : calcK(n) \in 1 .. maxK
<1> SUFFICES ASSUME NEW n \in Nat PROVE calcK(n) \in 1 .. maxK
  OBVIOUS
<1>1. CASE n = 0
  BY <1>1, BloomFilterAssumption, SMT DEF calcK
<1>2. CASE n # 0
  <2> DEFINE k == (2 * m * 693147 + n * 1000000) \div (2 * n * 1000000)
  <2>1. k \in Int
    <3>1. 2 * n * 1000000 \in Nat \ {0}
      BY <1>2, SMT
    <3>2. 2 * m * 693147 + n * 1000000 \in Nat
      BY BloomFilterAssumption, SMT
    <3> QED
      BY <3>1, <3>2, SMT
  <2>2. calcK(n) = IF k < 1 THEN 1 ELSE IF k > maxK THEN maxK ELSE k
    BY <1>2, SMT DEF calcK
  <2> HIDE DEF k
  <2> QED
    BY <2>1, <2>2, BloomFilterAssumption, SMT
<1> QED
  BY <1>1, <1>2

\* The bitmap made from some hashes denies none of them.
LEMMA HashCovers ==
    ASSUME NEW hs \in Seq(Word), NEW j \in DOMAIN hs
    PROVE  Exist(Hash(hs), hs[j])
<1> DEFINE k == calcK(Len(hs))
<1>1. k \in 1 .. maxK
  BY KInRange, LenProperties
<1>2. hs[j] \in Word
  BY ElementOfSeq, LenProperties
<1>3. Hash(hs).k = k /\ Hash(hs).bytes = BitmapBytes
  BY DEF Hash, Header
<1>4. Hash(hs).bits = {getPos(hs[n], i) : n \in DOMAIN hs, i \in 0 .. k - 1}
  BY DEF Hash
<1> HIDE DEF k
<1>5. k # 0 /\ 0 .. k - 1 \subseteq Nat
  BY <1>1, BloomFilterAssumption, SMT
<1>6. ASSUME NEW i \in 0 .. k - 1
      PROVE  /\ getPos(hs[j], i) \div 8 < BitmapBytes
             /\ getPos(hs[j], i) \in Hash(hs).bits
  <2>1. getPos(hs[j], i) \div 8 < BitmapBytes
    BY <1>2, <1>5, PosFits
  <2>2. getPos(hs[j], i) \in Hash(hs).bits
    BY <1>4
  <2> QED
    BY <2>1, <2>2
<1> QED
  BY <1>3, <1>5, <1>6 DEF Exist
-----------------------------------------------------------------------------
(* The file.                                                               *)

\* The filter being filled holds the hashes of the keys of the block being
\* filled: neither keys left from the block before nor keys missed.
HashesOfBlock(hashes, keys) == hashes = [i \in DOMAIN keys |-> sum32[keys[i]]]

\* What makes NoFalseNegative inductive.
FilterInv ==
    /\ sum32 \in [Keys -> Word]
    /\ blockKeys \in Seq(Keys)
    /\ HashesOfBlock(hashedKeys, blockKeys)
    /\ DOMAIN written = DOMAIN blockToFilter
    /\ NoFalseNegative

\* The hashes of keys are a sequence of words.
LEMMA HashesType ==
    ASSUME sum32 \in [Keys -> Word], NEW keys \in Seq(Keys), NEW hashes,
           HashesOfBlock(hashes, keys)
    PROVE  /\ hashes \in Seq(Word)
           /\ DOMAIN hashes = DOMAIN keys
           /\ \A i \in DOMAIN keys : hashes[i] = sum32[keys[i]]
<1>1. DOMAIN keys = 1 .. Len(keys) /\ Len(keys) \in Nat
  BY LenProperties
<1>2. \A i \in DOMAIN keys : keys[i] \in Keys
  BY ElementOfSeq, <1>1
<1>3. hashes \in [1 .. Len(keys) -> Word]
  BY <1>1, <1>2 DEF HashesOfBlock
<1> QED
  BY <1>1, <1>3, SeqDef DEF HashesOfBlock

\* One more key in the block and in the filter.
LEMMA HashesAppend ==
    ASSUME sum32 \in [Keys -> Word], NEW keys \in Seq(Keys), NEW hashes,
           HashesOfBlock(hashes, keys), NEW k \in Keys
    PROVE  HashesOfBlock(Append(hashes, sum32[k]), Append(keys, k))
<1>1. hashes \in Seq(Word) /\ Len(hashes) = Len(keys)
  BY HashesType, LenProperties
<1>2. \A i \in 1 .. Len(keys) : hashes[i] = sum32[keys[i]]
  BY HashesType, LenProperties
<1>3. /\ DOMAIN Append(keys, k) = 1 .. Len(keys) + 1
      /\ DOMAIN Append(hashes, sum32[k]) = 1 .. Len(keys) + 1
      /\ Append(hashes, sum32[k]) \in Seq(Word)
  BY <1>1, SMT
<1>4. ASSUME NEW i \in 1 .. Len(keys) + 1
      PROVE  Append(hashes, sum32[k])[i] = sum32[Append(keys, k)[i]]
  BY <1>1, <1>2, SMT
<1> QED
  BY <1>3, <1>4, SMT DEF HashesOfBlock

\* Flushing a block whose filter holds its hashes.
LEMMA FlushKeepsFilters ==
    ASSUME FilterInv, NEW b, b.keys \in Seq(Keys), HashesOfBlock(b.hashes, b.keys),
           FlushBlock(b), sum32' = sum32
    PROVE  FilterInv'
<1>1. /\ blockKeys' \in Seq(Keys)
      /\ hashedKeys' = [i \in DOMAIN blockKeys' |-> sum32'[blockKeys'[i]]]
  BY DEF FlushBlock
<1>2. /\ DOMAIN written' = DOMAIN written \cup {dataLen}
      /\ DOMAIN blockToFilter' = DOMAIN blockToFilter \cup {dataLen}
  BY DEF FlushBlock, Put
<1>3. ASSUME NEW o \in DOMAIN blockToFilter', NEW i \in DOMAIN written'[o]
      PROVE  Exist(blockToFilter'[o], sum32'[written'[o][i]])
  <2>1. CASE o = dataLen
    <3>1. written'[o] = b.keys /\ blockToFilter'[o] = Hash(b.hashes)
      BY <2>1 DEF FlushBlock, Put
    <3>2. /\ b.hashes \in Seq(Word)
          /\ i \in DOMAIN b.hashes
          /\ b.hashes[i] = sum32[b.keys[i]]
      BY <3>1, HashesType DEF FilterInv
    <3> QED
      BY <3>1, <3>2, HashCovers
  <2>2. CASE o # dataLen
    <3>1. o \in DOMAIN blockToFilter /\ o \in DOMAIN written
      BY <1>2, <2>2 DEF FilterInv
    <3>2. written'[o] = written[o] /\ blockToFilter'[o] = blockToFilter[o]
      BY <1>2, <2>2, <3>1 DEF FlushBlock, Put
    <3> QED
      BY <3>1, <3>2 DEF FilterInv, NoFalseNegative
  <2> QED
    BY <2>1, <2>2
<1>4. NoFalseNegative'
  BY <1>3 DEF NoFalseNegative
<1> QED
  BY <1>1, <1>2, <1>4 DEF FilterInv, HashesOfBlock

\* Going on with a block whose filter holds its hashes.
LEMMA KeepKeepsFilters ==
    ASSUME FilterInv, NEW b, b.keys \in Seq(Keys), HashesOfBlock(b.hashes, b.keys),
           KeepBlock(b), sum32' = sum32
    PROVE  FilterInv'
  BY DEF FilterInv, KeepBlock, HashesOfBlock, NoFalseNegative

LEMMA FilterInvInit == Init => FilterInv
  BY SSTableAssumption DEF Init, FilterInv, HashesOfBlock, NoFalseNegative, NoBlock

LEMMA FilterInvNext == FilterInv /\ [Next]_vars => FilterInv'
<1> SUFFICES ASSUME FilterInv, [Next]_vars PROVE FilterInv'
  OBVIOUS
<1>1. ASSUME NEW k \in Keys, NEW size \in RecordSizes, AppendEntry(k, size)
      PROVE  FilterInv'
  <2> DEFINE b == WithEntry(k, size)
  <2>1. b.keys = Append(blockKeys, k) /\ b.hashes = Append(hashedKeys, sum32[k])
    BY DEF WithEntry
  <2>2. b.keys \in Seq(Keys)
    BY <2>1 DEF FilterInv
  <2>3. HashesOfBlock(b.hashes, b.keys)
    BY <2>1, HashesAppend DEF FilterInv
  <2>4. (FlushBlock(b) \/ KeepBlock(b)) /\ sum32' = sum32
    BY <1>1, Zenon DEF AppendEntry
  <2> HIDE DEF b
  <2> QED
    BY <2>2, <2>3, <2>4, FlushKeepsFilters, KeepKeepsFilters
<1>2. CASE Finish
  <2>1. Current.keys = blockKeys /\ Current.hashes = hashedKeys
    BY DEF Current
  <2>2. Current.keys \in Seq(Keys) /\ HashesOfBlock(Current.hashes, Current.keys)
    BY <2>1 DEF FilterInv
  <2>3. (FlushBlock(Current) \/ KeepBlock(Current)) /\ sum32' = sum32
    BY <1>2, Zenon DEF Finish
  <2> QED
    BY <2>2, <2>3, FlushKeepsFilters, KeepKeepsFilters
<1>3. CASE UNCHANGED vars
  BY <1>3 DEF vars, FilterInv, HashesOfBlock, NoFalseNegative
<1> QED
  BY <1>1, <1>2, <1>3, Zenon DEF Next

\* No key of a block is denied by the filter of the block (BloomFilter.Hash
\* and Exist, Append and refreshBlock of the writer).
THEOREM FilterCorrect == Spec => []NoFalseNegative
<1>1. Init => FilterInv
  BY FilterInvInit
<1>2. FilterInv /\ [Next]_vars => FilterInv'
  BY FilterInvNext
<1>3. FilterInv => NoFalseNegative
  BY DEF FilterInv
<1> QED
  BY <1>1, <1>2, <1>3, PTL DEF Spec

-----------------------------------------------------------------------------
(* Types.                                                                  *)

\* The relation of the well-founded order of the naturals.
LEMMA LessThan == OpToRel(<, Nat) = {ss \in Nat \X Nat : ss[1] < ss[2]}
  BY DEF OpToRel

\* A set of naturals that is not empty has a least element.
LEMMA NatMin ==
    ASSUME NEW S, S \subseteq Nat, S # {}
    PROVE  \E n \in S : \A j \in S : n <= j
<1> DEFINE R == {ss \in Nat \X Nat : ss[1] < ss[2]}
<1>1. IsWellFoundedOn(R, Nat)
  BY NatLessThanWellFounded, LessThan, Zenon
<1>2. \E x \in S : \A y \in S : ~ (<<y, x>> \in R)
  <2> HIDE DEF R
  <2> QED
    BY <1>1, WFMin
<1>3. PICK n \in S : \A j \in S : <<j, n>> \notin R
  BY <1>2
<1>4. ASSUME NEW j \in S PROVE n <= j
  <2>1. n \in Nat /\ j \in Nat /\ <<j, n>> \notin R
    BY <1>3
  <2>2. ~ (j < n)
    BY <2>1
  <2> QED
    BY <2>1, <2>2
<1> QED
  BY <1>4

\* What two keys share is a prefix of both.
LEMMA SharedIsPrefix ==
    ASSUME NEW a \in Seq(Nat), NEW b \in Seq(Nat), NEW n, n = SharedPrefixLen(a, b)
    PROVE  /\ n \in Nat /\ n <= Len(a) /\ n <= Len(b)
           /\ SubSeq(a, 1, n) = SubSeq(b, 1, n)
<1> DEFINE P == CommonPrefixes({a, b})
           is == {Len(a) - Len(x) : x \in P}
<1>1. \A x \in P : x \in Seq(Nat) /\ Len(x) \in Nat /\ Len(x) <= Len(a)
  <2> SUFFICES ASSUME NEW x \in P
               PROVE  x \in Seq(Nat) /\ Len(x) \in Nat /\ Len(x) <= Len(a)
    OBVIOUS
  <2>1. PICK t \in {a, b} : x \in Prefixes(t)
    BY DEF CommonPrefixes
  <2>2. PICK l \in 0 .. Len(t) : x = SubSeq(t, 1, l)
    BY <2>1 DEF Prefixes
  <2>3. t \in Seq(Nat) /\ x \in Seq(Nat)
    BY <2>2
  <2>4. IsPrefix(x, a)
    BY DEF CommonPrefixes
  <2>5. Len(x) <= Len(a)
    BY <2>4 DEF IsPrefix
  <2> QED
    BY <2>3, <2>5
<1>2. <<>> \in P
  <2>1. SubSeq(a, 1, 0) = <<>> /\ SubSeq(b, 1, 0) = <<>>
    OBVIOUS
  <2>2. <<>> \in Prefixes(a)
    <3>1. 0 \in 0 .. Len(a)
      OBVIOUS
    <3> QED
      BY <2>1, <3>1, Zenon DEF Prefixes
  <2>3. IsPrefix(<<>>, a) /\ IsPrefix(<<>>, b)
    BY <2>1 DEF IsPrefix
  <2> QED
    BY <2>2, <2>3 DEF CommonPrefixes
<1>3. PICK i \in is : \A j \in is : i <= j
  <2>1. is \subseteq Nat /\ is # {}
    <3> HIDE DEF P
    <3>1. Len(a) \in Nat
      OBVIOUS
    <3> QED
      BY <1>1, <1>2, <3>1
  <2> HIDE DEF is
  <2> QED
    BY <2>1, NatMin
<1>4. PICK x \in P : i = Len(a) - Len(x)
  BY <1>3
<1>5. \A y \in P : Len(y) <= Len(x)
  <2> SUFFICES ASSUME NEW y \in P PROVE Len(y) <= Len(x)
    OBVIOUS
  <2> HIDE DEF P
  <2>1. Len(a) - Len(x) <= Len(a) - Len(y)
    BY <1>3, <1>4
  <2>2. Len(a) \in Nat /\ Len(x) \in Nat /\ Len(y) \in Nat
    BY <1>1
  <2> QED
    BY <2>1, <2>2
<1>6. LongestCommonPrefix({a, b}) \in P
  <2>1. LongestCommonPrefix({a, b}) =
            CHOOSE longest \in P : \A other \in P : Len(other) <= Len(longest)
    BY DEF LongestCommonPrefix
  <2> HIDE DEF P
  <2> QED
    BY <1>5, <2>1
<1> DEFINE longest == LongestCommonPrefix({a, b})
<1>7. /\ Len(longest) \in Nat /\ n = Len(longest)
      /\ IsPrefix(longest, a) /\ IsPrefix(longest, b)
  BY <1>1, <1>6 DEF SharedPrefixLen, CommonPrefixes
<1> QED
  BY <1>7 DEF IsPrefix

LEMMA RecordType ==
    ASSUME NEW before \in Seq(Nat), NEW k \in Keys
    PROVE  EncodeRecord(before, Bytes[k]) \in Record
<1>1. Bytes[k] \in Seq(Nat)
  BY SSTableAssumption
<1>2. SharedPrefixLen(before, Bytes[k]) \in Nat
  BY <1>1, SharedIsPrefix
<1> DEFINE n == SharedPrefixLen(before, Bytes[k])
<1>3. SubSeq(Bytes[k], n + 1, Len(Bytes[k])) \in Seq(Nat)
  <2> HIDE DEF n
  <2> QED
    BY <1>1, <1>2 DEF n
<1> QED
  BY <1>2, <1>3 DEF EncodeRecord, Record

LEMMA BitmapType ==
    ASSUME NEW hashes \in Seq(Word)
    PROVE  Hash(hashes) \in Bitmaps
<1>1. Len(hashes) \in Nat /\ \A j \in DOMAIN hashes : hashes[j] \in Word
  OBVIOUS
<1>2. calcK(Len(hashes)) \in 1 .. maxK /\ maxK \in Nat
  BY <1>1, KInRange, BloomFilterAssumption
<1>3. BitmapBytes \in Nat
  BY BloomFilterAssumption DEF BitmapBytes
<1>4. \A j \in DOMAIN hashes : \A i \in 0 .. calcK(Len(hashes)) - 1 :
          getPos(hashes[j], i) \in Nat
  BY <1>1, <1>2, PosFits
<1> QED
  BY <1>2, <1>3, <1>4 DEF Hash, Header, Bitmaps

IndexEntry == [key : Keys, offset : Nat, size : Nat]

\* The types of a block that is being filled.
BlockType(b) ==
    /\ b.records \in Seq(Record) /\ b.prevKey \in Seq(Nat) /\ b.size \in Nat
    /\ b.hashes \in Seq(Word) /\ b.keys \in Seq(Keys)

LEMMA BlockTypes ==
    ASSUME TypeOK
    PROVE  /\ BlockType(Current)
           /\ \A k \in Keys : \A size \in Nat : BlockType(WithEntry(k, size))
<1>1. BlockType(Current)
  BY DEF TypeOK, BlockType, Current
<1>2. ASSUME NEW k \in Keys, NEW size \in Nat PROVE BlockType(WithEntry(k, size))
  <2>1. EncodeRecord(blockPrevKey, Bytes[k]) \in Record
    BY RecordType DEF TypeOK
  <2>2. sum32[k] \in Word /\ Bytes[k] \in Seq(Nat)
    BY SSTableAssumption DEF TypeOK
  <2>3. /\ Append(dataBlock, EncodeRecord(blockPrevKey, Bytes[k])) \in Seq(Record)
        /\ Append(hashedKeys, sum32[k]) \in Seq(Word)
        /\ Append(blockKeys, k) \in Seq(Keys)
        /\ dataBlockSize + size \in Nat
    BY <2>1, <2>2 DEF TypeOK
  <2> QED
    BY <2>2, <2>3 DEF BlockType, WithEntry
<1> QED
  BY <1>1, <1>2

LEMMA InsertIndexType ==
    ASSUME TypeOK, NEW key \in Keys, NEW offset \in Nat, NEW size \in Nat
    PROVE  InsertIndex(key, offset, size) \in Seq(IndexEntry)
<1> DEFINE entry == [key |-> key, offset |-> offset, size |-> size]
<1>1. entry \in IndexEntry /\ index \in Seq(IndexEntry)
  BY DEF TypeOK, IndexEntry
<1> HIDE DEF entry
<1>2. Append(index, entry) \in Seq(IndexEntry)
  BY <1>1
<1> QED
  BY <1>1, <1>2 DEF InsertIndex, entry

\* What is in the file is typed if the block that joins it is.
FileType ==
    /\ DOMAIN dataBuf \subseteq Nat /\ DOMAIN dataBuf = DOMAIN blockToFilter
    /\ DOMAIN written = DOMAIN blockToFilter
    /\ \A o \in DOMAIN dataBuf :
          /\ dataBuf[o] \in Seq(Record)
          /\ blockToFilter[o] \in Bitmaps
          /\ written[o] \in Seq(Keys)

LEMMA FlushTypes ==
    ASSUME TypeOK, NEW b, BlockType(b), FlushBlock(b)
    PROVE  /\ FileType'
           /\ dataBlock' \in Seq(Record) /\ blockPrevKey' \in Seq(Nat)
           /\ dataBlockSize' \in Nat /\ dataLen' \in Nat
           /\ hashedKeys' \in Seq(Word) /\ blockKeys' \in Seq(Keys)
           /\ prevBlockOffset' \in Nat /\ prevBlockSize' \in Nat
<1>1. Hash(b.hashes) \in Bitmaps
  BY BitmapType DEF BlockType
<1>2. /\ DOMAIN dataBuf' = DOMAIN dataBuf \cup {dataLen}
      /\ DOMAIN blockToFilter' = DOMAIN blockToFilter \cup {dataLen}
      /\ DOMAIN written' = DOMAIN written \cup {dataLen}
  BY DEF FlushBlock, Put
<1>3. ASSUME NEW o \in DOMAIN dataBuf'
      PROVE  /\ dataBuf'[o] \in Seq(Record)
             /\ blockToFilter'[o] \in Bitmaps
             /\ written'[o] \in Seq(Keys)
  <2>1. CASE o = dataLen
    <3>1. /\ dataBuf'[o] = b.records /\ written'[o] = b.keys
          /\ blockToFilter'[o] = Hash(b.hashes)
      BY <2>1 DEF FlushBlock, Put
    <3> QED
      BY <1>1, <3>1 DEF BlockType
  <2>2. CASE o # dataLen
    <3>1. o \in DOMAIN dataBuf /\ o \in DOMAIN blockToFilter /\ o \in DOMAIN written
      BY <1>2, <2>2 DEF TypeOK
    <3>2. /\ dataBuf'[o] = dataBuf[o] /\ written'[o] = written[o]
          /\ blockToFilter'[o] = blockToFilter[o]
      BY <2>2, <3>1 DEF FlushBlock, Put
    <3> QED
      BY <3>1, <3>2 DEF TypeOK
  <2> QED
    BY <2>1, <2>2
<1>4. FileType'
  BY <1>2, <1>3 DEF TypeOK, FileType
<1> QED
  BY <1>4, SMTT(40) DEF TypeOK, BlockType, FlushBlock, ClearedKey

LEMMA KeepTypes ==
    ASSUME TypeOK, NEW b, BlockType(b), KeepBlock(b)
    PROVE  /\ FileType'
           /\ dataBlock' \in Seq(Record) /\ blockPrevKey' \in Seq(Nat)
           /\ dataBlockSize' \in Nat /\ dataLen' \in Nat
           /\ hashedKeys' \in Seq(Word) /\ blockKeys' \in Seq(Keys)
           /\ prevBlockOffset' \in Nat /\ prevBlockSize' \in Nat
  BY DEF TypeOK, BlockType, KeepBlock, FileType

LEMMA TypesInit == Init => TypeOK
<1> SUFFICES ASSUME Init PROVE TypeOK
  OBVIOUS
<1>1. sum32 \in [Keys -> Word] /\ EmptyKey \in Keys
  BY SSTableAssumption DEF Init, Keys, EmptyKey
<1>2. /\ DOMAIN dataBuf = {} /\ DOMAIN blockToFilter = {} /\ DOMAIN written = {}
  BY DEF Init, NoBlock
<1>3. /\ entries = <<>> /\ blockKeys = <<>> /\ dataBlock = <<>>
      /\ blockPrevKey = <<>> /\ hashedKeys = <<>> /\ index = <<>>
      /\ dataBlockSize = 0 /\ dataLen = 0
      /\ prevKey = EmptyKey /\ prevBlockOffset = 0 /\ prevBlockSize = 0
      /\ finished = FALSE
  BY DEF Init
<1>4. /\ entries \in Seq(Keys) /\ blockKeys \in Seq(Keys)
      /\ dataBlock \in Seq(Record) /\ blockPrevKey \in Seq(Nat)
      /\ hashedKeys \in Seq(Word)
      /\ index \in Seq([key : Keys, offset : Nat, size : Nat])
  BY <1>3
<1> QED
  BY <1>1, <1>2, <1>3, <1>4 DEF TypeOK

LEMMA TypesNext == TypeOK /\ [Next]_vars => TypeOK'
<1> SUFFICES ASSUME TypeOK, [Next]_vars PROVE TypeOK'
  OBVIOUS
<1>1. ASSUME NEW k \in Keys, NEW size \in RecordSizes, AppendEntry(k, size)
      PROVE  TypeOK'
  <2> DEFINE b == WithEntry(k, size)
  <2>1. size \in Nat
    BY SSTableAssumption
  <2>2. BlockType(b)
    BY <2>1, BlockTypes
  <2>3. (FlushBlock(b) \/ KeepBlock(b))
    BY <1>1, Zenon DEF AppendEntry
  <2> HIDE DEF b
  <2>4. /\ FileType'
        /\ dataBlock' \in Seq(Record) /\ blockPrevKey' \in Seq(Nat)
        /\ dataBlockSize' \in Nat /\ dataLen' \in Nat
        /\ hashedKeys' \in Seq(Word) /\ blockKeys' \in Seq(Keys)
        /\ prevBlockOffset' \in Nat /\ prevBlockSize' \in Nat
    BY <2>2, <2>3, FlushTypes, KeepTypes
  <2>5. index' \in Seq(IndexEntry)
    <3>1. InsertIndex(prevKey, prevBlockOffset, prevBlockSize) \in Seq(IndexEntry)
      BY InsertIndexType DEF TypeOK
    <3>2. index \in Seq(IndexEntry)
      BY DEF TypeOK, IndexEntry
    <3> QED
      BY <1>1, <3>1, <3>2 DEF AppendEntry
  <2>6. entries' \in Seq(Keys) /\ prevKey' \in Keys
    BY <1>1 DEF AppendEntry, TypeOK
  <2>7. sum32' = sum32 /\ finished' = finished
    BY <1>1 DEF AppendEntry
  <2> QED
    BY <2>4, <2>5, <2>6, <2>7 DEF TypeOK, FileType, IndexEntry
<1>2. CASE Finish
  <2>1. BlockType(Current)
    BY BlockTypes
  <2>2. FlushBlock(Current) \/ KeepBlock(Current)
    BY <1>2 DEF Finish
  <2>3. /\ FileType'
        /\ dataBlock' \in Seq(Record) /\ blockPrevKey' \in Seq(Nat)
        /\ dataBlockSize' \in Nat /\ dataLen' \in Nat
        /\ hashedKeys' \in Seq(Word) /\ blockKeys' \in Seq(Keys)
        /\ prevBlockOffset' \in Nat /\ prevBlockSize' \in Nat
    BY <2>1, <2>2, FlushTypes, KeepTypes
  <2>4. index' \in Seq(IndexEntry)
    <3>1. /\ InsertIndex(prevKey, prevBlockOffset, prevBlockSize) \in Seq(IndexEntry)
          /\ InsertIndex(prevKey, dataLen, dataBlockSize) \in Seq(IndexEntry)
      BY InsertIndexType DEF TypeOK
    <3> QED
      BY <1>2, <3>1 DEF Finish
  <2>5. UNCHANGED <<sum32, entries, prevKey>> /\ finished' = TRUE
    BY <1>2 DEF Finish
  <2> QED
    BY <2>3, <2>4, <2>5 DEF TypeOK, FileType, IndexEntry
<1>3. CASE UNCHANGED vars
  BY <1>3 DEF vars, TypeOK
<1> QED
  BY <1>1, <1>2, <1>3 DEF Next

-----------------------------------------------------------------------------
(* The tiling.                                                             *)

\* Where the blocks of an index end, and where they begin.
EndOf(ix) == IF ix = <<>> THEN 0 ELSE ix[Len(ix)].offset + ix[Len(ix)].size
Offsets(ix) == {ix[i].offset : i \in DOMAIN ix}

\* The blocks of an index lie end to end from 0 on, and each entry has the last
\* key of its block.
EndsWith(keys, key) == keys # <<>> /\ key = keys[Len(keys)]
Tiled(ix, wr) ==
    /\ ix \in Seq(IndexEntry)
    /\ ix # <<>> => ix[1].offset = 0
    /\ \A i \in 1 .. Len(ix) - 1 : ix[i].offset + ix[i].size = ix[i + 1].offset
    /\ \A i \in DOMAIN ix : EndsWith(wr[ix[i].offset], ix[i].key)

\* The block being filled: its parts are of one length, its last key is the
\* last key appended, and it has a size unless it is empty.
BlockInv ==
    /\ Len(blockKeys) = Len(hashedKeys) /\ Len(blockKeys) = Len(dataBlock)
    /\ blockKeys # <<>> => EndsWith(blockKeys, prevKey) /\ dataBlockSize # 0

\* What makes IndexTiles inductive.  Three stages: nothing was appended; a
\* block was flushed that the index does not list; a block is being filled.
\* The block that is not listed is the last one of the data.
TileInv ==
    /\ TypeOK /\ BlockInv
    /\ Tiled(index, written)
    /\ \A o \in DOMAIN dataBuf : o < dataLen
    /\ finished =>
          /\ index # <<>> /\ EndOf(index) = dataLen
          /\ DOMAIN dataBuf = Offsets(index)
    /\ ~finished /\ dataBlock # <<>> =>
          /\ EndOf(index) = dataLen
          /\ DOMAIN dataBuf = Offsets(index)
    /\ ~finished /\ dataBlock = <<>> /\ entries = <<>> =>
          /\ index = <<>> /\ dataLen = 0 /\ DOMAIN dataBuf = {}
          /\ prevKey = EmptyKey /\ prevBlockSize = 0
    /\ ~finished /\ dataBlock = <<>> /\ entries # <<>> =>
          /\ prevBlockSize # 0 /\ prevBlockOffset = EndOf(index)
          /\ prevBlockOffset + prevBlockSize = dataLen
          /\ EndsWith(written[prevBlockOffset], prevKey)
          /\ DOMAIN dataBuf = Offsets(index) \cup {prevBlockOffset}

LEMMA LenIsZero ==
    ASSUME NEW S, NEW s \in Seq(S)
    PROVE  Len(s) \in Nat /\ (s = <<>> <=> Len(s) = 0)
  OBVIOUS

LEMMA LastAppended ==
    ASSUME NEW S, NEW s \in Seq(S), NEW x \in S
    PROVE  /\ Append(s, x) # <<>> /\ Len(Append(s, x)) = Len(s) + 1
           /\ Append(s, x)[Len(s) + 1] = x
  OBVIOUS

LEMMA TiledAppend ==
    ASSUME NEW ix, NEW wr, Tiled(ix, wr), NEW key \in Keys, NEW size \in Nat,
           EndOf(ix) \in Nat, EndsWith(wr[EndOf(ix)], key)
    PROVE  LET new == Append(ix, [key |-> key, offset |-> EndOf(ix), size |-> size])
           IN  /\ Tiled(new, wr) /\ new # <<>>
               /\ EndOf(new) = EndOf(ix) + size
               /\ Offsets(new) = Offsets(ix) \cup {EndOf(ix)}
<1> DEFINE entry == [key |-> key, offset |-> EndOf(ix), size |-> size]
           new == Append(ix, entry)
<1>1. /\ entry \in IndexEntry
      /\ entry.key = key /\ entry.offset = EndOf(ix) /\ entry.size = size
  BY DEF IndexEntry
<1> HIDE DEF entry
<1>2. /\ ix \in Seq(IndexEntry) /\ Len(ix) \in Nat /\ DOMAIN ix = 1 .. Len(ix)
      /\ new \in Seq(IndexEntry) /\ Len(new) = Len(ix) + 1
      /\ DOMAIN new = 1 .. Len(ix) + 1
      /\ \A i \in DOMAIN ix : new[i] = ix[i]
      /\ new[Len(ix) + 1] = entry
      /\ new # <<>>
  <2>1. ix \in Seq(IndexEntry)
    BY DEF Tiled
  <2>2. Len(ix) \in Nat /\ DOMAIN ix = 1 .. Len(ix)
    BY <2>1
  <2> QED
    BY <1>1, <2>1, <2>2
<1> HIDE DEF new
<1>3. new[1].offset = 0
  BY <1>1, <1>2 DEF Tiled, EndOf
<1>4. ASSUME NEW i \in 1 .. Len(new) - 1
      PROVE  new[i].offset + new[i].size = new[i + 1].offset
  <2>1. CASE i = Len(ix)
    BY <1>1, <1>2, <2>1 DEF EndOf
  <2>2. CASE i # Len(ix)
    <3>1. i \in 1 .. Len(ix) - 1 /\ i \in DOMAIN ix /\ i + 1 \in DOMAIN ix
      <4>1. Len(new) - 1 = Len(ix) /\ Len(ix) \in Nat
        BY <1>2
      <4>2. i \in 1 .. Len(ix)
        BY <4>1
      <4>3. i \in 1 .. Len(ix) - 1 /\ i + 1 \in 1 .. Len(ix)
        BY <2>2, <4>1, <4>2
      <4> QED
        BY <1>2, <4>2, <4>3
    <3> QED
      BY <1>2, <3>1 DEF Tiled
  <2> QED
    BY <2>1, <2>2
<1>5. \A i \in DOMAIN new : i \in DOMAIN ix \/ i = Len(ix) + 1
  BY <1>2
<1>6. ASSUME NEW i \in DOMAIN new PROVE EndsWith(wr[new[i].offset], new[i].key)
  BY <1>1, <1>2, <1>5 DEF Tiled
<1>7. EndOf(new) = EndOf(ix) + size
  BY <1>1, <1>2 DEF EndOf
<1>8. Offsets(new) = Offsets(ix) \cup {EndOf(ix)}
  BY <1>1, <1>2, <1>5 DEF Offsets
<1>9. Tiled(new, wr)
  BY <1>2, <1>3, <1>4, <1>6 DEF Tiled
<1> QED
  BY <1>2, <1>7, <1>8, <1>9 DEF new, entry

\* Another block in the file does not disturb those an index lists.
LEMMA TiledPut ==
    ASSUME NEW ix, NEW wr, Tiled(ix, wr), NEW o, NEW keys,
           Offsets(ix) \subseteq DOMAIN wr, o \notin Offsets(ix)
    PROVE  Tiled(ix, Put(wr, o, keys))
<1>1. \A i \in DOMAIN ix : Put(wr, o, keys)[ix[i].offset] = wr[ix[i].offset]
  BY DEF Put, Offsets
<1> QED
  BY <1>1 DEF Tiled

LEMMA EndIsNat ==
    ASSUME NEW ix \in Seq(IndexEntry)
    PROVE  EndOf(ix) \in Nat
<1>1. CASE ix # <<>>
  <2>1. Len(ix) \in DOMAIN ix
    BY <1>1
  <2>2. ix[Len(ix)] \in IndexEntry
    BY <2>1
  <2> QED
    BY <1>1, <2>2 DEF EndOf, IndexEntry
<1> QED
  BY <1>1 DEF EndOf

LEMMA TileInit == Init => TileInv
<1> SUFFICES ASSUME Init PROVE TileInv
  OBVIOUS
<1>1. TypeOK
  BY TypesInit
<1>2. /\ entries = <<>> /\ blockKeys = <<>> /\ dataBlock = <<>>
      /\ hashedKeys = <<>> /\ index = <<>> /\ dataLen = 0
      /\ prevKey = EmptyKey /\ prevBlockSize = 0 /\ finished = FALSE
      /\ DOMAIN dataBuf = {}
  BY DEF Init, NoBlock
<1>3. Tiled(index, written)
  BY <1>2 DEF Tiled
<1> QED
  BY <1>1, <1>2, <1>3 DEF TileInv, BlockInv

\* A block joins the file: it becomes the last one, and is not listed yet.
LEMMA FlushTiles ==
    ASSUME TileInv, TypeOK', NEW ix, Tiled(ix, written),
           EndOf(ix) = dataLen, DOMAIN dataBuf = Offsets(ix),
           NEW b, BlockType(b), b.size # 0, FlushBlock(b)
    PROVE  /\ Tiled(ix, written') /\ prevBlockOffset' = EndOf(ix)
           /\ prevBlockSize' = b.size /\ dataLen' = EndOf(ix) + b.size
           /\ DOMAIN dataBuf' = Offsets(ix) \cup {EndOf(ix)}
           /\ written'[EndOf(ix)] = b.keys
           /\ \A o \in DOMAIN dataBuf' : o < dataLen'
           /\ BlockInv' /\ dataBlock' = <<>>
<1>1. /\ dataLen \in Nat /\ b.size \in Nat /\ DOMAIN dataBuf \subseteq Nat
      /\ DOMAIN dataBuf = DOMAIN written
      /\ \A o \in DOMAIN dataBuf : o < dataLen
  BY DEF TileInv, TypeOK, BlockType
<1>2. /\ prevBlockOffset' = dataLen /\ prevBlockSize' = b.size
      /\ dataBuf' = Put(dataBuf, dataLen, b.records)
      /\ written' = Put(written, dataLen, b.keys)
      /\ dataLen' = dataLen + b.size
      /\ dataBlock' = <<>> /\ hashedKeys' = <<>> /\ blockKeys' = <<>>
  BY DEF FlushBlock
<1>3. dataLen \notin Offsets(ix) /\ Offsets(ix) \subseteq DOMAIN written
  BY <1>1
<1>4. Tiled(ix, written')
  BY <1>2, <1>3, TiledPut
<1>5. /\ DOMAIN dataBuf' = DOMAIN dataBuf \cup {dataLen}
      /\ written'[dataLen] = b.keys
  BY <1>2 DEF Put
<1>6. \A o \in DOMAIN dataBuf' : o < dataLen'
  BY <1>1, <1>2, <1>5
<1>7. BlockInv'
  BY <1>2 DEF BlockInv
<1> QED
  BY <1>2, <1>4, <1>5, <1>6, <1>7

\* A key that begins a block first lists the block before: the index then has
\* every block of the file.
LEMMA BeginTiles ==
    ASSUME TileInv, ~finished,
           index' = IF dataBlock = <<>>
                    THEN InsertIndex(prevKey, prevBlockOffset, prevBlockSize)
                    ELSE index
    PROVE  /\ Tiled(index', written) /\ EndOf(index') = dataLen
           /\ DOMAIN dataBuf = Offsets(index')
<1>1. /\ ~finished
      /\ index' = IF dataBlock = <<>>
                  THEN InsertIndex(prevKey, prevBlockOffset, prevBlockSize)
                  ELSE index
  OBVIOUS
<1>2. /\ TypeOK /\ BlockInv /\ Tiled(index, written)
      /\ index \in Seq(IndexEntry) /\ EndOf(index) \in Nat
  BY EndIsNat DEF TileInv, Tiled
<1>3. CASE dataBlock # <<>>
  BY <1>1, <1>3 DEF TileInv
<1>4. CASE dataBlock = <<>> /\ entries = <<>>
  <2>1. /\ index = <<>> /\ dataLen = 0 /\ DOMAIN dataBuf = {}
        /\ prevKey = EmptyKey /\ prevBlockSize = 0
    BY <1>1, <1>4 DEF TileInv
  <2>2. index' = index
    BY <1>1, <1>4, <2>1 DEF InsertIndex
  <2> QED
    BY <1>2, <2>1, <2>2 DEF EndOf, Offsets
<1>5. CASE dataBlock = <<>> /\ entries # <<>>
  <2>1. /\ prevBlockSize # 0 /\ prevBlockOffset = EndOf(index)
        /\ prevBlockOffset + prevBlockSize = dataLen
        /\ EndsWith(written[EndOf(index)], prevKey)
        /\ DOMAIN dataBuf = Offsets(index) \cup {EndOf(index)}
    BY <1>1, <1>5 DEF TileInv
  <2>2. index' = Append(index, [key |-> prevKey, offset |-> EndOf(index),
                                size |-> prevBlockSize])
    BY <1>1, <1>5, <2>1 DEF InsertIndex
  <2>3. prevKey \in Keys /\ prevBlockSize \in Nat
    BY <1>2 DEF TypeOK
  <2>4. /\ Tiled(index', written)
        /\ EndOf(index') = EndOf(index) + prevBlockSize
        /\ Offsets(index') = Offsets(index) \cup {EndOf(index)}
    <3> DEFINE new == Append(index, [key |-> prevKey, offset |-> EndOf(index),
                                     size |-> prevBlockSize])
    <3>1. /\ Tiled(new, written) /\ EndOf(new) = EndOf(index) + prevBlockSize
          /\ Offsets(new) = Offsets(index) \cup {EndOf(index)}
      BY <1>2, <2>1, <2>3, TiledAppend
    <3>2. index' = new
      BY <2>2
    <3> HIDE DEF new
    <3> QED
      BY <3>1, <3>2, Zenon
  <2> QED
    BY <2>1, <2>4
<1> QED
  BY <1>3, <1>4, <1>5

LEMMA AppendTiles ==
    ASSUME TileInv, TypeOK', NEW k \in Keys, NEW size \in RecordSizes,
           AppendEntry(k, size)
    PROVE  TileInv'
<1> DEFINE b == WithEntry(k, size)
<1>1. /\ ~finished /\ finished' = finished
      /\ entries' = Append(entries, k) /\ prevKey' = k
      /\ index' = IF dataBlock = <<>>
                  THEN InsertIndex(prevKey, prevBlockOffset, prevBlockSize)
                  ELSE index
      /\ FlushBlock(b) \/ KeepBlock(b)
  BY Zenon DEF AppendEntry
<1>2. /\ TypeOK /\ BlockInv /\ Tiled(index, written)
      /\ index \in Seq(IndexEntry) /\ EndOf(index) \in Nat
  BY EndIsNat DEF TileInv, Tiled
<1>3. entries' # <<>>
  <2>1. entries \in Seq(Keys)
    BY <1>2 DEF TypeOK
  <2> QED
    BY <1>1, <2>1, LastAppended
<1>4. /\ Tiled(index', written) /\ EndOf(index') = dataLen
      /\ DOMAIN dataBuf = Offsets(index')
  BY <1>1, BeginTiles
<1>5. /\ BlockType(b) /\ b.size # 0 /\ b.keys # <<>> /\ EndsWith(b.keys, k)
      /\ b.records # <<>>
      /\ Len(b.keys) = Len(b.hashes) /\ Len(b.keys) = Len(b.records)
  <2>1. size \in Nat \ {0}
    BY SSTableAssumption
  <2>2. BlockType(b)
    BY <1>2, <2>1, BlockTypes
  <2>3. b.size = dataBlockSize + size /\ dataBlockSize \in Nat
    BY <1>2 DEF WithEntry, TypeOK
  <2>4. /\ b.keys = Append(blockKeys, k)
        /\ b.hashes = Append(hashedKeys, sum32[k])
        /\ b.records = Append(dataBlock, EncodeRecord(blockPrevKey, Bytes[k]))
    BY DEF WithEntry
  <2>5. /\ blockKeys \in Seq(Keys) /\ hashedKeys \in Seq(Word)
        /\ dataBlock \in Seq(Record)
        /\ sum32[k] \in Word
        /\ EncodeRecord(blockPrevKey, Bytes[k]) \in Record
    BY <1>2, RecordType DEF TypeOK
  <2>6. /\ Len(b.keys) = Len(blockKeys) + 1
        /\ Len(b.hashes) = Len(hashedKeys) + 1
        /\ Len(b.records) = Len(dataBlock) + 1
        /\ b.keys[Len(blockKeys) + 1] = k
        /\ Len(blockKeys) \in Nat /\ Len(dataBlock) \in Nat
        /\ b.keys # <<>> /\ b.records # <<>>
    <3> HIDE DEF b
    <3> QED
      BY <2>4, <2>5, LastAppended, LenIsZero
  <2> HIDE DEF b
  <2>7. Len(b.keys) = Len(b.hashes) /\ Len(b.keys) = Len(b.records)
    BY <1>2, <2>6 DEF BlockInv
  <2>8. b.size # 0
    BY <2>1, <2>3
  <2>9. EndsWith(b.keys, k)
    BY <2>6 DEF EndsWith
  <2> QED
    BY <2>2, <2>6, <2>7, <2>8, <2>9
<1> HIDE DEF b
<1>6. CASE FlushBlock(b)
  <2>1. /\ Tiled(index', written') /\ prevBlockOffset' = EndOf(index')
        /\ prevBlockSize' = b.size /\ dataLen' = EndOf(index') + b.size
        /\ DOMAIN dataBuf' = Offsets(index') \cup {EndOf(index')}
        /\ written'[EndOf(index')] = b.keys
        /\ \A o \in DOMAIN dataBuf' : o < dataLen'
        /\ BlockInv' /\ dataBlock' = <<>>
    BY <1>4, <1>5, <1>6, FlushTiles
  <2>2. Tiled(index, written)' /\ EndOf(index)' = EndOf(index')
        /\ Offsets(index)' = Offsets(index')
    BY <2>1
  <2> QED
    BY <1>1, <1>3, <1>5, <2>1, <2>2 DEF TileInv
<1>7. CASE KeepBlock(b)
  <2>1. /\ dataBlock' = b.records /\ hashedKeys' = b.hashes
        /\ blockKeys' = b.keys /\ dataBlockSize' = b.size
        /\ UNCHANGED <<dataBuf, written, dataLen>>
    BY <1>7 DEF KeepBlock
  <2>2. BlockInv'
    BY <1>1, <1>5, <2>1 DEF BlockInv, EndsWith
  <2>3. /\ Tiled(index, written)' /\ EndOf(index)' = dataLen'
        /\ DOMAIN dataBuf' = Offsets(index)'
    BY <1>4, <2>1
  <2>4. \A o \in DOMAIN dataBuf' : o < dataLen'
    BY <2>1 DEF TileInv
  <2> QED
    BY <1>1, <1>5, <2>1, <2>2, <2>3, <2>4 DEF TileInv
<1> QED
  BY <1>1, <1>6, <1>7

LEMMA FinishTiles ==
    ASSUME TileInv, TypeOK', Finish PROVE TileInv'
<1>1. /\ ~finished /\ entries # <<>> /\ finished' = TRUE
      /\ UNCHANGED <<entries, prevKey>>
  BY DEF Finish
<1>2. /\ TypeOK /\ BlockInv /\ Tiled(index, written)
      /\ index \in Seq(IndexEntry) /\ EndOf(index) \in Nat
      /\ prevKey \in Keys /\ prevBlockSize \in Nat /\ dataBlockSize \in Nat
  BY EndIsNat DEF TileInv, Tiled, TypeOK
<1>3. /\ (hashedKeys # <<>> <=> dataBlock # <<>>)
      /\ (hashedKeys # <<>> <=> blockKeys # <<>>)
  <2>1. /\ hashedKeys \in Seq(Word) /\ dataBlock \in Seq(Record)
        /\ blockKeys \in Seq(Keys)
    BY <1>2 DEF TypeOK
  <2>2. /\ hashedKeys = <<>> <=> Len(hashedKeys) = 0
        /\ dataBlock = <<>> <=> Len(dataBlock) = 0
        /\ blockKeys = <<>> <=> Len(blockKeys) = 0
    BY <2>1, LenIsZero
  <2> QED
    BY <1>2, <2>2 DEF BlockInv
<1>4. CASE hashedKeys # <<>>
  <2>1. /\ EndOf(index) = dataLen /\ DOMAIN dataBuf = Offsets(index)
        /\ EndsWith(blockKeys, prevKey) /\ dataBlockSize # 0
    BY <1>1, <1>2, <1>3, <1>4 DEF TileInv, BlockInv
  <2>2. /\ FlushBlock(Current)
        /\ index' = InsertIndex(prevKey, dataLen, dataBlockSize)
    BY <1>4 DEF Finish
  <2>3. /\ BlockType(Current) /\ Current.size = dataBlockSize
        /\ Current.keys = blockKeys
    BY <1>2, BlockTypes DEF Current
  <2>4. /\ Tiled(index, written')
        /\ dataLen' = EndOf(index) + dataBlockSize
        /\ DOMAIN dataBuf' = Offsets(index) \cup {EndOf(index)}
        /\ written'[EndOf(index)] = blockKeys
        /\ \A o \in DOMAIN dataBuf' : o < dataLen'
        /\ BlockInv' /\ dataBlock' = <<>>
    <3> DEFINE b == Current
    <3>1. BlockType(b) /\ b.size = dataBlockSize /\ b.keys = blockKeys
      BY <2>3
    <3>2. FlushBlock(b)
      BY <2>2
    <3> HIDE DEF b
    <3> QED
      BY <1>2, <2>1, <3>1, <3>2, FlushTiles
  <2>5. index' = Append(index, [key |-> prevKey, offset |-> EndOf(index),
                                size |-> dataBlockSize])
    BY <2>1, <2>2 DEF InsertIndex
  <2>6. /\ Tiled(index', written') /\ index' # <<>>
        /\ EndOf(index') = EndOf(index) + dataBlockSize
        /\ Offsets(index') = Offsets(index) \cup {EndOf(index)}
    BY <1>2, <2>1, <2>4, <2>5, TiledAppend
  <2>7. Tiled(index, written)' /\ EndOf(index)' = EndOf(index')
        /\ Offsets(index)' = Offsets(index')
    BY <2>6
  <2> QED
    BY <1>1, <2>4, <2>6, <2>7 DEF TileInv
<1>5. CASE hashedKeys = <<>>
  <2>1. /\ prevBlockSize # 0 /\ prevBlockOffset = EndOf(index)
        /\ prevBlockOffset + prevBlockSize = dataLen
        /\ EndsWith(written[EndOf(index)], prevKey)
        /\ DOMAIN dataBuf = Offsets(index) \cup {EndOf(index)}
    BY <1>1, <1>3, <1>5 DEF TileInv
  <2>2. /\ KeepBlock(Current)
        /\ index' = InsertIndex(prevKey, prevBlockOffset, prevBlockSize)
    BY <1>5 DEF Finish
  <2>3. index' = Append(index, [key |-> prevKey, offset |-> EndOf(index),
                                size |-> prevBlockSize])
    BY <2>1, <2>2 DEF InsertIndex
  <2>4. /\ Tiled(index', written) /\ index' # <<>>
        /\ EndOf(index') = EndOf(index) + prevBlockSize
        /\ Offsets(index') = Offsets(index) \cup {EndOf(index)}
    BY <1>2, <2>1, <2>3, TiledAppend
  <2>5. UNCHANGED <<dataBlock, hashedKeys, blockKeys, dataBlockSize, dataBuf,
                    written, dataLen>>
    BY <2>2 DEF KeepBlock, Current
  <2>6. BlockInv'
    BY <1>1, <1>2, <2>5 DEF BlockInv, EndsWith
  <2>7. /\ Tiled(index, written)' /\ EndOf(index)' = EndOf(index')
        /\ Offsets(index)' = Offsets(index')
    BY <2>4, <2>5
  <2>8. \A o \in DOMAIN dataBuf' : o < dataLen'
    BY <2>5 DEF TileInv
  <2> QED
    BY <1>1, <2>1, <2>4, <2>5, <2>6, <2>7, <2>8 DEF TileInv
<1> QED
  BY <1>4, <1>5

LEMMA TileNext == TileInv /\ [Next]_vars => TileInv'
<1> SUFFICES ASSUME TileInv, [Next]_vars PROVE TileInv'
  OBVIOUS
<1>1. TypeOK'
  BY TypesNext DEF TileInv
<1>2. CASE UNCHANGED vars
  <2>1. /\ index' = index /\ written' = written /\ dataBuf' = dataBuf
        /\ dataLen' = dataLen /\ finished' = finished /\ dataBlock' = dataBlock
        /\ entries' = entries /\ prevKey' = prevKey
        /\ prevBlockSize' = prevBlockSize /\ blockKeys' = blockKeys
        /\ prevBlockOffset' = prevBlockOffset
        /\ hashedKeys' = hashedKeys /\ dataBlockSize' = dataBlockSize
    BY <1>2 DEF vars
  <2>2. BlockInv'
    BY <2>1 DEF TileInv, BlockInv
  <2>3. Tiled(index, written)'
    BY <2>1, Zenon DEF TileInv
  <2>4. \A o \in DOMAIN dataBuf' : o < dataLen'
    BY <2>1, Zenon DEF TileInv
  <2>5. finished' =>
           /\ index' # <<>> /\ EndOf(index') = dataLen'
           /\ DOMAIN dataBuf' = Offsets(index')
    BY <2>1 DEF TileInv
  <2>6. ~finished' /\ dataBlock' # <<>> =>
           /\ EndOf(index') = dataLen' /\ DOMAIN dataBuf' = Offsets(index')
    BY <2>1 DEF TileInv
  <2>7. ~finished' /\ dataBlock' = <<>> /\ entries' = <<>> =>
           /\ index' = <<>> /\ dataLen' = 0 /\ DOMAIN dataBuf' = {}
           /\ prevKey' = EmptyKey /\ prevBlockSize' = 0
    BY <2>1 DEF TileInv
  <2>8. ~finished' /\ dataBlock' = <<>> /\ entries' # <<>> =>
           /\ prevBlockSize' # 0 /\ prevBlockOffset' = EndOf(index')
           /\ prevBlockOffset' + prevBlockSize' = dataLen'
           /\ EndsWith(written'[prevBlockOffset'], prevKey')
           /\ DOMAIN dataBuf' = Offsets(index') \cup {prevBlockOffset'}
    BY <2>1 DEF TileInv
  <2> QED
    BY <1>1, <2>2, <2>3, <2>4, <2>5, <2>6, <2>7, <2>8 DEF TileInv
<1> QED
  BY <1>1, <1>2, AppendTiles, FinishTiles DEF Next

\* Whatever the sizes of the records and of the keys: the index of a finished
\* file lists every block, from the first byte of the data to the last without
\* a gap, and with its last key, although the writer inserts the entry of a
\* block only when the next one begins or the file ends (sst_writer.go).
THEOREM Tiles == Spec => []IndexTiles
<1>1. TileInv => IndexTiles
  <2> SUFFICES ASSUME TileInv, finished PROVE IndexTiles
    BY DEF TileInv, IndexTiles
  <2>1. /\ TypeOK /\ Tiled(index, written) /\ index # <<>>
        /\ EndOf(index) = dataLen /\ DOMAIN dataBuf = Offsets(index)
    BY DEF TileInv
  <2> QED
    BY <2>1 DEF IndexTiles, Tiled, EndOf, Offsets, EndsWith
<1> QED
  BY <1>1, TileInit, TileNext, PTL DEF Spec

\* Induction up to a bound.
LEMMA UpTo ==
    ASSUME NEW n \in Nat, NEW G, n > 0 => 1 \in G,
           \A i \in 1 .. n : i \in G /\ i < n => i + 1 \in G
    PROVE  \A i \in 1 .. n : i \in G
<1> DEFINE Bad == {i \in 1 .. n : i \notin G}
<1> SUFFICES ASSUME Bad # {} PROVE FALSE
  OBVIOUS
<1>1. Bad \subseteq Nat
  OBVIOUS
<1>2. PICK p \in Bad : \A j \in Bad : p <= j
  <2> HIDE DEF Bad
  <2> QED
    BY <1>1, NatMin
<1>3. p \in 1 .. n /\ p \notin G /\ p # 1
  OBVIOUS
<1>4. p - 1 \in 1 .. n /\ p - 1 < n /\ p - 1 + 1 = p
  BY <1>3
<1>5. p - 1 \in Bad
  BY <1>3, <1>4
<1> HIDE DEF Bad
<1>6. p <= p - 1
  BY <1>2, <1>5
<1> QED
  BY <1>3, <1>6

-----------------------------------------------------------------------------
(* Reading the records of a block back.                                    *)

\* A record read with the key before it gives its key, and one written with no
\* key before it gives its key whatever the reader has before it.
LEMMA RecordReadBack ==
    ASSUME NEW before \in Seq(Nat), NEW key \in Seq(Nat)
    PROVE  /\ ReadRecord(before, EncodeRecord(before, key)) = key
           /\ ReadRecord(before, EncodeRecord(<<>>, key)) = key
<1>1. ASSUME NEW prev \in Seq(Nat), NEW n, n = SharedPrefixLen(prev, key)
      PROVE  /\ n \in Nat /\ n <= Len(prev) /\ n <= Len(key)
             /\ SubSeq(prev, 1, n) = SubSeq(key, 1, n)
             /\ EncodeRecord(prev, key) =
                    [shared |-> n, suffix |-> SubSeq(key, n + 1, Len(key))]
             /\ SubSeq(key, 1, n) \o SubSeq(key, n + 1, Len(key)) = key
  <2>1. /\ n \in Nat /\ n <= Len(prev) /\ n <= Len(key)
        /\ SubSeq(prev, 1, n) = SubSeq(key, 1, n)
    BY <1>1, SharedIsPrefix
  <2>2. EncodeRecord(prev, key) =
            [shared |-> n, suffix |-> SubSeq(key, n + 1, Len(key))]
    BY <1>1 DEF EncodeRecord
  <2>3. SubSeq(key, 1, n) \o SubSeq(key, n + 1, Len(key)) = SubSeq(key, 1, Len(key))
    <3>1. 1 \in 1 .. Len(key) + 1 /\ n \in 1 - 1 .. Len(key) /\ Len(key) \in n .. Len(key)
      BY <2>1
    <3> QED
      BY <3>1, ConcatAdjacentSubSeq
  <2>4. SubSeq(key, 1, Len(key)) = key
    BY SubSeqFull
  <2> QED
    BY <2>1, <2>2, <2>3, <2>4
<1>2. ReadRecord(before, EncodeRecord(before, key)) = key
  <2> DEFINE n == SharedPrefixLen(before, key)
  <2> HIDE DEF n
  <2>1. /\ n \in Nat /\ n <= Len(before)
        /\ SubSeq(before, 1, n) = SubSeq(key, 1, n)
        /\ EncodeRecord(before, key) =
               [shared |-> n, suffix |-> SubSeq(key, n + 1, Len(key))]
        /\ SubSeq(key, 1, n) \o SubSeq(key, n + 1, Len(key)) = key
    BY <1>1 DEF n
  <2>2. /\ EncodeRecord(before, key).shared = n
        /\ EncodeRecord(before, key).suffix = SubSeq(key, n + 1, Len(key))
    <3> DEFINE rest == SubSeq(key, n + 1, Len(key))
    <3>1. EncodeRecord(before, key) = [shared |-> n, suffix |-> rest]
      BY <2>1
    <3> HIDE DEF rest
    <3>2. [shared |-> n, suffix |-> rest].shared = n
          /\ [shared |-> n, suffix |-> rest].suffix = rest
      OBVIOUS
    <3> QED
      BY <3>1, <3>2, Zenon DEF rest
  <2> QED
    BY <2>1, <2>2, Zenon DEF ReadRecord
<1>3. ReadRecord(before, EncodeRecord(<<>>, key)) = key
  <2> DEFINE n == SharedPrefixLen(<<>>, key)
  <2> HIDE DEF n
  <2>0. <<>> \in Seq(Nat) /\ Len(<<>>) = 0
    OBVIOUS
  <2>1. /\ n \in Nat /\ n <= 0
        /\ EncodeRecord(<<>>, key) =
               [shared |-> n, suffix |-> SubSeq(key, n + 1, Len(key))]
        /\ SubSeq(key, 1, n) \o SubSeq(key, n + 1, Len(key)) = key
    BY <1>1, <2>0 DEF n
  <2>2. n = 0 /\ 0 <= Len(before)
    BY <2>1
  <2>3. SubSeq(before, 1, 0) = <<>> /\ SubSeq(key, 1, 0) = <<>>
    OBVIOUS
  <2>4. /\ EncodeRecord(<<>>, key).shared = 0
        /\ EncodeRecord(<<>>, key).suffix = SubSeq(key, n + 1, Len(key))
        /\ SubSeq(key, 0 + 1, Len(key)) = SubSeq(key, n + 1, Len(key))
    BY <2>1, <2>2
  <2> QED
    BY <2>1, <2>2, <2>3, <2>4, Zenon DEF ReadRecord
<1> QED
  BY <1>2, <1>3

\* A record is written with the key before it, or with no key, where a block
\* begins.
Encoded(records, keys) ==
    /\ Len(records) = Len(keys)
    /\ \A i \in 1 .. Len(keys) :
          \/ records[i] = EncodeRecord(<<>>, Bytes[keys[i]])
          \/ i > 1 /\ records[i] = EncodeRecord(Bytes[keys[i - 1]], Bytes[keys[i]])

ReadStep(records, g) ==
    [i \in DOMAIN records |->
        ReadRecord(IF i = 1 THEN <<>> ELSE g[i - 1], records[i])]

\* The reader finds the keys, whether it starts at a block or carries the last
\* key of the block before.
LEMMA EncodedReadBack ==
    ASSUME NEW records \in Seq(Record), NEW keys \in Seq(Keys), Encoded(records, keys)
    PROVE  ReadBlockData(records) = [i \in DOMAIN keys |-> Bytes[keys[i]]]
<1> DEFINE n == Len(keys)
           g == [i \in 1 .. n |-> Bytes[keys[i]]]
<1>1. n \in Nat /\ DOMAIN keys = 1 .. n /\ DOMAIN records = 1 .. n
  BY DEF Encoded
<1>2. ASSUME NEW i \in 1 .. n PROVE Bytes[keys[i]] \in Seq(Nat)
  BY <1>1, SSTableAssumption
<1>3. ASSUME NEW i \in 1 .. n, NEW before,
             before = IF i = 1 THEN <<>> ELSE Bytes[keys[i - 1]]
      PROVE  ReadRecord(before, records[i]) = Bytes[keys[i]]
  <2>1. before \in Seq(Nat)
    <3>1. CASE i = 1
      BY <1>3, <3>1
    <3>2. CASE i # 1
      <4>1. i - 1 \in 1 .. n
        BY <1>1, <3>2
      <4> QED
        BY <1>2, <1>3, <3>2, <4>1
    <3> QED
      BY <3>1, <3>2
  <2>2. CASE records[i] = EncodeRecord(<<>>, Bytes[keys[i]])
    BY <1>2, <2>1, <2>2, RecordReadBack
  <2>3. CASE i > 1 /\ records[i] = EncodeRecord(Bytes[keys[i - 1]], Bytes[keys[i]])
    <3>1. before = Bytes[keys[i - 1]]
      BY <1>3, <2>3
    <3> QED
      BY <1>2, <2>1, <2>3, <3>1, RecordReadBack
  <2> QED
    BY <2>2, <2>3 DEF Encoded
<1>4. g = ReadStep(records, g)
  <2>1. ASSUME NEW i \in 1 .. n PROVE g[i] = ReadStep(records, g)[i]
    <3> DEFINE before == IF i = 1 THEN <<>> ELSE g[i - 1]
    <3>1. before = IF i = 1 THEN <<>> ELSE Bytes[keys[i - 1]]
      <4>1. i # 1 => i - 1 \in 1 .. n
        BY <1>1
      <4> QED
        BY <4>1
    <3>2. ReadStep(records, g)[i] = ReadRecord(before, records[i])
      BY <1>1 DEF ReadStep
    <3> HIDE DEF before
    <3>3. ReadRecord(before, records[i]) = Bytes[keys[i]]
      BY <1>3, <3>1
    <3> QED
      BY <3>2, <3>3
  <2>2. ReadStep(records, g) = [i \in 1 .. n |-> ReadStep(records, g)[i]]
    BY <1>1 DEF ReadStep
  <2> QED
    BY <2>1, <2>2
<1> DEFINE h == CHOOSE f : f = ReadStep(records, f)
<1>5. h = ReadStep(records, h)
  BY <1>4
<1>6. ReadBlockData(records) = h
  BY DEF ReadBlockData, ReadStep
<1> HIDE DEF h
<1>7. \A i \in 1 .. n :
         h[i] = ReadRecord(IF i = 1 THEN <<>> ELSE h[i - 1], records[i])
  <2>1. \A i \in 1 .. n : ReadStep(records, h)[i] =
            ReadRecord(IF i = 1 THEN <<>> ELSE h[i - 1], records[i])
    BY <1>1 DEF ReadStep
  <2> QED
    BY <1>5, <2>1
<1> DEFINE G == {i \in 1 .. n : h[i] = Bytes[keys[i]]}
<1>8. n > 0 => 1 \in G
  <2> SUFFICES ASSUME n > 0 PROVE 1 \in G
    OBVIOUS
  <2>1. 1 \in 1 .. n
    BY <1>1
  <2>2. h[1] = ReadRecord(<<>>, records[1])
    BY <1>7, <2>1
  <2>3. ReadRecord(<<>>, records[1]) = Bytes[keys[1]]
    BY <1>3, <2>1
  <2> QED
    BY <2>1, <2>2, <2>3
<1>9. ASSUME NEW i \in 1 .. n, i \in G, i < n PROVE i + 1 \in G
  <2> DEFINE j == i + 1
  <2>1. j \in 1 .. n /\ j # 1 /\ j - 1 = i
    BY <1>1, <1>9
  <2> HIDE DEF j
  <2>2. h[j] = ReadRecord(h[i], records[j])
    BY <1>7, <2>1
  <2>3. h[i] = IF j = 1 THEN <<>> ELSE Bytes[keys[j - 1]]
    BY <1>9, <2>1
  <2>4. ReadRecord(h[i], records[j]) = Bytes[keys[j]]
    BY <1>3, <2>1, <2>3
  <2> QED
    BY <2>1, <2>2, <2>4 DEF j
<1>10. \A i \in 1 .. n : h[i] = Bytes[keys[i]]
  <2>1. \A i \in 1 .. n : i \in G
    <3> HIDE DEF G
    <3> QED
      BY <1>1, <1>8, <1>9, UpTo
  <2> QED
    BY <2>1
<1>11. h = [i \in 1 .. n |-> h[i]]
  <2>1. ReadStep(records, h) = [i \in 1 .. n |-> ReadStep(records, h)[i]]
    BY <1>1 DEF ReadStep
  <2> QED
    BY <1>5, <2>1
<1> QED
  BY <1>1, <1>6, <1>10, <1>11

-----------------------------------------------------------------------------
(* Reading a file back: the invariant.                                     *)

\* The entries come in the order of their keys, and the last is remembered.
OrderInv ==
    /\ \A i, j \in DOMAIN entries : i < j => entries[i] < entries[j]
    /\ entries # <<>> => prevKey = entries[Len(entries)]

\* The keys that the i-th block of an index has to hold, and those that come
\* after its last block.
Slice(ix, i, E) == {k \in E : k <= ix[i].key /\ (i > 1 => ix[i - 1].key < k)}
Rest(ix, E) == {k \in E : ix # <<>> => ix[Len(ix)].key < k}

\* The index cuts the keys into the blocks.
Sliced(ix, wr, E) ==
    /\ \A i, j \in DOMAIN ix : i < j => ix[i].key < ix[j].key
    /\ \A i \in DOMAIN ix : ToSet(wr[ix[i].offset]) = Slice(ix, i, E)

\* What makes GetExact and GetRangeExactAboveStart inductive.
SliceInv ==
    /\ TileInv /\ OrderInv
    /\ Sliced(index, written, Entries)
    /\ finished => Rest(index, Entries) = {}
    /\ ~finished /\ dataBlock # <<>> => ToSet(blockKeys) = Rest(index, Entries)
    /\ ~finished /\ dataBlock = <<>> /\ entries # <<>> =>
          ToSet(written[prevBlockOffset]) = Rest(index, Entries)

LEMMA SetOfAppend ==
    ASSUME NEW S, NEW s \in Seq(S), NEW x \in S
    PROVE  /\ ToSet(Append(s, x)) = ToSet(s) \cup {x}
           /\ {Append(s, x)[i] : i \in DOMAIN Append(s, x)} =
                  {s[i] : i \in DOMAIN s} \cup {x}
<1> DEFINE t == Append(s, x)
<1>1. /\ DOMAIN s = 1 .. Len(s) /\ DOMAIN t = 1 .. Len(s) + 1 /\ Len(s) \in Nat
      /\ \A i \in 1 .. Len(s) : t[i] = s[i]
      /\ t[Len(s) + 1] = x
  OBVIOUS
<1> HIDE DEF t
<1>2. 1 .. Len(s) + 1 = (1 .. Len(s)) \cup {Len(s) + 1}
  BY <1>1
<1>3. {t[i] : i \in DOMAIN t} = {s[i] : i \in DOMAIN s} \cup {x}
  BY <1>1, <1>2
<1> QED
  BY <1>3, Zenon DEF ToSet, t

\* A block with the keys after the last one of the index joins the index.
LEMMA SlicedAppend ==
    ASSUME NEW ix \in Seq(IndexEntry), NEW wr, NEW E, E \subseteq Keys, Sliced(ix, wr, E),
           NEW key \in Keys, NEW offset \in Nat, NEW size \in Nat,
           key \in Rest(ix, E), \A k \in E : k <= key,
           ToSet(wr[offset]) = Rest(ix, E)
    PROVE  LET new == Append(ix, [key |-> key, offset |-> offset, size |-> size])
           IN  Sliced(new, wr, E) /\ Rest(new, E) = {}
<1> DEFINE entry == [key |-> key, offset |-> offset, size |-> size]
           new == Append(ix, entry)
           n == Len(ix)
<1>1. entry \in IndexEntry /\ entry.key = key /\ entry.offset = offset
  BY DEF IndexEntry
<1> HIDE DEF entry
<1>2. /\ n \in Nat /\ DOMAIN ix = 1 .. n /\ DOMAIN new = 1 .. n + 1
      /\ Len(new) = n + 1 /\ new # <<>> /\ (ix = <<>> <=> n = 0)
      /\ \A i \in 1 .. n : new[i] = ix[i]
      /\ new[n + 1] = entry
  <2>1. ix \in Seq(IndexEntry)
    OBVIOUS
  <2> QED
    BY <1>1, <2>1
<1> HIDE DEF new, n
<1>k. \A i \in 1 .. n : ix[i].key \in Nat
  <2>1. \A i \in 1 .. n : ix[i] \in IndexEntry
    BY <1>2
  <2> QED
    BY <2>1, SSTableAssumption DEF IndexEntry, Keys
<1>e. \A k \in E : k \in Nat
  BY DEF Keys
<1>n. key \in Nat
  BY DEF Keys
<1>3. \A i \in 1 .. n : ix[i].key < key
  <2> TAKE i \in 1 .. n
  <2>1. n \in 1 .. n /\ ix # <<>>
    BY <1>2
  <2>2. ix[n].key < key
    BY <2>1 DEF Rest, n
  <2>3. i = n \/ ix[i].key < ix[n].key
    BY <1>2, <2>1 DEF Sliced
  <2> QED
    BY <1>k, <1>n, <2>1, <2>2, <2>3
<1>4. ASSUME NEW i \in DOMAIN new, NEW j \in DOMAIN new, i < j
      PROVE  new[i].key < new[j].key
  <2>1. i \in 1 .. n
    BY <1>2, <1>4
  <2>2. CASE j \in 1 .. n
    BY <1>2, <1>4, <2>1, <2>2 DEF Sliced
  <2>3. CASE j = n + 1
    BY <1>1, <1>2, <1>3, <2>1, <2>3
  <2> QED
    BY <1>2, <2>2, <2>3
<1>5. ASSUME NEW i \in 1 .. n PROVE ToSet(wr[new[i].offset]) = Slice(new, i, E)
  <2>1. i > 1 => i - 1 \in 1 .. n
    BY <1>2
  <2>2. Slice(new, i, E) = Slice(ix, i, E)
    BY <1>2, <2>1 DEF Slice
  <2> QED
    BY <1>2, <2>2 DEF Sliced
<1>6. ToSet(wr[new[n + 1].offset]) = Slice(new, n + 1, E)
  <2>1. Slice(new, n + 1, E) = {k \in E : k <= key /\ (n + 1 > 1 => new[n].key < k)}
    BY <1>1, <1>2 DEF Slice
  <2>2. n + 1 > 1 <=> ix # <<>>
    BY <1>2
  <2>3. ix # <<>> => new[n].key = ix[n].key
    BY <1>2
  <2>4. Slice(new, n + 1, E) = Rest(ix, E)
    BY <2>1, <2>2, <2>3 DEF Rest, n
  <2> QED
    BY <1>1, <1>2, <2>4
<1>7. Rest(new, E) = {}
  <2>1. Rest(new, E) = {k \in E : key < k}
    BY <1>1, <1>2 DEF Rest
  <2>2. \A k \in E : ~ (key < k)
    BY <1>e, <1>n
  <2> QED
    BY <2>1, <2>2, Zenon
<1>8. Sliced(new, wr, E)
  <2>1. \A i \in DOMAIN new : i \in 1 .. n \/ i = n + 1
    BY <1>2
  <2> QED
    BY <1>4, <1>5, <1>6, <2>1 DEF Sliced
<1> QED
  BY <1>7, <1>8 DEF new, entry

\* The key is above those of an index.
Above(key, ix) == \A i \in DOMAIN ix : ix[i].key < key

\* The key is not yet in a block the index lists.
Unlisted(ix, wr, E, key) ==
    /\ Sliced(ix, wr, E \cup {key})
    /\ Rest(ix, E \cup {key}) = Rest(ix, E) \cup {key}

\* A key above all others comes after the blocks of the index.
LEMMA SlicedEntry ==
    ASSUME NEW ix \in Seq(IndexEntry), NEW wr, NEW E, E \subseteq Keys, Sliced(ix, wr, E),
           NEW key \in Keys, Above(key, ix)
    PROVE  Unlisted(ix, wr, E, key)
<1>1. \A i \in DOMAIN ix : ix[i].key \in Nat
  <2>1. \A i \in DOMAIN ix : ix[i] \in IndexEntry
    OBVIOUS
  <2> QED
    BY <2>1, SSTableAssumption DEF IndexEntry, Keys
<1>2. key \in Nat
  BY DEF Keys
<1>3. ASSUME NEW i \in DOMAIN ix PROVE Slice(ix, i, E \cup {key}) = Slice(ix, i, E)
  <2>1. ~ (key <= ix[i].key)
    BY <1>1, <1>2 DEF Above
  <2> QED
    BY <2>1 DEF Slice
<1>4. ix # <<>> => Len(ix) \in DOMAIN ix
  OBVIOUS
<1>5. ix # <<>> => ix[Len(ix)].key < key
  BY <1>4 DEF Above
<1> QED
  BY <1>3, <1>5 DEF Unlisted, Sliced, Rest

\* Another block in the file does not disturb those an index lists.
LEMMA SlicedPut ==
    ASSUME NEW ix, NEW wr, NEW E, Sliced(ix, wr, E), NEW o, NEW keys,
           Offsets(ix) \subseteq DOMAIN wr, o \notin Offsets(ix)
    PROVE  Sliced(ix, Put(wr, o, keys), E)
<1>1. \A i \in DOMAIN ix : Put(wr, o, keys)[ix[i].offset] = wr[ix[i].offset]
  BY DEF Put, Offsets
<1> QED
  BY <1>1 DEF Sliced

\* The index keys are keys of the file, and no key is above the last appended.
LEMMA KeysBelow ==
    ASSUME SliceInv
    PROVE  /\ Entries \subseteq Keys
           /\ \A i \in DOMAIN index : index[i].key \in Entries
           /\ \A k \in Entries : k <= prevKey
<1>1. /\ TypeOK /\ Tiled(index, written) /\ Sliced(index, written, Entries)
      /\ entries \in Seq(Keys)
  BY DEF SliceInv, TileInv, TypeOK
<1>2. Entries \subseteq Keys
  BY <1>1 DEF Entries
<1>3. ASSUME NEW i \in DOMAIN index PROVE index[i].key \in Entries
  <2> DEFINE keys == written[index[i].offset]
  <2>1. EndsWith(keys, index[i].key)
    BY <1>1 DEF Tiled
  <2>2. keys \in Seq(Keys)
    <3>1. index[i].offset \in DOMAIN dataBuf
      <4>1. Offsets(index) \subseteq DOMAIN dataBuf
        BY DEF SliceInv, TileInv, Offsets
      <4> QED
        BY <4>1 DEF Offsets
    <3> QED
      BY <1>1, <3>1 DEF TypeOK
  <2> HIDE DEF keys
  <2>3. Len(keys) \in DOMAIN keys
    BY <2>1, <2>2 DEF EndsWith
  <2>4. index[i].key \in ToSet(keys)
    BY <2>1, <2>3 DEF EndsWith, ToSet
  <2> QED
    BY <1>1, <2>4 DEF Sliced, Slice, keys
<1>4. ASSUME NEW k \in Entries PROVE k <= prevKey
  <2>1. PICK i \in DOMAIN entries : k = entries[i]
    BY DEF Entries
  <2> DEFINE n == Len(entries)
  <2>2. /\ n \in DOMAIN entries /\ i \in Nat /\ n \in Nat /\ i <= n
        /\ entries # <<>> /\ entries[i] \in Keys /\ entries[n] \in Keys
    BY <1>1
  <2>3. prevKey = entries[n] /\ (i < n => entries[i] < entries[n])
    BY <2>2 DEF SliceInv, OrderInv
  <2>4. entries[i] \in Nat /\ entries[n] \in Nat
    BY <2>2 DEF Keys
  <2> HIDE DEF n
  <2>5. i = n \/ i < n
    BY <2>2
  <2> QED
    BY <2>1, <2>3, <2>4, <2>5
<1> QED
  BY <1>2, <1>3, <1>4

LEMMA SliceInit == Init => SliceInv
<1> SUFFICES ASSUME Init PROVE SliceInv
  OBVIOUS
<1>1. /\ entries = <<>> /\ dataBlock = <<>> /\ index = <<>> /\ finished = FALSE
  BY DEF Init
<1> QED
  BY <1>1, TileInit DEF SliceInv, OrderInv, Sliced

\* The block flushed last joins the index when the next one begins or the file
\* ends.
LEMMA ListLast ==
    ASSUME SliceInv, ~finished, dataBlock = <<>>, entries # <<>>,
           NEW ix, ix = InsertIndex(prevKey, prevBlockOffset, prevBlockSize)
    PROVE  /\ Sliced(ix, written, Entries) /\ Rest(ix, Entries) = {}
           /\ ix \in Seq(IndexEntry)
           /\ \A i \in DOMAIN ix : ix[i].key \in Entries
<1>1. /\ TypeOK /\ Tiled(index, written) /\ prevBlockSize # 0
      /\ EndsWith(written[prevBlockOffset], prevKey)
      /\ prevBlockOffset \in DOMAIN dataBuf
  BY DEF SliceInv, TileInv
<1>2. /\ prevKey \in Keys /\ prevBlockOffset \in Nat /\ prevBlockSize \in Nat
      /\ index \in Seq(IndexEntry) /\ written[prevBlockOffset] \in Seq(Keys)
  BY <1>1 DEF TypeOK, Tiled
<1> DEFINE entry == [key |-> prevKey, offset |-> prevBlockOffset, size |-> prevBlockSize]
<1>3. ix = Append(index, entry)
  BY <1>1 DEF InsertIndex
<1>4. ToSet(written[prevBlockOffset]) = Rest(index, Entries)
  BY DEF SliceInv
<1>5. prevKey \in Rest(index, Entries)
  <2> DEFINE keys == written[prevBlockOffset]
  <2>1. keys \in Seq(Keys) /\ EndsWith(keys, prevKey)
    BY <1>1, <1>2
  <2> HIDE DEF keys
  <2>2. Len(keys) \in DOMAIN keys
    BY <2>1 DEF EndsWith
  <2>3. prevKey \in ToSet(keys)
    BY <2>1, <2>2 DEF EndsWith, ToSet
  <2> QED
    BY <1>4, <2>3 DEF keys
<1>6. prevKey \in Entries
  BY <1>5 DEF Rest
<1>7. Sliced(index, written, Entries)
  BY DEF SliceInv
<1>8. Sliced(ix, written, Entries) /\ Rest(ix, Entries) = {}
  BY <1>2, <1>3, <1>4, <1>5, <1>7, KeysBelow, SlicedAppend, SMTT(40)
<1>9. entry \in IndexEntry /\ entry.key = prevKey
  BY <1>2 DEF IndexEntry
<1> HIDE DEF entry
<1>10. /\ ix \in Seq(IndexEntry) /\ DOMAIN ix = DOMAIN index \cup {Len(index) + 1}
       /\ \A i \in DOMAIN index : ix[i] = index[i]
       /\ ix[Len(index) + 1] = entry
  BY <1>2, <1>3, <1>9
<1> QED
  BY <1>6, <1>8, <1>9, <1>10, KeysBelow

LEMMA AppendSlices ==
    ASSUME SliceInv, TileInv', NEW k \in Keys, NEW size \in RecordSizes,
           AppendEntry(k, size)
    PROVE  SliceInv'
<1> DEFINE b == WithEntry(k, size)
           E == Entries \cup {k}
<1>1. /\ ~finished /\ finished' = finished
      /\ \A i \in DOMAIN entries : entries[i] < k
      /\ entries' = Append(entries, k) /\ prevKey' = k
      /\ index' = IF dataBlock = <<>>
                  THEN InsertIndex(prevKey, prevBlockOffset, prevBlockSize)
                  ELSE index
      /\ FlushBlock(b) \/ KeepBlock(b)
  BY Zenon DEF AppendEntry
<1>2. /\ TypeOK /\ TileInv /\ entries \in Seq(Keys) /\ blockKeys \in Seq(Keys)
      /\ dataBlock \in Seq(Record)
      /\ Len(blockKeys) = Len(dataBlock) /\ index \in Seq(IndexEntry)
  BY DEF SliceInv, TileInv, BlockInv, TypeOK, Tiled
<1>3. Entries' = E /\ E \subseteq Keys /\ \A e \in Entries : e < k
  <2>1. Entries' = E
    <3>1. {Append(entries, k)[i] : i \in DOMAIN Append(entries, k)} =
              {entries[i] : i \in DOMAIN entries} \cup {k}
      BY <1>2, SetOfAppend, SMTT(40)
    <3> QED
      BY <1>1, <3>1 DEF Entries
  <2> QED
    BY <1>1, <2>1, KeysBelow DEF Entries
<1>4. /\ Sliced(index', written, Entries)
      /\ ToSet(blockKeys) = Rest(index', Entries)
      /\ index' \in Seq(IndexEntry)
      /\ \A i \in DOMAIN index' : index'[i].key \in Entries
  <2>1. CASE dataBlock # <<>>
    BY <1>1, <1>2, <2>1, KeysBelow DEF SliceInv
  <2>2. dataBlock = <<>> => ToSet(blockKeys) = {}
    <3>1. dataBlock = <<>> => blockKeys = <<>>
      BY <1>2, LenIsZero
    <3> QED
      BY <3>1 DEF ToSet
  <2>3. CASE dataBlock = <<>> /\ entries = <<>>
    <3>1. index = <<>> /\ prevKey = EmptyKey /\ prevBlockSize = 0
      BY <1>1, <2>3 DEF SliceInv, TileInv
    <3>2. index' = <<>>
      BY <1>1, <2>3, <3>1 DEF InsertIndex
    <3>3. Entries = {}
      BY <2>3 DEF Entries
    <3> QED
      BY <2>2, <2>3, <3>2, <3>3 DEF Sliced, Rest
  <2>4. CASE dataBlock = <<>> /\ entries # <<>>
    BY <1>1, <2>2, <2>4, ListLast
  <2> QED
    BY <2>1, <2>3, <2>4
<1>5. Sliced(index', written, E) /\ Rest(index', E) = Rest(index', Entries) \cup {k}
  <2>1. \A i \in DOMAIN index' : index'[i].key < k
    BY <1>3, <1>4
  <2>2. Entries \subseteq Keys
    BY <1>3
  <2> DEFINE ix == index'
  <2> HIDE DEF ix
  <2>3. /\ ix \in Seq(IndexEntry) /\ Sliced(ix, written, Entries)
        /\ \A i \in DOMAIN ix : ix[i].key < k
    BY <1>4, <2>1 DEF ix
  <2>4. Sliced(ix, written, E) /\ Rest(ix, E) = Rest(ix, Entries) \cup {k}
    <3> DEFINE en == Entries
               wr == written
    <3>1. /\ en \subseteq Keys /\ ix \in Seq(IndexEntry) /\ Sliced(ix, wr, en)
          /\ k \in Keys /\ Above(k, ix)
      BY <2>2, <2>3 DEF Above
    <3> HIDE DEF en, wr
    <3>2. Unlisted(ix, wr, en, k)
      BY <3>1, SlicedEntry
    <3> QED
      BY <3>2 DEF Unlisted, en, wr
  <2> QED
    BY <2>4 DEF ix
<1>6. /\ ToSet(b.keys) = Rest(index', E) /\ BlockType(b)
      /\ b.records # <<>>
  <2>1. ToSet(Append(blockKeys, k)) = ToSet(blockKeys) \cup {k}
    BY <1>2, SetOfAppend
  <2>2. size \in Nat
    BY SSTableAssumption
  <2>3. BlockType(b)
    BY <1>2, <2>2, BlockTypes
  <2>4. EncodeRecord(blockPrevKey, Bytes[k]) \in Record
    BY <1>2, RecordType DEF TypeOK
  <2>5. Append(dataBlock, EncodeRecord(blockPrevKey, Bytes[k])) # <<>>
    BY <1>2, <2>4, LastAppended
  <2> QED
    BY <1>4, <1>5, <2>1, <2>3, <2>5 DEF WithEntry
<1>7. OrderInv'
  <2> DEFINE n == Len(entries)
  <2>1. /\ n \in Nat /\ DOMAIN entries = 1 .. n /\ DOMAIN entries' = 1 .. n + 1
        /\ Len(entries') = n + 1
        /\ \A i \in 1 .. n : entries'[i] = entries[i]
        /\ entries'[n + 1] = k
    BY <1>1, <1>2
  <2> HIDE DEF n
  <2>2. ASSUME NEW i \in DOMAIN entries', NEW j \in DOMAIN entries', i < j
        PROVE  entries'[i] < entries'[j]
    <3>1. i \in 1 .. n
      BY <2>1, <2>2
    <3>2. CASE j \in 1 .. n
      BY <2>1, <2>2, <3>1, <3>2 DEF SliceInv, OrderInv
    <3>3. CASE j = n + 1
      BY <1>1, <2>1, <3>1, <3>3
    <3> QED
      BY <2>1, <3>2, <3>3
  <2> QED
    BY <1>1, <2>1, <2>2 DEF OrderInv
<1> HIDE DEF b, E
<1>8. CASE FlushBlock(b)
  <2>1. /\ written' = Put(written, dataLen, b.keys) /\ dataBlock' = <<>>
        /\ prevBlockOffset' = dataLen
    BY <1>8 DEF FlushBlock
  <2>2. Offsets(index') \subseteq DOMAIN written /\ dataLen \notin Offsets(index')
    <3>1. DOMAIN dataBuf = Offsets(index')
      BY <1>1, <1>2, BeginTiles
    <3>2. /\ DOMAIN dataBuf = DOMAIN written /\ DOMAIN dataBuf \subseteq Nat
          /\ dataLen \in Nat /\ \A o \in DOMAIN dataBuf : o < dataLen
      BY <1>2 DEF TileInv, TypeOK
    <3> QED
      BY <3>1, <3>2
  <2>3. Sliced(index', written', E)
    BY <1>5, <2>1, <2>2, SlicedPut
  <2>4. written'[dataLen] = b.keys
    BY <2>1 DEF Put
  <2> QED
    BY <1>1, <1>3, <1>6, <1>7, <2>1, <2>3, <2>4 DEF SliceInv, E
<1>9. CASE KeepBlock(b)
  <2>1. /\ written' = written /\ dataBlock' = b.records /\ blockKeys' = b.keys
    BY <1>9 DEF KeepBlock
  <2> QED
    BY <1>1, <1>3, <1>5, <1>6, <1>7, <2>1 DEF SliceInv, E
<1> QED
  BY <1>1, <1>8, <1>9

\* What Finish does to the index, and where the blocks then are.
LEMMA FinishSlices ==
    ASSUME SliceInv, TileInv', Finish PROVE SliceInv'
<1>1. /\ ~finished /\ entries # <<>> /\ finished' = TRUE
      /\ entries' = entries /\ prevKey' = prevKey
  BY DEF Finish
<1>2. /\ TypeOK /\ BlockInv /\ TileInv /\ blockKeys \in Seq(Keys)
      /\ hashedKeys \in Seq(Word) /\ dataBlock \in Seq(Record)
      /\ index \in Seq(IndexEntry) /\ Entries \subseteq Keys
      /\ \A e \in Entries : e <= prevKey
  BY KeysBelow DEF SliceInv, TileInv, TypeOK, Tiled
<1>3. Entries' = Entries /\ OrderInv'
  BY <1>1 DEF Entries, SliceInv, OrderInv
<1>4. /\ hashedKeys = <<>> <=> dataBlock = <<>>
      /\ dataBlock = <<>> <=> blockKeys = <<>>
  <2>1. /\ hashedKeys = <<>> <=> Len(hashedKeys) = 0
        /\ dataBlock = <<>> <=> Len(dataBlock) = 0
        /\ blockKeys = <<>> <=> Len(blockKeys) = 0
    BY <1>2, LenIsZero
  <2> QED
    BY <1>2, <2>1 DEF BlockInv
<1>5. CASE hashedKeys # <<>>
  <2>1. /\ EndsWith(blockKeys, prevKey) /\ DOMAIN dataBuf = Offsets(index)
        /\ ToSet(blockKeys) = Rest(index, Entries)
        /\ Sliced(index, written, Entries)
    BY <1>1, <1>2, <1>4, <1>5 DEF SliceInv, TileInv, BlockInv
  <2>2. /\ FlushBlock(Current)
        /\ index' = InsertIndex(prevKey, dataLen, dataBlockSize)
    BY <1>5 DEF Finish
  <2>3. written' = Put(written, dataLen, blockKeys)
    BY <2>2 DEF FlushBlock, Current
  <2>4. /\ prevKey \in Keys /\ dataLen \in Nat /\ dataBlockSize \in Nat
        /\ dataBlockSize # 0
    BY <1>1, <1>2, <1>4, <1>5 DEF TypeOK, BlockInv
  <2>5. dataLen \notin Offsets(index) /\ Offsets(index) \subseteq DOMAIN written
    <3>1. /\ DOMAIN dataBuf = DOMAIN written /\ DOMAIN dataBuf \subseteq Nat
          /\ \A o \in DOMAIN dataBuf : o < dataLen
      BY <1>2 DEF TileInv, TypeOK
    <3> QED
      BY <2>1, <2>4, <3>1
  <2>6. Sliced(index, written', Entries)
    BY <2>1, <2>3, <2>5, SlicedPut
  <2>7. ToSet(written'[dataLen]) = Rest(index, Entries)
    BY <2>1, <2>3 DEF Put
  <2>8. prevKey \in Rest(index, Entries)
    <3>1. Len(blockKeys) \in DOMAIN blockKeys
      BY <1>2, <2>1 DEF EndsWith
    <3> QED
      BY <2>1, <3>1 DEF EndsWith, ToSet
  <2>9. index' = Append(index, [key |-> prevKey, offset |-> dataLen,
                                size |-> dataBlockSize])
    BY <2>2, <2>4 DEF InsertIndex
  <2>10. Sliced(index', written', Entries) /\ Rest(index', Entries) = {}
    <3> DEFINE wr == written'
    <3>1. Sliced(index, wr, Entries) /\ ToSet(wr[dataLen]) = Rest(index, Entries)
      BY <2>6, <2>7
    <3> HIDE DEF wr
    <3>2. LET new == Append(index, [key |-> prevKey, offset |-> dataLen,
                                    size |-> dataBlockSize])
          IN  Sliced(new, wr, Entries) /\ Rest(new, Entries) = {}
      BY <1>2, <2>4, <2>8, <3>1, SlicedAppend
    <3> QED
      BY <2>9, <3>2 DEF wr
  <2> QED
    BY <1>1, <1>3, <2>10 DEF SliceInv
<1>6. CASE hashedKeys = <<>>
  <2>1. /\ KeepBlock(Current)
        /\ index' = InsertIndex(prevKey, prevBlockOffset, prevBlockSize)
    BY <1>6 DEF Finish
  <2>2. written' = written
    BY <2>1 DEF KeepBlock
  <2> DEFINE ix == index'
  <2>3. ix = InsertIndex(prevKey, prevBlockOffset, prevBlockSize)
    BY <2>1
  <2> HIDE DEF ix
  <2>4. Sliced(ix, written, Entries) /\ Rest(ix, Entries) = {}
    BY <1>1, <1>4, <1>6, <2>3, ListLast
  <2> QED
    BY <1>1, <1>3, <2>2, <2>4 DEF SliceInv, ix
<1> QED
  BY <1>5, <1>6

LEMMA SliceNext == SliceInv /\ [Next]_vars => SliceInv'
<1> SUFFICES ASSUME SliceInv, [Next]_vars PROVE SliceInv'
  OBVIOUS
<1>1. TileInv'
  BY TileNext DEF SliceInv
<1>2. CASE UNCHANGED vars
  BY <1>1, <1>2, SMTT(40) DEF vars, SliceInv, OrderInv, Sliced, Slice, Rest, Entries
<1> QED
  BY <1>1, <1>2, AppendSlices, FinishSlices DEF Next

-----------------------------------------------------------------------------
(* The blocks of a file, read as one.                                      *)

FlatTo(ss, n, g) ==
    [i \in 1 .. n |-> IF i = 1 THEN ss[i] ELSE g[i - 1] \o ss[i]]

\* The joining of the first n elements of a sequence exists.
LEMMA FlatExists ==
    ASSUME NEW ss, NEW n \in Nat
    PROVE  n > 0 => \E f : f = FlatTo(ss, n, f)
<1> DEFINE G == {p \in 1 .. n : \E f : f = FlatTo(ss, p, f)}
<1>1. n > 0 => 1 \in G
  <2> DEFINE f == [i \in 1 .. 1 |-> ss[i]]
  <2>1. f = FlatTo(ss, 1, f)
    <3>1. \A i \in 1 .. 1 : i = 1
      OBVIOUS
    <3> QED
      BY <3>1 DEF FlatTo
  <2> HIDE DEF f
  <2> QED
    BY <2>1
<1>2. ASSUME NEW p \in 1 .. n, p \in G, p < n PROVE p + 1 \in G
  <2>1. PICK f : f = FlatTo(ss, p, f)
    BY <1>2
  <2> DEFINE g == [i \in 1 .. p + 1 |->
                      IF i = p + 1 THEN f[p] \o ss[p + 1] ELSE f[i]]
  <2>2. /\ g[p + 1] = f[p] \o ss[p + 1]
        /\ \A i \in 1 .. p : g[i] = f[i]
        /\ g = [i \in 1 .. p + 1 |-> g[i]]
    <3>1. p + 1 \in 1 .. p + 1 /\ \A i \in 1 .. p : i \in 1 .. p + 1 /\ i # p + 1
      OBVIOUS
    <3>2. g[p + 1] = f[p] \o ss[p + 1]
      BY <3>1, Zenon
    <3>3. \A i \in 1 .. p : g[i] = f[i]
      BY <3>1
    <3>4. g = [i \in 1 .. p + 1 |-> g[i]]
      BY Zenon
    <3> QED
      BY <3>2, <3>3, <3>4, Zenon
  <2> HIDE DEF g
  <2>3. \A i \in 1 .. p : f[i] = IF i = 1 THEN ss[i] ELSE f[i - 1] \o ss[i]
    <3>1. \A i \in 1 .. p : FlatTo(ss, p, f)[i] =
              IF i = 1 THEN ss[i] ELSE f[i - 1] \o ss[i]
      BY DEF FlatTo
    <3> QED
      BY <2>1, <3>1
  <2>4. ASSUME NEW i \in 1 .. p + 1
        PROVE  g[i] = IF i = 1 THEN ss[i] ELSE g[i - 1] \o ss[i]
    <3>1. CASE i = p + 1
      <4>1. i # 1 /\ i - 1 = p /\ p \in 1 .. p
        BY <3>1
      <4> QED
        BY <2>2, <3>1, <4>1, Zenon
    <3>2. CASE i # p + 1 /\ i # 1
      <4>1. i \in 1 .. p /\ i - 1 \in 1 .. p
        BY <3>2
      <4>2. g[i] = f[i] /\ g[i - 1] = f[i - 1] /\ f[i] = f[i - 1] \o ss[i]
        BY <2>2, <2>3, <3>2, <4>1, Zenon
      <4> QED
        BY <3>2, <4>2, Zenon
    <3>3. CASE i # p + 1 /\ i = 1
      <4>1. i \in 1 .. p
        BY <3>3
      <4> QED
        BY <2>2, <2>3, <3>3, <4>1, Zenon
    <3> QED
      BY <3>1, <3>2, <3>3
  <2>5. g = FlatTo(ss, p + 1, g)
    <3>1. \A i \in 1 .. p + 1 : g[i] = FlatTo(ss, p + 1, g)[i]
      BY <2>4 DEF FlatTo
    <3>2. FlatTo(ss, p + 1, g) = [i \in 1 .. p + 1 |-> FlatTo(ss, p + 1, g)[i]]
      BY DEF FlatTo
    <3> QED
      BY <2>2, <3>1, <3>2
  <2>6. p + 1 \in 1 .. n
    BY <1>2
  <2> QED
    BY <2>5, <2>6
<1>3. \A p \in 1 .. n : p \in G
  <2> HIDE DEF G
  <2> QED
    BY <1>1, <1>2, UpTo
<1> QED
  BY <1>3

\* The joining of one more sequence.
LEMMA FlattenAppend ==
    ASSUME NEW S, NEW ss \in Seq(Seq(S)), NEW x \in Seq(S)
    PROVE  FlattenSeq(Append(ss, x)) = IF ss = <<>> THEN x ELSE FlattenSeq(ss) \o x
<1> DEFINE L == Len(ss)
           tt == Append(ss, x)
<1>1. /\ L \in Nat /\ Len(tt) = L + 1 /\ (ss = <<>> <=> L = 0)
      /\ \A i \in 1 .. L : tt[i] = ss[i]
      /\ tt[L + 1] = x
  OBVIOUS
<1> HIDE DEF tt
<1> DEFINE f == CHOOSE h : h = FlatTo(ss, L, h)
           g == CHOOSE h : h = FlatTo(tt, L + 1, h)
<1>2. L > 0 => f = FlatTo(ss, L, f) /\ FlattenSeq(ss) = f[L]
  <2>1. ASSUME L > 0 PROVE f = FlatTo(ss, L, f)
    <3>1. \E h : h = FlatTo(ss, L, h)
      BY <1>1, <2>1, FlatExists
    <3> QED
      BY <3>1
  <2>2. L > 0 => FlattenSeq(ss) = f[L]
    BY <1>1 DEF FlattenSeq, FlatTo
  <2> QED
    BY <2>1, <2>2
<1>3. g = FlatTo(tt, L + 1, g) /\ FlattenSeq(tt) = g[L + 1]
  <2>1. \E h : h = FlatTo(tt, L + 1, h)
    <3>1. L + 1 \in Nat /\ L + 1 > 0
      BY <1>1
    <3> QED
      BY <3>1, FlatExists
  <2>2. g = FlatTo(tt, L + 1, g)
    BY <2>1
  <2>3. FlattenSeq(tt) = g[L + 1]
    <3>1. L + 1 # 0
      BY <1>1
    <3> QED
      BY <1>1, <3>1 DEF FlattenSeq, FlatTo
  <2> QED
    BY <2>2, <2>3
<1> HIDE DEF f, g
<1>4. \A i \in 1 .. L + 1 : g[i] = IF i = 1 THEN tt[i] ELSE g[i - 1] \o tt[i]
  <2>1. \A i \in 1 .. L + 1 : FlatTo(tt, L + 1, g)[i] =
            IF i = 1 THEN tt[i] ELSE g[i - 1] \o tt[i]
    BY DEF FlatTo
  <2> QED
    BY <1>3, <2>1
<1>5. CASE ss = <<>>
  <2>1. L = 0 /\ 1 \in 1 .. L + 1 /\ L + 1 = 1
    BY <1>1, <1>5
  <2>2. g[1] = tt[1]
    BY <1>4, <2>1, Zenon
  <2> QED
    BY <1>1, <1>3, <1>5, <2>1, <2>2 DEF tt
<1>6. CASE ss # <<>>
  <2>1. L > 0 /\ L \in 1 .. L /\ L + 1 \in 1 .. L + 1 /\ L + 1 # 1 /\ L + 1 - 1 = L
    BY <1>1, <1>6
  <2>2. \A i \in 1 .. L : f[i] = IF i = 1 THEN ss[i] ELSE f[i - 1] \o ss[i]
    <3>1. \A i \in 1 .. L : FlatTo(ss, L, f)[i] =
              IF i = 1 THEN ss[i] ELSE f[i - 1] \o ss[i]
      BY DEF FlatTo
    <3> QED
      BY <1>2, <2>1, <3>1
  <2> DEFINE G == {i \in 1 .. L : g[i] = f[i]}
  <2>3. 1 \in G
    <3>1. 1 \in 1 .. L /\ 1 \in 1 .. L + 1
      BY <1>1, <2>1
    <3>2. g[1] = tt[1] /\ f[1] = ss[1] /\ tt[1] = ss[1]
      BY <1>1, <1>4, <2>2, <3>1, Zenon
    <3> QED
      BY <3>1, <3>2
  <2>4. ASSUME NEW i \in 1 .. L, i \in G, i < L PROVE i + 1 \in G
    <3> DEFINE j == i + 1
    <3>1. j \in 1 .. L /\ j \in 1 .. L + 1 /\ j # 1 /\ j - 1 = i
      BY <1>1, <2>4
    <3> HIDE DEF j
    <3>2. g[j] = g[i] \o tt[j] /\ f[j] = f[i] \o ss[j] /\ tt[j] = ss[j]
      BY <1>1, <1>4, <2>2, <3>1, Zenon
    <3>3. g[i] = f[i]
      BY <2>4
    <3>4. g[j] = f[j]
      BY <3>2, <3>3, Zenon
    <3> QED
      BY <3>1, <3>4 DEF j
  <2>5. \A i \in 1 .. L : i \in G
    <3> HIDE DEF G
    <3> QED
      BY <1>1, <2>3, <2>4, UpTo
  <2>6. g[L] = f[L]
    BY <2>1, <2>5
  <2>7. g[L + 1] = g[L] \o tt[L + 1]
    <3> DEFINE j == L + 1
    <3>1. j \in 1 .. L + 1 /\ j # 1 /\ j - 1 = L
      BY <2>1
    <3>2. g[j] = IF j = 1 THEN tt[j] ELSE g[j - 1] \o tt[j]
      BY <1>4, <3>1
    <3> HIDE DEF j
    <3>3. g[j] = g[L] \o tt[j]
      BY <3>1, <3>2, Zenon
    <3> QED
      BY <3>3 DEF j
  <2>8. tt[L + 1] = x
    BY <1>1
  <2>9. FlattenSeq(tt) = FlattenSeq(ss) \o x
    BY <1>2, <1>3, <2>1, <2>6, <2>7, <2>8, Zenon
  <2> QED
    BY <1>6, <2>9 DEF tt
<1> QED
  BY <1>5, <1>6

\* What is at the offsets of an index, joined.
At(ix, f) == [i \in DOMAIN ix |-> f[ix[i].offset]]
Joined(ix, f) == FlattenSeq(At(ix, f))

LEMMA JoinedEmpty == \A f : Joined(<<>>, f) = <<>>
<1> TAKE f
<1>1. At(<<>>, f) = <<>>
  BY DEF At
<1> QED
  BY <1>1 DEF Joined, FlattenSeq

\* What is at the offsets of an index is made of elements of S.
Holds(ix, f, S) == \A i \in DOMAIN ix : f[ix[i].offset] \in Seq(S)

LEMMA JoinedAppend ==
    ASSUME NEW S, NEW ix \in Seq(IndexEntry), NEW f, NEW entry \in IndexEntry,
           Holds(ix, f, S),
           f[entry.offset] \in Seq(S), Joined(ix, f) \in Seq(S)
    PROVE  /\ Joined(Append(ix, entry), f) = Joined(ix, f) \o f[entry.offset]
           /\ Joined(Append(ix, entry), f) \in Seq(S)
<1> DEFINE new == Append(ix, entry)
           n == Len(ix)
<1>1. /\ n \in Nat /\ DOMAIN ix = 1 .. n /\ DOMAIN new = 1 .. n + 1
      /\ \A i \in 1 .. n : new[i] = ix[i]
      /\ new[n + 1] = entry
      /\ (ix = <<>> <=> n = 0)
  OBVIOUS
<1> HIDE DEF new, n
<1> DEFINE ss == At(ix, f)
           x == f[entry.offset]
<1>2. /\ ss \in Seq(Seq(S)) /\ Len(ss) = n
      /\ \A i \in 1 .. n : ss[i] = f[ix[i].offset]
  <2>1. ss \in [1 .. n -> Seq(S)]
    BY <1>1 DEF At, Holds
  <2>2. \A i \in 1 .. n : ss[i] = f[ix[i].offset]
    BY <1>1 DEF At
  <2> HIDE DEF ss
  <2> QED
    BY <1>1, <2>1, <2>2, SeqDef
<1>3. At(new, f) = Append(ss, x)
  <2>1. Append(ss, x) = [i \in 1 .. n + 1 |-> Append(ss, x)[i]]
    <3>1. x \in Seq(S)
      BY DEF x
    <3> HIDE DEF ss, x
    <3> DEFINE a == Append(ss, x)
    <3>2. a \in Seq(Seq(S)) /\ Len(a) = n + 1
      BY <1>2, <3>1
    <3> HIDE DEF a
    <3>3. a = [i \in 1 .. Len(a) |-> a[i]]
      BY <3>2
    <3> QED
      BY <3>2, <3>3 DEF a
  <2>2. \A i \in 1 .. n + 1 : Append(ss, x)[i] = f[new[i].offset]
    <3>1. \A i \in 1 .. n : Append(ss, x)[i] = ss[i]
      <4> HIDE DEF ss, x
      <4> QED
        BY <1>2
    <3>2. Append(ss, x)[n + 1] = x
      <4> HIDE DEF ss, x
      <4> QED
        BY <1>2
    <3>3. \A i \in 1 .. n + 1 : i \in 1 .. n \/ i = n + 1
      BY <1>1
    <3>4. x = f[new[n + 1].offset]
      BY <1>1
    <3> HIDE DEF ss, x
    <3> QED
      BY <1>1, <1>2, <3>1, <3>2, <3>3, <3>4
  <2>3. At(new, f) = [i \in 1 .. n + 1 |-> f[new[i].offset]]
    BY <1>1 DEF At
  <2> QED
    BY <2>1, <2>2, <2>3
<1>4. FlattenSeq(Append(ss, x)) = IF ss = <<>> THEN x ELSE FlattenSeq(ss) \o x
  <2> HIDE DEF ss, x
  <2>1. x \in Seq(S)
    BY DEF x
  <2> QED
    BY <1>2, <2>1, FlattenAppend
<1>5. Joined(ix, f) = FlattenSeq(ss) /\ Joined(new, f) = FlattenSeq(Append(ss, x))
  BY <1>3 DEF Joined
<1>6. ss = <<>> => Joined(ix, f) = <<>>
  BY <1>5 DEF FlattenSeq
<1>7. Joined(new, f) = Joined(ix, f) \o x
  <2> HIDE DEF ss
  <2>1. <<>> \o x = x
    BY ConcatEmptySeq
  <2> QED
    BY <1>4, <1>5, <1>6, <2>1, Zenon
<1> QED
  BY <1>7, ConcatProperties DEF new

\* Another block in the file does not disturb those an index lists.
LEMMA JoinedPut ==
    ASSUME NEW ix, NEW f, NEW o, NEW x,
           Offsets(ix) \subseteq DOMAIN f, o \notin Offsets(ix)
    PROVE  Joined(ix, Put(f, o, x)) = Joined(ix, f)
<1>1. \A i \in DOMAIN ix : Put(f, o, x)[ix[i].offset] = f[ix[i].offset]
  BY DEF Put, Offsets
<1>2. At(ix, Put(f, o, x)) = At(ix, f)
  BY <1>1 DEF At
<1> QED
  BY <1>2 DEF Joined

\* The bytes of the last of the keys, which the writer keeps.
LastBytes(keys) == IF keys = <<>> THEN <<>> ELSE Bytes[keys[Len(keys)]]

LEMMA EncodedAppend ==
    ASSUME NEW records \in Seq(Record), NEW keys \in Seq(Keys), Encoded(records, keys),
           NEW key \in Keys, NEW record \in Record,
           record = EncodeRecord(LastBytes(keys), Bytes[key])
    PROVE  /\ Encoded(Append(records, record), Append(keys, key))
           /\ LastBytes(Append(keys, key)) = Bytes[key]
<1> DEFINE n == Len(keys)
           r == Append(records, record)
           s == Append(keys, key)
<1>1. /\ n \in Nat /\ Len(records) = n /\ Len(r) = n + 1 /\ Len(s) = n + 1
      /\ \A i \in 1 .. n : r[i] = records[i] /\ s[i] = keys[i]
      /\ r[n + 1] = record /\ s[n + 1] = key
      /\ (keys = <<>> <=> n = 0) /\ s # <<>>
  <2>1. n \in Nat /\ Len(records) = n /\ (keys = <<>> <=> n = 0)
    BY DEF Encoded
  <2>2. /\ Len(s) = n + 1 /\ s[n + 1] = key /\ s # <<>>
        /\ \A i \in 1 .. n : s[i] = keys[i]
    OBVIOUS
  <2>3. /\ Len(r) = n + 1 /\ r[n + 1] = record
        /\ \A i \in 1 .. n : r[i] = records[i]
    <3> HIDE DEF n
    <3> QED
      BY <2>1
  <2> QED
    BY <2>1, <2>2, <2>3
<1> HIDE DEF r, s
<1>2. LastBytes(keys) = IF n = 0 THEN <<>> ELSE Bytes[keys[n]]
  BY <1>1 DEF LastBytes
<1> HIDE DEF n
<1>3. ASSUME NEW i \in 1 .. n + 1
      PROVE  \/ r[i] = EncodeRecord(<<>>, Bytes[s[i]])
             \/ i > 1 /\ r[i] = EncodeRecord(Bytes[s[i - 1]], Bytes[s[i]])
  <2>1. CASE i \in 1 .. n
    <3>1. \/ records[i] = EncodeRecord(<<>>, Bytes[keys[i]])
          \/ i > 1 /\ records[i] = EncodeRecord(Bytes[keys[i - 1]], Bytes[keys[i]])
      BY <2>1 DEF Encoded, n
    <3>2. i > 1 => i - 1 \in 1 .. n
      BY <1>1, <2>1
    <3>3. r[i] = records[i] /\ s[i] = keys[i] /\ (i > 1 => s[i - 1] = keys[i - 1])
      BY <1>1, <2>1, <3>2
    <3> QED
      BY <3>1, <3>3, Zenon
  <2>2. CASE i = n + 1 /\ n = 0
    <3>1. r[i] = EncodeRecord(<<>>, Bytes[s[i]])
      BY <1>1, <1>2, <2>2, Zenon
    <3> QED
      BY <3>1
  <2>3. CASE i = n + 1 /\ n # 0
    <3>1. i > 1 /\ i - 1 = n /\ n \in 1 .. n
      BY <1>1, <2>3
    <3>2. s[n] = keys[n]
      BY <1>1, <3>1
    <3>3. r[i] = EncodeRecord(Bytes[s[i - 1]], Bytes[s[i]])
      BY <1>1, <1>2, <2>3, <3>1, <3>2, Zenon
    <3> QED
      BY <3>1, <3>3
  <2>4. i \in 1 .. n \/ i = n + 1
    BY <1>1
  <2> QED
    BY <2>1, <2>2, <2>3, <2>4
<1>4. Encoded(r, s)
  BY <1>1, <1>3 DEF Encoded
<1>5. LastBytes(s) = Bytes[key]
  BY <1>1 DEF LastBytes
<1> QED
  BY <1>4, <1>5 DEF r, s

LEMMA EncodedConcat ==
    ASSUME NEW r1 \in Seq(Record), NEW k1 \in Seq(Keys), Encoded(r1, k1),
           NEW r2 \in Seq(Record), NEW k2 \in Seq(Keys), Encoded(r2, k2)
    PROVE  Encoded(r1 \o r2, k1 \o k2)
<1> DEFINE m1 == Len(k1)
           m2 == Len(k2)
           r == r1 \o r2
           s == k1 \o k2
<1>1. m1 \in Nat /\ m2 \in Nat /\ Len(r1) = m1 /\ Len(r2) = m2
  BY DEF Encoded
<1>2. /\ Len(r) = m1 + m2
      /\ \A i \in 1 .. m1 + m2 : r[i] = IF i <= m1 THEN r1[i] ELSE r2[i - m1]
  <2>1. /\ Len(r) = Len(r1) + Len(r2)
        /\ \A i \in 1 .. Len(r1) + Len(r2) :
              r[i] = IF i <= Len(r1) THEN r1[i] ELSE r2[i - Len(r1)]
    BY ConcatProperties
  <2> HIDE DEF r, m1, m2
  <2> QED
    BY <1>1, <2>1, Zenon
<1>3. /\ Len(s) = m1 + m2
      /\ \A i \in 1 .. m1 + m2 : s[i] = IF i <= m1 THEN k1[i] ELSE k2[i - m1]
  BY ConcatProperties
<1> HIDE DEF r, s, m1, m2
<1>4. ASSUME NEW i \in 1 .. m1 + m2
      PROVE  \/ r[i] = EncodeRecord(<<>>, Bytes[s[i]])
             \/ i > 1 /\ r[i] = EncodeRecord(Bytes[s[i - 1]], Bytes[s[i]])
  <2>1. CASE i <= m1
    <3>1. i \in 1 .. m1 /\ (i > 1 => i - 1 \in 1 .. m1 + m2 /\ i - 1 <= m1)
      BY <1>1, <2>1
    <3>2. \/ r1[i] = EncodeRecord(<<>>, Bytes[k1[i]])
          \/ i > 1 /\ r1[i] = EncodeRecord(Bytes[k1[i - 1]], Bytes[k1[i]])
      BY <3>1 DEF Encoded, m1
    <3>3. r[i] = r1[i] /\ s[i] = k1[i]
      BY <1>2, <1>3, <2>1
    <3>4. i > 1 => s[i - 1] = k1[i - 1]
      BY <1>3, <3>1
    <3> QED
      BY <3>2, <3>3, <3>4, Zenon
  <2>2. CASE ~ (i <= m1)
    <3> DEFINE j == i - m1
    <3>1. j \in 1 .. m2 /\ (j > 1 => i > 1 /\ i - 1 \in 1 .. m1 + m2
                                     /\ ~ (i - 1 <= m1) /\ i - 1 - m1 = j - 1)
      BY <1>1, <2>2
    <3>2. r[i] = r2[j] /\ s[i] = k2[j]
      BY <1>2, <1>3, <2>2
    <3> HIDE DEF j
    <3>3. \/ r2[j] = EncodeRecord(<<>>, Bytes[k2[j]])
          \/ j > 1 /\ r2[j] = EncodeRecord(Bytes[k2[j - 1]], Bytes[k2[j]])
      BY <3>1 DEF Encoded, m2
    <3>4. ASSUME j > 1 PROVE s[i - 1] = k2[j - 1]
      <4>1. /\ i - 1 \in 1 .. m1 + m2 /\ ~ (i - 1 <= m1) /\ i - 1 - m1 = j - 1
        BY <3>1, <3>4
      <4>2. s[i - 1] = IF i - 1 <= m1 THEN k1[i - 1] ELSE k2[i - 1 - m1]
        BY <1>3, <4>1, Zenon
      <4> QED
        BY <4>1, <4>2, Zenon
    <3>5. j > 1 => i > 1
      BY <3>1
    <3> QED
      BY <3>2, <3>3, <3>4, <3>5, Zenon
  <2> QED
    BY <2>1, <2>2
<1>5. Len(r) = Len(s)
  BY <1>2, <1>3
<1> QED
  BY <1>3, <1>4, <1>5, Zenon DEF Encoded, r, s

-----------------------------------------------------------------------------
(* The records of a file.                                                  *)

\* The blocks of an index, joined, are records of their keys, joined.
WellJoined(ix, db, wr) ==
    /\ Joined(ix, db) \in Seq(Record) /\ Joined(ix, wr) \in Seq(Keys)
    /\ Encoded(Joined(ix, db), Joined(ix, wr))

\* What makes BlocksReadBack inductive: every block is made of records of its
\* keys, and the blocks in the order of the index, with the one that is not yet
\* in it, hold the entries.
CodeInv ==
    /\ TileInv
    /\ \A o \in DOMAIN dataBuf : Encoded(dataBuf[o], written[o])
    /\ Encoded(dataBlock, blockKeys)
    /\ blockPrevKey = LastBytes(blockKeys)
    /\ WellJoined(index, dataBuf, written)
    /\ finished => Joined(index, written) = entries
    /\ ~finished /\ dataBlock # <<>> => Joined(index, written) \o blockKeys = entries
    /\ ~finished /\ dataBlock = <<>> /\ entries # <<>> =>
          Joined(index, written) \o written[prevBlockOffset] = entries

\* The index lists one more block, and what it lists stays well joined.
Lists(ix, entry, db, wr) ==
    /\ WellJoined(Append(ix, entry), db, wr)
    /\ Joined(Append(ix, entry), wr) = Joined(ix, wr) \o wr[entry.offset]

LEMMA ListBlock ==
    ASSUME NEW ix \in Seq(IndexEntry), NEW db, NEW wr, WellJoined(ix, db, wr),
           Holds(ix, db, Record), Holds(ix, wr, Keys),
           NEW entry \in IndexEntry, db[entry.offset] \in Seq(Record),
           wr[entry.offset] \in Seq(Keys),
           Encoded(db[entry.offset], wr[entry.offset])
    PROVE  Lists(ix, entry, db, wr)
<1> DEFINE new == Append(ix, entry)
           o == entry.offset
<1>1. /\ Joined(ix, db) \in Seq(Record) /\ Joined(ix, wr) \in Seq(Keys)
      /\ Encoded(Joined(ix, db), Joined(ix, wr))
  BY DEF WellJoined
<1>2. /\ Joined(new, db) = Joined(ix, db) \o db[o]
      /\ Joined(new, db) \in Seq(Record)
  BY <1>1, JoinedAppend
<1>3. /\ Joined(new, wr) = Joined(ix, wr) \o wr[o]
      /\ Joined(new, wr) \in Seq(Keys)
  BY <1>1, JoinedAppend
<1>4. Encoded(Joined(ix, db) \o db[o], Joined(ix, wr) \o wr[o])
  BY <1>1, EncodedConcat
<1> QED
  BY <1>2, <1>3, <1>4, Zenon DEF WellJoined, Lists

LEMMA CodeInit == Init => CodeInv
<1> SUFFICES ASSUME Init PROVE CodeInv
  OBVIOUS
<1>1. /\ entries = <<>> /\ dataBlock = <<>> /\ index = <<>> /\ finished = FALSE
      /\ blockKeys = <<>> /\ blockPrevKey = <<>> /\ DOMAIN dataBuf = {}
  BY DEF Init, NoBlock
<1>2. TileInv
  BY TileInit
<1>3. Encoded(<<>>, <<>>) /\ <<>> \in Seq(Record) /\ <<>> \in Seq(Keys)
  BY DEF Encoded
<1>4. WellJoined(index, dataBuf, written)
  <2>1. Joined(index, dataBuf) = <<>> /\ Joined(index, written) = <<>>
    BY <1>1, JoinedEmpty
  <2> QED
    BY <1>3, <2>1 DEF WellJoined
<1> QED
  BY <1>1, <1>2, <1>3, <1>4 DEF CodeInv, LastBytes

\* The types of the blocks that an index lists.
LEMMA ListedTypes ==
    ASSUME TileInv, NEW ix, Offsets(ix) \subseteq DOMAIN dataBuf
    PROVE  \A i \in DOMAIN ix : /\ dataBuf[ix[i].offset] \in Seq(Record)
                                /\ written[ix[i].offset] \in Seq(Keys)
<1>1. \A o \in DOMAIN dataBuf : dataBuf[o] \in Seq(Record) /\ written[o] \in Seq(Keys)
  BY DEF TileInv, TypeOK
<1> QED
  BY <1>1 DEF Offsets

\* The block flushed last joins the index when the next one begins or the file
\* ends.
LEMMA ListLastCode ==
    ASSUME CodeInv, ~finished, dataBlock = <<>>, entries # <<>>,
           NEW ix, ix = InsertIndex(prevKey, prevBlockOffset, prevBlockSize)
    PROVE  WellJoined(ix, dataBuf, written) /\ Joined(ix, written) = entries
<1>1. /\ TypeOK /\ TileInv /\ prevBlockSize # 0
      /\ DOMAIN dataBuf = Offsets(index) \cup {prevBlockOffset}
  BY DEF CodeInv, TileInv
<1>2. /\ prevKey \in Keys /\ prevBlockOffset \in Nat /\ prevBlockSize \in Nat
      /\ index \in Seq(IndexEntry)
      /\ dataBuf[prevBlockOffset] \in Seq(Record)
      /\ written[prevBlockOffset] \in Seq(Keys)
  BY <1>1 DEF TypeOK, TileInv, Tiled
<1> DEFINE entry == [key |-> prevKey, offset |-> prevBlockOffset, size |-> prevBlockSize]
<1>3. ix = Append(index, entry)
  BY <1>1 DEF InsertIndex
<1>4. entry \in IndexEntry /\ entry.offset = prevBlockOffset
  BY <1>2 DEF IndexEntry
<1> HIDE DEF entry
<1>5. Holds(index, dataBuf, Record) /\ Holds(index, written, Keys)
  BY <1>1, ListedTypes DEF Holds
<1>6. /\ Encoded(dataBuf[prevBlockOffset], written[prevBlockOffset])
      /\ WellJoined(index, dataBuf, written)
      /\ Joined(index, written) \o written[prevBlockOffset] = entries
  BY <1>1 DEF CodeInv
<1>7. /\ WellJoined(Append(index, entry), dataBuf, written)
      /\ Joined(Append(index, entry), written) =
             Joined(index, written) \o written[prevBlockOffset]
  <2>1. Lists(index, entry, dataBuf, written)
    BY <1>2, <1>4, <1>5, <1>6, ListBlock
  <2> QED
    BY <1>4, <2>1 DEF Lists
<1> QED
  BY <1>3, <1>6, <1>7, Zenon

\* A key that begins a block first lists the block before.
LEMMA BeginCode ==
    ASSUME CodeInv, ~finished,
           index' = IF dataBlock = <<>>
                    THEN InsertIndex(prevKey, prevBlockOffset, prevBlockSize)
                    ELSE index
    PROVE  /\ WellJoined(index', dataBuf, written)
           /\ Joined(index', written) \o blockKeys = entries
<1>1. /\ TypeOK /\ TileInv /\ BlockInv /\ blockKeys \in Seq(Keys)
      /\ dataBlock \in Seq(Record) /\ entries \in Seq(Keys)
  BY DEF CodeInv, TileInv, TypeOK
<1>2. dataBlock = <<>> => blockKeys = <<>>
  BY <1>1, LenIsZero DEF BlockInv
<1>3. \A s \in Seq(Keys) : s \o <<>> = s
  BY ConcatEmptySeq
<1>4. CASE dataBlock # <<>>
  BY <1>4 DEF CodeInv
<1>5. CASE dataBlock = <<>> /\ entries = <<>>
  <2>1. index = <<>> /\ prevKey = EmptyKey /\ prevBlockSize = 0
    BY <1>1, <1>5 DEF TileInv
  <2>2. index' = <<>>
    BY <1>5, <2>1 DEF InsertIndex
  <2>3. Joined(index', written) = <<>> /\ WellJoined(index, dataBuf, written)
    BY <2>2, JoinedEmpty DEF CodeInv
  <2>4. <<>> \o <<>> = <<>>
    BY <1>1, <1>3, <1>5
  <2> QED
    BY <1>2, <1>5, <2>1, <2>2, <2>3, <2>4, Zenon
<1>6. CASE dataBlock = <<>> /\ entries # <<>>
  <2> DEFINE ix == index'
  <2>1. ix = InsertIndex(prevKey, prevBlockOffset, prevBlockSize)
    BY <1>6
  <2> HIDE DEF ix
  <2>2. WellJoined(ix, dataBuf, written) /\ Joined(ix, written) = entries
    BY <1>6, <2>1, ListLastCode
  <2>3. Joined(ix, written) \o blockKeys = entries
    BY <1>1, <1>2, <1>3, <1>6, <2>2, Zenon
  <2> QED
    BY <2>2, <2>3 DEF ix
<1> QED
  BY <1>4, <1>5, <1>6

\* A block joins the data behind the blocks of an index that has all others.
LEMMA FlushCode ==
    ASSUME CodeInv, NEW ix, WellJoined(ix, dataBuf, written),
           DOMAIN dataBuf = Offsets(ix),
           NEW b, Encoded(b.records, b.keys), FlushBlock(b)
    PROVE  /\ WellJoined(ix, dataBuf', written')
           /\ Joined(ix, written') = Joined(ix, written)
           /\ written'[dataLen] = b.keys /\ dataBuf'[dataLen] = b.records
           /\ \A o \in DOMAIN dataBuf' : Encoded(dataBuf'[o], written'[o])
           /\ dataBlock' = <<>> /\ Encoded(dataBlock', blockKeys')
           /\ blockPrevKey' = LastBytes(blockKeys')
<1>1. /\ dataBuf' = Put(dataBuf, dataLen, b.records)
      /\ written' = Put(written, dataLen, b.keys)
      /\ dataBlock' = <<>> /\ blockKeys' = <<>> /\ blockPrevKey' = <<>>
  BY DEF FlushBlock, ClearedKey
<1>2. /\ dataLen \in Nat /\ DOMAIN dataBuf = DOMAIN written
      /\ \A o \in DOMAIN dataBuf : o \in Nat /\ o < dataLen
      /\ \A o \in DOMAIN dataBuf : Encoded(dataBuf[o], written[o])
  BY DEF CodeInv, TileInv, TypeOK
<1>3. dataLen \notin Offsets(ix)
  BY <1>2
<1>4. /\ Joined(ix, dataBuf') = Joined(ix, dataBuf)
      /\ Joined(ix, written') = Joined(ix, written)
  BY <1>1, <1>2, <1>3, JoinedPut
<1>5. WellJoined(ix, dataBuf', written')
  BY <1>4, Zenon DEF WellJoined
<1>6. /\ written'[dataLen] = b.keys /\ dataBuf'[dataLen] = b.records
      /\ DOMAIN dataBuf' = DOMAIN dataBuf \cup {dataLen}
      /\ \A o \in DOMAIN dataBuf : o # dataLen =>
            dataBuf'[o] = dataBuf[o] /\ written'[o] = written[o]
  BY <1>1, <1>2 DEF Put
<1>7. ASSUME NEW o \in DOMAIN dataBuf' PROVE Encoded(dataBuf'[o], written'[o])
  <2>1. CASE o = dataLen
    BY <1>6, <2>1, Zenon
  <2>2. CASE o # dataLen
    BY <1>2, <1>6, <2>2, Zenon
  <2> QED
    BY <2>1, <2>2
<1>8. Encoded(<<>>, <<>>) /\ LastBytes(<<>>) = <<>>
  BY DEF Encoded, LastBytes
<1> QED
  BY <1>1, <1>4, <1>5, <1>6, <1>7, <1>8, Zenon

LEMMA AppendCodes ==
    ASSUME CodeInv, TileInv', NEW k \in Keys, NEW size \in RecordSizes,
           AppendEntry(k, size)
    PROVE  CodeInv'
<1> DEFINE b == WithEntry(k, size)
           ix == index'
<1>1. /\ ~finished /\ finished' = finished
      /\ entries' = Append(entries, k)
      /\ ix = IF dataBlock = <<>>
              THEN InsertIndex(prevKey, prevBlockOffset, prevBlockSize)
              ELSE index
      /\ FlushBlock(b) \/ KeepBlock(b)
  BY Zenon DEF AppendEntry
<1>2. /\ TypeOK /\ TileInv /\ entries \in Seq(Keys) /\ blockKeys \in Seq(Keys)
      /\ dataBlock \in Seq(Record) /\ blockPrevKey \in Seq(Nat)
  BY DEF CodeInv, TileInv, TypeOK
<1>3. /\ WellJoined(ix, dataBuf, written) /\ DOMAIN dataBuf = Offsets(ix)
      /\ Joined(ix, written) \o blockKeys = entries
  <2>1. /\ WellJoined(index', dataBuf, written)
        /\ Joined(index', written) \o blockKeys = entries
    BY <1>1, BeginCode
  <2>2. DOMAIN dataBuf = Offsets(index')
    BY <1>1, <1>2, BeginTiles
  <2> QED
    BY <2>1, <2>2
<1>4. /\ Encoded(b.records, b.keys) /\ b.prevKey = LastBytes(b.keys)
      /\ b.keys = Append(blockKeys, k) /\ b.records # <<>>
  <2> DEFINE record == EncodeRecord(blockPrevKey, Bytes[k])
  <2>1. record \in Record
    BY <1>2, RecordType
  <2>2. b.records = Append(dataBlock, record) /\ b.keys = Append(blockKeys, k)
        /\ b.prevKey = Bytes[k]
    BY DEF WithEntry
  <2>3. record = EncodeRecord(LastBytes(blockKeys), Bytes[k])
        /\ Encoded(dataBlock, blockKeys)
    BY DEF CodeInv
  <2> HIDE DEF record, b
  <2>4. /\ Encoded(Append(dataBlock, record), Append(blockKeys, k))
        /\ LastBytes(Append(blockKeys, k)) = Bytes[k]
    BY <1>2, <2>1, <2>3, EncodedAppend
  <2>5. Append(dataBlock, record) # <<>>
    BY <1>2, <2>1, LastAppended
  <2> QED
    BY <2>2, <2>4, <2>5, Zenon
<1> HIDE DEF b, ix
<1>5. Joined(ix, written) \o b.keys = entries'
  <2> DEFINE s == Joined(ix, written)
  <2>1. s \in Seq(Keys)
    BY <1>3 DEF WellJoined
  <2> HIDE DEF s
  <2>2. s \o Append(blockKeys, k) = Append(s \o blockKeys, k)
    BY <1>2, <2>1
  <2> QED
    BY <1>1, <1>3, <1>4, <2>2, Zenon DEF s
<1>6. CASE FlushBlock(b)
  <2>1. /\ WellJoined(ix, dataBuf', written')
        /\ Joined(ix, written') = Joined(ix, written)
        /\ written'[dataLen] = b.keys
        /\ \A o \in DOMAIN dataBuf' : Encoded(dataBuf'[o], written'[o])
        /\ dataBlock' = <<>> /\ Encoded(dataBlock', blockKeys')
        /\ blockPrevKey' = LastBytes(blockKeys')
    BY <1>3, <1>4, <1>6, FlushCode
  <2>2. prevBlockOffset' = dataLen
    BY <1>6 DEF FlushBlock
  <2>3. Joined(ix, written') \o written'[prevBlockOffset'] = entries'
    BY <1>5, <2>1, <2>2, Zenon
  <2> QED
    BY <1>1, <2>1, <2>3, Zenon DEF CodeInv, ix, LastBytes
<1>7. CASE KeepBlock(b)
  <2>1. /\ dataBlock' = b.records /\ blockPrevKey' = b.prevKey /\ blockKeys' = b.keys
        /\ dataBuf' = dataBuf /\ written' = written
    BY <1>7 DEF KeepBlock
  <2>2. \A o \in DOMAIN dataBuf : Encoded(dataBuf[o], written[o])
    BY DEF CodeInv
  <2>3. /\ WellJoined(ix, dataBuf', written')
        /\ Joined(ix, written') \o blockKeys' = entries'
        /\ \A o \in DOMAIN dataBuf' : Encoded(dataBuf'[o], written'[o])
        /\ dataBlock' # <<>> /\ Encoded(dataBlock', blockKeys')
        /\ blockPrevKey' = LastBytes(blockKeys')
    BY <1>3, <1>4, <1>5, <2>1, <2>2, Zenon
  <2> QED
    BY <1>1, <2>3, Zenon DEF CodeInv, ix, LastBytes
<1> QED
  BY <1>1, <1>6, <1>7

LEMMA FinishCodes ==
    ASSUME CodeInv, TileInv', Finish PROVE CodeInv'
<1> DEFINE ix == index'
<1>1. /\ ~finished /\ entries # <<>> /\ finished' = TRUE /\ entries' = entries
  BY DEF Finish
<1>2. /\ TypeOK /\ TileInv /\ blockKeys \in Seq(Keys)
      /\ hashedKeys \in Seq(Word) /\ dataBlock \in Seq(Record)
      /\ index \in Seq(IndexEntry)
      /\ prevKey \in Keys /\ dataLen \in Nat /\ dataBlockSize \in Nat
      /\ Len(blockKeys) = Len(hashedKeys) /\ Len(blockKeys) = Len(dataBlock)
      /\ Encoded(dataBlock, blockKeys) /\ blockPrevKey = LastBytes(blockKeys)
      /\ \A o \in DOMAIN dataBuf : Encoded(dataBuf[o], written[o])
  BY DEF CodeInv, TileInv, TypeOK, Tiled, BlockInv
<1>3. hashedKeys = <<>> <=> dataBlock = <<>>
  BY <1>2, LenIsZero
<1>4. /\ Current.records = dataBlock /\ Current.keys = blockKeys
      /\ Current.prevKey = blockPrevKey
  BY DEF Current
<1> DEFINE b == Current
<1> HIDE DEF b
<1>5. CASE hashedKeys # <<>>
  <2>1. FlushBlock(b) /\ ix = InsertIndex(prevKey, dataLen, dataBlockSize)
    BY <1>5 DEF Finish, b
  <2>2. /\ DOMAIN dataBuf = Offsets(index) /\ WellJoined(index, dataBuf, written)
        /\ Joined(index, written) \o blockKeys = entries /\ dataBlockSize # 0
    <3>1. DOMAIN dataBuf = Offsets(index) /\ dataBlockSize # 0
      <4>1. blockKeys # <<>>
        BY <1>2, <1>5, LenIsZero
      <4> QED
        BY <1>1, <1>3, <1>5, <4>1 DEF CodeInv, TileInv, BlockInv
    <3> QED
      BY <1>1, <1>3, <1>5, <3>1 DEF CodeInv
  <2>3. /\ WellJoined(index, dataBuf', written')
        /\ Joined(index, written') = Joined(index, written)
        /\ written'[dataLen] = blockKeys /\ dataBuf'[dataLen] = dataBlock
        /\ \A o \in DOMAIN dataBuf' : Encoded(dataBuf'[o], written'[o])
        /\ dataBlock' = <<>> /\ Encoded(dataBlock', blockKeys')
        /\ blockPrevKey' = LastBytes(blockKeys')
    <3>1. Encoded(b.records, b.keys) /\ b.records = dataBlock /\ b.keys = blockKeys
      BY <1>2, <1>4, Zenon DEF b
    <3>2. /\ WellJoined(index, dataBuf', written')
          /\ Joined(index, written') = Joined(index, written)
          /\ written'[dataLen] = b.keys /\ dataBuf'[dataLen] = b.records
          /\ \A o \in DOMAIN dataBuf' : Encoded(dataBuf'[o], written'[o])
          /\ dataBlock' = <<>> /\ Encoded(dataBlock', blockKeys')
          /\ blockPrevKey' = LastBytes(blockKeys')
      BY <2>1, <2>2, <3>1, FlushCode
    <3> QED
      BY <3>1, <3>2, Zenon
  <2> DEFINE entry == [key |-> prevKey, offset |-> dataLen, size |-> dataBlockSize]
             db == dataBuf'
             wr == written'
  <2>4. ix = Append(index, entry)
    BY <2>1, <2>2 DEF InsertIndex
  <2>5. entry \in IndexEntry /\ entry.offset = dataLen
    BY <1>2 DEF IndexEntry
  <2>6. Holds(index, db, Record) /\ Holds(index, wr, Keys)
    <3>1. \A o \in DOMAIN db : db[o] \in Seq(Record) /\ wr[o] \in Seq(Keys)
      BY DEF TileInv, TypeOK
    <3>2. Offsets(index) \subseteq DOMAIN db
      BY <2>1, <2>2 DEF FlushBlock, Put
    <3> QED
      BY <3>1, <3>2 DEF Offsets, Holds
  <2> HIDE DEF entry, db, wr, ix
  <2>7. /\ WellJoined(Append(index, entry), db, wr)
        /\ Joined(Append(index, entry), wr) = Joined(index, wr) \o wr[dataLen]
    <3>1. /\ WellJoined(index, db, wr) /\ db[dataLen] \in Seq(Record)
          /\ wr[dataLen] \in Seq(Keys) /\ Encoded(db[dataLen], wr[dataLen])
      BY <1>2, <2>3, Zenon DEF db, wr
    <3>2. Lists(index, entry, db, wr)
      BY <1>2, <2>5, <2>6, <3>1, ListBlock
    <3> QED
      BY <2>5, <3>2 DEF Lists
  <2>8. Joined(ix, wr) = entries /\ WellJoined(ix, db, wr)
    BY <2>2, <2>3, <2>4, <2>7, Zenon DEF wr
  <2> QED
    BY <1>1, <2>3, <2>8, Zenon DEF CodeInv, ix, db, wr, LastBytes
<1>6. CASE hashedKeys = <<>>
  <2>1. KeepBlock(b) /\ ix = InsertIndex(prevKey, prevBlockOffset, prevBlockSize)
    BY <1>6 DEF Finish, b
  <2>2. /\ dataBlock' = dataBlock /\ blockPrevKey' = blockPrevKey
        /\ blockKeys' = blockKeys /\ dataBuf' = dataBuf /\ written' = written
    BY <1>4, <2>1 DEF KeepBlock, b
  <2> HIDE DEF ix
  <2>3. WellJoined(ix, dataBuf, written) /\ Joined(ix, written) = entries
    BY <1>1, <1>3, <1>6, <2>1, ListLastCode
  <2> QED
    BY <1>1, <1>2, <2>2, <2>3, Zenon DEF CodeInv, ix, LastBytes
<1> QED
  BY <1>5, <1>6

LEMMA CodeNext == CodeInv /\ [Next]_vars => CodeInv'
<1> SUFFICES ASSUME CodeInv, [Next]_vars PROVE CodeInv'
  OBVIOUS
<1>1. TileInv'
  BY TileNext DEF CodeInv
<1>2. CASE UNCHANGED vars
  <2>1. /\ entries' = entries /\ dataBlock' = dataBlock /\ dataBuf' = dataBuf
        /\ written' = written /\ blockKeys' = blockKeys /\ index' = index
        /\ blockPrevKey' = blockPrevKey /\ finished' = finished
        /\ prevBlockOffset' = prevBlockOffset
    BY <1>2 DEF vars
  <2> QED
    BY <1>1, <2>1 DEF CodeInv
<1> QED
  BY <1>1, <1>2, AppendCodes, FinishCodes DEF Next

\* What is written is read back: every block alone, and all blocks read as one,
\* although the writer forgets the last key of a block where the next one begins
\* and the reader does not (refreshBlock of sst_writer.go, ReadBlockData).
THEOREM ReadsBack == Spec => []BlocksReadBack
<1>1. CodeInv => BlocksReadBack
  <2> SUFFICES ASSUME CodeInv PROVE BlocksReadBack
    OBVIOUS
  <2>1. TypeOK
    BY DEF CodeInv, TileInv
  <2>2. ASSUME NEW o \in DOMAIN dataBuf
        PROVE  ReadBlockData(dataBuf[o]) =
                   [i \in DOMAIN written[o] |-> Bytes[written[o][i]]]
    <3>1. /\ dataBuf[o] \in Seq(Record) /\ written[o] \in Seq(Keys)
          /\ Encoded(dataBuf[o], written[o])
      BY <2>1 DEF TypeOK, CodeInv
    <3> QED
      BY <3>1, EncodedReadBack
  <2>3. ASSUME finished
        PROVE  ReadBlockData(FlattenSeq([i \in DOMAIN index |-> dataBuf[index[i].offset]]))
                   = [i \in DOMAIN entries |-> Bytes[entries[i]]]
    <3>1. /\ Joined(index, dataBuf) \in Seq(Record) /\ entries \in Seq(Keys)
          /\ Encoded(Joined(index, dataBuf), entries)
      BY <2>3 DEF CodeInv, WellJoined
    <3>2. ReadBlockData(Joined(index, dataBuf)) = [i \in DOMAIN entries |-> Bytes[entries[i]]]
      BY <3>1, EncodedReadBack
    <3> QED
      BY <3>2 DEF Joined, At
  <2> QED
    BY <2>2, <2>3 DEF BlocksReadBack
<1> QED
  BY <1>1, CodeInit, CodeNext, PTL DEF Spec

-----------------------------------------------------------------------------
(* Finding a key in a file.                                                *)

\* The block that has to have a key: the first that ends at or after it, or
\* the last block.
Target(key, p) ==
    /\ p \in Blocks
    /\ \A i \in Blocks : i < p => index[i].key < key
    /\ \A i \in Blocks : p <= i /\ i < Len(index) => ~ (index[i].key < key)

LEMMA FileFacts ==
    ASSUME SliceInv, finished
    PROVE  /\ Len(index) \in Nat /\ Len(index) > 0 /\ Blocks = DOMAIN index
           /\ {1, Len(index)} \subseteq Blocks
           /\ \A i \in Blocks : index[i].key \in Nat
           /\ \A i, j \in Blocks : i < j => index[i].key < index[j].key
           /\ \A i \in Blocks : index[i].offset \in DOMAIN dataBuf
           /\ \A i \in Blocks : ToSet(written[index[i].offset]) = Slice(index, i, Entries)
           /\ \A k \in Entries : k \in Nat /\ k <= index[Len(index)].key
<1>1. /\ index \in Seq(IndexEntry) /\ index # <<>> /\ Sliced(index, written, Entries)
      /\ Rest(index, Entries) = {} /\ DOMAIN dataBuf = Offsets(index)
  BY DEF SliceInv, TileInv, Tiled
<1>2. /\ Len(index) \in Nat /\ Len(index) > 0 /\ Blocks = DOMAIN index
      /\ {1, Len(index)} \subseteq Blocks
  BY <1>1 DEF Blocks
<1>3. ASSUME NEW i \in Blocks PROVE index[i].key \in Nat
  <2>1. index[i] \in IndexEntry
    BY <1>1, <1>2
  <2> QED
    BY <2>1, SSTableAssumption DEF IndexEntry, Keys
<1>4. \A k \in Entries : k \in Nat
  BY KeysBelow DEF Keys
<1>5. ASSUME NEW k \in Entries PROVE k <= index[Len(index)].key
  <2>1. ~ (index[Len(index)].key < k)
    BY <1>1 DEF Rest
  <2>2. index[Len(index)].key \in Nat /\ k \in Nat
    BY <1>2, <1>3, <1>4
  <2> QED
    BY <2>1, <2>2
<1>6. \A i \in Blocks : index[i].offset \in DOMAIN dataBuf
  BY <1>1, <1>2 DEF Offsets
<1> QED
  BY <1>1, <1>2, <1>3, <1>4, <1>5, <1>6 DEF Sliced

LEMMA TargetExists ==
    ASSUME SliceInv, finished, NEW key \in Nat
    PROVE  \E p : Target(key, p)
<1> DEFINE N == Len(index)
           S == {p \in Blocks : p = N \/ ~ (index[p].key < key)}
<1>1. /\ N \in Nat /\ N \in Blocks /\ Blocks = 1 .. N
      /\ \A i \in Blocks : index[i].key \in Nat
      /\ \A i, j \in Blocks : i < j => index[i].key < index[j].key
  BY FileFacts DEF Blocks
<1> HIDE DEF N
<1>2. PICK p \in S : \A i \in S : p <= i
  <2>1. N \in S /\ S \subseteq Nat
    BY <1>1
  <2> HIDE DEF S
  <2> QED
    BY <2>1, NatMin
<1>3. p \in Blocks /\ (p = N \/ ~ (index[p].key < key))
  OBVIOUS
<1>4. ASSUME NEW i \in Blocks, i < p PROVE index[i].key < key
  <2>1. i \notin S
    <3> HIDE DEF S
    <3>1. i \in Nat /\ p \in Nat
      BY <1>1, <1>3
    <3> QED
      BY <1>2, <1>4, <3>1
  <2> QED
    BY <2>1
<1>5. ASSUME NEW i \in Blocks, p <= i, i < N PROVE ~ (index[i].key < key)
  <2>1. p # N /\ p \in Nat /\ i \in Nat
    BY <1>1, <1>3, <1>5
  <2>2. ~ (index[p].key < key)
    BY <1>3, <2>1
  <2>3. i = p \/ index[p].key < index[i].key
    BY <1>1, <1>3, <1>5, <2>1
  <2>4. index[p].key \in Nat /\ index[i].key \in Nat
    BY <1>1, <1>3
  <2> QED
    BY <2>2, <2>3, <2>4
<1> QED
  BY <1>3, <1>4, <1>5 DEF Target, N

Mid(a, b) == a + (b - a) \div 2
BinaryStep(key, h) ==
    [r \in Blocks \X Blocks |->
        LET mid == r[1] + (r[2] - r[1]) \div 2
        IN  IF r[1] = r[2] THEN r[1]
            ELSE IF index[mid].key < key THEN h[<<mid + 1, r[2]>>]
            ELSE h[<<r[1], mid>>]]
FirstStep(key, h) ==
    [r \in Blocks \X Blocks |->
        LET mid == r[1] + (r[2] - r[1]) \div 2
        IN  IF r[1] >= r[2] THEN r[1]
            ELSE IF index[mid].key < key THEN h[<<mid + 1, r[2]>>]
            ELSE h[<<r[1], mid>>]]

\* Each halving stays between the ends.
LEMMA Halves ==
    ASSUME NEW a \in Nat, NEW b \in Nat
    PROVE  /\ Mid(a, b) \in Int
           /\ a < b => a <= Mid(a, b) /\ Mid(a, b) < b
           /\ a > b => b <= Mid(a, b) /\ Mid(a, b) < a
<1> DEFINE d == b - a
           q == d \div 2
<1>1. d \in Int
  OBVIOUS
<1>2. q \in Int /\ 2 * q <= d /\ d <= 2 * q + 1
  BY <1>1
<1>3. Mid(a, b) = a + q
  BY DEF Mid
<1> HIDE DEF q
<1> QED
  BY <1>1, <1>2, <1>3

\* The recursion between a and b, for a search that halves.
Halving(key, h, a, b) ==
    IF index[Mid(a, b)].key < key THEN h[<<Mid(a, b) + 1, b>>] ELSE h[<<a, Mid(a, b)>>]

\* What the two searches do between a and b.
StepAt(key, h, a, b) ==
    /\ BinaryStep(key, h)[<<a, b>>] = IF a = b THEN a ELSE Halving(key, h, a, b)
    /\ FirstStep(key, h)[<<a, b>>] = IF a >= b THEN a ELSE Halving(key, h, a, b)

LEMMA StepsAre ==
    ASSUME NEW key, NEW h, NEW a \in Blocks, NEW b \in Blocks
    PROVE  StepAt(key, h, a, b)
<1> DEFINE r == <<a, b>>
<1>1. r \in Blocks \X Blocks /\ r[1] = a /\ r[2] = b
  OBVIOUS
<1> HIDE DEF r
<1>2. BinaryStep(key, h)[r] = IF a = b THEN a ELSE Halving(key, h, a, b)
  BY <1>1, Zenon DEF BinaryStep, Halving, Mid
<1>3. FirstStep(key, h)[r] = IF a >= b THEN a ELSE Halving(key, h, a, b)
  BY <1>1, Zenon DEF FirstStep, Halving, Mid
<1> QED
  BY <1>2, <1>3, Zenon DEF r, StepAt

Clip(p, a, b) == IF p < a THEN a ELSE IF b < p THEN b ELSE p

\* The half a search goes on in holds the target, as far as it is between the
\* ends at all.
LEMMA ClipHalves ==
    ASSUME SliceInv, finished, NEW key \in Nat, NEW p, Target(key, p),
           NEW a \in Blocks, NEW b \in Blocks, a < b
    PROVE  LET mid == Mid(a, b)
           IN  /\ mid \in Blocks /\ mid + 1 \in Blocks /\ a <= mid /\ mid + 1 <= b
               /\ index[mid].key < key => Clip(p, mid + 1, b) = Clip(p, a, b)
               /\ ~ (index[mid].key < key) => Clip(p, a, mid) = Clip(p, a, b)
<1> DEFINE mid == Mid(a, b)
           N == Len(index)
<1>1. N \in Nat /\ Blocks = 1 .. N
  BY FileFacts DEF Blocks
<1> HIDE DEF N
<1>2. mid \in Int /\ a <= mid /\ mid < b
  BY <1>1, Halves
<1> HIDE DEF mid
<1>3. mid \in Blocks /\ mid + 1 \in Blocks /\ mid + 1 <= b /\ mid < N
  BY <1>1, <1>2
<1>4. p \in 1 .. N /\ a \in 1 .. N /\ b \in 1 .. N
  BY <1>1 DEF Target
<1>5. ASSUME index[mid].key < key PROVE Clip(p, mid + 1, b) = Clip(p, a, b)
  <2>1. ~ (p <= mid)
    BY <1>3, <1>5 DEF Target, N
  <2> QED
    BY <1>1, <1>2, <1>4, <2>1 DEF Clip
<1>6. ASSUME ~ (index[mid].key < key) PROVE Clip(p, a, mid) = Clip(p, a, b)
  <2>1. ~ (mid < p)
    BY <1>3, <1>6 DEF Target
  <2> QED
    BY <1>1, <1>2, <1>4, <2>1 DEF Clip
<1> QED
  BY <1>2, <1>3, <1>5, <1>6 DEF mid

\* A search that halves finds the target.
LEMMA HalvingFinds ==
    ASSUME SliceInv, finished, NEW key \in Nat, NEW p, Target(key, p), NEW h,
           \A a, b \in Blocks : a <= b =>
              h[<<a, b>>] = IF a = b THEN a ELSE Halving(key, h, a, b)
    PROVE  h[<<1, Len(index)>>] = p
<1> DEFINE N == Len(index)
           Wrong(a, b) == a <= b /\ h[<<a, b>>] # Clip(p, a, b)
           D == {n \in Nat : \E a, b \in Blocks : b - a = n /\ Wrong(a, b)}
<1>1. N \in Nat /\ Blocks = 1 .. N /\ N > 0 /\ p \in 1 .. N
  BY FileFacts DEF Blocks, Target
<1> HIDE DEF N
<1>2. D = {}
  <2> SUFFICES ASSUME D # {} PROVE FALSE
    OBVIOUS
  <2>1. PICK n \in D : \A k \in D : n <= k
    <3>1. D \subseteq Nat
      OBVIOUS
    <3> HIDE DEF D
    <3> QED
      BY <3>1, NatMin
  <2>2. PICK a \in Blocks, b \in Blocks : b - a = n /\ Wrong(a, b)
    OBVIOUS
  <2>3. a \in 1 .. N /\ b \in 1 .. N /\ a <= b /\ n \in Nat
    BY <1>1, <2>2
  <2>4. CASE a = b
    <3>1. h[<<a, b>>] = a
      BY <2>3, <2>4
    <3>2. Clip(p, a, b) = a
      BY <1>1, <2>3, <2>4 DEF Clip
    <3> QED
      BY <2>2, <3>1, <3>2
  <2>5. CASE a # b
    <3> DEFINE mid == Mid(a, b)
    <3>1. a < b
      BY <2>3, <2>5
    <3>2. h[<<a, b>>] = Halving(key, h, a, b)
      BY <2>3, <2>5
    <3>3. /\ mid \in Blocks /\ mid + 1 \in Blocks /\ a <= mid /\ mid + 1 <= b
          /\ index[mid].key < key => Clip(p, mid + 1, b) = Clip(p, a, b)
          /\ ~ (index[mid].key < key) => Clip(p, a, mid) = Clip(p, a, b)
      BY <3>1, ClipHalves
    <3>4. h[<<a, b>>] = IF index[mid].key < key THEN h[<<mid + 1, b>>] ELSE h[<<a, mid>>]
      BY <3>2 DEF Halving
    <3> HIDE DEF mid
    <3>5. mid \in 1 .. N
      BY <1>1, <3>3
    <3>6. ~ Wrong(mid + 1, b)
      <4> SUFFICES ASSUME Wrong(mid + 1, b) PROVE FALSE
        OBVIOUS
      <4>1. b - (mid + 1) \in Nat /\ b - (mid + 1) < n
        BY <2>2, <2>3, <3>3, <3>5
      <4> HIDE DEF Wrong
      <4>2. b - (mid + 1) \in D
        BY <3>3, <4>1
      <4> HIDE DEF D
      <4>3. n <= b - (mid + 1)
        BY <2>1, <4>2
      <4> QED
        BY <2>3, <4>1, <4>3
    <3>7. ~ Wrong(a, mid)
      <4> SUFFICES ASSUME Wrong(a, mid) PROVE FALSE
        OBVIOUS
      <4>1. mid - a \in Nat /\ mid - a < n
        BY <2>2, <2>3, <3>3, <3>5
      <4> HIDE DEF Wrong
      <4>2. mid - a \in D
        BY <3>3, <4>1
      <4> HIDE DEF D
      <4>3. n <= mid - a
        BY <2>1, <4>2
      <4> QED
        BY <2>3, <4>1, <4>3
    <3>8. CASE index[mid].key < key
      BY <2>2, <3>3, <3>4, <3>6, <3>8, Zenon
    <3>9. CASE ~ (index[mid].key < key)
      BY <2>2, <3>3, <3>4, <3>7, <3>9, Zenon
    <3> QED
      BY <3>8, <3>9
  <2> QED
    BY <2>4, <2>5
<1>3. N - 1 \in Nat /\ 1 \in Blocks /\ N \in Blocks /\ 1 <= N
  BY <1>1
<1>4. ~ Wrong(1, N)
  <2> HIDE DEF Wrong
  <2> QED
    BY <1>2, <1>3
<1>5. Clip(p, 1, N) = p
  BY <1>1 DEF Clip
<1> QED
  BY <1>3, <1>4, <1>5 DEF N

\* Both searches land on the block that has to have the key.
LEMMA SearchesLand ==
    ASSUME SliceInv, finished, NEW key \in Nat, NEW p, Target(key, p)
    PROVE  binarySearchIndex(key) = p /\ findFirstBlock(key) = p
<1> DEFINE N == Len(index)
           R == Blocks \X Blocks
<1>1. N \in Nat /\ Blocks = 1 .. N /\ N > 0 /\ p \in 1 .. N
  BY FileFacts DEF Blocks, Target
<1>2. ASSUME NEW a \in Blocks, NEW b \in Blocks, a > b
      PROVE  LET mid == Mid(a, b)
             IN  mid \in Blocks /\ mid + 1 \in Blocks /\ mid + 1 > b /\ a > mid
  <2> HIDE DEF N
  <2>1. Mid(a, b) \in Int /\ b <= Mid(a, b) /\ Mid(a, b) < a
    <3>1. a \in Nat /\ b \in Nat
      BY <1>1
    <3>2. /\ Mid(a, b) \in Int
          /\ a > b => b <= Mid(a, b) /\ Mid(a, b) < a
      BY <3>1, Halves, Zenon
    <3> QED
      BY <1>2, <3>2
  <2> QED
    BY <1>1, <1>2, <2>1
<1>3. \A r \in R : /\ r = <<r[1], r[2]>> /\ r[1] \in Blocks /\ r[2] \in Blocks
  OBVIOUS
<1>4. binarySearchIndex(key) = p
  <2> DEFINE g == [r \in R |-> IF r[1] <= r[2] THEN Clip(p, r[1], r[2]) ELSE 1]
  <2>1. \A a, b \in Blocks : g[<<a, b>>] = IF a <= b THEN Clip(p, a, b) ELSE 1
    <3> TAKE a, b \in Blocks
    <3>1. <<a, b>> \in R /\ <<a, b>>[1] = a /\ <<a, b>>[2] = b
      OBVIOUS
    <3> QED
      BY <3>1, Zenon
  <2>2. g = [r \in R |-> g[r]]
    OBVIOUS
  <2> HIDE DEF g
  <2>3. ASSUME NEW a \in Blocks, NEW b \in Blocks
        PROVE  g[<<a, b>>] = BinaryStep(key, g)[<<a, b>>]
    <3> DEFINE mid == Mid(a, b)
    <3>1. BinaryStep(key, g)[<<a, b>>] = IF a = b THEN a ELSE Halving(key, g, a, b)
      <4>1. StepAt(key, g, a, b)
        BY StepsAre
      <4> QED
        BY <4>1, Zenon DEF StepAt
    <3>2. Halving(key, g, a, b) =
              IF index[mid].key < key THEN g[<<mid + 1, b>>] ELSE g[<<a, mid>>]
      BY DEF Halving
    <3>3. CASE a = b
      <4>1. a <= b /\ Clip(p, a, b) = a
        BY <1>1, <3>3 DEF Clip
      <4> QED
        BY <2>1, <3>1, <3>3, <4>1, Zenon
    <3>4. CASE a < b
      <4>1. /\ mid \in Blocks /\ mid + 1 \in Blocks /\ a <= mid /\ mid + 1 <= b
            /\ index[mid].key < key => Clip(p, mid + 1, b) = Clip(p, a, b)
            /\ ~ (index[mid].key < key) => Clip(p, a, mid) = Clip(p, a, b)
        BY <3>4, ClipHalves
      <4>2. a # b /\ a <= b
        BY <1>1, <3>4
      <4> HIDE DEF mid
      <4>3. /\ g[<<a, b>>] = Clip(p, a, b)
            /\ g[<<mid + 1, b>>] = Clip(p, mid + 1, b)
            /\ g[<<a, mid>>] = Clip(p, a, mid)
        BY <2>1, <4>1, <4>2, Zenon
      <4> QED
        BY <3>1, <3>2, <4>1, <4>2, <4>3, Zenon
    <3>5. CASE a > b
      <4>1. mid \in Blocks /\ mid + 1 \in Blocks /\ mid + 1 > b /\ a > mid
        BY <1>2, <3>5
      <4> HIDE DEF mid
      <4>2. a # b /\ ~ (a <= b) /\ ~ (mid + 1 <= b) /\ ~ (a <= mid)
        BY <1>1, <3>5, <4>1
      <4>3. g[<<a, b>>] = 1 /\ g[<<mid + 1, b>>] = 1 /\ g[<<a, mid>>] = 1
        BY <2>1, <4>1, <4>2, Zenon
      <4> QED
        BY <3>1, <3>2, <4>2, <4>3, Zenon
    <3> QED
      BY <1>1, <3>3, <3>4, <3>5
  <2>4. g = BinaryStep(key, g)
    <3>1. \A r \in R : g[r] = BinaryStep(key, g)[r]
      BY <1>3, <2>3, Zenon
    <3>2. BinaryStep(key, g) = [r \in R |-> BinaryStep(key, g)[r]]
      BY DEF BinaryStep
    <3> HIDE DEF R
    <3> QED
      BY <2>2, <3>1, <3>2
  <2> DEFINE h == CHOOSE x : x = BinaryStep(key, x)
  <2>5. h = BinaryStep(key, h)
    BY <2>4
  <2>6. binarySearchIndex(key) = h[<<1, Len(index)>>]
    BY DEF binarySearchIndex, BinaryStep
  <2> HIDE DEF h
  <2>7. \A a, b \in Blocks : a <= b =>
           h[<<a, b>>] = IF a = b THEN a ELSE Halving(key, h, a, b)
    <3> TAKE a, b \in Blocks
    <3>1. StepAt(key, h, a, b)
      BY StepsAre
    <3> QED
      BY <2>5, <3>1, Zenon DEF StepAt
  <2> QED
    BY <2>6, <2>7, HalvingFinds
<1>5. findFirstBlock(key) = p
  <2> DEFINE g == [r \in R |-> IF r[1] <= r[2] THEN Clip(p, r[1], r[2]) ELSE r[1]]
  <2>1. \A a, b \in Blocks : g[<<a, b>>] = IF a <= b THEN Clip(p, a, b) ELSE a
    <3> TAKE a, b \in Blocks
    <3>1. <<a, b>> \in R /\ <<a, b>>[1] = a /\ <<a, b>>[2] = b
      OBVIOUS
    <3> QED
      BY <3>1, Zenon
  <2>2. g = [r \in R |-> g[r]]
    OBVIOUS
  <2> HIDE DEF g
  <2>3. ASSUME NEW a \in Blocks, NEW b \in Blocks
        PROVE  g[<<a, b>>] = FirstStep(key, g)[<<a, b>>]
    <3> DEFINE mid == Mid(a, b)
    <3>1. FirstStep(key, g)[<<a, b>>] = IF a >= b THEN a ELSE Halving(key, g, a, b)
      <4>1. StepAt(key, g, a, b)
        BY StepsAre
      <4> QED
        BY <4>1, Zenon DEF StepAt
    <3>2. Halving(key, g, a, b) =
              IF index[mid].key < key THEN g[<<mid + 1, b>>] ELSE g[<<a, mid>>]
      BY DEF Halving
    <3>3. CASE a = b
      <4>1. a >= b /\ a <= b /\ Clip(p, a, b) = a
        BY <1>1, <3>3 DEF Clip
      <4> QED
        BY <2>1, <3>1, <4>1, Zenon
    <3>4. CASE a < b
      <4>1. /\ mid \in Blocks /\ mid + 1 \in Blocks /\ a <= mid /\ mid + 1 <= b
            /\ index[mid].key < key => Clip(p, mid + 1, b) = Clip(p, a, b)
            /\ ~ (index[mid].key < key) => Clip(p, a, mid) = Clip(p, a, b)
        BY <3>4, ClipHalves
      <4>2. ~ (a >= b) /\ a <= b
        BY <1>1, <3>4
      <4> HIDE DEF mid
      <4>3. /\ g[<<a, b>>] = Clip(p, a, b)
            /\ g[<<mid + 1, b>>] = Clip(p, mid + 1, b)
            /\ g[<<a, mid>>] = Clip(p, a, mid)
        BY <2>1, <4>1, <4>2, Zenon
      <4> QED
        BY <3>1, <3>2, <4>1, <4>2, <4>3, Zenon
    <3>5. CASE a > b
      <4>1. a >= b /\ ~ (a <= b)
        BY <1>1, <3>5
      <4> QED
        BY <2>1, <3>1, <4>1, Zenon
    <3> QED
      BY <1>1, <3>3, <3>4, <3>5
  <2>4. g = FirstStep(key, g)
    <3>1. \A r \in R : g[r] = FirstStep(key, g)[r]
      BY <1>3, <2>3, Zenon
    <3>2. FirstStep(key, g) = [r \in R |-> FirstStep(key, g)[r]]
      BY DEF FirstStep
    <3> HIDE DEF R
    <3> QED
      BY <2>2, <3>1, <3>2
  <2> DEFINE h == CHOOSE x : x = FirstStep(key, x)
  <2>5. h = FirstStep(key, h)
    BY <2>4
  <2>6. findFirstBlock(key) = h[<<1, Len(index)>>]
    BY DEF findFirstBlock, FirstStep
  <2> HIDE DEF h
  <2>7. ASSUME NEW a \in Blocks, NEW b \in Blocks, a <= b
        PROVE  h[<<a, b>>] = IF a = b THEN a ELSE Halving(key, h, a, b)
    <3>1. h[<<a, b>>] = IF a >= b THEN a ELSE Halving(key, h, a, b)
      <4>1. FirstStep(key, h)[<<a, b>>] =
                IF a >= b THEN a ELSE Halving(key, h, a, b)
        <5>1. StepAt(key, h, a, b)
          BY StepsAre
        <5> QED
          BY <5>1, Zenon DEF StepAt
      <4> QED
        BY <2>5, <4>1, Zenon
    <3>2. a >= b <=> a = b
      BY <1>1, <2>7
    <3> QED
      BY <3>1, <3>2, Zenon
  <2> QED
    BY <2>6, <2>7, HalvingFinds
<1> QED
  BY <1>4, <1>5

\* What is read from a block is what was written into it.
LEMMA ReadBlockIs ==
    ASSUME CodeInv, NEW o \in DOMAIN dataBuf
    PROVE  ReadBlock(o) = ToSet(written[o])
<1>1. /\ dataBuf[o] \in Seq(Record) /\ written[o] \in Seq(Keys)
      /\ Encoded(dataBuf[o], written[o])
  BY DEF CodeInv, TileInv, TypeOK
<1> DEFINE keys == written[o]
           read == ReadBlockData(dataBuf[o])
<1>2. read = [i \in DOMAIN keys |-> Bytes[keys[i]]]
  BY <1>1, EncodedReadBack
<1>3. ReadBlock(o) = {k \in Keys : \E i \in DOMAIN read : read[i] = Bytes[k]}
  BY DEF ReadBlock
<1>4. \A i \in DOMAIN keys : keys[i] \in Keys
  BY <1>1
<1> HIDE DEF keys, read
<1>5. ASSUME NEW k \in Keys
      PROVE  (\E i \in DOMAIN read : read[i] = Bytes[k]) <=> k \in ToSet(keys)
  <2>1. DOMAIN read = DOMAIN keys /\ \A i \in DOMAIN keys : read[i] = Bytes[keys[i]]
    BY <1>2
  <2>2. \A i \in DOMAIN keys : Bytes[keys[i]] = Bytes[k] <=> keys[i] = k
    BY <1>4, SSTableAssumption
  <2> QED
    BY <2>1, <2>2 DEF ToSet
<1>6. ToSet(keys) \subseteq Keys
  BY <1>4 DEF ToSet
<1> QED
  BY <1>3, <1>5, <1>6 DEF keys

\* Every entry is in the block that the searches land on.
LEMMA EntryInTarget ==
    ASSUME SliceInv, finished, NEW k \in Entries, NEW p, Target(k, p)
    PROVE  k <= index[p].key /\ k \in ToSet(written[index[p].offset])
<1> DEFINE N == Len(index)
<1>1. /\ N \in Nat /\ Blocks = 1 .. N /\ p \in Blocks /\ k \in Nat /\ k <= index[N].key
      /\ index[p].key \in Nat
      /\ ToSet(written[index[p].offset]) = Slice(index, p, Entries)
  BY FileFacts DEF Blocks, Target
<1> HIDE DEF N
<1>2. k <= index[p].key
  <2>1. CASE p = N
    BY <1>1, <2>1
  <2>2. CASE p # N
    <3>1. p <= p /\ p < N
      BY <1>1, <2>2
    <3>2. ~ (index[p].key < k)
      BY <1>1, <3>1 DEF Target, N
    <3> QED
      BY <1>1, <3>2
  <2> QED
    BY <2>1, <2>2
<1>3. p > 1 => index[p - 1].key < k
  <2>1. p > 1 => p - 1 \in Blocks /\ p - 1 < p
    BY <1>1
  <2> QED
    BY <2>1 DEF Target
<1>4. k \in Slice(index, p, Entries)
  BY <1>2, <1>3 DEF Slice
<1> QED
  BY <1>1, <1>2, <1>4

ReadInv == SliceInv /\ CodeInv /\ NoFalseNegative

LEMMA ReadInvHolds == Spec => []ReadInv
<1>1. Spec => []SliceInv
  BY SliceInit, SliceNext, PTL DEF Spec
<1>2. Spec => []CodeInv
  BY CodeInit, CodeNext, PTL DEF Spec
<1> QED
  BY <1>1, <1>2, FilterCorrect, PTL DEF ReadInv

\* A finished file gives back the keys it was given and no other (Node.Get,
\* node.go): the binary search lands on the block that has the key, the filter of
\* the block does not deny it, and the block is read as it was written.
THEOREM Found == Spec => []GetExact
<1>1. ReadInv => GetExact
  <2> SUFFICES ASSUME ReadInv, finished, NEW k \in Keys
               PROVE  Get(k) <=> k \in Entries
    BY DEF GetExact
  <2>1. SliceInv /\ CodeInv /\ NoFalseNegative /\ k \in Nat
    BY SSTableAssumption DEF ReadInv, Keys
  <2>2. PICK p : Target(k, p)
    BY <2>1, TargetExists
  <2>3. binarySearchIndex(k) = p
    BY <2>1, <2>2, SearchesLand
  <2> DEFINE o == index[p].offset
  <2>4. Get(k) <=> /\ index[p].key >= k
                   /\ Exist(blockToFilter[o], sum32[k])
                   /\ k \in ReadBlock(o)
    BY <2>3, Zenon DEF Get
  <2>5. o \in DOMAIN dataBuf /\ ToSet(written[o]) = Slice(index, p, Entries)
        /\ index[p].key \in Nat
    BY <2>1, <2>2, FileFacts DEF Target
  <2> HIDE DEF o
  <2>6. ReadBlock(o) = ToSet(written[o])
    BY <2>1, <2>5, ReadBlockIs
  <2>7. Get(k) => k \in Entries
    BY <2>4, <2>5, <2>6 DEF Slice
  <2>8. ASSUME k \in Entries PROVE Get(k)
    <3>1. k <= index[p].key /\ k \in ToSet(written[o])
      BY <2>1, <2>2, <2>8, EntryInTarget DEF o
    <3>2. DOMAIN dataBuf = DOMAIN blockToFilter
      BY <2>1 DEF CodeInv, TileInv, TypeOK
    <3>3. Exist(blockToFilter[o], sum32[k])
      BY <2>1, <2>5, <3>1, <3>2 DEF NoFalseNegative, ToSet
    <3>4. index[p].key >= k
      BY <2>1, <2>5, <3>1
    <3> QED
      BY <2>4, <2>6, <3>1, <3>3, <3>4, Zenon
  <2> QED
    BY <2>7, <2>8
<1> QED
  BY <1>1, ReadInvHolds, PTL

\* A range that ends above the start key of the file is read exactly: the loop
\* begins at the first block that can have a key of it and does not end before
\* the last one (Node.GetRange, node.go).
THEOREM RangeFound == Spec => []GetRangeExactAboveStart
<1>1. ReadInv => GetRangeExactAboveStart
  <2> SUFFICES ASSUME ReadInv, finished, NEW lo \in Keys, NEW hi \in 0 .. MaxKey + 1,
                      hi > StartKey
               PROVE  GetRange(lo, hi) = {k \in Entries : lo <= k /\ k < hi}
    BY DEF GetRangeExactAboveStart
  <2> DEFINE N == Len(index)
             In == {k \in Entries : lo <= k /\ k < hi}
  <2>1. /\ SliceInv /\ CodeInv /\ lo \in Nat /\ hi \in Nat
    BY SSTableAssumption DEF ReadInv, Keys
  <2>2. /\ N \in Nat /\ Blocks = 1 .. N /\ 1 \in Blocks /\ N \in Blocks
        /\ \A i \in Blocks : index[i].key \in Nat /\ index[i].offset \in DOMAIN dataBuf
        /\ \A i \in Blocks : ToSet(written[index[i].offset]) = Slice(index, i, Entries)
        /\ \A k \in Entries : k \in Nat /\ k <= index[N].key
    BY <2>1, FileFacts DEF Blocks
  <2>3. \A i \in Blocks : ReadBlock(index[i].offset) = Slice(index, i, Entries)
    BY <2>1, <2>2, ReadBlockIs
  <2>4. CASE Excluded(lo, hi)
    <3>1. lo > index[N].key
      BY <2>1, <2>2, <2>4 DEF Excluded, StartKey, EndKey
    <3>2. In = {}
      BY <2>1, <2>2, <3>1
    <3> QED
      BY <2>4, <3>2 DEF GetRange
  <2>5. CASE ~ Excluded(lo, hi)
    <3> DEFINE f == findFirstBlock(lo)
               I == {j \in f .. N : \A n \in f .. j - 1 : GoesOn(n, hi)}
    <3>1. GetRange(lo, hi) = {k \in UNION {ReadBlock(index[i].offset) : i \in I} :
                                 lo <= k /\ k < hi}
      BY <2>5, Zenon DEF GetRange
    <3>2. PICK p : Target(lo, p)
      BY <2>1, TargetExists
    <3>3. f = p
      BY <2>1, <3>2, SearchesLand
    <3> HIDE DEF f
    <3>4. p \in 1 .. N /\ \A i \in Blocks : i < p => index[i].key < lo
      BY <2>2, <3>2 DEF Target
    <3> HIDE DEF N
    <3>5. I \subseteq Blocks
      BY <2>2, <3>3, <3>4
    <3>6. \A i \in I : ReadBlock(index[i].offset) \subseteq Entries
      BY <2>3, <3>5 DEF Slice
    <3>7. ASSUME NEW k \in In
          PROVE  \E i \in I : k \in ReadBlock(index[i].offset)
      <4>1. k \in Entries /\ k \in Nat /\ lo <= k /\ k < hi
        BY <2>2
      <4>2. PICK i : Target(k, i)
        BY <2>1, <4>1, TargetExists
      <4>3. k <= index[i].key /\ k \in ToSet(written[index[i].offset])
        BY <2>1, <4>1, <4>2, EntryInTarget
      <4>4. i \in 1 .. N /\ \A n \in Blocks : n < i => index[n].key < k
        BY <2>2, <4>2 DEF Target
      <4>5. ~ (i < p)
        <5> SUFFICES ASSUME i < p PROVE FALSE
          OBVIOUS
        <5>1. index[i].key < lo /\ index[i].key \in Nat
          BY <2>2, <3>4, <4>4
        <5> QED
          BY <2>1, <4>1, <4>3, <5>1
      <4>6. i \in p .. N
        BY <2>2, <3>4, <4>4, <4>5
      <4>7. ASSUME NEW n \in p .. i - 1 PROVE GoesOn(n, hi)
        <5>1. n \in Blocks /\ n < i
          BY <2>2, <3>4, <4>4, <4>7
        <5>2. index[n].key < k /\ index[n].key \in Nat
          BY <2>2, <4>4, <5>1
        <5> QED
          BY <2>1, <4>1, <5>2 DEF GoesOn
      <4>8. i \in I
        BY <3>3, <4>6, <4>7
      <4>9. i \in Blocks
        BY <2>2, <4>4
      <4> QED
        BY <2>2, <2>3, <4>3, <4>8, <4>9
    <3> HIDE DEF I
    <3> QED
      BY <3>1, <3>6, <3>7
  <2> QED
    BY <2>4, <2>5
<1> QED
  BY <1>1, ReadInvHolds, PTL
=============================================================================
