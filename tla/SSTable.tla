------------------------------ MODULE SSTable ------------------------------
(***************************************************************************)
(* One SST file: the writer that cuts the sorted entries it is given into  *)
(* data blocks (src/internal/lsm/sst_io/writer/sst_writer.go), and the     *)
(* node that finds them again through the index of block ends and the      *)
(* filter of each block (src/internal/lsm/node/node.go).                   *)
(*                                                                         *)
(* This module composes the writer and the node with Block, which encodes  *)
(* the keys of a block, and BloomFilter.  A key is a number, in the order  *)
(* of bytes.Compare, with the bytes it has in a record.  The size of a     *)
(* record, values included, is chosen by the environment.  The hash        *)
(* murmur3 is external: any of a set of functions.                         *)
(***************************************************************************)
EXTENDS BloomFilter, Block

CONSTANTS
    MaxKey,             \* the keys are 0 .. MaxKey; 0 is the empty key
    Bytes,              \* the bytes of each key
    HashFunctions,      \* what murmur3.Sum32 can be
    RecordSizes,        \* the sizes a record of a data block can have
    SSTDataBlockSize    \* conf.SSTDataBlockSize

Keys == 0 .. MaxKey
EmptyKey == 0

ASSUME SSTableAssumption ==
    /\ MaxKey \in Nat
    /\ Bytes \in [Keys -> Seq(Nat)]
    /\ Bytes[EmptyKey] = <<>>
    /\ \A j, k \in Keys : j # k => Bytes[j] # Bytes[k]
    /\ HashFunctions \subseteq [Keys -> Word]
    /\ RecordSizes \subseteq Nat \ {0}  \* three lengths at least
    /\ SSTDataBlockSize \in Nat

VARIABLES
    sum32,              \* murmur3.Sum32 of each key
    entries,            \* history: the keys appended so far
    dataBlock,          \* the records of the data block being filled
    blockPrevKey,       \* its prevKey
    dataBlockSize,      \* its size
    hashedKeys,         \* the hashes in the filter being filled
    dataBuf,            \* the flushed data blocks: offset -> records
    dataLen,            \* dataBuf.Len()
    blockToFilter,      \* offset of a block -> its bitmap
    index,              \* one entry per block: the last key, offset and size
    prevKey,            \* the last key appended
    prevBlockOffset,    \* offset and size of the last block flushed
    prevBlockSize,
    finished,           \* Finish was called
    blockKeys,          \* history: the keys of the block being filled
    written             \* history: offset of a block -> its keys

vars == <<sum32, entries, dataBlock, blockPrevKey, dataBlockSize, hashedKeys,
          dataBuf, dataLen, blockToFilter, index, prevKey, prevBlockOffset,
          prevBlockSize, finished, blockKeys, written>>

Record == [shared : Nat, suffix : Seq(Nat)]

TypeOK ==
    /\ sum32 \in [Keys -> Word]
    /\ entries \in Seq(Keys) /\ blockKeys \in Seq(Keys)
    /\ dataBlock \in Seq(Record) /\ blockPrevKey \in Seq(Nat)
    /\ dataBlockSize \in Nat /\ dataLen \in Nat
    /\ hashedKeys \in Seq(Word)
    /\ DOMAIN dataBuf \subseteq Nat /\ DOMAIN dataBuf = DOMAIN blockToFilter
    /\ DOMAIN written = DOMAIN blockToFilter
    /\ \A o \in DOMAIN dataBuf :
          /\ dataBuf[o] \in Seq(Record)
          /\ blockToFilter[o] \in Bitmaps
          /\ written[o] \in Seq(Keys)
    /\ index \in Seq([key : Keys, offset : Nat, size : Nat])
    /\ prevKey \in Keys /\ prevBlockOffset \in Nat /\ prevBlockSize \in Nat
    /\ finished \in BOOLEAN

-----------------------------------------------------------------------------
(* Writing.                                                                *)

NoBlock == [o \in {} |-> <<>>]

Init ==
    /\ sum32 \in HashFunctions
    /\ entries = <<>> /\ dataBlock = <<>> /\ blockPrevKey = <<>>
    /\ dataBlockSize = 0 /\ hashedKeys = <<>>
    /\ dataBuf = NoBlock /\ dataLen = 0 /\ blockToFilter = NoBlock
    /\ index = <<>>
    /\ prevKey = EmptyKey /\ prevBlockOffset = 0 /\ prevBlockSize = 0
    /\ finished = FALSE
    /\ blockKeys = <<>> /\ written = NoBlock

\* insertIndex: the entry of the last block flushed, once there is one.
InsertIndex_EmptyKeySkipped(key, offset, size) ==
    IF key = EmptyKey \/ size = 0 THEN index
    ELSE Append(index, [key |-> key, offset |-> offset, size |-> size])
InsertIndex(key, offset, size) ==
    IF key = EmptyKey /\ size = 0 THEN index
    ELSE Append(index, [key |-> key, offset |-> offset, size |-> size])

Put(f, x, y) == [z \in DOMAIN f \cup {x} |-> IF z = x THEN y ELSE f[z]]

\* The block being filled and its filter, as they are and with one more key.
Current ==
    [records |-> dataBlock, prevKey |-> blockPrevKey, size |-> dataBlockSize,
     hashes |-> hashedKeys, keys |-> blockKeys]
WithEntry(k, size) ==
    [records |-> Append(dataBlock, EncodeRecord(blockPrevKey, Bytes[k])),
     prevKey |-> Bytes[k],
     size    |-> dataBlockSize + size,
     hashes  |-> Append(hashedKeys, sum32[k]),
     keys    |-> Append(blockKeys, k)]

\* refreshBlock, with the block and the filter as they are by then.
FlushBlock(b) ==
    /\ prevBlockOffset' = dataLen
    /\ prevBlockSize' = b.size
    /\ blockToFilter' = Put(blockToFilter, dataLen, Hash(b.hashes))
    /\ dataBuf' = Put(dataBuf, dataLen, b.records)
    /\ written' = Put(written, dataLen, b.keys)
    /\ dataLen' = dataLen + b.size
    /\ dataBlock' = <<>> /\ blockPrevKey' = ClearedKey(b.prevKey)
    /\ dataBlockSize' = 0 /\ hashedKeys' = <<>> /\ blockKeys' = <<>>
KeepBlock(b) ==
    /\ dataBlock' = b.records /\ blockPrevKey' = b.prevKey
    /\ dataBlockSize' = b.size /\ hashedKeys' = b.hashes /\ blockKeys' = b.keys
    /\ UNCHANGED <<prevBlockOffset, prevBlockSize, blockToFilter, dataBuf,
                   written, dataLen>>

\* Append of a key with a record of the given size.  The callers append in
\* the order of the keys, each key once: the memtable is sorted, and so is
\* the output of the merge iterators.
AppendEntry(k, size) ==
    /\ ~finished
    /\ \A i \in DOMAIN entries : entries[i] < k
    /\ entries' = Append(entries, k)
    /\ index' = IF dataBlock = <<>>
                THEN InsertIndex(prevKey, prevBlockOffset, prevBlockSize)
                ELSE index
    /\ prevKey' = k
    /\ IF dataBlockSize + size >= SSTDataBlockSize
       THEN FlushBlock(WithEntry(k, size))
       ELSE KeepBlock(WithEntry(k, size))
    /\ UNCHANGED <<sum32, finished>>

\* Finish: the last block, unless it is empty, and its index entry.
Finish ==
    /\ ~finished /\ entries # <<>>
    /\ finished' = TRUE
    /\ IF hashedKeys # <<>>
       THEN /\ FlushBlock(Current)
            /\ index' = InsertIndex(prevKey, dataLen, dataBlockSize)
       ELSE /\ KeepBlock(Current)
            /\ index' = InsertIndex(prevKey, prevBlockOffset, prevBlockSize)
    /\ UNCHANGED <<sum32, entries, prevKey>>

Next == (\E k \in Keys, size \in RecordSizes : AppendEntry(k, size)) \/ Finish

Spec == Init /\ [][Next]_vars

-----------------------------------------------------------------------------
(* Reading a finished file.                                                *)

Blocks == 1 .. Len(index)

StartKey == index[1].key
EndKey == index[Len(index)].key

\* binarySearchIndex: the block that may hold the key, between two positions.
binarySearchIndex_TooLow(key) ==
    LET search[r \in Blocks \X Blocks] ==
            LET mid == r[1] + (r[2] - r[1]) \div 2
            IN  IF r[1] = r[2] THEN r[1]
                ELSE IF index[mid].key <= key THEN search[<<mid + 1, r[2]>>]
                ELSE search[<<r[1], mid>>]
    IN  search[<<1, Len(index)>>]
binarySearchIndex(key) ==
    LET search[r \in Blocks \X Blocks] ==
            LET mid == r[1] + (r[2] - r[1]) \div 2
            IN  IF r[1] = r[2] THEN r[1]
                ELSE IF index[mid].key < key THEN search[<<mid + 1, r[2]>>]
                ELSE search[<<r[1], mid>>]
    IN  search[<<1, Len(index)>>]

\* The keys read from the block at an offset.
ReadBlock(offset) ==
    LET read == ReadBlockData(dataBuf[offset])
    IN  {k \in Keys : \E i \in DOMAIN read : read[i] = Bytes[k]}

\* Node.Get: is the key found?
Get(key) ==
    LET block == index[binarySearchIndex(key)]
    IN  /\ block.key >= key
        /\ Exist(blockToFilter[block.offset], sum32[key])
        /\ key \in ReadBlock(block.offset)

\* findFirstBlock: the first block that ends at or after the key, the last
\* block if there is none.
findFirstBlock_After(key) ==
    LET search[r \in Blocks \X Blocks] ==
            LET mid == r[1] + (r[2] - r[1]) \div 2
            IN  IF r[1] >= r[2] THEN r[1]
                ELSE IF index[mid].key <= key THEN search[<<mid + 1, r[2]>>]
                ELSE search[<<r[1], mid>>]
    IN  search[<<1, Len(index)>>]
findFirstBlock(key) ==
    LET search[r \in Blocks \X Blocks] ==
            LET mid == r[1] + (r[2] - r[1]) \div 2
            IN  IF r[1] >= r[2] THEN r[1]
                ELSE IF index[mid].key < key THEN search[<<mid + 1, r[2]>>]
                ELSE search[<<r[1], mid>>]
    IN  search[<<1, Len(index)>>]

\* The quick exclusion of GetRange.
Excluded(lo, hi) == lo > EndKey \/ hi <= StartKey

\* The loop of GetRange goes on past block i.
GoesOn(i, hi) == index[i].key < hi

\* GetRange(lo, hi): the keys of the half-open interval.
GetRange(lo, hi) ==
    IF Excluded(lo, hi) THEN {}
    ELSE {k \in UNION {ReadBlock(index[i].offset) :
                          i \in {j \in findFirstBlock(lo) .. Len(index) :
                                    \A n \in findFirstBlock(lo) .. j - 1 :
                                        GoesOn(n, hi)}} :
             lo <= k /\ k < hi}

-----------------------------------------------------------------------------
(* Properties.                                                             *)

Entries == {entries[i] : i \in DOMAIN entries}

\* The blocks tile the data: the index lists them in order, without a gap, the
\* last one ends where the data ends, each index key is the last key of its
\* block, and the blocks hold the entries in order.  A flushed block is in the
\* index only once the next one is begun or the file is finished.
IndexTiles ==
    /\ TypeOK
    /\ finished =>
        /\ index # <<>>
        /\ index[1].offset = 0
        /\ \A i \in 1 .. Len(index) - 1 :
              index[i].offset + index[i].size = index[i + 1].offset
        /\ index[Len(index)].offset + index[Len(index)].size = dataLen
        /\ \A i \in DOMAIN index :
              LET keys == written[index[i].offset]
              IN  keys # <<>> /\ index[i].key = keys[Len(keys)]
        /\ DOMAIN dataBuf = {index[i].offset : i \in DOMAIN index}

\* Every block is read back alone as it was written: its first record shares
\* nothing with a key the reader has not seen.  And the blocks read as one, as
\* ReadData does, give all the keys in order, although the reader carries the
\* last key of a block into the next one and the writer does not.
BlocksReadBack ==
    /\ \A o \in DOMAIN dataBuf :
          ReadBlockData(dataBuf[o]) =
              [i \in DOMAIN written[o] |-> Bytes[written[o][i]]]
    /\ finished =>
          ReadBlockData(FlattenSeq([i \in DOMAIN index |-> dataBuf[index[i].offset]]))
              = [i \in DOMAIN entries |-> Bytes[entries[i]]]

\* No key of a block is denied by its filter, whatever the hash function and
\* whatever number of keys determined k.
NoFalseNegative ==
    \A o \in DOMAIN blockToFilter : \A i \in DOMAIN written[o] :
        Exist(blockToFilter[o], sum32[written[o][i]])

\* A finished file gives back every key it was given and no other: the binary
\* search never lands on the wrong block, and no filter denies a key of its
\* block, the empty key and a key alone in the last block included.
GetExact == finished => \A k \in Keys : Get(k) <=> k \in Entries

\* A range that ends above the start key of the node is read exactly: neither
\* the first block nor the last is missed, and the loop does not stop early.
GetRangeExactAboveStart ==
    finished => \A lo \in Keys, hi \in 0 .. MaxKey + 1 : hi > StartKey =>
        GetRange(lo, hi) = {k \in Entries : lo <= k /\ k < hi}

\* What is excluded without reading is a range that does not meet the file
\* ("SST 范围与查询范围不相交", node.go:91).
ExcludedIsDisjoint ==
    finished => \A lo \in Keys, hi \in 0 .. MaxKey + 1 :
        Excluded(lo, hi) => {k \in Entries : lo <= k /\ k < hi} = {}
=============================================================================
