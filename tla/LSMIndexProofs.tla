--------------------------- MODULE LSMIndexProofs ---------------------------
(***************************************************************************)
(* Proofs about LSMIndex, for every set of documents and features, every   *)
(* block size, every sequence of calls and every failure of a read or of a *)
(* file operation.                                                         *)
(***************************************************************************)
EXTENDS LSMIndex, LSMTreeProofs

InFeature(k, f) == f * NumBlocks <= k /\ k < (f + 1) * NumBlocks

\* A table has under the keys of a feature no document but those added to it.
Owns(table) ==
    \A f \in Features, k \in Keys :
        InFeature(k, f) /\ table[k] # Missing => Bits(table[k]) \subseteq postings[f]

\* What makes NoFalsePosting inductive: it holds table by table, and an Add in
\* progress writes its document only under features it was added to.
IndexInv ==
    /\ pc # "closed" => BaseInv
    /\ doc \in Docs \cup {NoDoc} /\ todo \in Seq(Features)
    /\ postings \in [Features -> SUBSET Docs]
    /\ doc # NoDoc => \A i \in DOMAIN todo : doc \in postings[todo[i]]
    /\ Owns(memTable)
    /\ \A file \in DOMAIN disk : Owns(disk[file])

-----------------------------------------------------------------------------
(* The composite keys.                                                     *)

\* A document of the index has a block id in range.
LEMMA BlockInRange ==
    ASSUME NEW s \in Nat, s # 0, NEW n \in Nat, NEW d \in 0 .. s * n - 1
    PROVE  d \div s \in 0 .. n - 1
<1>1. d \in Nat /\ d < s * n /\ d \div s \in Nat /\ s * (d \div s) <= d
  OBVIOUS
<1> DEFINE b == d \div s
<1>2. b \in Nat /\ s * b < s * n
  BY <1>1
<1> HIDE DEF b
<1>3. ~ (n <= b)
  <2> SUFFICES ASSUME n <= b PROVE FALSE
    OBVIOUS
  <2>1. s * n <= s * b
    BY <1>2
  <2> QED
    BY <1>2, <2>1
<1>4. b \in 0 .. n - 1
  BY <1>2, <1>3
<1> QED
  BY <1>4 DEF b

\* No key is of two features.
LEMMA OneFeature ==
    ASSUME NEW n \in Nat, NEW f \in Nat, NEW g \in Nat, NEW b \in 0 .. n - 1,
           f * n <= g * n + b, g * n + b < (f + 1) * n
    PROVE  f = g
<1>1. ASSUME f < g PROVE FALSE
  <2>1. (f + 1) * n <= g * n
    BY <1>1
  <2> QED
    BY <2>1
<1>2. ASSUME g < f PROVE FALSE
  <2>1. (g + 1) * n <= f * n /\ (g + 1) * n = g * n + n
    BY <1>2
  <2> QED
    BY <2>1
<1> QED
  BY <1>1, <1>2

\* The key that Add writes is of the feature only.
LEMMA KeyOfAdd ==
    ASSUME NEW g \in Features, NEW d \in Docs
    PROVE  /\ CompositeKey(g, d \div blockSize) \in Keys
           /\ InFeature(CompositeKey(g, d \div blockSize), g)
           /\ \A f \in Features :
                 InFeature(CompositeKey(g, d \div blockSize), f) => f = g
<1>1. /\ NumBlocks \in Nat /\ blockSize \in Nat /\ blockSize # 0
      /\ d \in 0 .. blockSize * NumBlocks - 1
      /\ Features \subseteq Nat
      /\ CompositeKey(g, d \div blockSize) \in Keys
  BY LSMIndexAssumption
<1>2. d \div blockSize \in 0 .. NumBlocks - 1
  BY <1>1, BlockInRange
<1> DEFINE b == d \div blockSize
<1>3. b \in 0 .. NumBlocks - 1 /\ g \in Nat
  BY <1>1, <1>2
<1>4. CompositeKey(g, b) = g * NumBlocks + b
  BY DEF CompositeKey
<1> HIDE DEF b
<1>5. InFeature(CompositeKey(g, b), g)
  <2>1. (g + 1) * NumBlocks = g * NumBlocks + NumBlocks
    BY <1>1, <1>3
  <2> QED
    BY <1>1, <1>3, <1>4, <2>1 DEF InFeature
<1>6. \A f \in Features : InFeature(CompositeKey(g, b), f) => f = g
  BY <1>1, <1>3, <1>4, OneFeature DEF InFeature
<1> QED
  BY <1>1, <1>5, <1>6 DEF b

\* The keys between the bounds of a posting list's scan are of the feature;
\* those of the last feature, whose end wraps around to 0, are none.
LEMMA KeysOfScan ==
    ASSUME NEW f \in Features, NEW k \in Keys,
           CompositeKey(f, 0) <= k, k < CompositeKey((f + 1) % NumFeatures, 0)
    PROVE  InFeature(k, f)
<1>1. /\ NumBlocks \in Nat /\ NumFeatures \in Nat /\ NumFeatures # 0
      /\ f \in 0 .. NumFeatures - 1 /\ k \in Int
  BY LSMIndexAssumption, LSMTreeAssumption
<1>2. f * NumBlocks <= k /\ k < ((f + 1) % NumFeatures) * NumBlocks
  BY <1>1 DEF CompositeKey
<1>3. CASE f + 1 < NumFeatures
  <2>1. (f + 1) % NumFeatures = f + 1
    BY <1>1, <1>3
  <2> QED
    BY <1>2, <2>1 DEF InFeature
<1>4. CASE f + 1 = NumFeatures
  <2>1. (f + 1) % NumFeatures = 0
    BY <1>1, <1>4
  <2>2. 0 * NumBlocks = 0 /\ 0 <= f * NumBlocks
    BY <1>1
  <2> QED
    BY <1>1, <1>2, <2>1, <2>2
<1> QED
  BY <1>1, <1>3, <1>4

-----------------------------------------------------------------------------
(* Reads.                                                                  *)

\* What a lookup of some of the SSTs finds was added to the feature.
LEMMA LookupOwned ==
    ASSUME IndexInv, BaseInv, NEW f \in Features, NEW k \in Keys,
           InFeature(k, f), NEW H, \A l \in Levels : H[l] \subseteq Hits(l, k),
           Lookup(H, k) # Missing
    PROVE  Bits(Lookup(H, k)) \subseteq postings[f]
<1>1. PICK file \in DOMAIN disk : Lookup(H, k) = disk[file][k]
  BY LookupFrom
<1> QED
  BY <1>1 DEF IndexInv, Owns

\* So was the bitmap that Add starts from.
LEMMA ReadOwned ==
    ASSUME IndexInv, BaseInv, NEW f \in Features, NEW k \in Keys,
           InFeature(k, f), NEW read \in Reads(k)
    PROVE  read \subseteq postings[f]
<1> SUFFICES ASSUME Get(k) # Missing
             PROVE  Bits(Get(k)) \subseteq postings[f]
  BY DEF Reads, NewestBitmap
<1>1. Get(k) = RawGet(k)
  BY DEF Get
<1>2. CASE memTable[k] # Missing
  BY <1>1, <1>2 DEF RawGet, IndexInv, Owns
<1>3. CASE memTable[k] = Missing
  <2> DEFINE H == [l \in Levels |-> Hits(l, k)]
  <2>1. Get(k) = Lookup(H, k) /\ Lookup(H, k) # Missing
    BY <1>1, <1>3 DEF RawGet, NodesGet
  <2>2. \A l \in Levels : H[l] \subseteq Hits(l, k)
    OBVIOUS
  <2> HIDE DEF H
  <2> QED
    BY <2>1, <2>2, LookupOwned
<1> QED
  BY <1>2, <1>3

\* And so was what a scan finds.
LEMMA ScanOwned ==
    ASSUME IndexInv, BaseInv, NEW f \in Features, NEW k \in Keys,
           InFeature(k, f), NEW lo, NEW hi, ScanGet(k, lo, hi) # Missing
    PROVE  Bits(ScanGet(k, lo, hi)) \subseteq postings[f]
<1> DEFINE Seen(l) ==
        {i \in Hits(l, k) : ~Pruned(disk[<<l, nodes[l][i]>>], lo, hi)}
    H == [l \in Levels |-> Seen(l)]
<1>1. ScanGet(k, lo, hi) = IF memTable[k] # Missing THEN memTable[k]
                           ELSE Lookup(H, k)
  BY DEF ScanGet
<1>2. \A l \in Levels : H[l] \subseteq Hits(l, k)
  OBVIOUS
<1> HIDE DEF H
<1> QED
  BY <1>1, <1>2, LookupOwned DEF IndexInv, Owns

\* The tables that a call in progress writes: flushing changes no bitmap, and
\* a compaction unites those of one key.
LEMMA NewTablesOwn ==
    ASSUME IndexInv, BaseInv, NEW table \in NewTables
    PROVE  Owns(table)
<1> SUFFICES ASSUME NEW f \in Features, NEW k \in Keys, InFeature(k, f),
                    table[k] # Missing
             PROVE  Bits(table[k]) \subseteq postings[f]
  BY DEF Owns
<1>1. CASE table = FlushedTable
  <2>1. /\ table[k] = Persisted(memTable[k])
        /\ memTable[k] # Missing => Bits(memTable[k]) \subseteq postings[f]
    BY <1>1 DEF FlushedTable, IndexInv, Owns
  <2>2. table[k] = memTable[k] \/ table[k] = Empty
    BY <2>1 DEF Persisted
  <2>3. Bits(Empty) = {}
    BY DEF Bits
  <2> QED
    BY <2>1, <2>2, <2>3
<1>2. CASE table = NoEntries
  BY <1>2 DEF NoEntries
<1>3. ASSUME NEW l \in Levels, table = Merged(l)
      PROVE  Bits(table[k]) \subseteq postings[f]
  <2> DEFINE parts == {Bits(disk[<<l, nodes[l][i]>>][k]) : i \in Hits(l, k)}
  <2>1. table[k] = UNION parts
    BY <1>3, LSMIndexAssumption DEF Merged
  <2>2. Bits(table[k]) \subseteq UNION parts
    BY <2>1 DEF Bits
  <2>3. ASSUME NEW i \in Hits(l, k)
        PROVE  Bits(disk[<<l, nodes[l][i]>>][k]) \subseteq postings[f]
    <3>1. <<l, nodes[l][i]>> \in DOMAIN disk
      BY DEF Hits, BaseInv, NodesOnDisk, FilesOf
    <3>2. disk[<<l, nodes[l][i]>>][k] # Missing
      BY DEF Hits
    <3> QED
      BY <3>1, <3>2 DEF IndexInv, Owns
  <2> QED
    BY <2>2, <2>3
<1> QED
  BY <1>1, <1>2, <1>3 DEF NewTables

-----------------------------------------------------------------------------
(* The inductive invariant.                                                *)

LEMMA IndexInvInit == ASSUME IndexInit PROVE IndexInv
<1>1. Init /\ BaseInv
  BY BaseInit DEF IndexInit
<1>2. DOMAIN disk = {} /\ Owns(memTable)
  BY <1>1 DEF Init, NoEntries, Owns
<1> QED
  BY <1>1, <1>2 DEF IndexInv, IndexInit, Mem!Init

\* A step that leaves the tree alone and removes no posting.
LEMMA QuietOwns ==
    ASSUME IndexInv, UNCHANGED vars, \A f \in Features : postings[f] \subseteq postings'[f]
    PROVE  /\ pc' # "closed" => BaseInv'
           /\ Owns(memTable)' /\ (\A file \in DOMAIN disk : Owns(disk[file]))'
<1>1. UNCHANGED <<memTable, disk, pc>>
  BY DEF vars
<1>2. pc' # "closed" => BaseInv'
  BY <1>1, BaseNext DEF IndexInv
<1> QED
  BY <1>1, <1>2 DEF IndexInv, Owns

LEMMA AddCalledKeeps ==
    ASSUME IndexInv, NEW d \in Docs, NEW fs \in FeatureLists, AddCalled(d, fs)
    PROVE  IndexInv'
<1>1. /\ doc' = d /\ todo' = fs /\ UNCHANGED vars
      /\ postings' = [f \in Features |->
                         IF \E i \in DOMAIN fs : fs[i] = f
                         THEN postings[f] \cup {d} ELSE postings[f]]
  BY DEF AddCalled, Mem!Add
<1>2. fs \in Seq(Features)
  BY LSMIndexAssumption
<1>3. \A f \in Features : postings[f] \subseteq postings'[f]
  BY <1>1
<1>4. postings' \in [Features -> SUBSET Docs]
  BY <1>1 DEF IndexInv
<1>5. \A i \in DOMAIN todo' : doc' \in postings'[todo'[i]]
  <2>1. \A i \in DOMAIN fs : fs[i] \in Features
    BY <1>2
  <2> QED
    BY <1>1, <2>1
<1> QED
  BY <1>1, <1>2, <1>3, <1>4, <1>5, QuietOwns DEF IndexInv

LEMMA AddFeatureKeeps ==
    ASSUME IndexInv, AddFeature
    PROVE  IndexInv'
<1> DEFINE g == Head(todo)
           k == CompositeKey(g, doc \div blockSize)
<1>1. PICK read \in Reads(k) : Write(k, NewBitmap(read))
  BY DEF AddFeature
<1>2. /\ todo # <<>> /\ todo \in Seq(Features) /\ todo' = Tail(todo)
      /\ doc \in Docs /\ UNCHANGED <<doc, postings>>
      /\ postings \in [Features -> SUBSET Docs]
      /\ \A i \in DOMAIN todo : doc \in postings[todo[i]]
  BY DEF AddFeature, IndexInv
<1>3. /\ g \in Features /\ todo' \in Seq(Features)
      /\ doc \in postings[g]
      /\ \A i \in DOMAIN todo' : doc \in postings[todo'[i]]
  BY <1>2
<1>4. k \in Keys /\ InFeature(k, g)
      /\ \A f \in Features : InFeature(k, f) => f = g
  BY <1>2, <1>3, KeyOfAdd
<1> HIDE DEF g, k
<1>5. pc = "idle" /\ BaseInv
  BY <1>1 DEF Write, IndexInv
<1>6. NewBitmap(read) \subseteq postings[g]
  BY <1>3, <1>4, <1>5, ReadOwned DEF NewBitmap
<1>7. NewBitmap(read) \in Values
  BY <1>2, <1>3, <1>6, LSMIndexAssumption DEF Values
<1>8. BaseInv'
  BY <1>1, <1>4, <1>5, <1>7, BaseNext DEF Next
<1>9. /\ memTable' = [memTable EXCEPT ![k] = NewBitmap(read)]
      /\ memTable \in Tables /\ disk' = disk
  BY <1>1, <1>5 DEF Write, BaseInv, TypeOK
<1>10. Bits(NewBitmap(read)) \subseteq postings[g]
  BY <1>6 DEF Bits
<1>11. Owns(memTable)'
  <2> SUFFICES ASSUME NEW f \in Features, NEW j \in Keys, InFeature(j, f),
                      memTable'[j] # Missing
               PROVE  Bits(memTable'[j]) \subseteq postings[f]
    BY <1>2 DEF Owns, Bits, InFeature
  <2>1. CASE j = k
    BY <1>4, <1>9, <1>10, <2>1 DEF Tables
  <2>2. CASE j # k
    BY <1>9, <2>2 DEF Tables, IndexInv, Owns
  <2> QED
    BY <2>1, <2>2
<1>12. (\A file \in DOMAIN disk : Owns(disk[file]))'
  BY <1>2, <1>9 DEF IndexInv, Owns
<1> QED
  BY <1>2, <1>3, <1>8, <1>11, <1>12 DEF IndexInv

LEMMA ContinueOwns ==
    ASSUME IndexInv, TreeContinues
    PROVE  IndexInv'
<1>1. Continue /\ UNCHANGED <<doc, todo, postings>>
  BY DEF TreeContinues
<1>2. pc # "closed"
  BY <1>1 DEF Continue, FlushMemTable, FlushOpenFails, FlushReaderFails,
              CompactLevel, CompactOpenFails, CompactMergeFails,
              CompactReaderFails, RemoveNodes, CascadeDone
<1>3. BaseInv
  BY <1>2 DEF IndexInv
<1>4. BaseInv'
  BY <1>1, <1>3, BaseNext DEF Next
<1>5. Owns(memTable)'
  <2>1. Owns(NoEntries)
    BY DEF NoEntries, Owns
  <2> QED
    BY <1>1, <1>3, <2>1, ContinueTables DEF Owns, IndexInv
<1>6. (\A file \in DOMAIN disk : Owns(disk[file]))'
  <2> SUFFICES ASSUME NEW file \in DOMAIN disk', NEW f \in Features,
                      NEW k \in Keys, InFeature(k, f), disk'[file][k] # Missing
               PROVE  Bits(disk'[file][k]) \subseteq postings[f]
    BY <1>1 DEF Owns
  <2>1. CASE file \in DOMAIN disk /\ disk'[file] = disk[file]
    BY <2>1 DEF IndexInv, Owns
  <2>2. CASE disk'[file] \in NewTables
    BY <1>3, <2>2, NewTablesOwn DEF Owns
  <2> QED
    BY <1>1, <1>3, <2>1, <2>2, ContinueTables
<1> QED
  BY <1>1, <1>4, <1>5, <1>6 DEF IndexInv

LEMMA IndexInvNext ==
    ASSUME IndexInv, [IndexNext]_allVars
    PROVE  IndexInv'
<1>1. CASE UNCHANGED allVars
  BY <1>1, QuietOwns DEF allVars, indexVars, IndexInv
<1>2. CASE AddReturns
  BY <1>2, QuietOwns DEF AddReturns, IndexInv
<1>3. CASE CloseIndex
  BY <1>3 DEF CloseIndex, indexVars, IndexInv, Owns
<1> QED
  BY <1>1, <1>2, <1>3, AddCalledKeeps, AddFeatureKeeps, ContinueOwns
     DEF IndexNext

\* Whatever read or file operation fails, and at every stage of every flush and
\* compaction, a posting list and an intersection of posting lists return only
\* documents that were added with the features (lsm_index.go:116, lsm_index.go:139).
THEOREM OnlyAdded == IndexSpec => []NoFalsePosting
<1>1. ASSUME IndexInv PROVE NoFalsePosting
  <2> SUFFICES ASSUME pc # "closed"
               PROVE  /\ \A f \in Features : \A failed \in BOOLEAN :
                            GetPostingList(f, failed) \subseteq postings[f]
                      /\ \A fs \in FeatureLists : \A failing :
                            And(fs, failing) \subseteq Mem!And(fs)
    BY DEF NoFalsePosting, Failures, Mem!GetPostingList
  <2>1. BaseInv
    BY <1>1 DEF IndexInv
  <2>2. ASSUME NEW f \in Features, NEW failed \in BOOLEAN
        PROVE  GetPostingList(f, failed) \subseteq postings[f]
    <3> DEFINE lo == CompositeKey(f, 0)
               hi == CompositeKey((f + 1) % NumFeatures, 0)
    <3>1. ASSUME NEW k \in DOMAIN Scan(lo, hi)
          PROVE  Bits(Scan(lo, hi)[k]) \subseteq postings[f]
      <4>1. /\ k \in Keys /\ lo <= k /\ k < hi
            /\ ScanGet(k, lo, hi) # Missing
            /\ Scan(lo, hi)[k] = ScanGet(k, lo, hi)
        BY <3>1 DEF Scan
      <4>2. InFeature(k, f)
        BY <4>1, KeysOfScan
      <4> HIDE DEF lo, hi
      <4> QED
        BY <1>1, <2>1, <4>1, <4>2, ScanOwned
    <3>2. GetPostingList(f, failed) =
              IF failed THEN {}
              ELSE UNION {Bits(Scan(lo, hi)[k]) : k \in DOMAIN Scan(lo, hi)}
      BY DEF GetPostingList, EndKeyOf
    <3> HIDE DEF lo, hi
    <3> QED
      BY <3>1, <3>2
  <2>3. ASSUME NEW fs \in FeatureLists, NEW failing
        PROVE  And(fs, failing) \subseteq Mem!And(fs)
    <3>1. \A i \in DOMAIN fs : fs[i] \in Features
      BY LSMIndexAssumption
    <3>2. ASSUME NEW i \in DOMAIN fs
          PROVE  GetPostingList(fs[i], i \in failing) \subseteq postings[fs[i]]
      <4>1. GetPostingList(fs[i], TRUE) = {}
        BY DEF GetPostingList
      <4>2. GetPostingList(fs[i], FALSE) \subseteq postings[fs[i]]
        BY <2>2, <3>1
      <4>3. (i \in failing) = TRUE \/ (i \in failing) = FALSE
        OBVIOUS
      <4> QED
        BY <4>1, <4>2, <4>3
    <3> QED
      BY <3>2 DEF And, Mem!And
  <2> QED
    BY <2>2, <2>3
<1> QED
  BY <1>1, IndexInvInit, IndexInvNext, PTL DEF IndexSpec

-----------------------------------------------------------------------------
(* The bitmaps of a key grow from SST to SST, so that Get, which takes the *)
(* newest, and compaction, which unites them, agree; and no document is    *)
(* lost by a flush or a compaction.                                        *)


Holds(f, k) == disk[f][k] # Missing
InFile(f, k, d) == Holds(f, k) /\ d \in Bits(disk[f][k])
InMem(k, d) == memTable[k] # Missing /\ d \in Bits(memTable[k])
InSST(k, d) == \E f \in LiveFiles : InFile(f, k, d)
Held(k, d) == InMem(k, d) \/ InSST(k, d)

\* f is looked at before g.
NewerFile(f, g) == f[1] < g[1] \/ (f[1] = g[1] /\ g[2] < f[2])

\* The output of a compaction whose inputs are still in place is older than
\* they are by its level, but holds the documents of all of them.
Output == <<level + 1, levelToSeq[level + 1]>>
IsOutput(f, g) == pc = "cleanup" /\ f[1] = level /\ g = Output

Grow ==
    \A k \in Keys : \A f, g \in LiveFiles :
        /\ Holds(f, k) /\ Holds(g, k)
        /\ NewerFile(f, g) /\ ~IsOutput(f, g)
        => Bits(disk[g][k]) \subseteq Bits(disk[f][k])

MemGrow ==
    \A k \in Keys : \A f \in LiveFiles :
        memTable[k] # Missing /\ Holds(f, k) =>
            Bits(disk[f][k]) \subseteq Bits(memTable[k])

\* What makes BitmapsGrow inductive.
GrowInv ==
    /\ IndexInv
    /\ doc = NoDoc => todo = <<>>
    /\ pc = "cleanup" => MustCompact(level)
    /\ pc # "closed" /\ ~misread => Grow /\ MemGrow

\* The SSTs have what the memtable has before it is dropped, and the output of
\* a compaction has exactly what its inputs have before they are removed.
MemHeld ==
    pc \in {"cascade", "cleanup"} =>
        \A k \in Keys : \A d : InMem(k, d) => InSST(k, d)
OutputExact ==
    pc = "cleanup" =>
        /\ Output \in LiveFiles
        /\ \A k \in Keys : \A d :
              InFile(Output, k, d) <=> \E f \in FilesOf(level) : InFile(f, k, d)
AllHeld ==
    \A f \in Features : \A d \in postings[f] :
        \/ d \in Pending(f)
        \/ \E k \in Keys : InFeature(k, f) /\ Held(k, d)

\* What makes NothingLost inductive.
HeldInv == pc # "closed" /\ ~lossy => MemHeld /\ OutputExact /\ AllHeld

-----------------------------------------------------------------------------
(* Files and bitmaps.                                                      *)

LEMMA LiveTypes ==
    ASSUME BaseInv, NEW f \in LiveFiles
    PROVE  /\ f[1] \in Levels /\ f[1] \in Nat /\ f[2] \in Nat
           /\ f = <<f[1], f[2]>> /\ f \in FilesOf(f[1])
           /\ levelToSeq[f[1]] \in Nat /\ f[2] <= levelToSeq[f[1]]
           /\ f \in DOMAIN disk /\ disk[f] \in Tables
<1>1. PICK l \in Levels : \E i \in DOMAIN nodes[l] : f = <<l, nodes[l][i]>>
  BY DEF LiveFiles, FilesOf
<1> PICK i \in DOMAIN nodes[l] : f = <<l, nodes[l][i]>>
  BY <1>1
<1>2. l \in Nat /\ nodes[l][i] \in Nat
  BY <1>1, LSMTreeAssumption, SMTT(40) DEF Levels, BaseInv, TypeOK
<1>3. nodes[l][i] <= levelToSeq[l] /\ levelToSeq[l] \in Nat
  BY <1>1 DEF BaseInv, SeqsIssued, TypeOK
<1>4. f \in FilesOf(l)
  BY <1>1 DEF FilesOf
<1>5. f \in DOMAIN disk /\ disk[f] \in Tables
  BY <1>4 DEF BaseInv, NodesOnDisk, TypeOK
<1> QED
  BY <1>1, <1>2, <1>3, <1>4, <1>5

\* The files of a level, by position and by name.
LEMMA HitsAreFiles ==
    ASSUME BaseInv, NEW l \in Levels, NEW k \in Keys
    PROVE  /\ \A i \in Hits(l, k) : /\ <<l, nodes[l][i]>> \in FilesOf(l)
                                    /\ Holds(<<l, nodes[l][i]>>, k)
           /\ \A f \in FilesOf(l) : Holds(f, k) =>
                 \E i \in Hits(l, k) : f = <<l, nodes[l][i]>>
           /\ FilesOf(l) \subseteq LiveFiles
           /\ \A f \in FilesOf(l) : f[1] = l
  BY DEF Hits, FilesOf, Holds, LiveFiles

\* The bitmaps are values of their own.
LEMMA BitsOfVal ==
    /\ \A v \in Vals : Bits(v) = v
    /\ \A v : Bits(Persisted(v)) = Bits(v)
    /\ \A v : Persisted(v) = Missing <=> v = Missing
  BY LSMTreeAssumption DEF Bits, Persisted

\* The output of a merge has what the files of the level have.
LEMMA MergedBits ==
    ASSUME BaseInv, NEW l \in Levels, NEW k \in Keys
    PROVE  /\ Merged(l)[k] # Missing <=> \E f \in FilesOf(l) : Holds(f, k)
           /\ \A d : (Merged(l)[k] # Missing /\ d \in Bits(Merged(l)[k]))
                        <=> \E f \in FilesOf(l) : InFile(f, k, d)
<1>1. CASE Hits(l, k) = {}
  <2>1. Merged(l)[k] = Missing
    BY <1>1 DEF Merged
  <2> QED
    BY <1>1, <2>1, HitsAreFiles DEF InFile
<1>2. CASE Hits(l, k) # {}
  <2> DEFINE U == UNION {Bits(disk[<<l, nodes[l][i]>>][k]) : i \in Hits(l, k)}
  <2>1. Merged(l)[k] = U
    BY <1>2, LSMIndexAssumption DEF Merged
  <2>2. U \in Vals
    <3>1. Vals = SUBSET (UNION Vals)
      BY LSMTreeAssumption, LSMIndexAssumption
    <3>2. ASSUME NEW i \in Hits(l, k)
          PROVE  Bits(disk[<<l, nodes[l][i]>>][k]) \subseteq UNION Vals
      <4> DEFINE f == <<l, nodes[l][i]>>
      <4>1. f \in LiveFiles /\ disk[f][k] # Missing
        BY HitsAreFiles DEF Holds
      <4>2. disk[f] \in Tables
        BY <4>1, LiveTypes
      <4> HIDE DEF f
      <4>3. disk[f][k] \in Vals \cup {Nil, Empty}
        BY <4>1, <4>2 DEF Tables, Stored, Values
      <4>4. Bits(disk[f][k]) \subseteq UNION Vals
        BY <4>3 DEF Bits
      <4> QED
        BY <4>4 DEF f
    <3>3. U \subseteq UNION Vals
      BY <3>2
    <3> HIDE DEF U
    <3> QED
      BY <3>1, <3>3
  <2>3. \A d : d \in U <=> \E i \in Hits(l, k) :
                              d \in Bits(disk[<<l, nodes[l][i]>>][k])
    OBVIOUS
  <2> HIDE DEF U
  <2>4. Merged(l)[k] # Missing /\ Bits(Merged(l)[k]) = U
    BY <2>1, <2>2, BitsOfVal, LSMTreeAssumption
  <2>5. \E f \in FilesOf(l) : Holds(f, k)
    BY <1>2, HitsAreFiles
  <2>6. ASSUME NEW d
        PROVE  d \in U <=> \E f \in FilesOf(l) : InFile(f, k, d)
    <3>1. ASSUME d \in U PROVE \E f \in FilesOf(l) : InFile(f, k, d)
      <4>1. PICK i \in Hits(l, k) : d \in Bits(disk[<<l, nodes[l][i]>>][k])
        BY <2>3, <3>1
      <4> QED
        BY <4>1, HitsAreFiles DEF InFile
    <3>2. ASSUME NEW f \in FilesOf(l), InFile(f, k, d) PROVE d \in U
      <4>1. PICK i \in Hits(l, k) : f = <<l, nodes[l][i]>>
        BY <3>2, HitsAreFiles DEF InFile
      <4> QED
        BY <2>3, <3>2, <4>1 DEF InFile
    <3> QED
      BY <3>1, <3>2
  <2> QED
    BY <2>4, <2>5, <2>6
<1> QED
  BY <1>1, <1>2

\* Get finds the entry of the file that is looked at first.
LEMMA NewestFile ==
    ASSUME BaseInv, NEW k \in Keys
    PROVE  \/ /\ NodesGet(k) = Missing
              /\ \A f \in LiveFiles : ~Holds(f, k)
           \/ \E f \in LiveFiles :
                 /\ Holds(f, k) /\ NodesGet(k) = disk[f][k]
                 /\ \A g \in LiveFiles :
                       Holds(g, k) => g = f \/ NewerFile(f, g)
<1>0. TypeOK
  BY DEF BaseInv
<1>1. CASE \A l \in Levels : Hits(l, k) = {}
  <2>1. NodesGet(k) = Missing
    BY <1>0, <1>1, Reading
  <2>2. ASSUME NEW f \in LiveFiles PROVE ~Holds(f, k)
    BY <1>1, LiveTypes, HitsAreFiles
  <2> QED
    BY <2>1, <2>2
<1>2. ASSUME NEW n \in Levels, Hits(n, k) # {}
      PROVE  \E f \in LiveFiles :
                 /\ Holds(f, k) /\ NodesGet(k) = disk[f][k]
                 /\ \A g \in LiveFiles :
                       Holds(g, k) => g = f \/ NewerFile(f, g)
  <2>1. PICK l \in Levels : /\ Hits(l, k) # {}
                            /\ \A m \in Levels : m < l => Hits(m, k) = {}
    BY <1>2, FirstLevel
  <2>2. NodesGet(k) = Newest(l, k)
    BY <1>0, <2>1, Reading
  <2>3. PICK i \in Hits(l, k) : /\ \A j \in Hits(l, k) : j <= i
                                /\ Newest(l, k) = disk[<<l, nodes[l][i]>>][k]
    BY <1>0, <2>1, NewestExists
  <2> DEFINE f == <<l, nodes[l][i]>>
  <2>4. f \in LiveFiles /\ Holds(f, k)
    BY HitsAreFiles
  <2>5. ASSUME NEW g \in LiveFiles, Holds(g, k)
        PROVE  g = f \/ NewerFile(f, g)
    <3>1. PICK m \in Levels : g \in FilesOf(m) /\ g[1] = m /\ m \in Nat
      BY LiveTypes
    <3>2. PICK j \in Hits(m, k) : g = <<m, nodes[m][j]>>
      BY <2>5, <3>1, HitsAreFiles
    <3>3. ~ (m < l) /\ l \in Nat
      BY <2>1, <3>1, <3>2, LSMTreeAssumption DEF Levels
    <3>4. CASE l < m
      BY <3>1, <3>4 DEF NewerFile
    <3>5. CASE l = m
      <4>1. j <= i /\ i \in DOMAIN nodes[l] /\ j \in DOMAIN nodes[l]
        BY <2>3, <3>2, <3>5 DEF Hits
      <4>2. i \in Nat /\ j \in Nat
        BY <1>0, <4>1, SMTT(40) DEF TypeOK
      <4>3. CASE i = j
        BY <3>2, <3>5, <4>3
      <4>4. CASE j < i
        <5>1. nodes[l][j] < nodes[l][i]
          BY <4>1, <4>4 DEF BaseInv, SeqsIncreasing
        <5> QED
          BY <3>2, <3>5, <5>1 DEF NewerFile
      <4> QED
        BY <4>1, <4>2, <4>3, <4>4
    <3> QED
      BY <3>1, <3>3, <3>4, <3>5
  <2> QED
    BY <2>2, <2>3, <2>4, <2>5
<1> QED
  BY <1>1, <1>2

\* What the memtable has is what Get finds.
LEMMA NewestOfMem ==
    ASSUME NEW k \in Keys, memTable[k] # Missing
    PROVE  NewestBitmap(k) = Bits(memTable[k])
  BY DEF NewestBitmap, Get, RawGet, Bits

\* The bitmap that Get finds has every document that any entry has, also while
\* the inputs of a compaction are removed.
LEMMA NewestIsAll ==
    ASSUME BaseInv, Grow, MemGrow, OutputExact, NEW k \in Keys, NEW d
    PROVE  d \in NewestBitmap(k) <=> Held(k, d)
<1>1. CASE memTable[k] # Missing
  <2>1. NewestBitmap(k) = Bits(memTable[k])
    BY <1>1, NewestOfMem
  <2>2. InSST(k, d) => d \in Bits(memTable[k])
    BY <1>1 DEF InSST, InFile, MemGrow
  <2> QED
    BY <1>1, <2>1, <2>2 DEF Held, InMem
<1>2. CASE memTable[k] = Missing
  <2>1. RawGet(k) = NodesGet(k) /\ ~InMem(k, d)
    BY <1>2 DEF RawGet, InMem
  <2>2. CASE NodesGet(k) = Missing /\ \A f \in LiveFiles : ~Holds(f, k)
    <3>1. NewestBitmap(k) = {} /\ ~InSST(k, d)
      BY <2>1, <2>2 DEF NewestBitmap, Get, InSST, InFile
    <3> QED
      BY <2>1, <3>1 DEF Held
  <2>3. ASSUME NEW f \in LiveFiles, Holds(f, k), NodesGet(k) = disk[f][k],
               \A g \in LiveFiles : Holds(g, k) => g = f \/ NewerFile(f, g)
        PROVE  d \in NewestBitmap(k) <=> Held(k, d)
    <3>1. NewestBitmap(k) = Bits(disk[f][k])
      BY <2>1, <2>3 DEF NewestBitmap, Get, Holds, Bits
    <3>2. ASSUME NEW g \in LiveFiles, InFile(g, k, d), ~IsOutput(f, g)
          PROVE  d \in Bits(disk[f][k])
      BY <2>3, <3>2 DEF Grow, InFile
    <3>3. ASSUME NEW g \in LiveFiles, InFile(g, k, d), IsOutput(f, g)
          PROVE  d \in Bits(disk[f][k])
      <4>1. PICK h \in FilesOf(level) : InFile(h, k, d)
        BY <3>3 DEF OutputExact, IsOutput
      <4>2. h[1] = level /\ h \in LiveFiles
        <5>1. level \in Levels
          BY <3>3, LiveTypes DEF IsOutput
        <5> QED
          BY <4>1, <5>1, HitsAreFiles
      <4>3. level \in Nat
        BY DEF BaseInv, TypeOK
      <4>4. ~IsOutput(f, h)
        BY <4>2, <4>3 DEF IsOutput, Output
      <4> QED
        BY <3>2, <4>1, <4>2, <4>4
    <3>4. d \in NewestBitmap(k) => InSST(k, d)
      BY <2>3, <3>1 DEF InSST, InFile
    <3> QED
      BY <2>1, <3>1, <3>2, <3>3, <3>4 DEF Held, InSST
  <2> QED
    BY <2>2, <2>3, NewestFile
<1> QED
  BY <1>1, <1>2

-----------------------------------------------------------------------------
(* The steps of the tree.                                                  *)

\* The steps that neither add a node nor remove one leave the live files.
LEMMA QuietLive ==
    ASSUME BaseInv, Continue, ~FlushMemTable, ~CompactLevel, ~RemoveNodes
    PROVE  /\ nodes' = nodes /\ LiveFiles' = LiveFiles
           /\ \A f \in LiveFiles : disk'[f] = disk[f]
<1>1. nodes' = nodes
  BY DEF Continue, FlushOpenFails, FlushReaderFails, CompactOpenFails,
         CompactMergeFails, CompactReaderFails, CascadeDone
<1>2. LiveFiles' = LiveFiles
  BY <1>1 DEF LiveFiles, FilesOf
<1>3. 0 \in Levels /\ TypeOK /\ NodesOnDisk
  BY LSMTreeAssumption DEF Levels, BaseInv
<1>4. MustCompact(level) => /\ level + 1 \in Levels
                            /\ Merged(level) \in Tables
  BY <1>3, CompactedLevel, MergedType
<1>5. CASE FlushReaderFails
  BY <1>1, <1>2, <1>3, <1>5, FlushedType, WriteIsFresh DEF FlushReaderFails
<1>6. CASE CompactMergeFails
  BY <1>1, <1>2, <1>4, <1>6, NoEntriesType, WriteIsFresh DEF CompactMergeFails
<1>7. CASE CompactReaderFails
  BY <1>1, <1>2, <1>4, <1>7, WriteIsFresh DEF CompactReaderFails
<1>8. CASE UNCHANGED disk
  BY <1>1, <1>2, <1>8
<1> QED
  BY <1>1, <1>2, <1>5, <1>6, <1>7, <1>8
     DEF Continue, FlushOpenFails, CompactOpenFails, CascadeDone

\* A flush adds a file that is newer than all others and has what the
\* memtable has.
LEMMA FlushLive ==
    ASSUME BaseInv, FlushMemTable
    PROVE  \E g \in LiveFiles' :
              /\ LiveFiles' = LiveFiles \cup {g} /\ g \notin LiveFiles
              /\ \A f \in LiveFiles : disk'[f] = disk[f] /\ ~NewerFile(f, g)
              /\ disk'[g] = FlushedTable /\ ~NewerFile(g, g)
<1> DEFINE g == <<0, NextSeq(0)>>
<1>1. 0 \in Levels /\ FlushedTable \in Tables
  BY FlushedType, LSMTreeAssumption DEF Levels, BaseInv
<1>2. LiveFiles' = LiveFiles \cup {g}
  BY <1>1, AddFile DEF FlushMemTable
<1>3. /\ g \notin LiveFiles /\ disk'[g] = FlushedTable
      /\ \A f \in LiveFiles : disk'[f] = disk[f]
  BY <1>1, WriteIsFresh DEF FlushMemTable
<1>4. NextSeq(0) = levelToSeq[0] + 1 /\ levelToSeq[0] \in Nat
  BY <1>1 DEF NextSeq, BaseInv, TypeOK
<1>5. ASSUME NEW f \in LiveFiles PROVE ~NewerFile(f, g)
  <2>1. f[1] \in Nat /\ f[2] \in Nat /\ f[2] <= levelToSeq[f[1]]
    BY LiveTypes
  <2> QED
    BY <1>4, <2>1 DEF NewerFile
<1>6. ~NewerFile(g, g)
  BY <1>4 DEF NewerFile
<1> QED
  BY <1>2, <1>3, <1>5, <1>6

\* A compaction adds its output: older than the files up to the level that is
\* compacted, newer than the others.
LEMMA CompactLive ==
    ASSUME BaseInv, CompactLevel
    PROVE  /\ Output' \in LiveFiles' /\ Output' \notin LiveFiles
           /\ LiveFiles' = LiveFiles \cup {Output'}
           /\ disk'[Output'] = Merged(level)
           /\ \A f \in LiveFiles : /\ disk'[f] = disk[f]
                                    /\ (NewerFile(f, Output') => f[1] <= level)
                                    /\ (NewerFile(Output', f) => level < f[1])
           /\ ~NewerFile(Output', Output')
           /\ level \in Levels /\ level \in Nat
           /\ FilesOf(level)' = FilesOf(level)
<1> DEFINE n == level + 1
           g == <<n, NextSeq(n)>>
<1>1. level \in Levels /\ n \in Levels /\ Merged(level) \in Tables /\ level # n
  BY CompactedLevel, MergedType DEF CompactLevel, BaseInv
<1>2. TakeSeq(n) /\ WriteFile(n, Merged(level)) /\ InsertNode(n) /\ level' = level
  BY DEF CompactLevel
<1>3. NextSeq(n) = levelToSeq[n] + 1 /\ levelToSeq[n] \in Nat /\ level \in Nat
  BY <1>1 DEF NextSeq, BaseInv, TypeOK
<1>4. levelToSeq'[n] = NextSeq(n)
  BY <1>1, <1>2 DEF TakeSeq, BaseInv, TypeOK
<1>5. Output' = g
  BY <1>2, <1>4 DEF Output
<1>6. LiveFiles' = LiveFiles \cup {g}
  BY <1>1, <1>2, AddFile
<1>7. /\ g \notin LiveFiles /\ disk'[g] = Merged(level)
      /\ \A f \in LiveFiles : disk'[f] = disk[f]
  BY <1>1, <1>2, WriteIsFresh
<1>8. ASSUME NEW f \in LiveFiles
      PROVE  /\ (NewerFile(f, g) => f[1] <= level)
             /\ (NewerFile(g, f) => level < f[1])
  <2>1. f[1] \in Nat /\ f[2] \in Nat /\ f[2] <= levelToSeq[f[1]]
    BY LiveTypes
  <2>2. f[1] = n => f[2] < NextSeq(n)
    BY <1>3, <2>1
  <2> QED
    BY <1>3, <2>1, <2>2 DEF NewerFile
<1>9. ~NewerFile(g, g)
  BY <1>3 DEF NewerFile
<1>10. FilesOf(level)' = FilesOf(level)
  <2>1. nodes'[level] = nodes[level]
    BY <1>1, <1>2, InsertAppends
  <2> QED
    BY <1>2, <2>1 DEF FilesOf
<1> HIDE DEF g
<1> QED
  BY <1>1, <1>3, <1>5, <1>6, <1>7, <1>8, <1>9, <1>10

\* The removal of the inputs leaves the files of the other levels.
LEMMA RemoveLive ==
    ASSUME BaseInv, RemoveNodes, MustCompact(level)
    PROVE  /\ LiveFiles' = LiveFiles \ FilesOf(level)
           /\ \A f \in LiveFiles' : disk'[f] = disk[f]
<1>1. level \in Levels
  BY CompactedLevel DEF BaseInv
<1>2. LiveFiles' = LiveFiles \ FilesOf(level)
  BY <1>1, RemoveFiles DEF RemoveNodes
<1>3. LiveFiles \subseteq DOMAIN disk
  BY DEF LiveFiles, BaseInv, NodesOnDisk
<1> QED
  BY <1>2, <1>3 DEF RemoveNodes, Destroyed

\* The stages at which a compaction has its output and still its inputs.
LEMMA CleanupNext ==
    ASSUME BaseInv, Continue
    PROVE  /\ pc' = "cleanup" => CompactLevel \/ CompactReaderFails
           /\ pc' = "cleanup" => MustCompact(level)'
           /\ pc # "closed" /\ pc' # "closed"
           /\ pc = "cleanup" => RemoveNodes
<1>1. CompactLevel => MustCompact(level)'
  <2> SUFFICES ASSUME CompactLevel PROVE MustCompact(level)'
    OBVIOUS
  <2>1. /\ MustCompact(level) /\ level' = level /\ InsertNode(level + 1)
        /\ level \in Levels /\ level + 1 \in Levels /\ level # level + 1
    BY CompactedLevel DEF CompactLevel, BaseInv
  <2>2. nodes'[level] = nodes[level]
    BY <2>1, InsertAppends
  <2> QED
    BY <2>1, <2>2 DEF MustCompact
<1>2. CompactReaderFails => MustCompact(level)'
  BY DEF CompactReaderFails, MustCompact
<1>3. \/ pc' # "cleanup" \/ CompactLevel \/ CompactReaderFails
  BY DEF Continue, FlushMemTable, FlushOpenFails, FlushReaderFails,
         CompactOpenFails, CompactMergeFails, RemoveNodes, CascadeDone
<1>4. pc # "closed" /\ pc' # "closed"
  BY DEF Continue, FlushMemTable, FlushOpenFails, FlushReaderFails,
         CompactLevel, CompactOpenFails, CompactMergeFails, CompactReaderFails,
         RemoveNodes, CascadeDone
<1>5. pc # "cleanup" \/ RemoveNodes
  BY DEF Continue, FlushMemTable, FlushOpenFails, FlushReaderFails,
         CompactLevel, CompactOpenFails, CompactMergeFails, CompactReaderFails,
         CascadeDone
<1> QED
  BY <1>1, <1>2, <1>3, <1>4, <1>5

-----------------------------------------------------------------------------
(* The bitmaps grow.                                                       *)

\* A step that keeps the files it leaves alive, and the memtable or nothing.
LEMMA KeepGrow ==
    ASSUME Grow, MemGrow, LiveFiles' \subseteq LiveFiles,
           \A f \in LiveFiles' : disk'[f] = disk[f],
           \A f, g \in LiveFiles' : IsOutput(f, g) => IsOutput(f, g)',
           memTable' = memTable \/ memTable' = NoEntries
    PROVE  Grow' /\ MemGrow'
<1>1. Grow'
  <2> SUFFICES ASSUME NEW k \in Keys, NEW f \in LiveFiles', NEW g \in LiveFiles',
                      Holds(f, k)', Holds(g, k)', NewerFile(f, g), ~IsOutput(f, g)'
               PROVE  Bits(disk'[g][k]) \subseteq Bits(disk'[f][k])
    BY DEF Grow, NewerFile, Bits
  <2> QED
    BY DEF Grow, Holds
<1>2. MemGrow'
  <2> SUFFICES ASSUME NEW k \in Keys, NEW f \in LiveFiles',
                      memTable'[k] # Missing, Holds(f, k)'
               PROVE  Bits(disk'[f][k]) \subseteq Bits(memTable'[k])
    BY DEF MemGrow, Bits
  <2>1. memTable'[k] = memTable[k]
    BY DEF NoEntries
  <2> QED
    BY <2>1 DEF MemGrow, Holds
<1> QED
  BY <1>1, <1>2

LEMMA FlushGrow ==
    ASSUME BaseInv, Grow, MemGrow, FlushMemTable
    PROVE  Grow' /\ MemGrow'
<1>1. pc = "flush" /\ memTable' = memTable
  BY DEF FlushMemTable
<1>2. PICK n \in LiveFiles' :
        /\ LiveFiles' = LiveFiles \cup {n} /\ n \notin LiveFiles
        /\ \A f \in LiveFiles : disk'[f] = disk[f] /\ ~NewerFile(f, n)
        /\ disk'[n] = FlushedTable /\ ~NewerFile(n, n)
  BY FlushLive
<1>3. \A k \in Keys : /\ disk'[n][k] # Missing <=> memTable[k] # Missing
                      /\ Bits(disk'[n][k]) = Bits(memTable[k])
  BY <1>2, BitsOfVal DEF FlushedTable
<1>4. Grow'
  <2> SUFFICES ASSUME NEW k \in Keys, NEW f \in LiveFiles', NEW g \in LiveFiles',
                      Holds(f, k)', Holds(g, k)', NewerFile(f, g)
               PROVE  Bits(disk'[g][k]) \subseteq Bits(disk'[f][k])
    BY DEF Grow, NewerFile, Bits
  <2>1. g \in LiveFiles
    BY <1>2
  <2>2. CASE f = n
    BY <1>2, <1>3, <2>1, <2>2 DEF MemGrow, Holds
  <2>3. CASE f \in LiveFiles
    BY <1>1, <1>2, <2>1, <2>3 DEF Grow, Holds, IsOutput
  <2> QED
    BY <1>2, <2>2, <2>3
<1>5. MemGrow'
  <2> SUFFICES ASSUME NEW k \in Keys, NEW f \in LiveFiles',
                      memTable[k] # Missing, Holds(f, k)'
               PROVE  Bits(disk'[f][k]) \subseteq Bits(memTable[k])
    BY <1>1 DEF MemGrow, Bits
  <2> QED
    BY <1>2, <1>3 DEF MemGrow, Holds
<1> QED
  BY <1>4, <1>5

\* The output of a compaction fits between the levels: the files of the level
\* that it is made of are above those of the next one.
LEMMA CompactGrow ==
    ASSUME BaseInv, Grow, MemGrow, CompactLevel
    PROVE  Grow' /\ MemGrow'
<1>1. /\ pc = "cascade" /\ pc' = "cleanup" /\ memTable' = memTable
      /\ level' = level
  BY DEF CompactLevel
<1> DEFINE n == Output'
<1>2. /\ LiveFiles' = LiveFiles \cup {n} /\ disk'[n] = Merged(level)
      /\ \A f \in LiveFiles : /\ disk'[f] = disk[f]
                               /\ (NewerFile(f, n) => f[1] <= level)
                               /\ (NewerFile(n, f) => level < f[1])
      /\ ~NewerFile(n, n)
      /\ level \in Levels /\ level \in Nat
  BY CompactLive
<1>3. \A f, g : IsOutput(f, g)' <=> f[1] = level /\ g = n
  BY <1>1 DEF IsOutput, Output
<1> HIDE DEF n
<1>4. ASSUME NEW k \in Keys
      PROVE  /\ Merged(level)[k] # Missing <=>
                    \E f \in FilesOf(level) : Holds(f, k)
             /\ \A d : (Merged(level)[k] # Missing /\ d \in Bits(Merged(level)[k]))
                          <=> \E f \in FilesOf(level) : InFile(f, k, d)
  BY <1>2, MergedBits
<1>5. \A f \in FilesOf(level) : f \in LiveFiles /\ f[1] = level
  BY <1>2 DEF FilesOf, LiveFiles
<1>6. Grow'
  <2> SUFFICES ASSUME NEW k \in Keys, NEW f \in LiveFiles', NEW g \in LiveFiles',
                      Holds(f, k)', Holds(g, k)', NewerFile(f, g), ~IsOutput(f, g)',
                      NEW d \in Bits(disk'[g][k])
               PROVE  d \in Bits(disk'[f][k])
    BY DEF Grow, NewerFile, Bits
  <2>1. CASE f \in LiveFiles /\ g \in LiveFiles
    BY <1>1, <1>2, <2>1 DEF Grow, Holds, IsOutput
  <2>2. CASE f \in LiveFiles /\ g = n
    <3>1. f[1] < level
      <4>1. f[1] <= level /\ f[1] # level /\ f[1] \in Nat
        BY <1>2, <1>3, <2>2, LiveTypes
      <4> QED
        BY <1>2, <4>1
    <3>2. PICK h \in FilesOf(level) : InFile(h, k, d)
      BY <1>2, <1>4, <2>2 DEF Holds
    <3>3. NewerFile(f, h) /\ h \in LiveFiles
      BY <1>5, <3>1 DEF NewerFile
    <3> QED
      BY <1>1, <1>2, <2>2, <3>2, <3>3 DEF Grow, InFile, Holds, IsOutput
  <2>3. CASE f = n /\ g \in LiveFiles
    <3>1. level < g[1]
      BY <1>2, <2>3
    <3>2. PICK h \in FilesOf(level) : Holds(h, k)
      BY <1>2, <1>4, <2>3 DEF Holds
    <3>3. NewerFile(h, g) /\ h \in LiveFiles
      BY <1>5, <3>1 DEF NewerFile
    <3>4. d \in Bits(disk[h][k])
      BY <1>1, <1>2, <2>3, <3>2, <3>3 DEF Grow, Holds, IsOutput
    <3>5. d \in Bits(Merged(level)[k])
      BY <1>4, <3>2, <3>4 DEF InFile
    <3> QED
      BY <1>2, <2>3, <3>5
  <2> QED
    BY <1>2, <2>1, <2>2, <2>3
<1>7. MemGrow'
  <2> SUFFICES ASSUME NEW k \in Keys, NEW f \in LiveFiles',
                      memTable[k] # Missing, Holds(f, k)',
                      NEW d \in Bits(disk'[f][k])
               PROVE  d \in Bits(memTable[k])
    BY <1>1 DEF MemGrow, Bits
  <2>1. CASE f \in LiveFiles
    BY <1>2, <2>1 DEF MemGrow, Holds
  <2>2. CASE f = n
    <3>1. PICK h \in FilesOf(level) : InFile(h, k, d)
      BY <1>2, <1>4, <2>2 DEF Holds
    <3> QED
      BY <1>5, <3>1 DEF MemGrow, InFile
  <2> QED
    BY <1>2, <2>1, <2>2
<1> QED
  BY <1>6, <1>7

\* A step of a call in progress keeps the order of the bitmaps, whatever fails.
LEMMA ContinueGrow ==
    ASSUME BaseInv, Grow, MemGrow, Continue, pc = "cleanup" => MustCompact(level)
    PROVE  Grow' /\ MemGrow'
<1>1. memTable' = memTable \/ memTable' = NoEntries
  BY ContinueTables
<1>2. CASE RemoveNodes
  <2>1. MustCompact(level)
    BY <1>2 DEF RemoveNodes
  <2>2. /\ LiveFiles' = LiveFiles \ FilesOf(level)
        /\ \A f \in LiveFiles' : disk'[f] = disk[f]
    BY <1>2, <2>1, RemoveLive
  <2>3. \A f, g \in LiveFiles' : ~IsOutput(f, g)
    <3> SUFFICES ASSUME NEW f \in LiveFiles' PROVE f[1] # level
      BY DEF IsOutput
    <3>1. f \in FilesOf(f[1]) /\ f \notin FilesOf(level)
      BY <2>2, LiveTypes
    <3> QED
      BY <3>1
  <2> QED
    BY <1>1, <2>2, <2>3, KeepGrow
<1>3. CASE ~FlushMemTable /\ ~CompactLevel /\ ~RemoveNodes
  <2>1. LiveFiles' = LiveFiles /\ \A f \in LiveFiles : disk'[f] = disk[f]
    BY <1>3, QuietLive
  <2>2. pc # "cleanup"
    BY <1>3, CleanupNext
  <2> QED
    BY <1>1, <2>1, <2>2, KeepGrow DEF IsOutput
<1> QED
  BY <1>2, <1>3, FlushGrow, CompactGrow

\* The bitmap that Add puts back is the one it read, with the document.
LEMMA AddWrites ==
    ASSUME IndexInv, AddFeature
    PROVE  \E k \in Keys : \E read \in Reads(k) :
              /\ Head(todo) \in Features /\ InFeature(k, Head(todo))
              /\ pc = "idle" /\ BaseInv /\ doc \in Docs
              /\ memTable' = [memTable EXCEPT ![k] = read \cup {doc}]
              /\ memTable'[k] = read \cup {doc}
              /\ \A j \in Keys : j # k => memTable'[j] = memTable[j]
              /\ read \cup {doc} # Missing
              /\ Bits(read \cup {doc}) = read \cup {doc}
              /\ misread' = (misread \/ read # NewestBitmap(k))
              /\ UNCHANGED <<nodes, disk, levelToSeq, level>>
              /\ pc' \in {"idle", "flush"}
<1> DEFINE g == Head(todo)
           k == CompositeKey(g, doc \div blockSize)
<1>1. PICK read \in Reads(k) : /\ Write(k, NewBitmap(read))
                              /\ misread' = (misread \/ read # NewestBitmap(k))
  BY DEF AddFeature
<1>2. /\ todo # <<>> /\ todo \in Seq(Features) /\ doc \in Docs
      /\ postings \in [Features -> SUBSET Docs]
  BY DEF AddFeature, IndexInv
<1>3. g \in Features
  BY <1>2
<1>4. k \in Keys /\ InFeature(k, g)
  BY <1>2, <1>3, KeyOfAdd
<1> HIDE DEF k
<1>5. pc = "idle" /\ BaseInv
  BY <1>1 DEF Write, IndexInv
<1>6. read \subseteq postings[g]
  BY <1>3, <1>4, <1>5, ReadOwned
<1>7. read \cup {doc} \in Vals
  BY <1>2, <1>3, <1>6, LSMIndexAssumption
<1>8. read \cup {doc} # Missing /\ Bits(read \cup {doc}) = read \cup {doc}
  BY <1>7, BitsOfVal, LSMTreeAssumption
<1>9. /\ memTable' = [memTable EXCEPT ![k] = read \cup {doc}]
      /\ UNCHANGED <<nodes, disk, levelToSeq, level>>
      /\ pc' \in {"idle", "flush"}
  BY <1>1 DEF Write, NewBitmap
<1>10. memTable'[k] = read \cup {doc}
       /\ \A j \in Keys : j # k => memTable'[j] = memTable[j]
  BY <1>4, <1>5, <1>9 DEF BaseInv, TypeOK, Tables
<1> QED
  BY <1>1, <1>2, <1>3, <1>4, <1>5, <1>8, <1>9, <1>10

\* An Add that read the newest bitmap writes one that holds all older ones.
LEMMA AddGrow ==
    ASSUME IndexInv, Grow, MemGrow, AddFeature, ~misread'
    PROVE  Grow' /\ MemGrow'
<1>0. PICK k \in Keys : \E read \in Reads(k) :
              /\ pc = "idle" /\ BaseInv
              /\ memTable'[k] = read \cup {doc}
              /\ \A j \in Keys : j # k => memTable'[j] = memTable[j]
              /\ Bits(read \cup {doc}) = read \cup {doc}
              /\ misread' = (misread \/ read # NewestBitmap(k))
              /\ UNCHANGED <<nodes, disk, levelToSeq, level>>
              /\ pc' \in {"idle", "flush"}
  BY AddWrites
<1>1. PICK read \in Reads(k) :
              /\ pc = "idle" /\ BaseInv
              /\ memTable'[k] = read \cup {doc}
              /\ \A j \in Keys : j # k => memTable'[j] = memTable[j]
              /\ Bits(read \cup {doc}) = read \cup {doc}
              /\ misread' = (misread \/ read # NewestBitmap(k))
              /\ UNCHANGED <<nodes, disk, levelToSeq, level>>
              /\ pc' \in {"idle", "flush"}
  BY <1>0
<1>2. LiveFiles' = LiveFiles
  BY <1>1 DEF LiveFiles, FilesOf
<1>3. Grow'
  <2> SUFFICES ASSUME NEW j \in Keys, NEW f \in LiveFiles, NEW g \in LiveFiles,
                      Holds(f, j), Holds(g, j), NewerFile(f, g)
               PROVE  Bits(disk[g][j]) \subseteq Bits(disk[f][j])
    BY <1>1, <1>2 DEF Grow, NewerFile, Bits, Holds
  <2> QED
    BY <1>1 DEF Grow, IsOutput
<1>4. MemGrow'
  <2> SUFFICES ASSUME NEW j \in Keys, NEW f \in LiveFiles,
                      memTable'[j] # Missing, Holds(f, j), NEW d \in Bits(disk[f][j])
               PROVE  d \in Bits(memTable'[j])
    BY <1>1, <1>2 DEF MemGrow, Bits, Holds
  <2>1. CASE j # k
    BY <1>1, <2>1 DEF MemGrow
  <2>2. CASE j = k
    <3>1. OutputExact
      BY <1>1 DEF OutputExact
    <3>2. d \in NewestBitmap(k)
      BY <1>1, <2>2, <3>1, NewestIsAll DEF Held, InSST, InFile
    <3> QED
      BY <1>1, <2>2, <3>2
  <2> QED
    BY <2>1, <2>2
<1> QED
  BY <1>3, <1>4

LEMMA GrowInvInit == ASSUME IndexInit PROVE GrowInv
<1>1. IndexInv
  BY IndexInvInit
<1>2. LiveFiles = {}
  BY DEF IndexInit, Init, LiveFiles, FilesOf
<1> QED
  BY <1>1, <1>2 DEF IndexInit, Init, GrowInv, Grow, MemGrow

LEMMA GrowInvNext ==
    ASSUME GrowInv, [IndexNext]_allVars
    PROVE  GrowInv'
<1>1. IndexInv /\ IndexInv'
  BY IndexInvNext DEF GrowInv
<1>2. ASSUME UNCHANGED vars, misread' = misread
      PROVE  /\ (pc = "cleanup" => MustCompact(level))'
             /\ (pc # "closed" /\ ~misread => Grow /\ MemGrow)'
  <2>1. UNCHANGED <<memTable, nodes, disk, pc, level, levelToSeq>>
    BY <1>2 DEF vars
  <2>2. LiveFiles' = LiveFiles
    BY <2>1 DEF LiveFiles, FilesOf
  <2>3. Grow /\ MemGrow => Grow' /\ MemGrow'
    BY <2>1, <2>2 DEF Grow, MemGrow, Holds, IsOutput, Output, NewerFile, Bits
  <2>4. (pc = "cleanup" => MustCompact(level))'
    BY <2>1 DEF GrowInv, MustCompact
  <2> QED
    BY <1>2, <2>1, <2>3, <2>4 DEF GrowInv
<1>3. CASE UNCHANGED allVars
  BY <1>1, <1>2, <1>3 DEF allVars, indexVars, GrowInv
<1>4. ASSUME NEW d \in Docs, NEW fs \in FeatureLists, AddCalled(d, fs)
      PROVE  GrowInv'
  <2>1. doc' # NoDoc
    BY <1>4, LSMIndexAssumption DEF AddCalled
  <2> QED
    BY <1>1, <1>2, <1>4, <2>1 DEF AddCalled, GrowInv
<1>5. CASE AddReturns
  BY <1>1, <1>2, <1>5 DEF AddReturns, GrowInv
<1>6. CASE CloseIndex
  BY <1>1, <1>6 DEF CloseIndex, indexVars, GrowInv
<1>7. CASE AddFeature
  <2>1. /\ pc = "idle" /\ pc' \in {"idle", "flush"}
        /\ ~misread' => ~misread
    BY <1>1, <1>7, AddWrites
  <2>2. doc' = doc /\ doc # NoDoc
    BY <1>7 DEF AddFeature
  <2>3. ~misread' => Grow' /\ MemGrow'
    BY <1>1, <1>7, <2>1, AddGrow DEF GrowInv
  <2> QED
    BY <1>1, <2>1, <2>2, <2>3 DEF GrowInv
<1>8. CASE TreeContinues
  <2>1. Continue /\ UNCHANGED <<doc, todo, misread>>
    BY <1>8 DEF TreeContinues
  <2>2. BaseInv
    BY <1>1, <2>1 DEF IndexInv, Continue, FlushMemTable, FlushOpenFails,
         FlushReaderFails, CompactLevel, CompactOpenFails, CompactMergeFails,
         CompactReaderFails, RemoveNodes, CascadeDone
  <2>3. /\ pc' = "cleanup" => MustCompact(level)'
        /\ pc # "closed"
    BY <2>1, <2>2, CleanupNext
  <2>4. ~misread => Grow' /\ MemGrow'
    BY <2>1, <2>2, <2>3, ContinueGrow DEF GrowInv
  <2> QED
    BY <1>1, <2>1, <2>3, <2>4 DEF GrowInv
<1> QED
  BY <1>3, <1>4, <1>5, <1>6, <1>7, <1>8 DEF IndexNext

\* Of two entries of a key the newer one has every document of the older one,
\* whatever file operation fails, as long as Add reads what is there: Get, which
\* stops at the newest entry, and a compaction, which unites all, cannot
\* disagree (lsm_index.go:83, bitmap_merge_iterator.go).
THEOREM Growing == IndexSpec => []BitmapsGrow
<1>1. ASSUME GrowInv PROVE BitmapsGrow
  <2> SUFFICES ASSUME pc \notin {"cleanup", "closed"}, ~misread,
                      NEW k \in Keys, NEW x \in Entries(k), NEW y \in Entries(k),
                      Newer(x, y), x[3] # Missing, y[3] # Missing
               PROVE  Bits(y[3]) \subseteq Bits(x[3])
    BY DEF BitmapsGrow
  <2>1. BaseInv /\ Grow /\ MemGrow
    BY <1>1 DEF GrowInv, IndexInv
  <2>2. ASSUME NEW e \in Entries(k)
        PROVE  \/ e = <<-1, 0, memTable[k]>>
               \/ \E l \in Levels : \E i \in Hits(l, k) :
                     e = <<l, -i, disk[<<l, nodes[l][i]>>][k]>>
    BY <2>2 DEF Entries
  <2>3. Levels \subseteq Nat
    BY LSMTreeAssumption DEF Levels
  <2>4. PICK m \in Levels : \E j \in Hits(m, k) :
                                y = <<m, -j, disk[<<m, nodes[m][j]>>][k]>>
    <3>1. y # <<-1, 0, memTable[k]>>
      <4> SUFFICES ASSUME y = <<-1, 0, memTable[k]>> PROVE FALSE
        OBVIOUS
      <4>1. CASE x = <<-1, 0, memTable[k]>>
        BY <4>1 DEF Newer
      <4>2. ASSUME NEW l \in Levels, NEW i \in Hits(l, k),
                   x = <<l, -i, disk[<<l, nodes[l][i]>>][k]>>
            PROVE  FALSE
        <5>1. l \in Nat /\ x[1] = l /\ y[1] = -1
          BY <2>3, <4>2
        <5> QED
          BY <5>1 DEF Newer
      <4> QED
        BY <2>2, <4>1, <4>2
    <3> QED
      BY <2>2, <3>1
  <2>5. PICK j \in Hits(m, k) : y = <<m, -j, disk[<<m, nodes[m][j]>>][k]>>
    BY <2>4
  <2> DEFINE g == <<m, nodes[m][j]>>
  <2>6. g \in LiveFiles /\ Holds(g, k) /\ y[3] = disk[g][k]
    BY <2>1, <2>5, HitsAreFiles
  <2>7. CASE x = <<-1, 0, memTable[k]>>
    BY <2>1, <2>6, <2>7 DEF MemGrow
  <2>8. ASSUME NEW l \in Levels, NEW i \in Hits(l, k),
               x = <<l, -i, disk[<<l, nodes[l][i]>>][k]>>
        PROVE  Bits(y[3]) \subseteq Bits(x[3])
    <3> DEFINE f == <<l, nodes[l][i]>>
    <3>1. f \in LiveFiles /\ Holds(f, k) /\ x[3] = disk[f][k]
      BY <2>1, <2>8, HitsAreFiles
    <3>2. NewerFile(f, g)
      <4>1. l < m \/ (l = m /\ -i < -j)
        BY <2>5, <2>8 DEF Newer
      <4>2. CASE l < m
        BY <4>2 DEF NewerFile
      <4>3. CASE l = m /\ -i < -j
        <5>1. i \in DOMAIN nodes[l] /\ j \in DOMAIN nodes[l]
          BY <4>3 DEF Hits
        <5>2. i \in Nat /\ j \in Nat
          BY <2>1, <5>1, SMTT(40) DEF BaseInv, TypeOK
        <5>3. j < i
          BY <4>3, <5>2
        <5>4. nodes[l][j] < nodes[l][i]
          BY <2>1, <5>1, <5>3 DEF BaseInv, SeqsIncreasing
        <5> QED
          BY <4>3, <5>4 DEF NewerFile
      <4> QED
        BY <4>1, <4>2, <4>3
    <3>3. ~IsOutput(f, g)
      BY DEF IsOutput
    <3> HIDE DEF f, g
    <3> QED
      BY <2>1, <2>6, <3>1, <3>2, <3>3 DEF Grow
  <2> QED
    BY <2>2, <2>7, <2>8
<1> QED
  BY <1>1, GrowInvInit, GrowInvNext, PTL DEF IndexSpec

-----------------------------------------------------------------------------
(* No document is lost.                                                    *)

\* A step that leaves the live files.
LEMMA SameSST ==
    ASSUME LiveFiles' = LiveFiles, \A f \in LiveFiles : disk'[f] = disk[f]
    PROVE  \A k \in Keys : \A d : InSST(k, d)' <=> InSST(k, d)
  BY DEF InSST, InFile, Holds, Bits

\* A step of a call in progress that loses no entry leaves every document in
\* the memtable or in an SST, and the memtable is dropped when the SSTs have it.
LEMMA ContinueHeld ==
    ASSUME BaseInv, Continue, ~Losing, MemHeld, OutputExact,
           pc = "cleanup" => MustCompact(level)
    PROVE  /\ \A k \in Keys : \A d : InSST(k, d) => InSST(k, d)'
           /\ \A k \in Keys : \A d : Held(k, d) => Held(k, d)'
           /\ MemHeld' /\ OutputExact'
<1>1. CASE FlushMemTable
  <2>1. memTable' = memTable /\ pc' = "cascade"
    BY <1>1 DEF FlushMemTable
  <2>2. PICK n \in LiveFiles' :
          /\ LiveFiles' = LiveFiles \cup {n}
          /\ \A f \in LiveFiles : disk'[f] = disk[f]
          /\ disk'[n] = FlushedTable
    BY <1>1, FlushLive
  <2>3. \A k \in Keys : \A d : InSST(k, d) => InSST(k, d)'
    BY <2>2 DEF InSST, InFile, Holds, Bits
  <2>4. \A k \in Keys : /\ disk'[n][k] # Missing <=> memTable[k] # Missing
                        /\ Bits(disk'[n][k]) = Bits(memTable[k])
    BY <2>2, BitsOfVal DEF FlushedTable
  <2>5. \A k \in Keys : \A d : InMem(k, d) => InSST(k, d)'
    BY <2>4 DEF InMem, InSST, InFile, Holds, Bits
  <2>6. \A k \in Keys : \A d : InMem(k, d)' <=> InMem(k, d)
    BY <2>1 DEF InMem, Bits
  <2> QED
    BY <2>1, <2>3, <2>5, <2>6 DEF Held, MemHeld, OutputExact
<1>2. CASE CompactLevel
  <2>1. /\ memTable' = memTable /\ pc = "cascade" /\ pc' = "cleanup"
        /\ level' = level
    BY <1>2 DEF CompactLevel
  <2>2. /\ Output' \in LiveFiles' /\ LiveFiles' = LiveFiles \cup {Output'}
        /\ Output' \notin LiveFiles
        /\ disk'[Output'] = Merged(level)
        /\ \A f \in LiveFiles : disk'[f] = disk[f]
        /\ level \in Levels /\ FilesOf(level)' = FilesOf(level)
    BY <1>2, CompactLive
  <2>3. \A k \in Keys : \A d : InSST(k, d) => InSST(k, d)'
    BY <2>2 DEF InSST, InFile, Holds, Bits
  <2>4. \A k \in Keys : \A d : InMem(k, d)' <=> InMem(k, d)
    BY <2>1 DEF InMem, Bits
  <2>5. MemHeld'
    BY <2>1, <2>3, <2>4 DEF MemHeld
  <2>6. OutputExact'
    <3>1. ASSUME NEW k \in Keys, NEW d
          PROVE  InFile(Output, k, d)' <=> \E f \in FilesOf(level) : InFile(f, k, d)
      <4>1. InFile(Output, k, d)' <=>
                Merged(level)[k] # Missing /\ d \in Bits(Merged(level)[k])
        BY <2>2 DEF InFile, Holds, Bits
      <4> QED
        BY <2>2, <4>1, MergedBits
    <3>2. FilesOf(level) \subseteq LiveFiles
      BY <2>2 DEF LiveFiles
    <3>3. ASSUME NEW f \in FilesOf(level), NEW k \in Keys, NEW d
          PROVE  InFile(f, k, d)' <=> InFile(f, k, d)
      BY <2>2, <3>2 DEF InFile, Holds, Bits
    <3>4. ASSUME NEW k \in Keys, NEW d
          PROVE  InFile(Output, k, d)' <=>
                     \E f \in FilesOf(level)' : InFile(f, k, d)'
      BY <2>2, <3>1, <3>3
    <3> QED
      BY <2>2, <3>4 DEF OutputExact
  <2> QED
    BY <2>3, <2>4, <2>5, <2>6 DEF Held
<1>3. CASE RemoveNodes
  <2>1. /\ memTable' = memTable /\ pc = "cleanup" /\ pc' = "cascade"
        /\ MustCompact(level)
    BY <1>3 DEF RemoveNodes
  <2>2. /\ LiveFiles' = LiveFiles \ FilesOf(level)
        /\ \A f \in LiveFiles' : disk'[f] = disk[f]
    BY <1>3, <2>1, RemoveLive
  <2>3. level \in Levels /\ level \in Nat
    BY <2>1, CompactedLevel DEF BaseInv, TypeOK
  <2>4. Output \in LiveFiles'
    <3>1. Output \in LiveFiles /\ Output[1] = level + 1
      BY <2>1 DEF OutputExact, Output
    <3>2. \A f \in FilesOf(level) : f[1] = level
      BY DEF FilesOf
    <3> QED
      BY <2>2, <2>3, <3>1, <3>2
  <2>5. ASSUME NEW k \in Keys, NEW d, InSST(k, d) PROVE InSST(k, d)'
    <3>1. PICK f \in LiveFiles : InFile(f, k, d)
      BY <2>5 DEF InSST
    <3>2. PICK h \in LiveFiles' : InFile(h, k, d)
      <4>1. CASE f \in FilesOf(level)
        BY <2>1, <2>4, <3>1, <4>1 DEF OutputExact
      <4>2. CASE f \notin FilesOf(level)
        BY <2>2, <3>1, <4>2
      <4> QED
        BY <4>1, <4>2
    <3> QED
      BY <2>2, <3>2 DEF InSST, InFile, Holds, Bits
  <2>6. \A k \in Keys : \A d : InMem(k, d)' <=> InMem(k, d)
    BY <2>1 DEF InMem, Bits
  <2> QED
    BY <2>1, <2>5, <2>6 DEF Held, MemHeld, OutputExact
<1>4. CASE ~FlushMemTable /\ ~CompactLevel /\ ~RemoveNodes
  <2>1. LiveFiles' = LiveFiles /\ \A f \in LiveFiles : disk'[f] = disk[f]
    BY <1>4, QuietLive
  <2>2. \A k \in Keys : \A d : InSST(k, d)' <=> InSST(k, d)
    BY <2>1, SameSST
  <2>3. OutputExact'
    <3>1. pc' # "cleanup"
      BY <1>4, CleanupNext DEF Losing
    <3> QED
      BY <3>1 DEF OutputExact
  <2>4. CASE CascadeDone
    <3>1. /\ pc = "cascade" /\ pc' = "idle"
          /\ \A k \in Keys : memTable'[k] = Missing
      BY <2>4 DEF CascadeDone, NewMemTable, NoEntries
    <3> QED
      BY <2>2, <2>3, <3>1 DEF MemHeld, Held, InMem
  <2>5. CASE CompactOpenFails \/ CompactMergeFails
    <3>1. memTable' = memTable /\ pc = "cascade"
      BY <2>5 DEF CompactOpenFails, CompactMergeFails
    <3>2. \A k \in Keys : \A d : InMem(k, d)' <=> InMem(k, d)
      BY <3>1 DEF InMem, Bits
    <3> QED
      BY <2>2, <2>3, <3>1, <3>2 DEF MemHeld, Held
  <2> QED
    BY <1>4, <2>4, <2>5 DEF Continue, Losing
<1> QED
  BY <1>1, <1>2, <1>3, <1>4

\* Add takes no document away: it writes a key of the memtable over only with
\* what it read there.
LEMMA AddHeld ==
    ASSUME IndexInv, AddFeature, AllHeld
    PROVE  /\ \A k \in Keys : \A d : Held(k, d) => Held(k, d)'
           /\ AllHeld'
<1>0. PICK k \in Keys : \E read \in Reads(k) :
              /\ Head(todo) \in Features /\ InFeature(k, Head(todo))
              /\ memTable'[k] = read \cup {doc}
              /\ \A j \in Keys : j # k => memTable'[j] = memTable[j]
              /\ read \cup {doc} # Missing
              /\ Bits(read \cup {doc}) = read \cup {doc}
              /\ UNCHANGED <<nodes, disk>>
  BY AddWrites
<1>1. PICK read \in Reads(k) :
              /\ Head(todo) \in Features /\ InFeature(k, Head(todo))
              /\ memTable'[k] = read \cup {doc}
              /\ \A j \in Keys : j # k => memTable'[j] = memTable[j]
              /\ read \cup {doc} # Missing
              /\ Bits(read \cup {doc}) = read \cup {doc}
              /\ UNCHANGED <<nodes, disk>>
  BY <1>0
<1>2. \A j \in Keys : \A d : InSST(j, d)' <=> InSST(j, d)
  BY <1>1, SameSST DEF LiveFiles, FilesOf
<1>3. ASSUME NEW j \in Keys, NEW d, InMem(j, d) PROVE InMem(j, d)'
  <2>1. CASE j # k
    BY <1>1, <1>3, <2>1 DEF InMem, Bits
  <2>2. CASE j = k
    <3>1. d \in NewestBitmap(k) /\ memTable[k] # Missing
      BY <1>3, <2>2, NewestOfMem DEF InMem
    <3>2. read = NewestBitmap(k)
      BY <3>1 DEF Reads
    <3> QED
      BY <1>1, <2>2, <3>1, <3>2 DEF InMem, Bits
  <2> QED
    BY <2>1, <2>2
<1>4. \A j \in Keys : \A d : Held(j, d) => Held(j, d)'
  BY <1>2, <1>3 DEF Held
<1>5. /\ todo # <<>> /\ todo \in Seq(Features) /\ todo' = Tail(todo)
      /\ UNCHANGED <<doc, postings>>
  BY DEF AddFeature, IndexInv
<1>6. ASSUME NEW f \in Features, NEW d \in postings[f]
      PROVE  \/ d \in Pending(f)'
             \/ \E j \in Keys : InFeature(j, f) /\ Held(j, d)'
  <2>1. CASE d \in Pending(f)
    <3>1. PICK i \in DOMAIN todo : todo[i] = f /\ d = doc
      BY <2>1 DEF Pending
    <3>2. CASE i = 1
      <4>1. InFeature(k, f) /\ InMem(k, d)'
        BY <1>1, <1>5, <3>1, <3>2, SMTT(40) DEF InMem, Bits
      <4> QED
        BY <4>1 DEF Held
    <3>3. CASE i # 1
      <4>1. i - 1 \in DOMAIN todo' /\ todo'[i - 1] = f
        BY <1>5, <3>1, <3>3
      <4> QED
        BY <1>5, <3>1, <4>1 DEF Pending
    <3> QED
      BY <3>2, <3>3
  <2>2. CASE \E j \in Keys : InFeature(j, f) /\ Held(j, d)
    BY <1>4, <2>2
  <2> QED
    BY <2>1, <2>2 DEF AllHeld
<1>7. AllHeld'
  BY <1>5, <1>6 DEF AllHeld, InFeature
<1> QED
  BY <1>4, <1>7

LEMMA HeldInvInit == ASSUME IndexInit PROVE HeldInv
  BY DEF IndexInit, Init, Mem!Init, HeldInv, MemHeld, OutputExact, AllHeld

\* No step that leaves the index open loses a document, until an entry is lost.
LEMMA HeldNext ==
    ASSUME GrowInv, HeldInv, [IndexNext]_allVars, pc' # "closed", ~lossy'
    PROVE  /\ \A k \in Keys : \A d : Held(k, d) => Held(k, d)'
           /\ MemHeld' /\ OutputExact' /\ AllHeld'
<1>1. ASSUME UNCHANGED vars
      PROVE  /\ \A k \in Keys : \A d : Held(k, d)' <=> Held(k, d)
             /\ MemHeld => MemHeld'
             /\ OutputExact => OutputExact'
  <2>1. UNCHANGED <<memTable, nodes, disk, pc, level, levelToSeq>>
    BY <1>1 DEF vars
  <2>2. \A k \in Keys : \A d : InSST(k, d)' <=> InSST(k, d)
    BY <2>1, SameSST DEF LiveFiles, FilesOf
  <2>3. \A k \in Keys : \A d : InMem(k, d)' <=> InMem(k, d)
    BY <2>1 DEF InMem, Bits
  <2>4. OutputExact => OutputExact'
    BY <2>1 DEF OutputExact, Output, LiveFiles, FilesOf, InFile, Holds, Bits
  <2> QED
    BY <2>1, <2>2, <2>3, <2>4 DEF Held, MemHeld
<1>2. CASE UNCHANGED allVars
  <2>1. UNCHANGED <<vars, doc, todo, lossy, postings>>
    BY <1>2 DEF allVars, indexVars
  <2>2. pc # "closed"
    BY <2>1 DEF vars
  <2>3. AllHeld => AllHeld'
    BY <1>1, <2>1 DEF AllHeld, Pending, InFeature
  <2> QED
    BY <1>1, <2>1, <2>2, <2>3 DEF HeldInv
<1>3. ASSUME NEW d \in Docs, NEW fs \in FeatureLists, AddCalled(d, fs)
      PROVE  /\ \A k \in Keys : \A e : Held(k, e) => Held(k, e)'
             /\ MemHeld' /\ OutputExact' /\ AllHeld'
  <2>1. /\ UNCHANGED <<vars, lossy>> /\ pc = "idle" /\ doc = NoDoc
        /\ doc' = d /\ todo' = fs /\ Mem!Add(d, fs)
    BY <1>3 DEF AddCalled
  <2>2. postings \in [Features -> SUBSET Docs] /\ NoDoc \notin Docs
    BY LSMIndexAssumption DEF GrowInv, IndexInv
  <2>3. AllHeld /\ MemHeld /\ OutputExact
    BY <2>1 DEF HeldInv
  <2>4. ASSUME NEW f \in Features, NEW e \in postings'[f]
        PROVE  \/ e \in Pending(f)'
               \/ \E k \in Keys : InFeature(k, f) /\ Held(k, e)'
    <3>1. CASE e \in postings[f]
      <4>1. e # doc
        BY <2>1, <2>2, <3>1
      <4>2. e \notin Pending(f)
        BY <4>1 DEF Pending
      <4> QED
        BY <1>1, <2>1, <2>3, <3>1, <4>2 DEF AllHeld
    <3>2. CASE e \notin postings[f]
      <4>1. e = d /\ \E i \in DOMAIN fs : fs[i] = f
        BY <2>1, <2>2, <2>4, <3>2 DEF Mem!Add
      <4> QED
        BY <2>1, <4>1 DEF Pending
    <3> QED
      BY <3>1, <3>2
  <2>5. AllHeld'
    BY <2>4 DEF AllHeld, InFeature
  <2> QED
    BY <1>1, <2>1, <2>3, <2>5
<1>4. CASE AddReturns
  <2>1. /\ UNCHANGED <<vars, lossy, todo, postings>> /\ pc = "idle"
        /\ todo = <<>>
    BY <1>4 DEF AddReturns
  <2>2. \A f : Pending(f) = {}
    BY <2>1 DEF Pending
  <2>3. AllHeld /\ MemHeld /\ OutputExact
    BY <2>1 DEF HeldInv
  <2>4. AllHeld'
    BY <1>1, <2>1, <2>2, <2>3 DEF AllHeld, InFeature
  <2> QED
    BY <1>1, <2>1, <2>3, <2>4
<1>5. CASE CloseIndex
  BY <1>5 DEF CloseIndex
<1>6. CASE AddFeature
  <2>1. pc = "idle" /\ pc' \in {"idle", "flush"} /\ lossy' = lossy /\ IndexInv
    BY <1>6, AddWrites DEF GrowInv, AddFeature
  <2>2. AllHeld
    BY <2>1 DEF HeldInv
  <2>3. MemHeld' /\ OutputExact'
    BY <2>1 DEF MemHeld, OutputExact
  <2> QED
    BY <1>6, <2>1, <2>2, <2>3, AddHeld
<1>7. CASE TreeContinues
  <2>1. /\ Continue /\ UNCHANGED <<doc, todo, postings>>
        /\ ~Losing /\ ~lossy
    BY <1>7 DEF TreeContinues
  <2>2. pc # "closed"
    BY <2>1 DEF Continue, FlushMemTable, FlushOpenFails,
         FlushReaderFails, CompactLevel, CompactOpenFails, CompactMergeFails,
         CompactReaderFails, RemoveNodes, CascadeDone
  <2>3. BaseInv /\ (pc = "cleanup" => MustCompact(level))
    BY <2>2 DEF GrowInv, IndexInv
  <2>4. MemHeld /\ OutputExact /\ AllHeld
    BY <2>1, <2>2 DEF HeldInv
  <2>5. /\ \A k \in Keys : \A d : Held(k, d) => Held(k, d)'
        /\ MemHeld' /\ OutputExact'
    BY <2>1, <2>3, <2>4, ContinueHeld
  <2>6. AllHeld'
    BY <2>1, <2>4, <2>5 DEF AllHeld, Pending, InFeature
  <2> QED
    BY <2>5, <2>6
<1> QED
  BY <1>2, <1>3, <1>4, <1>5, <1>6, <1>7 DEF IndexNext

\* Both invariants hold in every behaviour.
LEMMA BothInv == IndexSpec => [](GrowInv /\ HeldInv)
<1>1. ASSUME GrowInv, HeldInv, [IndexNext]_allVars PROVE GrowInv' /\ HeldInv'
  BY <1>1, GrowInvNext, HeldNext DEF HeldInv
<1> QED
  BY <1>1, GrowInvInit, HeldInvInit, PTL DEF IndexSpec

-----------------------------------------------------------------------------
(* The properties.                                                         *)

\* The two ways to say that a key is of a feature.
LEMMA DivIs ==
    ASSUME NEW n \in Nat, n # 0, NEW f \in Nat, NEW k \in Int
    PROVE  k \div n = f <=> f * n <= k /\ k < (f + 1) * n
<1> DEFINE q == k \div n
<1>1. q \in Int /\ n * q <= k /\ k < n * q + n
  OBVIOUS
<1> HIDE DEF q
<1>2. q * n = n * q /\ (f + 1) * n = f * n + n /\ f * n = n * f
  BY <1>1
<1>3. CASE q = f
  BY <1>1, <1>2, <1>3
<1>4. ASSUME f < q PROVE ~ (k < (f + 1) * n)
  <2>1. n * (f + 1) <= n * q /\ n * (f + 1) = (f + 1) * n
    BY <1>1, <1>4
  <2> QED
    BY <1>1, <2>1
<1>5. ASSUME q < f PROVE ~ (f * n <= k)
  <2>1. n * (q + 1) <= n * f /\ n * (q + 1) = n * q + n
    BY <1>1, <1>5
  <2> QED
    BY <1>1, <1>2, <2>1
<1>6. q = f \/ f < q \/ q < f
  BY <1>1
<1>7. q = f <=> f * n <= k /\ k < (f + 1) * n
  BY <1>1, <1>2, <1>3, <1>4, <1>5, <1>6
<1> QED
  BY <1>7 DEF q

LEMMA KeysAreInFeature ==
    ASSUME NEW f \in Features
    PROVE  KeysOfFeature(f) = {k \in Keys : InFeature(k, f)}
<1>1. /\ NumBlocks \in Nat /\ NumBlocks # 0 /\ f \in Nat
      /\ \A k \in Keys : k \in Int
  BY LSMIndexAssumption, LSMTreeAssumption
<1>2. \A k \in Keys : k \div NumBlocks = f <=> InFeature(k, f)
  BY <1>1, DivIs DEF InFeature
<1> QED
  BY <1>2 DEF KeysOfFeature

\* A document that is held is in an entry.
LEMMA HeldInEntry ==
    ASSUME BaseInv, NEW k \in Keys, NEW d, Held(k, d)
    PROVE  \E e \in Entries(k) : e[3] # Missing /\ d \in Bits(e[3])
<1>1. CASE InMem(k, d)
  <2> DEFINE e == <<-1, 0, memTable[k]>>
  <2>1. e \in Entries(k) /\ e[3] = memTable[k]
    BY DEF Entries
  <2> QED
    BY <1>1, <2>1 DEF InMem
<1>2. CASE InSST(k, d)
  <2>1. PICK f \in LiveFiles : InFile(f, k, d)
    BY <1>2 DEF InSST
  <2>2. PICK l \in Levels : f \in FilesOf(l)
    BY DEF LiveFiles
  <2>3. PICK i \in Hits(l, k) : f = <<l, nodes[l][i]>>
    BY <2>1, <2>2, HitsAreFiles DEF InFile
  <2> DEFINE e == <<l, -i, disk[<<l, nodes[l][i]>>][k]>>
  <2>4. e \in Entries(k) /\ e[3] = disk[f][k]
    BY <2>3 DEF Entries
  <2> QED
    BY <2>1, <2>4 DEF InFile, Holds
<1> QED
  BY <1>1, <1>2 DEF Held

\* Whatever reads fail, and as long as no file operation loses an entry, every
\* document added to a feature is in some entry of its keys at every stage of
\* every flush and compaction (lsm_index.go:78, tree_compact.go).
THEOREM AllKept == IndexSpec => []NothingLost
<1>1. ASSUME GrowInv, HeldInv PROVE NothingLost
  <2> SUFFICES ASSUME pc # "closed", ~lossy, NEW f \in Features,
                      NEW d \in postings[f], d \notin Pending(f)
               PROVE  /\ d \in Docs
                      /\ \E k \in KeysOfFeature(f) : \E e \in Entries(k) :
                            e[3] # Missing /\ d \in Bits(e[3])
    BY DEF NothingLost
  <2>1. BaseInv /\ d \in Docs
    BY <1>1 DEF GrowInv, IndexInv
  <2>2. PICK k \in Keys : InFeature(k, f) /\ Held(k, d)
    BY <1>1 DEF HeldInv, AllHeld
  <2>3. k \in KeysOfFeature(f)
    BY <2>2, KeysAreInFeature
  <2> QED
    BY <2>1, <2>2, <2>3, HeldInEntry
<1> QED
  BY <1>1, BothInv, PTL

\* What Get finds, while no entry was lost or misread.
LEMMA FoundIsHeld ==
    GrowInv /\ HeldInv /\ pc # "closed" /\ ~lossy /\ ~misread =>
        \A k \in Keys : \A d : d \in NewestBitmap(k) <=> Held(k, d)
  BY NewestIsAll DEF GrowInv, HeldInv, IndexInv

\* The same of the next state.
LEMMA FoundIsHeldNext ==
    (GrowInv /\ HeldInv /\ pc # "closed" /\ ~lossy /\ ~misread =>
        \A k \in Keys : \A d : d \in NewestBitmap(k) <=> Held(k, d))'
  BY FoundIsHeld, PTL

\* Read key by key (Get), the bitmaps of a feature and the document that is
\* being added to it make up the postings of the in-memory index, at every stage
\* of every flush and compaction, until an entry is lost or misread.
THEOREM MatchesMem == IndexSpec => []BitmapsMatchMem
<1>1. ASSUME GrowInv, HeldInv PROVE BitmapsMatchMem
  <2> SUFFICES ASSUME pc # "closed", ~lossy, ~misread, NEW f \in Features
               PROVE  (UNION {NewestBitmap(k) : k \in KeysOfFeature(f)})
                          \cup Pending(f) = postings[f]
    BY DEF BitmapsMatchMem
  <2>1. IndexInv /\ BaseInv
    BY <1>1 DEF GrowInv, IndexInv
  <2>2. ASSUME NEW k \in KeysOfFeature(f) PROVE NewestBitmap(k) \subseteq postings[f]
    <3>1. k \in Keys /\ InFeature(k, f)
      BY KeysAreInFeature
    <3>2. NewestBitmap(k) \in Reads(k)
      BY DEF Reads
    <3> QED
      BY <2>1, <3>1, <3>2, ReadOwned
  <2>3. Pending(f) \subseteq postings[f]
    BY <1>1 DEF Pending, GrowInv, IndexInv
  <2>4. ASSUME NEW d \in postings[f], d \notin Pending(f)
        PROVE  \E k \in KeysOfFeature(f) : d \in NewestBitmap(k)
    <3>1. PICK k \in Keys : InFeature(k, f) /\ Held(k, d)
      BY <1>1, <2>4 DEF HeldInv, AllHeld
    <3>2. d \in NewestBitmap(k)
      BY <1>1, <3>1, FoundIsHeld
    <3> QED
      BY <3>1, <3>2, KeysAreInFeature
  <2> DEFINE U == UNION {NewestBitmap(k) : k \in KeysOfFeature(f)}
  <2>5. U \subseteq postings[f]
    BY <2>2
  <2>6. postings[f] \subseteq U \cup Pending(f)
    BY <2>4
  <2> HIDE DEF U
  <2>7. U \cup Pending(f) = postings[f]
    BY <2>3, <2>5, <2>6
  <2> QED
    BY <2>7 DEF U
<1> QED
  BY <1>1, BothInv, PTL

\* A document that Get finds under a key is found there ever after, until an
\* entry is lost or misread: no flush and no compaction hides one.
THEOREM FoundForever == IndexSpec => PostingsKept
<1>1. ASSUME GrowInv, HeldInv, GrowInv', HeldInv', [IndexNext]_allVars
      PROVE  [lossy' \/ misread' \/ Kept]_allVars
  <2> SUFFICES ASSUME ~lossy', ~misread', pc' # "closed",
                      NEW k \in Keys, NEW d \in NewestBitmap(k)
               PROVE  d \in NewestBitmap(k)'
    BY DEF Kept
  <2>1. ~lossy /\ ~misread /\ pc # "closed"
    <3>1. CASE UNCHANGED allVars
      BY <3>1 DEF allVars, indexVars, vars
    <3>2. ASSUME NEW e \in Docs, NEW fs \in FeatureLists, AddCalled(e, fs)
          PROVE  ~lossy /\ ~misread /\ pc # "closed"
      BY <3>2 DEF AddCalled
    <3>3. CASE AddReturns
      BY <3>3 DEF AddReturns
    <3>4. CASE AddFeature
      <4>1. IndexInv /\ lossy' = lossy
        BY <1>1, <3>4 DEF GrowInv, AddFeature
      <4> QED
        BY <3>4, <4>1, AddWrites
    <3>5. CASE TreeContinues
      <4>1. Continue /\ ~lossy /\ misread' = misread
        BY <3>5 DEF TreeContinues
      <4>2. pc # "closed"
        BY <4>1 DEF Continue, FlushMemTable, FlushOpenFails,
           FlushReaderFails, CompactLevel, CompactOpenFails, CompactMergeFails,
           CompactReaderFails, RemoveNodes, CascadeDone
      <4> QED
        BY <4>1, <4>2
    <3>6. ~CloseIndex
      BY DEF CloseIndex
    <3> QED
      BY <1>1, <3>1, <3>2, <3>3, <3>4, <3>5, <3>6 DEF IndexNext
  <2>2. Held(k, d)
    BY <1>1, <2>1, FoundIsHeld
  <2>3. Held(k, d)'
    BY <1>1, <2>2, HeldNext
  <2> QED
    BY <1>1, <2>3, FoundIsHeldNext
<1> QED
  BY <1>1, BothInv, PTL DEF IndexSpec, PostingsKept

-----------------------------------------------------------------------------
(* Types.                                                                  *)

\* Unless it closes the tree, a step of the index is one of the tree.
LEMMA IndexTreeStep ==
    ASSUME IndexInv, [IndexNext]_allVars, pc' # "closed"
    PROVE  pc # "closed" /\ [Next]_vars
<1>1. CASE UNCHANGED allVars \/ AddReturns
           \/ \E d \in Docs, fs \in FeatureLists : AddCalled(d, fs)
  BY <1>1 DEF allVars, vars, AddReturns, AddCalled
<1>2. CASE AddFeature
  <2> DEFINE g == Head(todo)
             k == CompositeKey(g, doc \div blockSize)
  <2>1. PICK read \in Reads(k) : Write(k, NewBitmap(read))
    BY <1>2 DEF AddFeature
  <2>2. doc \in Docs /\ g \in Features /\ postings \in [Features -> SUBSET Docs]
    BY <1>2 DEF AddFeature, IndexInv
  <2>3. k \in Keys /\ InFeature(k, g)
    BY <2>2, KeyOfAdd
  <2> HIDE DEF g, k
  <2>4. pc = "idle" /\ BaseInv
    BY <2>1 DEF Write, IndexInv
  <2>5. read \subseteq postings[g]
    BY <2>2, <2>3, <2>4, ReadOwned
  <2>6. NewBitmap(read) \in Values
    BY <2>2, <2>5, LSMIndexAssumption DEF NewBitmap, Values
  <2> QED
    BY <2>1, <2>3, <2>4, <2>6 DEF Next
<1>3. CASE TreeContinues
  BY <1>3 DEF TreeContinues, Next, Continue, FlushMemTable, FlushOpenFails,
              FlushReaderFails, CompactLevel, CompactOpenFails, CompactMergeFails,
              CompactReaderFails, RemoveNodes, CascadeDone
<1> QED
  BY <1>1, <1>2, <1>3 DEF IndexNext, CloseIndex

\* The types are right at every stage of every Add and after Close.
THEOREM IndexTypes == IndexSpec => []IndexTypeOK
<1>1. ASSUME IndexInit PROVE IndexTypeOK
  <2>1. TypeOK
    BY <1>1, BaseInit DEF IndexInit, BaseInv
  <2>2. Mem!TypeOK
    BY <1>1 DEF IndexInit, Mem!Init, Mem!TypeOK
  <2>3. doc = NoDoc /\ docCount = 0 /\ todo = <<>> /\ ~lossy /\ ~misread
    BY <1>1 DEF IndexInit
  <2>4. <<>> \in Seq(Features)
    BY EmptySeq
  <2>5. lossy \in BOOLEAN /\ misread \in BOOLEAN
    BY <1>1, Zenon DEF IndexInit
  <2>6. {lossy, misread} \subseteq BOOLEAN
    BY <2>5
  <2> QED
    BY <2>1, <2>2, <2>3, <2>4, <2>6 DEF IndexTypeOK
<1>2. ASSUME IndexInv, IndexTypeOK, IndexInv', [IndexNext]_allVars
      PROVE  IndexTypeOK'
  <2>1. TypeOK'
    <3>1. CASE pc' # "closed"
      BY <1>2, <3>1 DEF IndexInv, BaseInv
    <3>2. CASE UNCHANGED vars
      BY <1>2, <3>2 DEF vars, IndexTypeOK, TypeOK
    <3>3. CASE CloseIndex
      BY <1>2, <3>3 DEF CloseIndex, IndexTypeOK, TypeOK
    <3>4. pc' # "closed" \/ UNCHANGED vars \/ CloseIndex
      BY <1>2 DEF IndexNext, AddCalled, AddFeature, Write, AddReturns, TreeContinues,
              allVars, vars, Continue, FlushMemTable, FlushOpenFails,
              FlushReaderFails, CompactLevel, CompactOpenFails, CompactMergeFails,
              CompactReaderFails, RemoveNodes, CascadeDone
    <3> QED
      BY <3>1, <3>2, <3>3, <3>4
  <2>2. Mem!TypeOK'
    <3>1. ASSUME NEW d \in Docs, NEW fs, Mem!Add(d, fs) PROVE Mem!TypeOK'
      BY <1>2, <3>1 DEF Mem!Add, Mem!TypeOK, IndexTypeOK
    <3>2. CASE UNCHANGED <<postings, allDocs>>
      BY <1>2, <3>2 DEF IndexTypeOK, Mem!TypeOK
    <3> QED
      BY <1>2, <3>1, <3>2 DEF IndexNext, AddCalled, AddFeature, AddReturns,
                              TreeContinues, CloseIndex, allVars, indexVars
  <2>3. docCount' \in Nat
    <3>1. docCount \in Nat /\ \A d \in Docs : d \in Nat
      BY <1>2, LSMIndexAssumption DEF IndexTypeOK
    <3>2. doc \in Docs \cup {NoDoc}
      BY <1>2 DEF IndexInv
    <3> QED
      BY <1>2, <3>1, <3>2 DEF IndexNext, AddCalled, AddFeature, AddReturns,
                         TreeContinues, CloseIndex, allVars, indexVars
  <2>4. lossy' \in BOOLEAN /\ misread' \in BOOLEAN
    BY <1>2 DEF IndexTypeOK, IndexNext, AddCalled, AddFeature, AddReturns,
                TreeContinues, CloseIndex, allVars, indexVars
  <2>5. doc' \in Docs \cup {NoDoc} /\ todo' \in Seq(Features)
    BY <1>2 DEF IndexInv
  <2> QED
    BY <2>1, <2>2, <2>3, <2>4, <2>5 DEF IndexTypeOK
<1> QED
  BY <1>1, <1>2, IndexInvInit, IndexInvNext, PTL DEF IndexSpec

-----------------------------------------------------------------------------
(* Complete queries.                                                       *)

\* docCount is one more than the greatest document that was added.
CountInv ==
    /\ docCount \in Nat /\ allDocs \subseteq Docs
    /\ doc # NoDoc => doc \in allDocs
    /\ \A d \in allDocs \ {doc} : d < docCount
    /\ docCount # 0 => docCount - 1 \in allDocs

\* What the proof of QueriesComplete needs.
QueryInv ==
    /\ GrowInv
    /\ HeldInv
    /\ pc # "closed" => ScanInv
    /\ CountInv

LEMMA QueryInvInit == ASSUME IndexInit PROVE QueryInv
<1>1. CountInv
  BY DEF IndexInit, Mem!Init, CountInv
<1> QED
  BY <1>1, GrowInvInit, HeldInvInit, ScanInvInit DEF IndexInit, QueryInv

LEMMA QueryInvNext == ASSUME QueryInv, [IndexNext]_allVars PROVE QueryInv'
<1>1. GrowInv' /\ HeldInv'
  BY GrowInvNext, HeldNext DEF HeldInv, QueryInv
<1>2. (pc # "closed" => ScanInv)'
  BY IndexTreeStep, ScanInvNext DEF QueryInv, GrowInv
<1>3. \A d \in Docs : d \in Nat /\ d # NoDoc
  BY LSMIndexAssumption
<1>4. CountInv'
  <2>1. ASSUME NEW d \in Docs, NEW fs \in FeatureLists, AddCalled(d, fs)
        PROVE  CountInv'
    BY <1>3, <2>1 DEF AddCalled, Mem!Add, QueryInv, CountInv
  <2>2. CASE AddReturns
    BY <1>3, <2>2 DEF AddReturns, QueryInv, CountInv
  <2>3. CASE UNCHANGED <<doc, docCount, allDocs>>
    BY <2>3 DEF QueryInv, CountInv
  <2> QED
    BY <2>1, <2>2, <2>3 DEF IndexNext, AddFeature, TreeContinues, CloseIndex,
                            allVars, indexVars
<1> QED
  BY <1>1, <1>2, <1>4 DEF QueryInv

\* The number of documents whose ids are dense.
LEMMA DenseCount ==
    ASSUME CountInv, doc = NoDoc, allDocs = 0 .. Mem!DocCount - 1
    PROVE  DocCount = Mem!DocCount
<1> DEFINE n == Mem!DocCount
<1>1. docCount \in Nat /\ \A d \in allDocs : d \in Nat /\ d < docCount
  BY LSMIndexAssumption DEF CountInv
<1>2. n = Cardinality(allDocs)
  BY DEF Mem!DocCount, Cardinality, Mem!Cardinality, IsFiniteSet, Mem!IsFiniteSet
<1>3. n \in Nat
  <2>1. IsFiniteSet(0 .. docCount - 1)
    BY <1>1, FS_Interval
  <2>2. allDocs \subseteq 0 .. docCount - 1
    BY <1>1
  <2>3. IsFiniteSet(allDocs)
    BY <2>1, <2>2, FS_Subset
  <2> QED
    BY <1>2, <2>3, FS_CardinalityType
<1> HIDE DEF n
<1>4. allDocs = 0 .. n - 1
  BY DEF n
<1>5. docCount # 0 => docCount - 1 \in allDocs
  BY DEF CountInv
<1>6. docCount = n
  <2>1. docCount # 0 => docCount - 1 \in 0 .. n - 1
    BY <1>4, <1>5
  <2>2. ASSUME n # 0 PROVE n - 1 < docCount
    <3>1. n - 1 \in 0 .. n - 1
      BY <1>3, <2>2
    <3>2. n - 1 \in allDocs
      BY <1>4, <3>1
    <3> QED
      BY <1>1, <3>2
  <2> QED
    BY <1>1, <1>3, <2>1, <2>2
<1> QED
  BY <1>6 DEF n, DocCount

\* The keys of a feature that is not the last one are those of its scan.
LEMMA ScanOfFeature ==
    ASSUME NEW f \in Features, f + 1 < NumFeatures
    PROVE  /\ CompositeKey(f, 0) \in Int /\ EndKeyOf(f) \in Int
           /\ \A k \in Keys :
                 InFeature(k, f) <=> CompositeKey(f, 0) <= k /\ k < EndKeyOf(f)
<1>1. f \in Nat /\ NumBlocks \in Nat /\ NumFeatures \in Nat
  BY LSMIndexAssumption
<1>2. (f + 1) % NumFeatures = f + 1
  BY <1>1
<1>3. CompositeKey(f, 0) = f * NumBlocks /\ EndKeyOf(f) = (f + 1) * NumBlocks
  BY <1>1, <1>2 DEF CompositeKey, EndKeyOf
<1> QED
  BY <1>1, <1>3 DEF InFeature

\* A scan of the feature finds the document at a key that has it, in the memtable
\* or in an SST that is not excluded, and at no other.
LEMMA ScanHasDoc ==
    ASSUME QueryInv, pc = "idle", ~misread, NEW lo \in Int, NEW hi \in Int,
           NEW k \in Keys, lo <= k, NEW d
    PROVE  (ScanGet(k, lo, hi) # Missing /\ d \in Bits(ScanGet(k, lo, hi))) <=>
               \/ InMem(k, d)
               \/ \E f \in LiveFiles : InFile(f, k, d) /\ StartKey(disk[f]) < hi
<1>1. /\ BaseInv /\ ScanInv /\ Grow /\ MemGrow /\ Missing # Nil
  BY LSMTreeAssumption DEF QueryInv, GrowInv, ScanInv, EntriesInv
<1>2. \A f \in LiveFiles : disk[f][k] # Missing =>
         /\ StartKey(disk[f]) \in Int
         /\ Pruned(disk[f], lo, hi) <=> StartKey(disk[f]) >= hi
  BY <1>1, ExcludedIs
<1>3. CASE memTable[k] # Missing
  <2>1. ScanGet(k, lo, hi) = IF memTable[k] = Nil THEN Missing ELSE memTable[k]
    BY <1>3 DEF ScanGet
  <2>2. \A f \in LiveFiles : InFile(f, k, d) => InMem(k, d)
    BY <1>1, <1>3 DEF MemGrow, InFile, Holds, InMem
  <2>3. InMem(k, d) => memTable[k] # Nil
    BY DEF InMem, Bits
  <2> QED
    BY <1>1, <1>3, <2>1, <2>2, <2>3 DEF InMem, Bits
<1>4. CASE memTable[k] = Missing
  <2>1. ~InMem(k, d)
    BY <1>4 DEF InMem
  <2>2. CASE /\ ScanGet(k, lo, hi) = Missing
             /\ \A g \in LiveFiles :
                   disk[g][k] = Missing \/ Pruned(disk[g], lo, hi)
    BY <1>2, <2>1, <2>2 DEF InFile, Holds
  <2>3. ASSUME NEW f \in LiveFiles, disk[f][k] # Missing,
               ~Pruned(disk[f], lo, hi),
               ScanGet(k, lo, hi) = IF disk[f][k] = Nil THEN Missing ELSE disk[f][k],
               \A g \in LiveFiles :
                   disk[g][k] # Missing /\ ~Pruned(disk[g], lo, hi) =>
                       g = f \/ f[1] < g[1] \/ (f[1] = g[1] /\ g[2] < f[2])
        PROVE  (ScanGet(k, lo, hi) # Missing /\ d \in Bits(ScanGet(k, lo, hi))) <=>
                   \E g \in LiveFiles : InFile(g, k, d) /\ StartKey(disk[g]) < hi
    <3>1. (ScanGet(k, lo, hi) # Missing /\ d \in Bits(ScanGet(k, lo, hi))) <=>
              d \in Bits(disk[f][k])
      BY <2>3 DEF Bits
    <3>2. StartKey(disk[f]) < hi
      BY <1>2, <2>3
    <3>3. ASSUME NEW g \in LiveFiles, InFile(g, k, d), StartKey(disk[g]) < hi
          PROVE  d \in Bits(disk[f][k])
      <4>1. disk[g][k] # Missing /\ d \in Bits(disk[g][k])
        BY <3>3 DEF InFile, Holds
      <4>2. g = f \/ NewerFile(f, g)
        BY <1>2, <2>3, <3>3, <4>1 DEF NewerFile
      <4> QED
        BY <1>1, <2>3, <4>1, <4>2 DEF Grow, IsOutput, Holds
    <3> QED
      BY <2>3, <3>1, <3>2, <3>3 DEF InFile, Holds
  <2> QED
    BY <1>1, <1>4, <2>1, <2>2, <2>3, ScanSource
<1> QED
  BY <1>3, <1>4

\* Between calls, and as long as no entry was lost or misread, a posting list has
\* every document added with the feature and no other, but for exactly those all
\* of whose SSTs GetRange excludes, or none if its scan fails; and DocCount is
\* right (lsm_index.go:116, lsm_index.go:155, node.go:92).
THEOREM PostingsComplete == IndexSpec => []QueriesComplete
<1>1. ASSUME QueryInv PROVE QueriesComplete
  <2> SUFFICES ASSUME doc = NoDoc, pc = "idle", ~lossy, ~misread
               PROVE  /\ \A f \in Features : f + 1 < NumFeatures =>
                            /\ GetPostingList(f, TRUE) = {}
                            /\ GetPostingList(f, FALSE) =
                                   {d \in postings[f] : ~Excluded(f, d)}
                      /\ allDocs = 0 .. Mem!DocCount - 1 =>
                            DocCount = Mem!DocCount
    BY DEF QueriesComplete, Failures, Mem!GetPostingList
  <2>1. ASSUME NEW f \in Features, f + 1 < NumFeatures
        PROVE  /\ GetPostingList(f, TRUE) = {}
               /\ GetPostingList(f, FALSE) = {d \in postings[f] : ~Excluded(f, d)}
    <3> DEFINE lo == CompositeKey(f, 0)
               hi == EndKeyOf(f)
               InScan(d) == \E k \in Keys :
                   /\ lo <= k /\ k < hi
                   /\ ScanGet(k, lo, hi) # Missing /\ d \in Bits(ScanGet(k, lo, hi))
    <3>1. /\ GetPostingList(f, TRUE) = {}
          /\ \A d : d \in GetPostingList(f, FALSE) <=> InScan(d)
      BY DEF GetPostingList, Scan
    <3>2. /\ lo \in Int /\ hi \in Int
          /\ \A k \in Keys : InFeature(k, f) <=> lo <= k /\ k < hi
      BY <2>1, ScanOfFeature
    <3>3. KeysOfFeature(f) = {k \in Keys : lo <= k /\ k < hi}
      BY <3>2, KeysAreInFeature DEF KeysOfFeature
    <3>4. BaseInv /\ ScanInv
      BY <1>1 DEF QueryInv, ScanInv, EntriesInv
    <3>5. ASSUME NEW d, NEW file \in LiveFiles, HasDoc(disk[file], f, d)
          PROVE  StartKey(disk[file]) \in Int
      <4>1. PICK k \in Keys : lo <= k /\ disk[file][k] # Missing
        BY <3>3, <3>5 DEF HasDoc
      <4> HIDE DEF lo, hi
      <4> QED
        BY <3>2, <3>4, <4>1, ExcludedIs
    <3>6. ASSUME NEW d
          PROVE  InScan(d) <=>
                     \/ HasDoc(memTable, f, d)
                     \/ \E file \in LiveFiles :
                           HasDoc(disk[file], f, d) /\ StartKey(disk[file]) < hi
      <4>1. ASSUME NEW k \in Keys, lo <= k
            PROVE  (ScanGet(k, lo, hi) # Missing /\ d \in Bits(ScanGet(k, lo, hi))) <=>
                       \/ InMem(k, d)
                       \/ \E file \in LiveFiles :
                             InFile(file, k, d) /\ StartKey(disk[file]) < hi
        <5> HIDE DEF lo, hi
        <5> QED
          BY <1>1, <3>2, <4>1, ScanHasDoc
      <4>2. HasDoc(memTable, f, d) <=>
                \E k \in Keys : lo <= k /\ k < hi /\ InMem(k, d)
        BY <3>3 DEF HasDoc, InMem
      <4>3. ASSUME NEW file
            PROVE  HasDoc(disk[file], f, d) <=>
                       \E k \in Keys : lo <= k /\ k < hi /\ InFile(file, k, d)
        BY <3>3 DEF HasDoc, InFile, Holds
      <4> HIDE DEF lo, hi
      <4> QED
        BY <4>1, <4>2, <4>3
    <3>7. ASSUME NEW d \in postings[f]
          PROVE  \/ HasDoc(memTable, f, d)
                 \/ \E file \in LiveFiles : HasDoc(disk[file], f, d)
      <4>1. d \notin Pending(f)
        BY <1>1 DEF QueryInv, GrowInv, Pending
      <4>2. PICK k \in Keys : InFeature(k, f) /\ Held(k, d)
        BY <1>1, <3>7, <4>1 DEF QueryInv, HeldInv, AllHeld
      <4>3. k \in KeysOfFeature(f)
        BY <3>2, <3>3, <4>2
      <4> QED
        BY <4>2, <4>3 DEF Held, InMem, InSST, InFile, Holds, HasDoc
    <3>8. \A d : InScan(d) => d \in postings[f]
      <4> SUFFICES ASSUME NEW d, NEW k \in Keys, lo <= k, k < hi,
                          ScanGet(k, lo, hi) # Missing,
                          d \in Bits(ScanGet(k, lo, hi))
                   PROVE  d \in postings[f]
        OBVIOUS
      <4>1. InFeature(k, f) /\ IndexInv
        BY <1>1, <3>2 DEF QueryInv, GrowInv
      <4> HIDE DEF lo, hi
      <4> QED
        BY <3>4, <4>1, ScanOwned
    <3>9. ASSUME NEW d \in postings[f] PROVE InScan(d) <=> ~Excluded(f, d)
      <4>1. Excluded(f, d) <=>
                /\ ~HasDoc(memTable, f, d)
                /\ \E file \in LiveFiles : HasDoc(disk[file], f, d)
                /\ \A file \in LiveFiles :
                      HasDoc(disk[file], f, d) => StartKey(disk[file]) >= hi
        BY DEF Excluded
      <4> HIDE DEF lo, hi, InScan
      <4> QED
        BY <3>2, <3>5, <3>6, <3>7, <4>1
    <3> HIDE DEF InScan
    <3> QED
      BY <3>1, <3>8, <3>9
  <2>2. CountInv
    BY <1>1 DEF QueryInv
  <2> QED
    BY <2>1, <2>2, DenseCount
<1> QED
  BY <1>1, QueryInvInit, QueryInvNext, PTL DEF IndexSpec
=============================================================================
