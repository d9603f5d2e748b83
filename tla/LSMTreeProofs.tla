--------------------------- MODULE LSMTreeProofs ---------------------------
(***************************************************************************)
(* Proofs about LSMTree, for every set of keys and values, every number of *)
(* levels and every threshold: type correctness, the inductive invariant,  *)
(* that the tree implements KVStore, and its bookkeeping: the files of the *)
(* directory, the lengths of the levels and the sequence numbers.          *)
(***************************************************************************)
EXTENDS LSMTree, TLAPS, WellFoundedInduction, SequenceTheorems,
        FiniteSetTheorems

\* The faults after which the inputs of a compaction are still in place.
HarmlessFaults == Faults \subseteq {"compactOpen", "compactMerge"}

\* The newest entry of level l for k.
Newest(l, k) ==
    disk[<<l, nodes[l][CHOOSE i \in Hits(l, k) :
                           \A j \in Hits(l, k) : j <= i]>>][k]

-----------------------------------------------------------------------------
(* Numbers.                                                                *)

\* The relation of the well-founded order of the naturals.
LEMMA LessThan == OpToRel(<, Nat) = {ss \in Nat \X Nat : ss[1] < ss[2]}
  BY DEF OpToRel

\* A set of naturals that is not empty has a least element.
LEMMA NatMin ==
    ASSUME NEW S, S \subseteq Nat, S # {}
    PROVE  \E m \in S : \A n \in S : m <= n
<1> DEFINE R == {ss \in Nat \X Nat : ss[1] < ss[2]}
<1>1. IsWellFoundedOn(R, Nat)
  BY NatLessThanWellFounded, LessThan, Zenon
<1>2. \E x \in S : \A y \in S : ~ (<<y, x>> \in R)
  <2> HIDE DEF R
  <2> QED
    BY <1>1, WFMin
<1>3. PICK m \in S : \A n \in S : <<n, m>> \notin R
  BY <1>2
<1>4. ASSUME NEW n \in S PROVE m <= n
  <2>1. m \in Nat /\ n \in Nat /\ <<n, m>> \notin R
    BY <1>3
  <2>2. ~ (n < m)
    BY <2>1
  <2> QED
    BY <2>1, <2>2
<1> QED
  BY <1>4

\* A set of positions of a sequence that is not empty has a last element.
LEMMA BoundedMax ==
    ASSUME NEW n \in Nat, NEW S, S \subseteq 1 .. n, S # {}
    PROVE  \E m \in S : \A i \in S : i <= m
<1> DEFINE D == {d \in Nat : \E i \in S : d = n - i}
<1>1. D # {}
  <2>1. PICK i \in S : TRUE
    OBVIOUS
  <2>2. n - i \in D
    BY <2>1, SMT
  <2> QED
    BY <2>2
<1>2. PICK d \in D : \A e \in D : d <= e
  <2> D \subseteq Nat
    OBVIOUS
  <2> HIDE DEF D
  <2> QED
    BY <1>1, NatMin
<1>3. PICK m \in S : d = n - m
  BY <1>2
<1>4. ASSUME NEW i \in S PROVE i <= m
  <2>1. n - i \in D
    BY SMT
  <2> QED
    BY <2>1, <1>2, <1>3, SMT
<1> QED
  BY <1>4
-----------------------------------------------------------------------------
(* Type correctness.                                                       *)

\* The output of a merge is a table.
LEMMA MergedType ==
    ASSUME TypeOK, NodesOnDisk, NEW l \in Levels
    PROVE  Merged(l) \in Tables
<1> SUFFICES ASSUME NEW k \in Keys, Hits(l, k) # {}
             PROVE  Merged(l)[k] \in Stored
  BY DEF Merged, Tables, Stored
<1>1. \A i \in Hits(l, k) :
          /\ i \in 1 .. Len(nodes[l])
          /\ disk[<<l, nodes[l][i]>>][k] \in Stored
  BY DEF Hits, TypeOK, NodesOnDisk, FilesOf, Tables
<1>2. CASE BitmapMode
  <2>1. Vals = SUBSET (UNION Vals)
    BY <1>2, LSMTreeAssumption
  <2>2. \A v \in Stored \ {Missing} : Bits(v) \subseteq UNION Vals
    BY <2>1 DEF Bits, Stored, Values
  <2>3. \A i \in Hits(l, k) : Bits(disk[<<l, nodes[l][i]>>][k]) \subseteq UNION Vals
    BY <1>1, <2>2 DEF Hits
  <2> DEFINE U == UNION {Bits(disk[<<l, nodes[l][i]>>][k]) : i \in Hits(l, k)}
  <2>4. U \subseteq UNION Vals
    BY <2>3
  <2>5. U \in Vals
    <3> HIDE DEF U
    <3> QED
      BY <2>1, <2>4
  <2> QED
    BY <1>2, <2>5 DEF Merged, Stored, Values
<1>3. CASE ~BitmapMode
  <2>1. Hits(l, k) \subseteq 1 .. Len(nodes[l])
    BY <1>1
  <2>2. Len(nodes[l]) \in Nat
    BY LenProperties DEF TypeOK
  <2>3. \E i \in Hits(l, k) : \A j \in Hits(l, k) : j <= i
    BY <2>1, <2>2, BoundedMax
  <2>4. (CHOOSE i \in Hits(l, k) : \A j \in Hits(l, k) : j <= i) \in Hits(l, k)
    BY <2>3
  <2> QED
    BY <1>1, <1>3, <2>4 DEF Merged
<1> QED
  BY <1>2, <1>3

\* The file written under the next seq of a level is no node's file: the
\* other files are as they were.
LEMMA WriteIsFresh ==
    ASSUME BaseInv, NEW l \in Levels, NEW t \in Tables, WriteFile(l, t)
    PROVE  /\ <<l, NextSeq(l)>> \in DOMAIN disk'
           /\ disk'[<<l, NextSeq(l)>>] = t
           /\ <<l, NextSeq(l)>> \notin LiveFiles
           /\ \A f \in LiveFiles : f \in DOMAIN disk' /\ disk'[f] = disk[f]
           /\ DOMAIN disk' \subseteq Files
           /\ \A f \in DOMAIN disk' : disk'[f] \in Tables
<1> DEFINE g == <<l, NextSeq(l)>>
<1>1. /\ DOMAIN disk' = DOMAIN disk \cup {g}
      /\ \A f \in DOMAIN disk \cup {g} :
             disk'[f] = IF f = g THEN t ELSE disk[f]
  BY DEF WriteFile
<1>2. g \in Files
  BY DEF BaseInv, TypeOK, Files, NextSeq
<1>3. g \notin LiveFiles
  <2> SUFFICES ASSUME NEW i \in DOMAIN nodes[l] PROVE nodes[l][i] # NextSeq(l)
    BY DEF LiveFiles, FilesOf
  <2>1. nodes[l][i] <= levelToSeq[l] /\ levelToSeq[l] \in Nat
    BY DEF BaseInv, TypeOK, SeqsIssued
  <2>2. nodes[l][i] \in Nat
    BY DEF BaseInv, TypeOK
  <2> QED
    BY <2>1, <2>2 DEF NextSeq
<1>4. LiveFiles \subseteq DOMAIN disk
  BY DEF BaseInv, NodesOnDisk, LiveFiles
<1> HIDE DEF g
<1>5. /\ g \in DOMAIN disk'
      /\ disk'[g] = t
      /\ \A f \in LiveFiles : f \in DOMAIN disk' /\ disk'[f] = disk[f]
      /\ DOMAIN disk' \subseteq Files
      /\ \A f \in DOMAIN disk' : disk'[f] \in Tables
  BY <1>1, <1>2, <1>3, <1>4 DEF BaseInv, TypeOK
<1> QED
  BY <1>3, <1>5 DEF g

\* The sequence of a level after InsertNode.
LEMMA InsertAppends ==
    ASSUME BaseInv, NEW l \in Levels, InsertNode(l)
    PROVE  /\ nodes' \in [Levels -> Seq(Nat)]
           /\ \A m \in Levels : m # l => nodes'[m] = nodes[m]
           /\ Len(nodes[l]) \in Nat
           /\ Len(nodes'[l]) = Len(nodes[l]) + 1
           /\ DOMAIN nodes[l] = 1 .. Len(nodes[l])
           /\ DOMAIN nodes'[l] = 1 .. Len(nodes[l]) + 1
           /\ \A i \in DOMAIN nodes[l] : nodes'[l][i] = nodes[l][i]
           /\ nodes'[l][Len(nodes[l]) + 1] = NextSeq(l)
<1>1. nodes[l] \in Seq(Nat) /\ NextSeq(l) \in Nat
  BY DEF BaseInv, TypeOK, NextSeq
<1>2. nodes' = [nodes EXCEPT ![l] = Append(nodes[l], NextSeq(l))]
  BY DEF InsertNode
<1>3. nodes'[l] = Append(nodes[l], NextSeq(l)) /\ nodes'[l] \in Seq(Nat)
  BY <1>1, <1>2 DEF BaseInv, TypeOK
<1> QED
  BY <1>1, <1>2, <1>3 DEF BaseInv, TypeOK

\* Taking a seq, writing the file of that name and inserting its node.
LEMMA InsertKeepsBase ==
    ASSUME BaseInv, NEW l \in Levels, NEW t \in Tables,
           TakeSeq(l), WriteFile(l, t), InsertNode(l)
    PROVE  /\ nodes' \in [Levels -> Seq(Nat)]
           /\ levelToSeq' \in [Levels -> Nat]
           /\ NodesOnDisk' /\ SeqsIncreasing' /\ SeqsIssued'
<1> DEFINE s == NextSeq(l)
<1>1. s = levelToSeq[l] + 1 /\ levelToSeq[l] \in Nat
  BY DEF BaseInv, TypeOK, NextSeq
<1>2. levelToSeq' \in [Levels -> Nat] /\ levelToSeq'[l] = s
      /\ \A m \in Levels : m # l => levelToSeq'[m] = levelToSeq[m]
  BY <1>1 DEF TakeSeq, BaseInv, TypeOK
<1>3. /\ nodes' \in [Levels -> Seq(Nat)]
      /\ \A m \in Levels : m # l => nodes'[m] = nodes[m]
      /\ Len(nodes[l]) \in Nat
      /\ DOMAIN nodes[l] = 1 .. Len(nodes[l])
      /\ DOMAIN nodes'[l] = 1 .. Len(nodes[l]) + 1
      /\ \A i \in DOMAIN nodes[l] : nodes'[l][i] = nodes[l][i]
      /\ nodes'[l][Len(nodes[l]) + 1] = s
  BY InsertAppends
<1>4. \A m \in Levels : m # l => FilesOf(m)' = FilesOf(m)
  BY <1>3 DEF FilesOf
<1>5. FilesOf(l)' \subseteq FilesOf(l) \cup {<<l, s>>}
  <2> SUFFICES ASSUME NEW i \in DOMAIN nodes'[l]
               PROVE  <<l, nodes'[l][i]>> \in FilesOf(l) \cup {<<l, s>>}
    BY DEF FilesOf
  <2>1. i \in DOMAIN nodes[l] \/ i = Len(nodes[l]) + 1
    BY <1>3
  <2> QED
    BY <2>1, <1>3 DEF FilesOf
<1>6. NodesOnDisk'
  <2>1. <<l, s>> \in DOMAIN disk' /\ \A f \in LiveFiles : f \in DOMAIN disk'
    BY WriteIsFresh
  <2>2. \A m \in Levels : FilesOf(m) \subseteq LiveFiles
    BY DEF LiveFiles
  <2> QED
    BY <1>4, <1>5, <2>1, <2>2 DEF NodesOnDisk
<1>7. \A i \in DOMAIN nodes[l] : nodes[l][i] \in Nat /\ nodes[l][i] <= levelToSeq[l]
  BY DEF BaseInv, TypeOK, SeqsIssued
<1>8. SeqsIssued'
  <2> SUFFICES ASSUME NEW m \in Levels, NEW i \in DOMAIN nodes'[m]
               PROVE  nodes'[m][i] <= levelToSeq'[m]
    BY DEF SeqsIssued
  <2>1. CASE m # l
    BY <2>1, <1>2, <1>3 DEF BaseInv, SeqsIssued
  <2>2. CASE m = l /\ i \in DOMAIN nodes[l]
    BY <2>2, <1>1, <1>2, <1>3, <1>7, SMTT(40)
  <2>3. CASE m = l /\ i = Len(nodes[l]) + 1
    BY <2>3, <1>1, <1>2, <1>3
  <2> QED
    BY <2>1, <2>2, <2>3, <1>3
<1>9. SeqsIncreasing'
  <2> SUFFICES ASSUME NEW m \in Levels, NEW i \in DOMAIN nodes'[m],
                      NEW j \in DOMAIN nodes'[m], i < j
               PROVE  nodes'[m][i] < nodes'[m][j]
    BY DEF SeqsIncreasing
  <2>1. CASE m # l
    BY <2>1, <1>3 DEF BaseInv, SeqsIncreasing
  <2>2. CASE m = l /\ j \in DOMAIN nodes[l]
    <3>1. i \in DOMAIN nodes[l]
      BY <2>2, <1>3
    <3> QED
      BY <2>2, <3>1, <1>3 DEF BaseInv, SeqsIncreasing
  <2>3. CASE m = l /\ j = Len(nodes[l]) + 1
    <3>1. i \in DOMAIN nodes[l]
      BY <2>3, <1>3
    <3> QED
      BY <2>3, <3>1, <1>1, <1>3, <1>7
  <2>4. m = l => j \in DOMAIN nodes[l] \/ j = Len(nodes[l]) + 1
    BY <1>3, SMTT(40)
  <2> QED
    BY <2>1, <2>2, <2>3, <2>4
<1> QED
  BY <1>2, <1>3, <1>6, <1>8, <1>9

\* The same without a node for the file.
LEMMA WriteKeepsBase ==
    ASSUME BaseInv, NEW l \in Levels, NEW t \in Tables,
           TakeSeq(l), WriteFile(l, t), UNCHANGED nodes
    PROVE  /\ levelToSeq' \in [Levels -> Nat]
           /\ NodesOnDisk' /\ SeqsIncreasing' /\ SeqsIssued'
<1>1. levelToSeq' \in [Levels -> Nat]
      /\ \A m \in Levels : levelToSeq[m] <= levelToSeq'[m]
  BY DEF TakeSeq, NextSeq, BaseInv, TypeOK
<1>2. \A m \in Levels : FilesOf(m)' = FilesOf(m) /\ FilesOf(m) \subseteq LiveFiles
  BY DEF FilesOf, LiveFiles
<1>3. NodesOnDisk'
  BY <1>2, WriteIsFresh DEF NodesOnDisk
<1>4. SeqsIncreasing'
  BY DEF SeqsIncreasing, BaseInv
<1>5. SeqsIssued'
  <2> SUFFICES ASSUME NEW m \in Levels, NEW i \in DOMAIN nodes[m]
               PROVE  nodes[m][i] <= levelToSeq'[m]
    BY DEF SeqsIssued
  <2>1. nodes[m][i] <= levelToSeq[m] /\ nodes[m][i] \in Nat
    BY DEF BaseInv, SeqsIssued, TypeOK
  <2> QED
    BY <2>1, <1>1 DEF BaseInv, TypeOK
<1> QED
  BY <1>1, <1>3, <1>4, <1>5

\* Taking a seq for a file that could not be created.
LEMMA TakeSeqKeepsBase ==
    ASSUME BaseInv, NEW l \in Levels, TakeSeq(l), UNCHANGED <<nodes, disk>>
    PROVE  /\ levelToSeq' \in [Levels -> Nat]
           /\ NodesOnDisk' /\ SeqsIncreasing' /\ SeqsIssued'
<1>1. levelToSeq' \in [Levels -> Nat]
      /\ \A m \in Levels : levelToSeq[m] <= levelToSeq'[m]
  BY DEF TakeSeq, NextSeq, BaseInv, TypeOK
<1>2. NodesOnDisk' /\ SeqsIncreasing'
  BY DEF NodesOnDisk, FilesOf, SeqsIncreasing, BaseInv
<1>3. SeqsIssued'
  <2> SUFFICES ASSUME NEW m \in Levels, NEW i \in DOMAIN nodes[m]
               PROVE  nodes[m][i] <= levelToSeq'[m]
    BY DEF SeqsIssued
  <2>1. nodes[m][i] <= levelToSeq[m] /\ nodes[m][i] \in Nat
    BY DEF BaseInv, SeqsIssued, TypeOK
  <2> QED
    BY <2>1, <1>1 DEF BaseInv, TypeOK
<1> QED
  BY <1>1, <1>2, <1>3

\* What a flush writes is a table.
LEMMA FlushedType == TypeOK => FlushedTable \in Tables
  BY DEF TypeOK, FlushedTable, Persisted, Tables, Stored, Values

\* A file without content is a table.
LEMMA NoEntriesType == NoEntries \in Tables
  BY DEF NoEntries, Tables, Stored

\* A level that must be compacted has a next level.
LEMMA CompactedLevel ==
    ASSUME TypeOK, MustCompact(level)
    PROVE  level \in Levels /\ level + 1 \in Levels /\ level # level + 1
  BY LSMTreeAssumption DEF MustCompact, Levels, TypeOK

\* The counters stay numbers.
LEMMA StatsType ==
    ASSUME TypeOK
    PROVE  /\ [stats EXCEPT !.flushCount = @ + 1]
                 \in [flushCount : Nat, compactCount : Nat]
           /\ [stats EXCEPT !.compactCount = @ + 1]
                 \in [flushCount : Nat, compactCount : Nat]
  BY DEF TypeOK

\* Removing the nodes of a level deletes files of theirs only, all of them if no
\* os.Remove fails, and changes none.
LEMMA RemoveDisk ==
    ASSUME RemoveNodes
    PROVE  /\ DOMAIN disk' \subseteq DOMAIN disk
           /\ DOMAIN disk \ FilesOf(level) \subseteq DOMAIN disk'
           /\ \A f \in DOMAIN disk' : disk'[f] = disk[f]
           /\ Faults = {} => DOMAIN disk' = DOMAIN disk \ FilesOf(level)
<1>1. PICK left \in LeftBehind(level) :
          disk' = [f \in DOMAIN disk \ (FilesOf(level) \ left) |-> disk[f]]
  BY DEF RemoveNodes, Destroyed
<1>2. Faults = {} => left = {}
  BY DEF LeftBehind
<1> QED
  BY <1>1, <1>2

\* The state NewTree builds.
LEMMA BaseInit == Init => BaseInv
<1> SUFFICES ASSUME Init PROVE BaseInv
  OBVIOUS
<1>1. \A l \in Levels : nodes[l] = <<>> /\ DOMAIN nodes[l] = {}
  BY DEF Init
<1>2. TypeOK
  <2>1. nodes \in [Levels -> Seq(Nat)] /\ levelToSeq \in [Levels -> Nat]
    BY DEF Init
  <2>2. DOMAIN disk = {}
    BY DEF Init
  <2> QED
    BY <2>1, <2>2, NoEntriesType DEF Init, TypeOK
<1>3. NodesOnDisk /\ SeqsIncreasing /\ SeqsIssued
  BY <1>1 DEF NodesOnDisk, FilesOf, SeqsIncreasing, SeqsIssued
<1> QED
  BY <1>2, <1>3 DEF BaseInv

\* Every step keeps BaseInv, whatever fails and wherever the process restarts.
LEMMA BaseNext == BaseInv /\ [Next \/ Restart]_vars => BaseInv'
<1> SUFFICES ASSUME BaseInv, [Next \/ Restart]_vars PROVE BaseInv'
  OBVIOUS
<1> USE DEF BaseInv
<1> DEFINE Rest == NodesOnDisk /\ SeqsIncreasing /\ SeqsIssued
<1>0. ASSUME UNCHANGED <<nodes, levelToSeq, disk>> PROVE Rest'
  BY <1>0 DEF NodesOnDisk, FilesOf, SeqsIncreasing, SeqsIssued
<1>L. 0 \in Levels
  BY LSMTreeAssumption DEF Levels
<1>1. ASSUME NEW k \in Keys, NEW v \in Values, Write(k, v) PROVE BaseInv'
  <2>1. memTable' \in Tables
    BY <1>1 DEF Write, TypeOK, Tables, Stored
  <2>2. NewSize(k, v) \in Int
    <3>1. \A w \in Stored : EntryLen(k, w) \in Int
      BY LSMTreeAssumption DEF EntryLen, ValueLen
    <3>2. v \in Stored /\ memTable[k] \in Stored
      BY DEF Stored, TypeOK, Tables
    <3> QED
      BY <3>1, <3>2 DEF NewSize, TypeOK
  <2>3. TypeOK'
    BY <1>1, <2>1, <2>2 DEF Write, TypeOK
  <2> QED
    BY <1>0, <1>1, <2>3 DEF Write
<1>2. CASE FlushMemTable
  <2>1. /\ nodes' \in [Levels -> Seq(Nat)] /\ levelToSeq' \in [Levels -> Nat]
        /\ Rest'
    BY <1>2, <1>L, FlushedType, InsertKeepsBase DEF FlushMemTable
  <2>2. DOMAIN disk' \subseteq Files /\ \A f \in DOMAIN disk' : disk'[f] \in Tables
    BY <1>2, <1>L, FlushedType, WriteIsFresh DEF FlushMemTable
  <2>3. stats' \in [flushCount : Nat, compactCount : Nat]
    BY <1>2, StatsType DEF FlushMemTable
  <2>4. TypeOK'
    BY <1>2, <2>1, <2>2, <2>3 DEF FlushMemTable, TypeOK
  <2> QED
    BY <2>4, <2>1
<1>3. CASE FlushOpenFails
  <2>1. levelToSeq' \in [Levels -> Nat] /\ Rest'
    BY <1>3, <1>L, TakeSeqKeepsBase DEF FlushOpenFails
  <2> QED
    BY <1>3, <2>1, NoEntriesType DEF FlushOpenFails, NewMemTable, TypeOK
<1>4. CASE FlushReaderFails
  <2>1. levelToSeq' \in [Levels -> Nat] /\ Rest'
    BY <1>4, <1>L, FlushedType, WriteKeepsBase DEF FlushReaderFails
  <2>2. DOMAIN disk' \subseteq Files /\ \A f \in DOMAIN disk' : disk'[f] \in Tables
    BY <1>4, <1>L, FlushedType, WriteIsFresh DEF FlushReaderFails
  <2>3. stats' \in [flushCount : Nat, compactCount : Nat]
    BY <1>4, StatsType DEF FlushReaderFails
  <2>4. TypeOK'
    BY <1>4, <2>1, <2>2, <2>3 DEF FlushReaderFails, TypeOK
  <2> QED
    BY <2>4, <2>1
<1>5. CASE CompactLevel
  <2>1. level \in Levels /\ level + 1 \in Levels /\ Merged(level) \in Tables
    BY <1>5, CompactedLevel, MergedType DEF CompactLevel
  <2>2. /\ nodes' \in [Levels -> Seq(Nat)] /\ levelToSeq' \in [Levels -> Nat]
        /\ Rest'
    BY <1>5, <2>1, InsertKeepsBase DEF CompactLevel
  <2>3. DOMAIN disk' \subseteq Files /\ \A f \in DOMAIN disk' : disk'[f] \in Tables
    BY <1>5, <2>1, WriteIsFresh DEF CompactLevel
  <2>4. stats' \in [flushCount : Nat, compactCount : Nat]
    BY <1>5, StatsType DEF CompactLevel
  <2>5. TypeOK'
    BY <1>5, <2>2, <2>3, <2>4 DEF CompactLevel, TypeOK
  <2> QED
    BY <2>5, <2>2
<1>6. CASE CompactOpenFails
  <2>1. level + 1 \in Levels
    BY <1>6, CompactedLevel DEF CompactOpenFails
  <2>2. levelToSeq' \in [Levels -> Nat] /\ Rest'
    BY <1>6, <2>1, TakeSeqKeepsBase DEF CompactOpenFails
  <2> QED
    BY <1>6, <2>2 DEF CompactOpenFails, NextLevel, TypeOK
<1>7. CASE CompactMergeFails
  <2>1. level + 1 \in Levels
    BY <1>7, CompactedLevel DEF CompactMergeFails
  <2>2. levelToSeq' \in [Levels -> Nat] /\ Rest'
    BY <1>7, <2>1, NoEntriesType, WriteKeepsBase DEF CompactMergeFails
  <2>3. DOMAIN disk' \subseteq Files /\ \A f \in DOMAIN disk' : disk'[f] \in Tables
    BY <1>7, <2>1, NoEntriesType, WriteIsFresh DEF CompactMergeFails
  <2> QED
    BY <1>7, <2>2, <2>3 DEF CompactMergeFails, NextLevel, TypeOK
<1>8. CASE CompactReaderFails
  <2>1. level \in Levels /\ level + 1 \in Levels /\ Merged(level) \in Tables
    BY <1>8, CompactedLevel, MergedType DEF CompactReaderFails
  <2>2. levelToSeq' \in [Levels -> Nat] /\ Rest'
    BY <1>8, <2>1, WriteKeepsBase DEF CompactReaderFails
  <2>3. DOMAIN disk' \subseteq Files /\ \A f \in DOMAIN disk' : disk'[f] \in Tables
    BY <1>8, <2>1, WriteIsFresh DEF CompactReaderFails
  <2>4. stats' \in [flushCount : Nat, compactCount : Nat]
    BY <1>8, StatsType DEF CompactReaderFails
  <2>5. TypeOK'
    BY <1>8, <2>2, <2>3, <2>4 DEF CompactReaderFails, TypeOK
  <2> QED
    BY <2>5, <2>2
<1>9. CASE RemoveNodes
  <2>1. /\ nodes' \in [Levels -> Seq(Nat)]
        /\ \A l \in Levels : IF l = level THEN nodes'[l] = <<>>
                             ELSE nodes'[l] = nodes[l]
    <3>1. /\ nodes \in [Levels -> Seq(Nat)]
          /\ nodes' = [nodes EXCEPT ![level] = <<>>]
      BY <1>9 DEF RemoveNodes, TypeOK
    <3>2. <<>> \in Seq(Nat)
      OBVIOUS
    <3> HIDE DEF BaseInv
    <3> QED
      BY <3>1, <3>2
  <2>2. /\ DOMAIN disk' \subseteq DOMAIN disk
        /\ DOMAIN disk \ FilesOf(level) \subseteq DOMAIN disk'
        /\ \A f \in DOMAIN disk' : disk'[f] = disk[f]
    BY <1>9, RemoveDisk
  <2>3. NodesOnDisk'
    <3> SUFFICES ASSUME NEW l \in Levels, NEW i \in DOMAIN nodes'[l]
                 PROVE  <<l, nodes'[l][i]>> \in DOMAIN disk'
      BY DEF NodesOnDisk, FilesOf
    <3>1. l # level /\ nodes'[l] = nodes[l]
      BY <2>1
    <3>2. <<l, nodes[l][i]>> \in DOMAIN disk
      BY <3>1 DEF NodesOnDisk, FilesOf
    <3>3. <<l, nodes[l][i]>> \notin FilesOf(level)
      BY <3>1 DEF FilesOf
    <3> QED
      BY <2>2, <3>1, <3>2, <3>3
  <2>4. SeqsIncreasing' /\ SeqsIssued'
    BY <1>9, <2>1 DEF SeqsIncreasing, SeqsIssued, RemoveNodes
  <2>5. TypeOK'
    BY <1>9, <2>1, <2>2 DEF RemoveNodes, NextLevel, TypeOK
  <2> QED
    BY <2>3, <2>4, <2>5
<1>10. CASE CascadeDone
  BY <1>0, <1>10, NoEntriesType DEF CascadeDone, NewMemTable, TypeOK
<1>11. CASE Close
  BY <1>0, <1>11 DEF Close, TypeOK
<1>12. CASE Restart
  <2>1. \A l \in Levels : nodes'[l] = <<>> /\ DOMAIN nodes'[l] = {}
    BY <1>12 DEF Restart
  <2>2. NodesOnDisk' /\ SeqsIncreasing' /\ SeqsIssued'
    BY <2>1 DEF NodesOnDisk, FilesOf, SeqsIncreasing, SeqsIssued
  <2>3. nodes' \in [Levels -> Seq(Nat)] /\ levelToSeq' \in [Levels -> Nat]
    BY <1>12 DEF Restart
  <2> QED
    BY <1>12, <2>2, <2>3, NoEntriesType DEF Restart, NewMemTable, TypeOK
<1>13. CASE UNCHANGED vars
  BY <1>0, <1>13 DEF vars, TypeOK
<1> QED
  BY <1>1, <1>2, <1>3, <1>4, <1>5, <1>6, <1>7, <1>8, <1>9, <1>10, <1>11,
     <1>12, <1>13 DEF Next, Continue

\* In every mode, with every fault and any number of restarts, the state of
\* the tree is well-typed and every node is the only one of its file, whose
\* name no later flush or compaction takes.
THEOREM FilesCorrect == CrashSpec => []BaseInv
<1> QED
  BY BaseInit, BaseNext, PTL DEF CrashSpec

\* A step rewrites no file of a node.
LEMMA ImmutableNext ==
    BaseInv /\ BaseInv' /\ [Next \/ Restart]_vars =>
        [\A f \in LiveFiles \cap LiveFiles' : disk'[f] = disk[f]]_vars
<1> SUFFICES ASSUME BaseInv, BaseInv', Next \/ Restart,
                    NEW f \in LiveFiles \cap LiveFiles'
             PROVE  disk'[f] = disk[f]
  OBVIOUS
<1>1. ASSUME NEW l \in Levels, NEW t \in Tables, WriteFile(l, t)
      PROVE  disk'[f] = disk[f]
  BY <1>1, WriteIsFresh
<1>2. 0 \in Levels /\ FlushedTable \in Tables
  BY LSMTreeAssumption, FlushedType DEF Levels, BaseInv
<1>3. CASE FlushMemTable \/ FlushReaderFails
  BY <1>1, <1>2, <1>3 DEF FlushMemTable, FlushReaderFails
<1>4. CASE CompactLevel \/ CompactReaderFails
  <2>1. level \in Levels /\ level + 1 \in Levels /\ Merged(level) \in Tables
    BY <1>4, CompactedLevel, MergedType DEF CompactLevel, CompactReaderFails, BaseInv
  <2> QED
    BY <1>1, <1>4, <2>1 DEF CompactLevel, CompactReaderFails
<1>5. CASE CompactMergeFails
  <2>1. level + 1 \in Levels
    BY <1>5, CompactedLevel DEF CompactMergeFails, BaseInv
  <2> QED
    BY <1>1, <1>5, <2>1, NoEntriesType DEF CompactMergeFails
<1>6. CASE RemoveNodes
  <2>1. f \in DOMAIN disk'
    BY DEF BaseInv, NodesOnDisk, LiveFiles
  <2> QED
    BY <1>6, <2>1, RemoveDisk
<1>7. CASE disk' = disk
  BY <1>7
<1> QED
  BY <1>3, <1>4, <1>5, <1>6, <1>7
     DEF Next, Continue, Write, FlushOpenFails, CompactOpenFails, CascadeDone,
         Close, Restart

\* No file changes while a node reads it: in every mode, with every fault and
\* any number of restarts in the same directory.
THEOREM Immutable == CrashSpec => LiveSSTsImmutable
<1> QED
  BY FilesCorrect, ImmutableNext, PTL DEF CrashSpec, LiveSSTsImmutable

-----------------------------------------------------------------------------
(* Reading.                                                                *)

\* Newest is the entry at the last position that has one.
LEMMA NewestIs ==
    TypeOK => \A l \in Levels, k \in Keys : \A i \in Hits(l, k) :
        (\A j \in Hits(l, k) : j <= i)
            => Newest(l, k) = disk[<<l, nodes[l][i]>>][k]
<1> SUFFICES ASSUME TypeOK, NEW l \in Levels, NEW k \in Keys,
                    NEW i \in Hits(l, k), \A j \in Hits(l, k) : j <= i
             PROVE  Newest(l, k) = disk[<<l, nodes[l][i]>>][k]
  OBVIOUS
<1> DEFINE c == CHOOSE x \in Hits(l, k) : \A j \in Hits(l, k) : j <= x
<1>1. c \in Hits(l, k) /\ \A j \in Hits(l, k) : j <= c
  OBVIOUS
<1>2. Hits(l, k) \subseteq Int
  BY DEF Hits, TypeOK
<1>3. c = i
  <2> HIDE DEF c
  <2> QED
    BY <1>1, <1>2
<1> QED
  BY <1>3 DEF Newest

\* A level that has an entry has a newest one.
LEMMA NewestExists ==
    TypeOK => \A l \in Levels, k \in Keys : Hits(l, k) # {} =>
        \E i \in Hits(l, k) :
            /\ \A j \in Hits(l, k) : j <= i
            /\ Newest(l, k) = disk[<<l, nodes[l][i]>>][k]
            /\ Newest(l, k) # Missing
<1> SUFFICES ASSUME TypeOK, NEW l \in Levels, NEW k \in Keys, Hits(l, k) # {}
             PROVE  \E i \in Hits(l, k) :
                        /\ \A j \in Hits(l, k) : j <= i
                        /\ Newest(l, k) = disk[<<l, nodes[l][i]>>][k]
                        /\ Newest(l, k) # Missing
  OBVIOUS
<1>1. Len(nodes[l]) \in Nat /\ Hits(l, k) \subseteq 1 .. Len(nodes[l])
  BY DEF Hits, TypeOK
<1>2. PICK i \in Hits(l, k) : \A j \in Hits(l, k) : j <= i
  BY <1>1, BoundedMax
<1>3. Newest(l, k) = disk[<<l, nodes[l][i]>>][k]
  BY <1>2, NewestIs
<1> QED
  BY <1>2, <1>3 DEF Hits

\* NodesGet finds the newest entry of the first level that has one.
LEMMA Reading ==
    TypeOK => \A k \in Keys :
        /\ (\A l \in Levels : Hits(l, k) = {}) => NodesGet(k) = Missing
        /\ \A l \in Levels :
              /\ Hits(l, k) # {}
              /\ \A m \in Levels : m < l => Hits(m, k) = {}
              => NodesGet(k) = Newest(l, k)
<1> SUFFICES ASSUME TypeOK, NEW k \in Keys
             PROVE  /\ (\A l \in Levels : Hits(l, k) = {}) => NodesGet(k) = Missing
                    /\ \A l \in Levels :
                          /\ Hits(l, k) # {}
                          /\ \A m \in Levels : m < l => Hits(m, k) = {}
                          => NodesGet(k) = Newest(l, k)
  OBVIOUS
<1> DEFINE H == [m \in Levels |-> Hits(m, k)]
<1>1. \A m \in Levels : H[m] = Hits(m, k)
  OBVIOUS
<1>2. ASSUME NEW l \in Levels, Hits(l, k) # {},
             \A m \in Levels : m < l => Hits(m, k) = {}
      PROVE  NodesGet(k) = Newest(l, k)
  <2> DEFINE c == CHOOSE x \in Levels :
                      H[x] # {} /\ \A m \in Levels : H[m] # {} => x <= m
  <2>1. H[l] # {} /\ \A m \in Levels : H[m] # {} => l <= m
    BY <1>2 DEF Levels
  <2>2. c \in Levels /\ H[c] # {} /\ \A m \in Levels : H[m] # {} => c <= m
    <3> HIDE DEF H
    <3> QED
      BY <2>1
  <2>3. c = l
    <3> HIDE DEF c, H
    <3> QED
      BY <2>1, <2>2 DEF Levels
  <2>4. NodesGet(k) = Lookup(H, k)
    BY DEF NodesGet
  <2>5. Lookup(H, k) = disk[<<c, nodes[c][CHOOSE i \in H[c] : \A j \in H[c] : j <= i]>>][k]
    <3> HIDE DEF H
    <3> QED
      BY <2>1 DEF Lookup
  <2>6. Lookup(H, k) = disk[<<l, nodes[l][CHOOSE i \in H[l] : \A j \in H[l] : j <= i]>>][k]
    <3> HIDE DEF c, H
    <3> QED
      BY <2>3, <2>5
  <2> QED
    BY <2>4, <2>6, <1>1 DEF Newest
<1>3. ASSUME \A l \in Levels : Hits(l, k) = {} PROVE NodesGet(k) = Missing
  BY <1>3 DEF NodesGet, Lookup
<1> QED
  BY <1>2, <1>3

\* If any level has an entry there is a first one.
LEMMA FirstLevel ==
    ASSUME NEW k \in Keys, NEW n \in Levels, Hits(n, k) # {}
    PROVE  \E l \in Levels : /\ Hits(l, k) # {}
                             /\ \A m \in Levels : m < l => Hits(m, k) = {}
<1> DEFINE S == {l \in Levels : Hits(l, k) # {}}
<1>1. S \subseteq Nat /\ S # {}
  BY LSMTreeAssumption DEF Levels
<1>2. PICK l \in S : \A m \in S : l <= m
  <2> HIDE DEF S
  <2> QED
    BY <1>1, NatMin
<1>3. \A m \in Levels : m < l => m \notin S
  BY <1>1, <1>2 DEF Levels
<1> QED
  BY <1>2, <1>3

\* The same facts of the next state.
LEMMA ReadingNext ==
    /\ TypeOK' => (\A l \in Levels, k \in Keys : \A i \in Hits(l, k) :
        (\A j \in Hits(l, k) : j <= i)
            => Newest(l, k) = disk[<<l, nodes[l][i]>>][k])'
    /\ TypeOK' => (\A k \in Keys :
        /\ (\A l \in Levels : Hits(l, k) = {}) => NodesGet(k) = Missing
        /\ \A l \in Levels :
              /\ Hits(l, k) # {}
              /\ \A m \in Levels : m < l => Hits(m, k) = {}
              => NodesGet(k) = Newest(l, k))'
<1>1. TypeOK' => (\A l \in Levels, k \in Keys : \A i \in Hits(l, k) :
        (\A j \in Hits(l, k) : j <= i)
            => Newest(l, k) = disk[<<l, nodes[l][i]>>][k])'
  BY NewestIs, PTL
<1>2. TypeOK' => (\A k \in Keys :
        /\ (\A l \in Levels : Hits(l, k) = {}) => NodesGet(k) = Missing
        /\ \A l \in Levels :
              /\ Hits(l, k) # {}
              /\ \A m \in Levels : m < l => Hits(m, k) = {}
              => NodesGet(k) = Newest(l, k))'
  BY Reading, PTL
<1> QED
  BY <1>1, <1>2

\* A key is found as before if every level says of it what it said before.
LEMMA SameLevels ==
    ASSUME TypeOK, TypeOK', NEW k \in Keys,
           \A l \in Levels :
               /\ Hits(l, k)' = {} <=> Hits(l, k) = {}
               /\ Hits(l, k) # {} => Newest(l, k)' = Newest(l, k)
    PROVE  NodesGet(k)' = NodesGet(k)
<1>1. CASE \A l \in Levels : Hits(l, k) = {}
  BY <1>1, Reading, ReadingNext
<1>2. CASE \E l \in Levels : Hits(l, k) # {}
  <2>1. PICK l \in Levels : /\ Hits(l, k) # {}
                           /\ \A m \in Levels : m < l => Hits(m, k) = {}
    BY <1>2, FirstLevel
  <2>2. NodesGet(k) = Newest(l, k)
    BY <2>1, Reading
  <2>3. NodesGet(k)' = Newest(l, k)'
    BY <2>1, ReadingNext
  <2> QED
    BY <2>1, <2>2, <2>3
<1> QED
  BY <1>1, <1>2

\* A level whose nodes and files stay says what it said before.
LEMMA SameFiles ==
    ASSUME TypeOK, TypeOK', NEW l \in Levels, NEW k \in Keys,
           nodes'[l] = nodes[l],
           \A f \in FilesOf(l) : disk'[f] = disk[f]
    PROVE  /\ Hits(l, k)' = Hits(l, k)
           /\ Hits(l, k) # {} => Newest(l, k)' = Newest(l, k)
<1>1. \A i \in DOMAIN nodes[l] :
          disk'[<<l, nodes'[l][i]>>] = disk[<<l, nodes[l][i]>>]
  BY DEF FilesOf
<1>2. Hits(l, k)' = Hits(l, k)
  BY <1>1 DEF Hits
<1>3. ASSUME Hits(l, k) # {} PROVE Newest(l, k)' = Newest(l, k)
  <2>1. PICK i \in Hits(l, k) :
            /\ \A j \in Hits(l, k) : j <= i
            /\ Newest(l, k) = disk[<<l, nodes[l][i]>>][k]
    BY <1>3, NewestExists
  <2>2. Newest(l, k)' = disk'[<<l, nodes'[l][i]>>][k]
    BY <1>2, <2>1, ReadingNext
  <2>3. i \in DOMAIN nodes[l]
    BY DEF Hits
  <2> QED
    BY <1>1, <2>1, <2>2, <2>3
<1> QED
  BY <1>2, <1>3

\* What a level says of k after a node with table t was inserted.
LEMMA InsertReads ==
    ASSUME BaseInv, TypeOK', NEW l \in Levels, NEW t \in Tables, NEW k \in Keys,
           WriteFile(l, t), InsertNode(l)
    PROVE  /\ \A m \in Levels : m # l \/ t[k] = Missing =>
                 /\ Hits(m, k)' = {} <=> Hits(m, k) = {}
                 /\ Hits(m, k) # {} => Newest(m, k)' = Newest(m, k)
           /\ t[k] # Missing => Hits(l, k)' # {} /\ Newest(l, k)' = t[k]
<1> DEFINE n == Len(nodes[l])
<1> USE DEF BaseInv
<1>1. /\ \A m \in Levels : m # l => nodes'[m] = nodes[m]
      /\ n \in Nat
      /\ DOMAIN nodes[l] = 1 .. n
      /\ DOMAIN nodes'[l] = 1 .. n + 1
      /\ \A i \in DOMAIN nodes[l] : nodes'[l][i] = nodes[l][i]
      /\ nodes'[l][n + 1] = NextSeq(l)
  BY InsertAppends
<1>2. /\ disk'[<<l, NextSeq(l)>>] = t
      /\ \A m \in Levels : \A f \in FilesOf(m) : disk'[f] = disk[f]
  BY WriteIsFresh DEF LiveFiles
<1>3. ASSUME NEW m \in Levels, m # l
      PROVE  /\ Hits(m, k)' = {} <=> Hits(m, k) = {}
             /\ Hits(m, k) # {} => Newest(m, k)' = Newest(m, k)
  <2>1. nodes'[m] = nodes[m] /\ \A f \in FilesOf(m) : disk'[f] = disk[f]
    BY <1>1, <1>2, <1>3
  <2>2. Hits(m, k)' = Hits(m, k)
        /\ (Hits(m, k) # {} => Newest(m, k)' = Newest(m, k))
    BY <2>1, SameFiles
  <2> QED
    BY <2>2
<1>4. \A i \in 1 .. n : disk'[<<l, nodes'[l][i]>>] = disk[<<l, nodes[l][i]>>]
  <2> SUFFICES ASSUME NEW i \in 1 .. n
               PROVE  disk'[<<l, nodes'[l][i]>>] = disk[<<l, nodes[l][i]>>]
    OBVIOUS
  <2>1. <<l, nodes[l][i]>> \in FilesOf(l)
    BY <1>1 DEF FilesOf
  <2> QED
    BY <1>1, <1>2, <2>1
<1>5. /\ \A i \in 1 .. n : i \in Hits(l, k)' <=> i \in Hits(l, k)
      /\ n + 1 \in Hits(l, k)' <=> t[k] # Missing
      /\ Hits(l, k)' \subseteq 1 .. n + 1
      /\ Hits(l, k) \subseteq 1 .. n
  BY <1>1, <1>2, <1>4 DEF Hits
<1>6. ASSUME t[k] = Missing
      PROVE  /\ Hits(l, k)' = Hits(l, k)
             /\ Hits(l, k) # {} => Newest(l, k)' = Newest(l, k)
  <2>1. Hits(l, k)' = Hits(l, k)
    <3>1. \A i \in 1 .. n + 1 : i \in 1 .. n \/ i = n + 1
      BY <1>1
    <3> QED
      BY <1>5, <1>6, <3>1
  <2>2. ASSUME Hits(l, k) # {} PROVE Newest(l, k)' = Newest(l, k)
    <3>1. PICK i \in Hits(l, k) :
              /\ \A j \in Hits(l, k) : j <= i
              /\ Newest(l, k) = disk[<<l, nodes[l][i]>>][k]
      BY <2>2, NewestExists
    <3>2. Newest(l, k)' = disk'[<<l, nodes'[l][i]>>][k]
      BY <2>1, <3>1, ReadingNext
    <3> QED
      BY <1>4, <1>5, <3>1, <3>2
  <2> QED
    BY <2>1, <2>2
<1>7. ASSUME t[k] # Missing
      PROVE  Hits(l, k)' # {} /\ Newest(l, k)' = t[k]
  <2>1. n + 1 \in Hits(l, k)' /\ \A j \in Hits(l, k)' : j <= n + 1
    BY <1>1, <1>5, <1>7
  <2>2. Newest(l, k)' = disk'[<<l, nodes'[l][n + 1]>>][k]
    BY <2>1, ReadingNext
  <2> QED
    BY <1>1, <1>2, <2>1, <2>2
<1> QED
  BY <1>3, <1>6, <1>7

\* Merging the last SSTs of a level, newest first.
LEMMA MergedReads ==
    ASSUME ~BitmapMode, NEW l \in Levels, NEW k \in Keys
    PROVE  Merged(l)[k] = IF Hits(l, k) = {} THEN Missing ELSE Newest(l, k)
  BY DEF Merged, Newest

\* The files that no node reads do not matter.
LEMMA SameNodes ==
    ASSUME TypeOK, TypeOK', UNCHANGED nodes,
           \A f \in LiveFiles : disk'[f] = disk[f]
    PROVE  /\ \A k \in Keys : NodesGet(k)' = NodesGet(k)
           /\ \A l \in Levels, k \in Keys : Hits(l, k)' = Hits(l, k)
<1>1. \A l \in Levels : nodes'[l] = nodes[l]
      /\ \A f \in FilesOf(l) : disk'[f] = disk[f]
  BY DEF LiveFiles
<1>2. \A l \in Levels, k \in Keys :
          /\ Hits(l, k)' = Hits(l, k)
          /\ Hits(l, k) # {} => Newest(l, k)' = Newest(l, k)
  BY <1>1, SameFiles
<1>3. \A k \in Keys : NodesGet(k)' = NodesGet(k)
  BY <1>2, SameLevels
<1> QED
  BY <1>2, <1>3

-----------------------------------------------------------------------------
(* What each step changes of what is read.                                 *)

\* A flush adds the entries of the memtable.
LEMMA FlushReads ==
    ASSUME IInv, TypeOK', FlushMemTable, NEW k \in Keys
    PROVE  NodesGet(k)' = IF memTable[k] = Missing THEN NodesGet(k)
                          ELSE Persisted(memTable[k])
<1> DEFINE t == FlushedTable
<1>1. BaseInv /\ t \in Tables /\ 0 \in Levels
  BY FlushedType, LSMTreeAssumption DEF BaseInv, IInv, Levels
<1>2. /\ memTable[k] \in Stored
      /\ t[k] = Persisted(memTable[k])
      /\ t[k] = Missing <=> memTable[k] = Missing
  BY LSMTreeAssumption DEF FlushedTable, Persisted, IInv, TypeOK, Tables
<1>3. WriteFile(0, t) /\ InsertNode(0)
  BY DEF FlushMemTable
<1> HIDE DEF t
<1>4. CASE t[k] = Missing
  <2>1. \A l \in Levels :
            /\ Hits(l, k)' = {} <=> Hits(l, k) = {}
            /\ Hits(l, k) # {} => Newest(l, k)' = Newest(l, k)
    BY <1>1, <1>3, <1>4, InsertReads
  <2>2. NodesGet(k)' = NodesGet(k)
    BY <2>1, SameLevels DEF IInv
  <2> QED
    BY <1>2, <1>4, <2>2
<1>5. CASE t[k] # Missing
  <2>1. Hits(0, k)' # {} /\ Newest(0, k)' = t[k]
    BY <1>1, <1>3, <1>5, InsertReads
  <2>2. \A m \in Levels : ~ (m < 0)
    BY DEF Levels
  <2>3. NodesGet(k)' = Newest(0, k)'
    BY <1>1, <2>1, <2>2, ReadingNext
  <2> QED
    BY <1>2, <1>5, <2>1, <2>3
<1> QED
  BY <1>4, <1>5

\* The merged table adds nothing: the level it was made of is still there and
\* is read first.
LEMMA CompactReads ==
    ASSUME ~BitmapMode, IInv, TypeOK', CompactLevel
    PROVE  /\ \A k \in Keys : NodesGet(k)' = NodesGet(k)
           /\ MergedCovered'
<1>1. PICK c \in Levels, n \in Levels :
          c = level /\ n = c + 1 /\ c # n /\ level' = c
  BY CompactedLevel DEF IInv, CompactLevel
<1> DEFINE t == Merged(c)
<1>0. BaseInv
  BY DEF BaseInv, IInv
<1>2. t \in Tables /\ WriteFile(n, t) /\ InsertNode(n)
  BY <1>1, MergedType DEF CompactLevel, IInv
<1>3. \A k \in Keys : t[k] = IF Hits(c, k) = {} THEN Missing ELSE Newest(c, k)
  BY <1>1, MergedReads
<1> HIDE DEF t
<1>4. ASSUME NEW k \in Keys, NEW m \in Levels, m # n \/ t[k] = Missing
      PROVE  /\ Hits(m, k)' = {} <=> Hits(m, k) = {}
             /\ Hits(m, k) # {} => Newest(m, k)' = Newest(m, k)
  BY <1>0, <1>2, <1>4, InsertReads
<1>5. ASSUME NEW k \in Keys PROVE NodesGet(k)' = NodesGet(k)
  <2>1. CASE t[k] = Missing
    BY <2>1, <1>4, SameLevels DEF IInv
  <2>2. CASE t[k] # Missing
    <3>1. Hits(c, k) # {}
      BY <1>3, <2>2
    <3>2. PICK l \in Levels : /\ Hits(l, k) # {}
                             /\ \A m \in Levels : m < l => Hits(m, k) = {}
      BY <1>1, <3>1, FirstLevel
    <3>3. l <= c /\ \A m \in Levels : m <= l => m # n
      BY <1>1, <3>1, <3>2 DEF Levels
    <3>4. Hits(l, k)' # {} /\ Newest(l, k)' = Newest(l, k)
      BY <1>4, <3>2, <3>3 DEF Levels
    <3>5. \A m \in Levels : m < l => Hits(m, k)' = {}
      BY <1>4, <3>2, <3>3 DEF Levels
    <3>6. NodesGet(k)' = Newest(l, k)'
      BY <3>4, <3>5, ReadingNext
    <3>7. NodesGet(k) = Newest(l, k)
      BY <3>2, Reading DEF IInv
    <3> QED
      BY <3>4, <3>6, <3>7
  <2> QED
    BY <2>1, <2>2
<1>6. MergedCovered'
  <2>1. /\ \A m \in Levels : m # n => nodes'[m] = nodes[m]
        /\ Len(nodes[n]) \in Nat
        /\ Len(nodes'[n]) = Len(nodes[n]) + 1
        /\ nodes'[n][Len(nodes[n]) + 1] = NextSeq(n)
        /\ disk'[<<n, NextSeq(n)>>] = t
    BY <1>0, <1>2, InsertAppends, WriteIsFresh
  <2>2. Merged(c)' = t
    <3>1. Merged(c) = [k \in Keys |-> IF Hits(c, k) = {} THEN Missing
                                         ELSE Newest(c, k)]
      BY DEF Merged, Newest
    <3>3. Merged(c)' = [k \in Keys |-> IF Hits(c, k)' = {} THEN Missing
                                          ELSE Newest(c, k)']
      BY DEF Merged, Newest
    <3>4. \A k \in Keys : /\ Hits(c, k)' = {} <=> Hits(c, k) = {}
                          /\ Hits(c, k) # {} => Newest(c, k)' = Newest(c, k)
      BY <1>1, <1>4
    <3> QED
      BY <3>1, <3>3, <3>4 DEF t
  <2>3. MustCompact(c)'
    BY <1>1, <2>1 DEF CompactLevel, MustCompact
  <2>4. nodes'[n] # <<>>
    BY <2>1
  <2> HIDE DEF t
  <2> QED
    BY <1>1, <2>1, <2>2, <2>3, <2>4 DEF MergedCovered
<1> QED
  BY <1>5, <1>6

\* Removing the level that was merged: its entries are in the next one.
LEMMA RemoveReads ==
    ASSUME ~BitmapMode, IInv, TypeOK', RemoveNodes, NEW k \in Keys
    PROVE  NodesGet(k)' = NodesGet(k)
<1>1. PICK c \in Levels, n \in Levels : c = level /\ n = c + 1 /\ c # n
  BY CompactedLevel DEF IInv, MergedCovered, RemoveNodes
<1>2. /\ nodes'[c] = <<>>
      /\ \A m \in Levels : m # c => nodes'[m] = nodes[m]
  BY <1>1 DEF RemoveNodes, IInv, TypeOK
<1>3. Hits(c, k)' = {}
  <2>1. DOMAIN nodes'[c] = {}
    BY <1>2
  <2> QED
    BY <2>1 DEF Hits
<1>4. ASSUME NEW m \in Levels, m # c
      PROVE  /\ Hits(m, k)' = Hits(m, k)
             /\ Hits(m, k) # {} => Newest(m, k)' = Newest(m, k)
  <2>1. \A f \in FilesOf(m) : f \in DOMAIN disk /\ f \notin FilesOf(c)
    BY <1>1, <1>4 DEF IInv, NodesOnDisk, FilesOf
  <2>2. \A f \in FilesOf(m) : disk'[f] = disk[f]
    BY <1>1, <2>1, RemoveDisk
  <2> QED
    BY <1>2, <1>4, <2>2, SameFiles DEF IInv
<1>5. CASE Hits(c, k) = {}
  BY <1>3, <1>4, <1>5, SameLevels DEF IInv
<1>6. CASE Hits(c, k) # {}
  <2>1. PICK l \in Levels : /\ Hits(l, k) # {}
                           /\ \A m \in Levels : m < l => Hits(m, k) = {}
    BY <1>1, <1>6, FirstLevel
  <2>2. NodesGet(k) = Newest(l, k) /\ l <= c
    BY <1>1, <1>6, <2>1, Reading DEF IInv, Levels
  <2>3. CASE l # c
    <3>1. Hits(l, k)' # {} /\ Newest(l, k)' = Newest(l, k)
      BY <1>4, <2>1, <2>3
    <3>2. \A m \in Levels : m < l => Hits(m, k)' = {}
      BY <1>3, <1>4, <2>1
    <3>3. NodesGet(k)' = Newest(l, k)'
      BY <3>1, <3>2, ReadingNext
    <3> QED
      BY <2>2, <3>1, <3>3
  <2>4. CASE l = c
    <3> DEFINE e == Len(nodes[n])
    <3>1. /\ nodes[n] \in Seq(Nat) /\ nodes[n] # <<>>
          /\ disk[<<n, nodes[n][e]>>][k] = Newest(c, k)
      BY <1>1, <1>6, MergedReads DEF IInv, MergedCovered, RemoveNodes, TypeOK
    <3>2. DOMAIN nodes[n] = 1 .. e /\ e \in Nat /\ e >= 1
      BY <3>1
    <3>3. Newest(c, k) # Missing
      BY <1>1, <1>6, NewestExists DEF IInv
    <3>4. e \in Hits(n, k) /\ \A j \in Hits(n, k) : j <= e
      <4>1. e \in Hits(n, k)
        <5> HIDE DEF e
        <5> QED
          BY <3>1, <3>2, <3>3 DEF Hits
      <4>2. \A j \in Hits(n, k) : j \in 1 .. e
        BY <3>2 DEF Hits
      <4> QED
        BY <3>2, <4>1, <4>2
    <3>5. Newest(n, k) = Newest(c, k)
      BY <1>1, <3>1, <3>4, NewestIs DEF IInv
    <3>6. Hits(n, k)' # {} /\ Newest(n, k)' = Newest(n, k)
      BY <1>1, <1>4, <3>4
    <3>7. \A m \in Levels : m < n => Hits(m, k)' = {}
      <4> SUFFICES ASSUME NEW m \in Levels, m < n PROVE Hits(m, k)' = {}
        OBVIOUS
      <4>1. m = c \/ m < c
        BY <1>1 DEF Levels
      <4> QED
        BY <1>3, <1>4, <2>1, <2>4, <4>1
    <3>8. NodesGet(k)' = Newest(n, k)'
      BY <1>1, <3>6, <3>7, ReadingNext
    <3> QED
      BY <2>2, <2>4, <3>5, <3>6, <3>8
  <2> QED
    BY <2>3, <2>4
<1> QED
  BY <1>5, <1>6

-----------------------------------------------------------------------------
(* The inductive invariant.                                                *)

\* The steps that leave the files of the nodes alone leave what is read.
LEMMA QuietReads ==
    ASSUME IInv, TypeOK', UNCHANGED <<nodes, disk>>
    PROVE  /\ \A k \in Keys : NodesGet(k)' = NodesGet(k)
           /\ NodesOnDisk' /\ SeqsIncreasing'
  BY SameNodes DEF IInv, NodesOnDisk, SeqsIncreasing, FilesOf

\* So does writing a file for which no node is made.
LEMMA OrphanReads ==
    ASSUME IInv, TypeOK', UNCHANGED nodes,
           NEW l \in Levels, NEW t \in Tables, WriteFile(l, t)
    PROVE  \A k \in Keys : NodesGet(k)' = NodesGet(k)
<1>1. \A f \in LiveFiles : disk'[f] = disk[f]
  BY WriteIsFresh DEF BaseInv, IInv
<1> QED
  BY <1>1, SameNodes DEF IInv

\* The read results of every step but the flush, the restart and the loss of
\* the output of a compaction.
LEMMA StepReads ==
    ASSUME ~BitmapMode, IInv, TypeOK', [Next]_vars, ~Losing,
           ~FlushMemTable, NEW k \in Keys
    PROVE  NodesGet(k)' = NodesGet(k)
<1>1. CASE UNCHANGED <<nodes, disk>>
  BY <1>1, QuietReads
<1>2. CASE CompactLevel
  BY <1>2, CompactReads
<1>3. CASE RemoveNodes
  BY <1>3, RemoveReads
<1>4. CASE CompactMergeFails
  <2>1. level + 1 \in Levels
    BY <1>4, CompactedLevel DEF CompactMergeFails, IInv
  <2> QED
    BY <1>4, <2>1, NoEntriesType, OrphanReads DEF CompactMergeFails
<1>5. ~FlushReaderFails /\ ~CompactReaderFails
  BY DEF Losing
<1> QED
  BY <1>1, <1>2, <1>3, <1>4, <1>5
     DEF Next, Continue, Write, FlushOpenFails, CompactOpenFails, CascadeDone,
         Close, vars

\* The state NewTree builds.
LEMMA IInvInit == Init => IInv
  BY BaseInit DEF BaseInv, IInv, Init, MemCovered, MergedCovered

\* Every step keeps the memtable covered by the SSTs during the cascade.
LEMMA MemCoveredNext ==
    ASSUME ~BitmapMode, IInv, TypeOK', [Next]_vars, ~Losing
    PROVE  MemCovered'
<1> SUFFICES ASSUME pc' \in {"cascade", "cleanup"},
                    NEW k \in Keys, memTable'[k] # Missing
             PROVE  NodesGet(k)' = Persisted(memTable'[k])
  BY DEF MemCovered
<1>1. CASE FlushMemTable
  <2>1. memTable' = memTable
    BY <1>1 DEF FlushMemTable
  <2> QED
    BY <1>1, <2>1, FlushReads
<1>2. CASE ~FlushMemTable
  <2>1. NodesGet(k)' = NodesGet(k)
    BY <1>2, StepReads
  <2>2. memTable' = memTable /\ pc \in {"cascade", "cleanup"}
    BY <1>2 DEF Next, Continue, Write, FlushOpenFails, FlushReaderFails,
                CompactLevel, CompactOpenFails, CompactMergeFails,
                CompactReaderFails, RemoveNodes, CascadeDone, Close, vars,
                Losing
  <2>3. NodesGet(k) = Persisted(memTable[k])
    BY <2>2 DEF IInv, MemCovered
  <2> QED
    BY <2>1, <2>2, <2>3
<1> QED
  BY <1>1, <1>2

\* Every step keeps the merged SST the equal of the level it was made of.
LEMMA MergedCoveredNext ==
    ASSUME ~BitmapMode, IInv, TypeOK', [Next]_vars, ~Losing
    PROVE  MergedCovered'
<1>1. CASE CompactLevel
  BY <1>1, CompactReads
<1>2. CASE UNCHANGED vars
  <2>1. \A l : Merged(l)' = Merged(l)
    BY <1>2 DEF vars, Merged, Hits
  <2> QED
    BY <1>2, <2>1 DEF vars, IInv, MergedCovered, MustCompact
<1>3. CASE Next /\ ~CompactLevel
  <2>1. pc' # "cleanup"
    BY <1>3 DEF Next, Continue, Write, FlushMemTable, FlushOpenFails,
                FlushReaderFails, CompactOpenFails, CompactMergeFails,
                CompactReaderFails, RemoveNodes, CascadeDone, Close, Losing
  <2> QED
    BY <2>1 DEF MergedCovered
<1> QED
  BY <1>1, <1>2, <1>3

\* A step that loses no entry keeps the invariant.
LEMMA IInvStep ==
    ASSUME ~BitmapMode, IInv, [Next]_vars, ~Losing
    PROVE  IInv'
<1>1. BaseInv'
  BY BaseNext DEF BaseInv, IInv
<1>2. MemCovered' /\ MergedCovered'
  BY <1>1, MemCoveredNext, MergedCoveredNext DEF BaseInv
<1> QED
  BY <1>1, <1>2 DEF BaseInv, IInv

\* With the harmless faults no step loses an entry.
LEMMA Harmless == HarmlessFaults => ~Losing
  BY DEF HarmlessFaults, Losing, FlushOpenFails, FlushReaderFails,
         CompactReaderFails

\* The invariant is inductive.
LEMMA IInvNext ==
    ASSUME ~BitmapMode, HarmlessFaults
    PROVE  IInv /\ [Next]_vars => IInv'
  BY IInvStep, Harmless

\* A tree that keeps the newest value, with no fault but those that leave the
\* inputs of a compaction in place, always holds in its SSTs what the old
\* memtable holds, and in the merged SST what the merged level holds.
THEOREM Invariant ==
    ASSUME ~BitmapMode, HarmlessFaults
    PROVE  Spec => []IInv
<1> QED
  BY IInvInit, IInvNext, PTL DEF Spec

\* A flush adds entries to the SSTs, and no other step changes what they say.
LEMMA PersistNext ==
    ASSUME ~BitmapMode, HarmlessFaults
    PROVE  IInv /\ IInv' /\ [Next]_vars =>
               [\A k \in Keys : NodesGet(k) # Missing => NodesGet(k)' # Missing]_vars
<1> SUFFICES ASSUME IInv, IInv', [Next]_vars,
                    NEW k \in Keys, NodesGet(k) # Missing
             PROVE  NodesGet(k)' # Missing
  OBVIOUS
<1>1. TypeOK' /\ ~Losing
  BY Harmless DEF IInv
<1>2. CASE FlushMemTable
  <2>1. \A v : v # Missing => Persisted(v) # Missing
    BY LSMTreeAssumption DEF Persisted
  <2> QED
    BY <1>1, <1>2, <2>1, FlushReads
<1>3. CASE ~FlushMemTable
  BY <1>1, <1>3, StepReads
<1> QED
  BY <1>2, <1>3

\* With the same faults what was persisted is found again, for every length
\* of the levels: a compaction never lets a key disappear from the SSTs.
THEOREM Persist ==
    ASSUME ~BitmapMode, HarmlessFaults
    PROVE  Spec => SSTEntriesPersist
<1> QED
  BY Invariant, PersistNext, PTL DEF Spec, SSTEntriesPersist

-----------------------------------------------------------------------------
(* Refinement.                                                             *)

\* The tree NewTree builds holds nothing.
LEMMA ViewInit == Init => KV!Init
<1> SUFFICES ASSUME Init, NEW k \in Keys PROVE Visible(RawGet(k)) = Missing
  BY DEF KV!Init, View
<1>1. memTable[k] = Missing /\ \A l \in Levels : Hits(l, k) = {}
  BY DEF Init, NoEntries, Hits
<1>2. TypeOK
  BY BaseInit DEF BaseInv
<1>3. RawGet(k) = Missing
  BY <1>1, <1>2, Reading DEF RawGet
<1> QED
  BY <1>3, LSMTreeAssumption DEF Visible

\* A write changes what is read of its key.
LEMMA ViewWrite ==
    ASSUME IInv, TypeOK', NEW k \in Keys, NEW v \in Values, Write(k, v)
    PROVE  View' = [View EXCEPT ![k] = Visible(v)]
<1>1. ASSUME NEW j \in Keys PROVE RawGet(j)' = IF j = k THEN v ELSE RawGet(j)
  <2>1. NodesGet(j)' = NodesGet(j)
    BY QuietReads DEF Write
  <2>2. memTable'[j] = IF j = k THEN v ELSE memTable[j]
    BY DEF Write, IInv, TypeOK, Tables
  <2>3. v # Missing
    BY LSMTreeAssumption DEF Values
  <2> QED
    BY <2>1, <2>2, <2>3 DEF RawGet
<1>2. View' = [j \in Keys |-> Visible(RawGet(j)')]
  BY DEF View, Visible
<1> QED
  BY <1>1, <1>2 DEF View

\* No other step that loses no entry changes anything that is read.
LEMMA ViewStep ==
    ASSUME ~BitmapMode, IInv, TypeOK', Continue \/ Close \/ UNCHANGED vars,
           ~Losing
    PROVE  View' = View
<1>1. TypeOK /\ TypeOK' /\ [Next]_vars
  BY DEF IInv, Next
<1>2. Nil \notin Vals /\ Empty \notin Vals /\ Missing \notin Vals
  BY LSMTreeAssumption
<1>3. View' = [k \in Keys |-> Visible(RawGet(k)')]
  BY DEF View, Visible
<1>4. ASSUME \A k \in Keys : Visible(RawGet(k)') = Visible(RawGet(k))
      PROVE  View' = View
  BY <1>3, <1>4 DEF View
<1>5. CASE FlushMemTable
  <2>1. \A k \in Keys : NodesGet(k)' = IF memTable[k] = Missing THEN NodesGet(k)
                                       ELSE Persisted(memTable[k])
    BY <1>1, <1>5, FlushReads
  <2>2. memTable' = memTable
    BY <1>5 DEF FlushMemTable
  <2>3. \A k \in Keys : RawGet(k)' = RawGet(k)
    BY <2>1, <2>2 DEF RawGet
  <2> QED
    BY <1>4, <2>3
<1>6. CASE CascadeDone
  <2>1. \A k \in Keys : NodesGet(k)' = NodesGet(k) /\ memTable'[k] = Missing
    BY <1>1, <1>6, QuietReads DEF CascadeDone, NewMemTable, NoEntries
  <2>2. \A k \in Keys : memTable[k] # Missing => NodesGet(k) = Persisted(memTable[k])
    BY <1>6 DEF CascadeDone, IInv, MemCovered
  <2>3. \A k \in Keys : Visible(RawGet(k)') = Visible(RawGet(k))
    BY <1>2, <2>1, <2>2 DEF RawGet, Visible, Persisted
  <2> QED
    BY <1>4, <2>3
<1>7. ASSUME ~FlushMemTable, memTable' = memTable PROVE View' = View
  <2>1. \A k \in Keys : NodesGet(k)' = NodesGet(k)
    BY <1>1, <1>7, StepReads
  <2> QED
    BY <1>4, <1>7, <2>1 DEF RawGet
<1> QED
  BY <1>5, <1>6, <1>7
     DEF Losing, Continue, CompactLevel, CompactOpenFails, CompactMergeFails,
         RemoveNodes, Close, vars

\* A Put or a Delete is one of KVStore; every other step stutters.
LEMMA ViewNext ==
    ASSUME ~BitmapMode, HarmlessFaults
    PROVE  IInv /\ IInv' /\ [Next]_vars => [KV!Next]_View
<1> SUFFICES ASSUME IInv, IInv', [Next]_vars PROVE [KV!Next]_View
  OBVIOUS
<1>1. TypeOK' /\ ~Losing
  BY Harmless DEF IInv
<1>2. ASSUME NEW k \in Keys, NEW v \in Values, Write(k, v) PROVE KV!Next
  <2>1. View' = [View EXCEPT ![k] = Visible(v)]
    BY <1>1, <1>2, ViewWrite
  <2>2. Visible(v) \in Vals \/ Visible(v) = Missing
    BY DEF Visible
  <2> QED
    BY <2>1, <2>2 DEF KV!Next, KV!Put, KV!Delete
<1>3. CASE Continue \/ Close \/ UNCHANGED vars
  BY <1>1, <1>3, ViewStep
<1> QED
  BY <1>2, <1>3 DEF Next

\* The tree implements KVStore: whatever the keys, the values, the number of
\* levels and the thresholds, no flush, compaction or removal of inputs can be
\* told from what Get returns, but for the emptiness of a value.
THEOREM Refinement ==
    ASSUME ~BitmapMode, HarmlessFaults
    PROVE  Spec => Implements
<1> QED
  BY Invariant, ViewInit, ViewNext, PTL DEF Spec, Implements, KV!Spec

-----------------------------------------------------------------------------
(* Where entries come from, whatever fails.                                *)

\* What is found in some SSTs of the levels is an entry of a file.
LEMMA LookupFrom ==
    ASSUME BaseInv, NEW k \in Keys, NEW H,
           \A l \in Levels : H[l] \subseteq Hits(l, k)
    PROVE  \/ Lookup(H, k) = Missing
           \/ \E f \in DOMAIN disk : Lookup(H, k) = disk[f][k]
<1> SUFFICES ASSUME NEW x \in Levels, H[x] # {}
             PROVE  \E f \in DOMAIN disk : Lookup(H, k) = disk[f][k]
  BY DEF Lookup
<1> DEFINE S == {l \in Levels : H[l] # {}}
<1>1. PICK l \in S : \A n \in S : l <= n
  <2>1. S \subseteq Nat /\ S # {}
    BY LSMTreeAssumption DEF Levels
  <2> HIDE DEF S
  <2> QED
    BY <2>1, NatMin
<1> DEFINE c == CHOOSE n \in Levels :
                    H[n] # {} /\ \A o \in Levels : H[o] # {} => n <= o
<1>2. c \in Levels /\ H[c] # {}
  BY <1>1
<1> DEFINE i == CHOOSE n \in H[c] : \A j \in H[c] : j <= n
<1>3. Lookup(H, k) = disk[<<c, nodes[c][i]>>][k]
  BY DEF Lookup
<1> HIDE DEF c
<1>4. i \in H[c]
  <2>1. Hits(c, k) \subseteq 1 .. Len(nodes[c]) /\ Len(nodes[c]) \in Nat
    BY <1>2 DEF Hits, BaseInv, TypeOK
  <2>2. \E n \in H[c] : \A j \in H[c] : j <= n
    BY <1>2, <2>1, BoundedMax
  <2> QED
    BY <2>2
<1>5. i \in DOMAIN nodes[c]
  BY <1>2, <1>4 DEF Hits
<1>6. <<c, nodes[c][i]>> \in DOMAIN disk
  BY <1>2, <1>5 DEF BaseInv, NodesOnDisk, FilesOf
<1> QED
  BY <1>3, <1>6

\* So is what is found in all of them.
LEMMA NodesGetFrom ==
    ASSUME BaseInv, NEW k \in Keys
    PROVE  \/ NodesGet(k) = Missing
           \/ \E f \in DOMAIN disk : NodesGet(k) = disk[f][k]
<1> DEFINE H == [l \in Levels |-> Hits(l, k)]
<1>1. \A l \in Levels : H[l] \subseteq Hits(l, k)
  OBVIOUS
<1>2. NodesGet(k) = Lookup(H, k)
  BY DEF NodesGet
<1> HIDE DEF H
<1> QED
  BY <1>1, <1>2, LookupFrom

\* Without bitmaps, an entry of the output of a merge is one of the inputs.
LEMMA MergedFrom ==
    ASSUME BaseInv, ~BitmapMode, NEW l \in Levels, NEW k \in Keys
    PROVE  \/ Merged(l)[k] = Missing
           \/ \E f \in DOMAIN disk : Merged(l)[k] = disk[f][k]
<1> SUFFICES ASSUME Hits(l, k) # {}
             PROVE  \E f \in DOMAIN disk : Merged(l)[k] = disk[f][k]
  BY DEF Merged
<1> DEFINE i == CHOOSE n \in Hits(l, k) : \A j \in Hits(l, k) : j <= n
<1>1. Merged(l)[k] = disk[<<l, nodes[l][i]>>][k]
  BY DEF Merged
<1>2. i \in Hits(l, k)
  <2>1. Hits(l, k) \subseteq 1 .. Len(nodes[l]) /\ Len(nodes[l]) \in Nat
    BY DEF Hits, BaseInv, TypeOK
  <2>2. \E n \in Hits(l, k) : \A j \in Hits(l, k) : j <= n
    BY <2>1, BoundedMax
  <2> QED
    BY <2>2
<1>3. <<l, nodes[l][i]>> \in DOMAIN disk
  BY <1>2 DEF Hits, BaseInv, NodesOnDisk, FilesOf
<1> QED
  BY <1>1, <1>3

\* The tables that a step of a call in progress can write.
NewTables == {FlushedTable, NoEntries} \cup {Merged(l) : l \in Levels}

\* A step of a call in progress empties the memtable or leaves it, and writes
\* one file or none.
LEMMA ContinueTables ==
    ASSUME BaseInv, Continue
    PROVE  /\ memTable' = memTable \/ memTable' = NoEntries
           /\ \A f \in DOMAIN disk' :
                 \/ f \in DOMAIN disk /\ disk'[f] = disk[f]
                 \/ disk'[f] \in NewTables
<1>1. MustCompact(level) => level \in Levels
  BY CompactedLevel DEF BaseInv
<1>2. ASSUME NEW l, NEW t \in NewTables, WriteFile(l, t)
      PROVE  \A f \in DOMAIN disk' : \/ f \in DOMAIN disk /\ disk'[f] = disk[f]
                                     \/ disk'[f] \in NewTables
  BY <1>2 DEF WriteFile
<1>3. CASE FlushMemTable \/ FlushReaderFails
  <2>1. FlushedTable \in NewTables
    BY DEF NewTables
  <2> QED
    BY <1>2, <1>3, <2>1 DEF FlushMemTable, FlushReaderFails
<1>4. CASE CompactLevel \/ CompactReaderFails
  <2>1. Merged(level) \in NewTables
    BY <1>1, <1>4 DEF NewTables, CompactLevel, CompactReaderFails
  <2> QED
    BY <1>2, <1>4, <2>1 DEF CompactLevel, CompactReaderFails
<1>5. CASE CompactMergeFails
  <2>1. NoEntries \in NewTables
    BY DEF NewTables
  <2> QED
    BY <1>2, <1>5, <2>1 DEF CompactMergeFails
<1>6. CASE FlushOpenFails \/ CompactOpenFails \/ CascadeDone
  BY <1>6 DEF FlushOpenFails, CompactOpenFails, CascadeDone, NewMemTable
<1>7. CASE RemoveNodes
  BY <1>7, RemoveDisk DEF RemoveNodes
<1> QED
  BY <1>3, <1>4, <1>5, <1>6, <1>7 DEF Continue

-----------------------------------------------------------------------------
(* The live files.                                                         *)

\* A new node makes the file of its name a live one.
LEMMA AddFile ==
    ASSUME BaseInv, NEW l \in Levels, InsertNode(l)
    PROVE  LiveFiles' = LiveFiles \cup {<<l, NextSeq(l)>>}
<1>1. /\ \A m \in Levels : m # l => nodes'[m] = nodes[m]
      /\ DOMAIN nodes[l] = 1 .. Len(nodes[l])
      /\ DOMAIN nodes'[l] = 1 .. Len(nodes[l]) + 1
      /\ \A i \in DOMAIN nodes[l] : nodes'[l][i] = nodes[l][i]
      /\ nodes'[l][Len(nodes[l]) + 1] = NextSeq(l)
      /\ Len(nodes[l]) \in Nat
  BY InsertAppends
<1>2. DOMAIN nodes'[l] = DOMAIN nodes[l] \cup {Len(nodes[l]) + 1}
  BY <1>1
<1>3. FilesOf(l)' = FilesOf(l) \cup {<<l, NextSeq(l)>>}
  BY <1>1, <1>2 DEF FilesOf
<1>4. \A m \in Levels : m # l => FilesOf(m)' = FilesOf(m)
  BY <1>1 DEF FilesOf
<1> QED
  BY <1>3, <1>4 DEF LiveFiles

\* Removing the nodes of a level removes its files and no other.
LEMMA RemoveFiles ==
    ASSUME BaseInv, NEW l \in Levels, nodes' = [nodes EXCEPT ![l] = <<>>]
    PROVE  LiveFiles' = LiveFiles \ FilesOf(l)
<1>1. nodes'[l] = <<>> /\ \A m \in Levels : m # l => nodes'[m] = nodes[m]
  BY DEF BaseInv, TypeOK
<1>2. FilesOf(l)' = {} /\ \A m \in Levels : m # l => FilesOf(m)' = FilesOf(m)
  BY <1>1 DEF FilesOf
<1>3. \A m \in Levels : m # l => FilesOf(m) \cap FilesOf(l) = {}
  BY DEF FilesOf
<1> QED
  BY <1>2, <1>3 DEF LiveFiles

-----------------------------------------------------------------------------
(* No failures: the directory, the levels and the numbers agree.           *)

\* The lengths of the levels that can be merged, at every stage: only the level
\* the cascade has reached, and the one it has just added to, may be full.
LengthsBounded ==
    \A l \in 0 .. MaxLevel - 2 :
        /\ Len(nodes[l]) <= SSTNumPerLevel
        /\ \/ Len(nodes[l]) < SSTNumPerLevel
           \/ pc = "cascade" /\ l = level
           \/ pc = "cleanup" /\ (l = level \/ l = level + 1)

\* What makes the bookkeeping inductive.
BookInv ==
    /\ BaseInv
    /\ level \in Levels
    /\ pc = "cleanup" => MustCompact(level)
    /\ LengthsBounded
    /\ SSTsConserved
    /\ DiskIsLive

LEMMA BookInit == Init => BookInv
<1> SUFFICES ASSUME Init PROVE BookInv
  OBVIOUS
<1>1. /\ MaxLevel \in Nat /\ MaxLevel # 0
      /\ SSTNumPerLevel \in Nat /\ SSTNumPerLevel # 0
  BY LSMTreeAssumption
<1>2. 0 \in Levels /\ 0 .. MaxLevel - 2 \subseteq Levels
      /\ \A l \in 0 .. MaxLevel - 2 : l + 1 \in Levels
  BY <1>1 DEF Levels
<1>3. \A l \in Levels : nodes[l] = <<>> /\ Len(nodes[l]) = 0 /\ levelToSeq[l] = 0
                        /\ FilesOf(l) = {}
  BY DEF Init, FilesOf
<1>4. LengthsBounded
  BY <1>1, <1>2, <1>3 DEF LengthsBounded
<1>5. SSTsConserved
  BY <1>1, <1>2, <1>3 DEF SSTsConserved, Init
<1>6. DiskIsLive
  BY <1>3 DEF DiskIsLive, Init
<1> QED
  BY <1>2, <1>4, <1>5, <1>6, BaseInit DEF BookInv, Init

\* A flush adds an SST to level 0, which was not full.
LEMMA FlushBook ==
    ASSUME BookInv, BaseInv', FlushMemTable
    PROVE  BookInv'
<1>1. /\ MaxLevel \in Nat /\ MaxLevel # 0
      /\ SSTNumPerLevel \in Nat /\ SSTNumPerLevel # 0
      /\ 0 \in Levels /\ 0 .. MaxLevel - 2 \subseteq Levels
      /\ \A l \in 0 .. MaxLevel - 2 : l + 1 \in Levels /\ l + 1 # 0
  BY LSMTreeAssumption DEF Levels
<1>2. /\ pc = "flush" /\ pc' = "cascade" /\ level' = 0
      /\ TakeSeq(0) /\ InsertNode(0) /\ WriteFile(0, FlushedTable) /\ BaseInv
  BY DEF FlushMemTable, BookInv
<1>3. /\ \A m \in Levels : m # 0 => nodes'[m] = nodes[m]
      /\ Len(nodes[0]) \in Nat /\ Len(nodes'[0]) = Len(nodes[0]) + 1
  BY <1>1, <1>2, InsertAppends
<1>4. /\ levelToSeq'[0] = levelToSeq[0] + 1
      /\ \A m \in Levels : m # 0 => levelToSeq'[m] = levelToSeq[m]
      /\ levelToSeq[0] \in Nat
  BY <1>1, <1>2 DEF TakeSeq, NextSeq, BaseInv, TypeOK
<1>5. LengthsBounded'
  <2> SUFFICES ASSUME NEW l \in 0 .. MaxLevel - 2
               PROVE  /\ Len(nodes'[l]) <= SSTNumPerLevel
                      /\ Len(nodes'[l]) < SSTNumPerLevel \/ l = 0
    BY <1>2 DEF LengthsBounded
  <2>1. Len(nodes[l]) < SSTNumPerLevel /\ Len(nodes[l]) \in Nat
    BY <1>1, <1>2 DEF BookInv, LengthsBounded, BaseInv, TypeOK
  <2> QED
    BY <1>1, <1>3, <2>1
<1>6. SSTsConserved'
  <2> SUFFICES ASSUME NEW l \in 0 .. MaxLevel - 2
               PROVE  levelToSeq'[l]
                        = SSTNumPerLevel * levelToSeq'[l + 1] + Len(nodes'[l])
    BY <1>2 DEF SSTsConserved
  <2>1. levelToSeq[l] = SSTNumPerLevel * levelToSeq[l + 1] + Len(nodes[l])
    BY <1>2 DEF BookInv, SSTsConserved
  <2>2. levelToSeq'[l + 1] = levelToSeq[l + 1] /\ levelToSeq[l + 1] \in Nat
    BY <1>1, <1>4 DEF BookInv, BaseInv, TypeOK
  <2>3. SSTNumPerLevel * levelToSeq[l + 1] \in Nat
    BY <1>1, <2>2
  <2>4. CASE l = 0
    BY <1>3, <1>4, <2>1, <2>2, <2>3, <2>4
  <2>5. CASE l # 0
    BY <1>1, <1>3, <1>4, <2>1, <2>2, <2>5
  <2> QED
    BY <2>4, <2>5
<1>7. DiskIsLive'
  <2>1. DOMAIN disk' = DOMAIN disk \cup {<<0, NextSeq(0)>>}
    BY <1>2 DEF WriteFile
  <2>2. LiveFiles' = LiveFiles \cup {<<0, NextSeq(0)>>}
    BY <1>1, <1>2, AddFile
  <2> QED
    BY <2>1, <2>2 DEF BookInv, DiskIsLive, LiveFiles
<1> QED
  BY <1>1, <1>2, <1>5, <1>6, <1>7 DEF BookInv

\* A compaction adds an SST to the next level, for all those of a full one.
LEMMA CompactBook ==
    ASSUME BookInv, BaseInv', CompactLevel
    PROVE  BookInv'
<1> DEFINE c == level
           n == level + 1
<1>1. /\ MaxLevel \in Nat /\ MaxLevel # 0
      /\ SSTNumPerLevel \in Nat /\ SSTNumPerLevel # 0
      /\ 0 .. MaxLevel - 2 \subseteq Levels
      /\ \A l \in 0 .. MaxLevel - 2 : l + 1 \in Levels
  BY LSMTreeAssumption DEF Levels
<1>2. /\ pc = "cascade" /\ pc' = "cleanup" /\ level' = c /\ MustCompact(c)
      /\ TakeSeq(n) /\ InsertNode(n) /\ WriteFile(n, Merged(c)) /\ BaseInv
  BY DEF CompactLevel, BookInv
<1>3. c \in Levels /\ n \in Levels /\ c # n /\ c \in 0 .. MaxLevel - 2 /\ n = c + 1
  BY <1>1, <1>2, CompactedLevel DEF MustCompact, BaseInv, TypeOK
<1> HIDE DEF c, n
<1>4. /\ \A m \in Levels : m # n => nodes'[m] = nodes[m]
      /\ Len(nodes[n]) \in Nat /\ Len(nodes'[n]) = Len(nodes[n]) + 1
  BY <1>2, <1>3, InsertAppends
<1>5. /\ levelToSeq'[n] = levelToSeq[n] + 1
      /\ \A m \in Levels : m # n => levelToSeq'[m] = levelToSeq[m]
      /\ levelToSeq[n] \in Nat
  BY <1>2, <1>3 DEF TakeSeq, NextSeq, BaseInv, TypeOK
<1>6. Len(nodes[c]) = SSTNumPerLevel
  <2>1. Len(nodes[c]) <= SSTNumPerLevel /\ Len(nodes[c]) >= SSTNumPerLevel
    BY <1>2, <1>3 DEF BookInv, LengthsBounded, MustCompact
  <2>2. Len(nodes[c]) \in Nat
    BY <1>2, <1>3 DEF BaseInv, TypeOK
  <2> QED
    BY <1>1, <2>1, <2>2
<1>7. LengthsBounded'
  <2> SUFFICES ASSUME NEW l \in 0 .. MaxLevel - 2
               PROVE  /\ Len(nodes'[l]) <= SSTNumPerLevel
                      /\ Len(nodes'[l]) < SSTNumPerLevel \/ l = c \/ l = n
    BY <1>2, <1>3 DEF LengthsBounded
  <2>1. Len(nodes[l]) <= SSTNumPerLevel /\ Len(nodes[l]) \in Nat
        /\ (Len(nodes[l]) < SSTNumPerLevel \/ l = c)
    BY <1>1, <1>2 DEF BookInv, LengthsBounded, BaseInv, TypeOK, c
  <2> QED
    BY <1>1, <1>3, <1>4, <2>1
<1>8. MustCompact(level)'
  BY <1>2, <1>3, <1>4 DEF MustCompact, c
<1>9. SSTsConserved'
  <2> SUFFICES ASSUME NEW l \in 0 .. MaxLevel - 2
               PROVE  levelToSeq'[l]
                        = SSTNumPerLevel * levelToSeq'[l + 1]
                          + IF l = c THEN 0 ELSE Len(nodes'[l])
    BY <1>2 DEF SSTsConserved
  <2>1. levelToSeq[l] = SSTNumPerLevel * levelToSeq[l + 1] + Len(nodes[l])
    BY <1>2 DEF BookInv, SSTsConserved
  <2>2. l \in Levels /\ l + 1 \in Levels /\ levelToSeq[l + 1] \in Nat
        /\ l \in Int /\ c \in Int
    <3>1. l \in Levels /\ l + 1 \in Levels /\ l \in Int
      BY <1>1
    <3>2. levelToSeq[l + 1] \in Nat
      BY <1>2, <3>1 DEF BaseInv, TypeOK
    <3>3. c \in Int
      BY <1>3
    <3> QED
      BY <3>1, <3>2, <3>3
  <2>3. SSTNumPerLevel * levelToSeq[l + 1] \in Nat
    BY <1>1, <2>2
  <2>4. CASE l = c
    <3>1. l + 1 = n /\ l # n
      BY <1>3, <2>4
    <3>2. SSTNumPerLevel * (levelToSeq[n] + 1)
            = SSTNumPerLevel * levelToSeq[n] + SSTNumPerLevel
      BY <1>1, <1>5
    <3>3. levelToSeq'[l + 1] = levelToSeq[n] + 1 /\ levelToSeq'[l] = levelToSeq[l]
      BY <1>5, <2>2, <3>1
    <3>4. SSTNumPerLevel * levelToSeq'[l + 1]
            = SSTNumPerLevel * levelToSeq[n] + SSTNumPerLevel
      BY <3>2, <3>3
    <3>5. levelToSeq'[l] = SSTNumPerLevel * levelToSeq'[l + 1]
      BY <1>6, <2>1, <2>4, <3>1, <3>3, <3>4
    <3>6. SSTNumPerLevel * levelToSeq'[l + 1] + 0 = SSTNumPerLevel * levelToSeq'[l + 1]
      BY <1>1, <1>5, <3>3
    <3> QED
      BY <2>4, <3>5, <3>6
  <2>5. CASE l # c
    <3>1. l + 1 # n
      BY <1>3, <2>2, <2>5
    <3>2. levelToSeq'[l + 1] = levelToSeq[l + 1]
      BY <1>5, <2>2, <3>1
    <3>3. CASE l = n
      BY <1>4, <1>5, <2>1, <2>3, <2>5, <3>2, <3>3
    <3>4. CASE l # n
      BY <1>4, <1>5, <2>1, <2>2, <2>5, <3>2, <3>4
    <3> QED
      BY <3>3, <3>4
  <2> QED
    BY <2>4, <2>5
<1>10. DiskIsLive'
  <2>1. DOMAIN disk' = DOMAIN disk \cup {<<n, NextSeq(n)>>}
    BY <1>2 DEF WriteFile
  <2>2. LiveFiles' = LiveFiles \cup {<<n, NextSeq(n)>>}
    BY <1>2, <1>3, AddFile
  <2> QED
    BY <2>1, <2>2 DEF BookInv, DiskIsLive, LiveFiles
<1> QED
  BY <1>2, <1>3, <1>7, <1>8, <1>9, <1>10 DEF BookInv, c

\* Removing the inputs empties the level and deletes its files.
LEMMA RemoveBook ==
    ASSUME BookInv, BaseInv', RemoveNodes, Faults = {}
    PROVE  BookInv'
<1>1. /\ MaxLevel \in Nat /\ MaxLevel # 0
      /\ SSTNumPerLevel \in Nat /\ SSTNumPerLevel # 0
      /\ 0 .. MaxLevel - 2 \subseteq Levels
  BY LSMTreeAssumption DEF Levels
<1>2. /\ pc = "cleanup" /\ pc' = "cascade" /\ level' = level + 1
      /\ nodes' = [nodes EXCEPT ![level] = <<>>] /\ levelToSeq' = levelToSeq
      /\ MustCompact(level) /\ BaseInv
  BY DEF RemoveNodes, NextLevel, BookInv
<1>3. level \in Levels /\ level + 1 \in Levels /\ level \in Int
  BY <1>2, CompactedLevel DEF BaseInv, TypeOK
<1>4. /\ nodes'[level] = <<>> /\ Len(nodes'[level]) = 0
      /\ \A m \in Levels : m # level => nodes'[m] = nodes[m]
  BY <1>2, <1>3 DEF BaseInv, TypeOK
<1>5. LengthsBounded'
  <2> SUFFICES ASSUME NEW l \in 0 .. MaxLevel - 2
               PROVE  /\ Len(nodes'[l]) <= SSTNumPerLevel
                      /\ Len(nodes'[l]) < SSTNumPerLevel \/ l = level + 1
    BY <1>2 DEF LengthsBounded
  <2>1. /\ Len(nodes[l]) <= SSTNumPerLevel
        /\ Len(nodes[l]) < SSTNumPerLevel \/ l = level \/ l = level + 1
    BY <1>2 DEF BookInv, LengthsBounded
  <2> QED
    BY <1>1, <1>4, <2>1
<1>6. SSTsConserved'
  <2> SUFFICES ASSUME NEW l \in 0 .. MaxLevel - 2
               PROVE  levelToSeq[l]
                        = SSTNumPerLevel * levelToSeq[l + 1] + Len(nodes'[l])
    BY <1>2 DEF SSTsConserved
  <2>1. levelToSeq[l] = SSTNumPerLevel * levelToSeq[l + 1]
                        + IF level = l THEN 0 ELSE Len(nodes[l])
    BY <1>2 DEF BookInv, SSTsConserved
  <2> QED
    BY <1>1, <1>4, <2>1
<1>7. DiskIsLive'
  <2>1. DOMAIN disk' = DOMAIN disk \ FilesOf(level)
    BY RemoveDisk
  <2>2. LiveFiles' = LiveFiles \ FilesOf(level)
    BY <1>2, <1>3, RemoveFiles
  <2> QED
    BY <2>1, <2>2 DEF BookInv, DiskIsLive, LiveFiles
<1> QED
  BY <1>2, <1>3, <1>5, <1>6, <1>7 DEF BookInv

\* The other steps leave the levels alone; when the cascade ends the level it
\* has reached is not full.
LEMMA QuietBook ==
    ASSUME BookInv, BaseInv', UNCHANGED <<nodes, levelToSeq, disk>>,
           \/ UNCHANGED <<pc, level>>
           \/ pc \in {"idle", "flush"} /\ pc' # "cleanup" /\ UNCHANGED level
           \/ CascadeDone
    PROVE  BookInv'
<1>1. /\ MaxLevel \in Nat /\ MaxLevel # 0 /\ 0 \in Levels
      /\ SSTNumPerLevel \in Nat /\ 0 .. MaxLevel - 2 \subseteq Levels
  BY LSMTreeAssumption DEF Levels
<1>2. DiskIsLive'
  BY DEF BookInv, DiskIsLive, FilesOf
<1>3. CASE UNCHANGED <<pc, level>>
  BY <1>2, <1>3 DEF BookInv, LengthsBounded, SSTsConserved, MustCompact
<1>4. CASE pc \in {"idle", "flush"} /\ pc' # "cleanup" /\ UNCHANGED level
  BY <1>2, <1>4 DEF BookInv, LengthsBounded, SSTsConserved
<1>5. CASE CascadeDone
  <2>1. pc = "cascade" /\ pc' = "idle" /\ level' = 0 /\ ~MustCompact(level)
    BY <1>5 DEF CascadeDone
  <2>2. LengthsBounded'
    <3> SUFFICES ASSUME NEW l \in 0 .. MaxLevel - 2
                 PROVE  Len(nodes[l]) < SSTNumPerLevel /\ Len(nodes[l]) \in Nat
      BY <1>1 DEF LengthsBounded
    <3>1. Len(nodes[l]) \in Nat
      BY <1>1 DEF BookInv, BaseInv, TypeOK
    <3>2. l < MaxLevel - 1
      BY <1>1
    <3>3. Len(nodes[l]) < SSTNumPerLevel \/ l = level
      BY <2>1 DEF BookInv, LengthsBounded
    <3>4. l = level => ~ (Len(nodes[l]) >= SSTNumPerLevel)
      BY <2>1, <3>2 DEF MustCompact
    <3> QED
      BY <1>1, <3>1, <3>3, <3>4
  <2> QED
    BY <1>1, <1>2, <2>1, <2>2 DEF BookInv, SSTsConserved
<1> QED
  BY <1>3, <1>4, <1>5

LEMMA BookNext ==
    ASSUME Faults = {}
    PROVE  BookInv /\ [Next]_vars => BookInv'
<1> SUFFICES ASSUME BookInv, [Next]_vars PROVE BookInv'
  OBVIOUS
<1>1. BaseInv'
  BY BaseNext DEF BookInv
<1>2. ~FlushOpenFails /\ ~FlushReaderFails /\ ~CompactOpenFails
      /\ ~CompactMergeFails /\ ~CompactReaderFails
  BY DEF FlushOpenFails, FlushReaderFails, CompactOpenFails,
         CompactMergeFails, CompactReaderFails
<1>3. CASE UNCHANGED vars
  BY <1>1, <1>3, QuietBook DEF vars
<1>4. ASSUME NEW k \in Keys, NEW v \in Values, Write(k, v) PROVE BookInv'
  BY <1>1, <1>4, QuietBook DEF Write
<1>5. CASE Close
  BY <1>1, <1>5, QuietBook DEF Close
<1>6. CASE CascadeDone
  BY <1>1, <1>6, QuietBook DEF CascadeDone
<1> QED
  BY <1>1, <1>2, <1>3, <1>4, <1>5, <1>6, FlushBook, CompactBook, RemoveBook
     DEF Next, Continue

LEMMA BookAlways == ASSUME Faults = {} PROVE Spec => []BookInv
  BY BookInit, BookNext, PTL DEF Spec

\* Without failures, for every number and length of levels: between calls no
\* level but the last is full, and within a call none grows past its limit
\* (tree_compact.go:13).
THEOREM Bounded == ASSUME Faults = {} PROVE Spec => []LevelsBounded
<1>1. BookInv => LevelsBounded
  BY DEF BookInv, LengthsBounded, LevelsBounded
<1> QED
  BY <1>1, BookAlways, PTL

\* Without failures every SST of a level stands for exactly SSTNumPerLevel of
\* the level before: the cascade skips none and merges none twice.
THEOREM Conserved == ASSUME Faults = {} PROVE Spec => []SSTsConserved
<1>1. BookInv => SSTsConserved
  BY DEF BookInv
<1> QED
  BY <1>1, BookAlways, PTL

\* Without failures the directory holds the files of the nodes and no others at
\* every stage (tree_compact.go:removeNodes, node.go:Destroy).
THEOREM NoStrayFile == ASSUME Faults = {} PROVE Spec => []DiskIsLive
<1>1. BookInv => DiskIsLive
  BY DEF BookInv
<1> QED
  BY <1>1, BookAlways, PTL

-----------------------------------------------------------------------------
(* Any failures and restarts: no file without entries is read.             *)

\* What makes NoEmptySST inductive: a memtable that is flushed has an entry.
EntriesInv ==
    /\ BaseInv
    /\ pc = "flush" => KeysOf(memTable) # {}
    /\ NoEmptySST

\* The merge of a level that has a node has an entry.
LEMMA MergedNotEmpty ==
    ASSUME EntriesInv, MustCompact(level)
    PROVE  KeysOf(Merged(level)) # {}
<1>1. level \in Levels /\ nodes[level] \in Seq(Nat)
  BY CompactedLevel DEF EntriesInv, BaseInv, TypeOK
<1>2. Len(nodes[level]) >= 1 /\ Len(nodes[level]) \in Nat
  BY <1>1, LSMTreeAssumption DEF MustCompact
<1>3. 1 \in DOMAIN nodes[level]
  BY <1>1, <1>2
<1>4. PICK k \in Keys : disk[<<level, nodes[level][1]>>][k] # Missing
  BY <1>1, <1>3 DEF EntriesInv, NoEmptySST, FilesOf, KeysOf
<1>5. Hits(level, k) # {}
  BY <1>3, <1>4 DEF Hits
<1>6. Merged(level)[k] # Missing
  <2>1. CASE BitmapMode
    <3> DEFINE U == UNION {Bits(disk[<<level, nodes[level][i]>>][k]) :
                                                      i \in Hits(level, k)}
    <3>1. Merged(level)[k] = U
      BY <1>5, <2>1 DEF Merged
    <3>2. U \in Vals
      <4>1. Vals = SUBSET (UNION Vals) /\ Vals \cap {Nil, Empty, Missing} = {}
        BY <2>1, LSMTreeAssumption
      <4>2. ASSUME NEW i \in Hits(level, k)
            PROVE  Bits(disk[<<level, nodes[level][i]>>][k]) \subseteq UNION Vals
        <5>1. /\ disk[<<level, nodes[level][i]>>][k] \in Stored
              /\ disk[<<level, nodes[level][i]>>][k] # Missing
          BY <1>1 DEF Hits, EntriesInv, BaseInv, TypeOK, NodesOnDisk, FilesOf, Tables
        <5> QED
          BY <4>1, <5>1 DEF Bits, Stored, Values
      <4>3. U \subseteq UNION Vals
        BY <4>2
      <4> HIDE DEF U
      <4> QED
        BY <4>1, <4>3
    <3> HIDE DEF U
    <3> QED
      BY <3>1, <3>2, LSMTreeAssumption
  <2>2. CASE ~BitmapMode
    <3>1. Hits(level, k) \subseteq 1 .. Len(nodes[level])
      BY <1>1 DEF Hits
    <3>2. \E i \in Hits(level, k) : \A j \in Hits(level, k) : j <= i
      BY <1>2, <1>5, <3>1, BoundedMax
    <3>3. (CHOOSE i \in Hits(level, k) : \A j \in Hits(level, k) : j <= i)
            \in Hits(level, k)
      BY <3>2
    <3> QED
      BY <1>5, <2>2, <3>3 DEF Merged, Hits
  <2> QED
    BY <2>1, <2>2
<1> QED
  BY <1>6 DEF KeysOf

\* Writing a file that has entries and inserting its node.
LEMMA InsertNotEmpty ==
    ASSUME EntriesInv, NEW l \in Levels, NEW t \in Tables, KeysOf(t) # {},
           InsertNode(l), WriteFile(l, t)
    PROVE  NoEmptySST'
<1>1. LiveFiles' = LiveFiles \cup {<<l, NextSeq(l)>>}
  BY AddFile DEF EntriesInv
<1>2. /\ disk'[<<l, NextSeq(l)>>] = t
      /\ \A f \in LiveFiles : disk'[f] = disk[f]
  BY WriteIsFresh DEF EntriesInv
<1>3. \A f \in LiveFiles : KeysOf(disk[f]) # {}
  BY DEF EntriesInv, NoEmptySST, LiveFiles
<1>4. \A f \in LiveFiles' : KeysOf(disk'[f]) # {}
  BY <1>1, <1>2, <1>3
<1> QED
  BY <1>4 DEF NoEmptySST, LiveFiles

\* A step that adds no node and leaves the files of the nodes that stay.
LEMMA KeepNotEmpty ==
    ASSUME EntriesInv, \A l \in Levels : FilesOf(l)' \subseteq FilesOf(l),
           \A l \in Levels : \A f \in FilesOf(l)' : disk'[f] = disk[f]
    PROVE  NoEmptySST'
<1>1. ASSUME NEW l \in Levels, NEW f \in FilesOf(l)' PROVE KeysOf(disk'[f]) # {}
  BY <1>1 DEF EntriesInv, NoEmptySST
<1> QED
  BY <1>1 DEF NoEmptySST

LEMMA EntriesNext == EntriesInv /\ [Next \/ Restart]_vars => EntriesInv'
<1> SUFFICES ASSUME EntriesInv, [Next \/ Restart]_vars PROVE EntriesInv'
  OBVIOUS
<1>0. 0 \in Levels
  BY LSMTreeAssumption DEF Levels
<1>1. BaseInv /\ BaseInv'
  BY BaseNext DEF EntriesInv
<1>2. ASSUME UNCHANGED <<nodes, disk>> PROVE NoEmptySST'
  BY <1>2, KeepNotEmpty DEF FilesOf
<1>3. ASSUME NEW l \in Levels, NEW t \in Tables, WriteFile(l, t), UNCHANGED nodes
      PROVE  NoEmptySST'
  <2>1. \A f \in LiveFiles : disk'[f] = disk[f]
    BY <1>1, <1>3, WriteIsFresh
  <2>2. \A m \in Levels : FilesOf(m)' = FilesOf(m) /\ FilesOf(m) \subseteq LiveFiles
    BY <1>3 DEF FilesOf, LiveFiles
  <2> QED
    BY <2>1, <2>2, KeepNotEmpty
<1>4. ASSUME NEW k \in Keys, NEW v \in Values, Write(k, v) PROVE EntriesInv'
  <2>1. memTable'[k] = v /\ v # Missing
    BY <1>1, <1>4, LSMTreeAssumption DEF Write, BaseInv, TypeOK, Tables, Values
  <2>2. KeysOf(memTable') # {}
    BY <2>1 DEF KeysOf
  <2> QED
    BY <1>1, <1>2, <1>4, <2>2 DEF Write, EntriesInv
<1>5. CASE FlushMemTable
  <2>1. KeysOf(FlushedTable) # {}
    <3>1. PICK k \in Keys : memTable[k] # Missing
      BY <1>5 DEF FlushMemTable, EntriesInv, KeysOf
    <3>2. FlushedTable[k] # Missing
      BY <3>1, LSMTreeAssumption DEF FlushedTable, Persisted
    <3> QED
      BY <3>2 DEF KeysOf
  <2>2. NoEmptySST'
    BY <1>0, <1>1, <1>5, <2>1, FlushedType, InsertNotEmpty
       DEF FlushMemTable, BaseInv
  <2> QED
    BY <1>1, <1>5, <2>2 DEF FlushMemTable, EntriesInv
<1>6. CASE CompactLevel
  <2>1. level \in Levels /\ level + 1 \in Levels /\ Merged(level) \in Tables
    BY <1>1, <1>6, CompactedLevel, MergedType DEF CompactLevel, BaseInv
  <2>2. NoEmptySST'
    BY <1>6, <2>1, MergedNotEmpty, InsertNotEmpty DEF CompactLevel
  <2> QED
    BY <1>1, <1>6, <2>2 DEF CompactLevel, EntriesInv
<1>7. CASE FlushReaderFails
  BY <1>0, <1>1, <1>3, <1>7, FlushedType DEF FlushReaderFails, EntriesInv, BaseInv
<1>8. CASE CompactMergeFails
  <2>1. level + 1 \in Levels
    BY <1>1, <1>8, CompactedLevel DEF CompactMergeFails, BaseInv
  <2> QED
    BY <1>1, <1>3, <1>8, <2>1, NoEntriesType DEF CompactMergeFails, EntriesInv
<1>9. CASE CompactReaderFails
  <2>1. level \in Levels /\ level + 1 \in Levels /\ Merged(level) \in Tables
    BY <1>1, <1>9, CompactedLevel, MergedType DEF CompactReaderFails, BaseInv
  <2> QED
    BY <1>1, <1>3, <1>9, <2>1 DEF CompactReaderFails, EntriesInv
<1>10. CASE RemoveNodes
  <2>1. \A l \in Levels : nodes'[l] = IF l = level THEN <<>> ELSE nodes[l]
    BY <1>1, <1>10 DEF RemoveNodes, BaseInv, TypeOK
  <2>2. \A l \in Levels :
            /\ FilesOf(l)' \subseteq FilesOf(l)
            /\ l = level => FilesOf(l)' = {}
    BY <2>1 DEF FilesOf
  <2>3. ASSUME NEW l \in Levels, NEW f \in FilesOf(l)' PROVE disk'[f] = disk[f]
    <3>1. l # level /\ f \in FilesOf(l)
      BY <2>2, <2>3
    <3>2. f \notin FilesOf(level) /\ f \in DOMAIN disk
      BY <1>1, <3>1 DEF FilesOf, BaseInv, NodesOnDisk
    <3> QED
      BY <1>10, <3>2, RemoveDisk
  <2>4. NoEmptySST'
    BY <2>2, <2>3, KeepNotEmpty
  <2> QED
    BY <1>1, <1>10, <2>4 DEF RemoveNodes, EntriesInv
<1>11. CASE Restart
  <2>1. \A l \in Levels : FilesOf(l)' = {}
    BY <1>11 DEF Restart, FilesOf
  <2> QED
    BY <1>1, <1>11, <2>1 DEF Restart, EntriesInv, NoEmptySST
<1>12. CASE FlushOpenFails \/ CompactOpenFails \/ CascadeDone \/ Close
  BY <1>1, <1>2, <1>12 DEF FlushOpenFails, CompactOpenFails, CascadeDone, Close,
                           EntriesInv
<1>13. CASE UNCHANGED vars
  BY <1>1, <1>2, <1>13 DEF vars, EntriesInv
<1> QED
  BY <1>4, <1>5, <1>6, <1>7, <1>8, <1>9, <1>10, <1>11, <1>12, <1>13
     DEF Next, Continue

\* Whatever fails and however often the process restarts, no node is made of a
\* file without entries, on which NewNode would panic (node.go:38).
THEOREM NoEmptyNode == CrashSpec => []NoEmptySST
<1>1. Init => EntriesInv
  BY BaseInit DEF Init, EntriesInv, NoEmptySST, FilesOf
<1>2. EntriesInv => NoEmptySST
  BY DEF EntriesInv
<1> QED
  BY <1>1, <1>2, EntriesNext, PTL DEF CrashSpec

-----------------------------------------------------------------------------
(* Scans: a table has finitely many entries, so a first and a last key, and *)
(* the quick exclusion skips no SST that has a key of the interval.        *)

FiniteTable(t) == IsFiniteSet(KeysOf(t))

\* What makes ScanToEndMatchesGet inductive.
ScanInv ==
    /\ EntriesInv
    /\ FiniteTable(memTable)
    /\ \A f \in DOMAIN disk : FiniteTable(disk[f])

\* A finite set of integers that is not empty has a greatest element.
LEMMA FiniteMax ==
    ASSUME NEW S, S \subseteq Int, IsFiniteSet(S), S # {}
    PROVE  \E x \in S : \A y \in S : y <= x
<1> DEFINE Above(x) == {y \in S : x < y}
           D == {Cardinality(Above(x)) : x \in S}
<1>1. ASSUME NEW x \in S
      PROVE  IsFiniteSet(Above(x)) /\ Cardinality(Above(x)) \in Nat
  <2>1. Above(x) \in SUBSET S
    OBVIOUS
  <2> HIDE DEF Above
  <2> QED
    BY <2>1, FS_Subset, FS_CardinalityType
<1>2. PICK n \in D : \A d \in D : n <= d
  <2>1. D \subseteq Nat /\ D # {}
    BY <1>1
  <2> HIDE DEF D
  <2> QED
    BY <2>1, NatMin
<1>3. PICK x \in S : n = Cardinality(Above(x))
  BY <1>2
<1>4. ASSUME NEW y \in S, ~(y <= x) PROVE FALSE
  <2>1. Above(y) \subseteq Above(x) /\ y \in Above(x) /\ y \notin Above(y)
    <3>1. x \in Int /\ y \in Int /\ x < y /\ \A z \in S : z \in Int
      BY <1>4
    <3>2. \A z \in S : y < z => x < z
      BY <3>1
    <3>3. ~(y < y)
      BY <3>1
    <3> QED
      BY <3>1, <3>2, <3>3, Zenon
  <2>2. Cardinality(Above(y)) <= Cardinality(Above(x)) /\ Above(y) # Above(x)
    <3>1. Above(y) \in SUBSET Above(x)
      BY <2>1
    <3> HIDE DEF Above
    <3> QED
      BY <1>1, <2>1, <3>1, FS_Subset
  <2>3. Cardinality(Above(y)) # Cardinality(Above(x))
    <3>1. Above(y) \in SUBSET Above(x)
      BY <2>1
    <3> HIDE DEF Above
    <3> QED
      BY <1>1, <2>1, <2>2, <3>1, FS_Subset
  <2>4. Cardinality(Above(x)) <= Cardinality(Above(y))
    BY <1>2, <1>3
  <2> HIDE DEF Above
  <2> QED
    BY <1>1, <2>2, <2>3, <2>4
<1> QED
  BY <1>4

\* The last key of a table and the last key of its first block are keys of it.
LEMMA TableEnds ==
    ASSUME NEW t, FiniteTable(t), KeysOf(t) # {}
    PROVE  /\ EndKey(t) \in KeysOf(t) /\ \A k \in KeysOf(t) : k <= EndKey(t)
           /\ StartKey(t) \in KeysOf(t)
<1> DEFINE S == KeysOf(t)
           C == Cardinality(S)
           n == IF C < BlockLen THEN C ELSE BlockLen
<1>1. S \subseteq Int /\ IsFiniteSet(S) /\ S # {} /\ C \in Nat /\ C # 0
  BY FS_CardinalityType, FS_EmptySet, LSMTreeAssumption DEF FiniteTable, KeysOf
<1>2. n \in Nat /\ 1 <= n /\ n <= C
  BY <1>1, LSMTreeAssumption
<1>3. \A k \in S : Rank(t, k) = Cardinality({j \in S : j <= k})
  BY DEF Rank
<1> HIDE DEF S, n
<1>4. PICK e \in S : \A k \in S : k <= e
  BY <1>1, FiniteMax
<1>5. EndKey(t) \in S /\ \A k \in S : k <= EndKey(t)
  BY <1>4 DEF EndKey, S
<1>6. ASSUME NEW T, T \subseteq S PROVE IsFiniteSet(T) /\ Cardinality(T) \in Nat
  BY <1>1, <1>6, FS_Subset, FS_CardinalityType
<1>7. \E k \in S : Rank(t, k) = n
  <2> DEFINE Upto(k) == {j \in S : j <= k}
             D == {Cardinality(Upto(k)) : k \in {k \in S : n <= Cardinality(Upto(k))}}
  <2>1. \A k \in S : Upto(k) \subseteq S /\ Cardinality(Upto(k)) \in Nat
    BY <1>6
  <2>2. Upto(e) = S
    BY <1>4
  <2>3. D \subseteq Nat /\ D # {}
    BY <1>2, <2>1, <2>2
  <2>4. PICK d \in D : \A x \in D : d <= x
    <3> HIDE DEF D
    <3> QED
      BY <2>3, NatMin
  <2>5. PICK k \in S : d = Cardinality(Upto(k)) /\ n <= d
    BY <2>4
  <2>6. ASSUME n # d PROVE FALSE
    <3> DEFINE T == Upto(k) \ {k}
    <3>1. T \subseteq S /\ k \in Upto(k)
      BY <1>1
    <3>2. Cardinality(T) = d - 1 /\ d \in Nat
      <4>1. IsFiniteSet(Upto(k))
        BY <1>6, <2>1
      <4> HIDE DEF Upto
      <4> QED
        BY <2>1, <2>5, <3>1, <4>1, FS_RemoveElement
    <3>3. d - 1 >= n /\ d - 1 # 0
      BY <1>2, <2>5, <2>6, <3>2
    <3>4. T # {} /\ IsFiniteSet(T) /\ T \subseteq Int
      <4> HIDE DEF T
      <4> QED
        BY <1>1, <1>6, <3>1, <3>2, <3>3, FS_EmptySet
    <3>5. PICK j \in T : \A x \in T : x <= j
      <4> HIDE DEF T
      <4> QED
        BY <3>4, FiniteMax
    <3>6. Upto(j) = T
      <4>1. j \in S /\ j <= k /\ j # k /\ \A x \in S : x \in Int
        BY <1>1, <3>5
      <4>2. \A x \in S : x <= j => x <= k /\ x # k
        BY <4>1
      <4>3. \A x \in S : x <= k /\ x # k => x <= j
        BY <3>5
      <4> QED
        BY <4>2, <4>3
    <3>7. Cardinality(Upto(j)) \in D /\ Cardinality(Upto(j)) = d - 1
      <4>1. j \in S /\ Cardinality(Upto(j)) = d - 1
        BY <3>1, <3>2, <3>5, <3>6
      <4> HIDE DEF Upto
      <4> QED
        BY <3>3, <4>1
    <3> HIDE DEF D
    <3> QED
      BY <2>4, <3>2, <3>7
  <2> QED
    BY <1>3, <2>5, <2>6
<1>8. StartKey(t) \in S
  BY <1>7 DEF StartKey, S, n
<1> QED
  BY <1>5, <1>8 DEF S

\* GetRange excludes an SST that has a key of the scan if, and only if, the SST
\* starts at or after the end of the scan.
LEMMA ExcludedIs ==
    ASSUME ScanInv, NEW lo \in Int, NEW hi \in Int, NEW k \in Keys, lo <= k,
           NEW f \in LiveFiles, disk[f][k] # Missing
    PROVE  /\ StartKey(disk[f]) \in Int
           /\ Pruned(disk[f], lo, hi) <=> StartKey(disk[f]) >= hi
<1>1. f \in DOMAIN disk /\ k \in KeysOf(disk[f])
  BY DEF LiveFiles, KeysOf, ScanInv, EntriesInv, BaseInv, NodesOnDisk
<1>2. FiniteTable(disk[f])
  BY <1>1 DEF ScanInv
<1>3. /\ EndKey(disk[f]) \in KeysOf(disk[f]) /\ k <= EndKey(disk[f])
      /\ StartKey(disk[f]) \in KeysOf(disk[f])
  BY <1>1, <1>2, TableEnds
<1>4. EndKey(disk[f]) \in Int /\ StartKey(disk[f]) \in Int /\ k \in Int
  BY <1>3, LSMTreeAssumption DEF KeysOf
<1> QED
  BY <1>3, <1>4 DEF Pruned

\* Where a scan finds a key: in the memtable, or else in a live SST that is not
\* excluded, and nowhere only if no such SST has it.
LEMMA ScanSource ==
    ASSUME BaseInv, NEW lo, NEW hi, NEW k \in Keys, memTable[k] = Missing
    PROVE  \/ /\ ScanGet(k, lo, hi) = Missing
              /\ \A g \in LiveFiles :
                    disk[g][k] = Missing \/ Pruned(disk[g], lo, hi)
           \/ \E f \in LiveFiles :
                 /\ disk[f][k] # Missing /\ ~Pruned(disk[f], lo, hi)
                 /\ ScanGet(k, lo, hi) =
                       IF disk[f][k] = Nil THEN Missing ELSE disk[f][k]
                 /\ \A g \in LiveFiles :
                       disk[g][k] # Missing /\ ~Pruned(disk[g], lo, hi) =>
                           g = f \/ f[1] < g[1] \/ (f[1] = g[1] /\ g[2] < f[2])
<1> DEFINE H == [l \in Levels |->
                    {i \in Hits(l, k) : ~Pruned(disk[<<l, nodes[l][i]>>], lo, hi)}]
<1>1. ScanGet(k, lo, hi) = IF Lookup(H, k) = Nil THEN Missing ELSE Lookup(H, k)
  BY DEF ScanGet
<1>2. ASSUME NEW g \in LiveFiles, disk[g][k] # Missing, ~Pruned(disk[g], lo, hi)
      PROVE  \E m \in Levels : \E j \in H[m] : g = <<m, nodes[m][j]>>
  BY <1>2 DEF LiveFiles, FilesOf, Hits
<1>3. ASSUME NEW m \in Levels, NEW j \in H[m]
      PROVE  /\ j \in Hits(m, k) /\ j \in DOMAIN nodes[m]
             /\ <<m, nodes[m][j]>> \in LiveFiles
             /\ disk[<<m, nodes[m][j]>>][k] # Missing
             /\ ~Pruned(disk[<<m, nodes[m][j]>>], lo, hi)
  BY <1>3 DEF LiveFiles, FilesOf, Hits
<1>4. CASE \A l \in Levels : H[l] = {}
  <2>1. Lookup(H, k) = Missing /\ Missing # Nil
    BY <1>4, LSMTreeAssumption DEF Lookup
  <2> HIDE DEF H
  <2> QED
    BY <1>1, <1>2, <1>4, <2>1
<1>5. ASSUME NEW x \in Levels, H[x] # {}
      PROVE  \E f \in LiveFiles :
                 /\ disk[f][k] # Missing /\ ~Pruned(disk[f], lo, hi)
                 /\ ScanGet(k, lo, hi) =
                       IF disk[f][k] = Nil THEN Missing ELSE disk[f][k]
                 /\ \A g \in LiveFiles :
                       disk[g][k] # Missing /\ ~Pruned(disk[g], lo, hi) =>
                           g = f \/ f[1] < g[1] \/ (f[1] = g[1] /\ g[2] < f[2])
  <2> DEFINE S == {l \in Levels : H[l] # {}}
             c == CHOOSE n \in Levels :
                      H[n] # {} /\ \A o \in Levels : H[o] # {} => n <= o
  <2>1. PICK l \in S : \A n \in S : l <= n
    <3>1. S \subseteq Nat /\ S # {}
      BY <1>5, LSMTreeAssumption DEF Levels
    <3> HIDE DEF S
    <3> QED
      BY <3>1, NatMin
  <2>2. c \in Levels /\ H[c] # {} /\ \A o \in Levels : H[o] # {} => c <= o
    <3> HIDE DEF H
    <3> QED
      BY <2>1
  <2> DEFINE i == CHOOSE n \in H[c] : \A j \in H[c] : j <= n
             f == <<c, nodes[c][i]>>
  <2>3. Lookup(H, k) = disk[f][k]
    BY <1>5 DEF Lookup
  <2> HIDE DEF c
  <2>4. /\ nodes[c] \in Seq(Nat) /\ Len(nodes[c]) \in Nat
        /\ DOMAIN nodes[c] = 1 .. Len(nodes[c])
    BY <2>2 DEF BaseInv, TypeOK
  <2>5. i \in H[c] /\ \A j \in H[c] : j <= i
    <3>1. H[c] \subseteq 1 .. Len(nodes[c])
      BY <2>2, <2>4 DEF Hits
    <3>2. \E n \in H[c] : \A j \in H[c] : j <= n
      BY <2>2, <2>4, <3>1, BoundedMax
    <3> HIDE DEF H
    <3> QED
      BY <3>2
  <2> HIDE DEF i
  <2>6. /\ f \in LiveFiles /\ disk[f][k] # Missing
        /\ ~Pruned(disk[f], lo, hi)
    BY <1>3, <2>2, <2>5
  <2>7. ASSUME NEW g \in LiveFiles, disk[g][k] # Missing, ~Pruned(disk[g], lo, hi)
        PROVE  g = f \/ f[1] < g[1] \/ (f[1] = g[1] /\ g[2] < f[2])
    <3>1. PICK m \in Levels : \E j \in H[m] : g = <<m, nodes[m][j]>>
      BY <1>2, <2>7
    <3>2. PICK j \in H[m] : g = <<m, nodes[m][j]>>
      BY <3>1
    <3> HIDE DEF H
    <3>3. c <= m /\ c \in Int /\ m \in Int /\ f[1] = c /\ g[1] = m
      BY <2>2, <3>2 DEF Levels
    <3>4. CASE c = m
      <4>1. j <= i /\ i \in DOMAIN nodes[c] /\ j \in DOMAIN nodes[c]
        BY <1>3, <2>2, <2>5, <3>2, <3>4
      <4>2. i \in Nat /\ j \in Nat
        BY <2>4, <4>1
      <4>3. CASE i = j
        BY <3>2, <3>4, <4>3
      <4>4. CASE j < i
        <5>1. nodes[c][j] < nodes[c][i]
          BY <2>2, <4>1, <4>4 DEF BaseInv, SeqsIncreasing
        <5> QED
          BY <3>2, <3>4, <5>1
      <4> QED
        BY <4>1, <4>2, <4>3, <4>4
    <3> QED
      BY <3>3, <3>4
  <2> HIDE DEF f, H
  <2> QED
    BY <1>1, <2>3, <2>6, <2>7
<1> HIDE DEF H
<1> QED
  BY <1>4, <1>5

\* A scan whose end no SST starts at finds what Get finds.
LEMMA ScanFinds ==
    ASSUME ScanInv, NEW lo \in Int, NEW hi \in Int, NEW k \in Keys, lo <= k,
           \A f \in LiveFiles : StartKey(disk[f]) < hi
    PROVE  ScanGet(k, lo, hi) = Get(k)
<1> DEFINE Seen(l) ==
        {i \in Hits(l, k) : ~Pruned(disk[<<l, nodes[l][i]>>], lo, hi)}
<1>1. ASSUME NEW l \in Levels PROVE Seen(l) = Hits(l, k)
  <2> SUFFICES ASSUME NEW i \in Hits(l, k)
               PROVE  ~Pruned(disk[<<l, nodes[l][i]>>], lo, hi)
    OBVIOUS
  <2>1. <<l, nodes[l][i]>> \in LiveFiles /\ disk[<<l, nodes[l][i]>>][k] # Missing
    BY DEF Hits, LiveFiles, FilesOf
  <2> QED
    BY <2>1, ExcludedIs
<1>2. [l \in Levels |-> Seen(l)] = [l \in Levels |-> Hits(l, k)]
  BY <1>1
<1>3. ScanGet(k, lo, hi) =
        LET found == IF memTable[k] # Missing THEN memTable[k]
                     ELSE Lookup([l \in Levels |-> Seen(l)], k)
        IN  IF found = Nil THEN Missing ELSE found
  BY DEF ScanGet
<1> HIDE DEF Seen
<1> QED
  BY <1>2, <1>3 DEF Get, RawGet, NodesGet

\* Such a scan returns the keys of its interval that Get finds.
LEMMA ScanIsGet ==
    ASSUME ScanInv, NEW lo \in Int, NEW hi \in Int,
           \A f \in LiveFiles : StartKey(disk[f]) < hi
    PROVE  Scan(lo, hi) =
               [k \in {k \in Keys : lo <= k /\ k < hi /\ Get(k) # Missing}
                   |-> Get(k)]
<1>1. \A k \in Keys : lo <= k => ScanGet(k, lo, hi) = Get(k)
  BY ScanFinds
<1> QED
  BY <1>1 DEF Scan

\* The tables a step of a call in progress writes are finite.
LEMMA NewTablesFinite ==
    ASSUME ScanInv, NEW t \in NewTables
    PROVE  FiniteTable(t)
<1>1. CASE t = FlushedTable
  <2>1. KeysOf(t) \in SUBSET KeysOf(memTable)
    BY <1>1, LSMTreeAssumption DEF KeysOf, FlushedTable, Persisted
  <2> QED
    BY <2>1, FS_Subset DEF FiniteTable, ScanInv
<1>2. CASE t = NoEntries
  <2>1. KeysOf(t) = {}
    BY <1>2 DEF KeysOf, NoEntries
  <2> QED
    BY <2>1, FS_EmptySet DEF FiniteTable
<1>3. ASSUME NEW l \in Levels, t = Merged(l) PROVE FiniteTable(t)
  <2> DEFINE n == Len(nodes[l])
             K(i) == KeysOf(disk[<<l, nodes[l][i]>>])
             T == {K(i) : i \in 1 .. n}
             g == [i \in 1 .. n |-> K(i)]
  <2>1. n \in Nat /\ DOMAIN nodes[l] = 1 .. n /\ IsFiniteSet(1 .. n)
    BY FS_Interval DEF ScanInv, EntriesInv, BaseInv, TypeOK
  <2>2. g \in Surjection(1 .. n, T)
    BY DEF Surjection
  <2>3. IsFiniteSet(T)
    <3> HIDE DEF g, T, n
    <3> QED
      BY <2>1, <2>2, FS_Surjection
  <2>4. \A S \in T : IsFiniteSet(S)
    <3>1. \A i \in 1 .. n : <<l, nodes[l][i]>> \in DOMAIN disk
      BY <2>1 DEF ScanInv, EntriesInv, BaseInv, NodesOnDisk, FilesOf
    <3> QED
      BY <3>1 DEF ScanInv, FiniteTable
  <2>5. IsFiniteSet(UNION T)
    <3> HIDE DEF T
    <3> QED
      BY <2>3, <2>4, FS_UNION
  <2>6. KeysOf(t) \in SUBSET UNION T
    <3> SUFFICES ASSUME NEW k \in KeysOf(t) PROVE \E i \in 1 .. n : k \in K(i)
      OBVIOUS
    <3>1. Hits(l, k) # {}
      BY <1>3 DEF KeysOf, Merged
    <3> QED
      BY <2>1, <3>1 DEF Hits, KeysOf
  <2> QED
    BY <2>5, <2>6, FS_Subset DEF FiniteTable
<1> QED
  BY <1>1, <1>2, <1>3 DEF NewTables

LEMMA ScanInvInit == Init => ScanInv
<1> SUFFICES ASSUME Init PROVE ScanInv
  OBVIOUS
<1>1. EntriesInv
  BY BaseInit DEF Init, EntriesInv, NoEmptySST, FilesOf
<1>2. KeysOf(memTable) = {} /\ DOMAIN disk = {}
  BY DEF Init, KeysOf, NoEntries
<1> QED
  BY <1>1, <1>2, FS_EmptySet DEF ScanInv, FiniteTable

LEMMA ScanInvNext == ScanInv /\ [Next \/ Restart]_vars => ScanInv'
<1> SUFFICES ASSUME ScanInv, [Next \/ Restart]_vars PROVE ScanInv'
  OBVIOUS
<1>1. EntriesInv'
  BY EntriesNext DEF ScanInv
<1>2. FiniteTable(NoEntries)
  BY NewTablesFinite DEF NewTables
<1>3. CASE Continue
  <2>1. FiniteTable(memTable')
    BY <1>2, <1>3, ContinueTables DEF ScanInv, EntriesInv
  <2>2. \A f \in DOMAIN disk' : FiniteTable(disk'[f])
    BY <1>3, ContinueTables, NewTablesFinite DEF ScanInv, EntriesInv
  <2> QED
    BY <1>1, <2>1, <2>2 DEF ScanInv, FiniteTable, KeysOf
<1>4. ASSUME NEW k \in Keys, NEW v \in Values, Write(k, v) PROVE ScanInv'
  <2>1. KeysOf(memTable') \in SUBSET (KeysOf(memTable) \cup {k})
    BY <1>4 DEF Write, KeysOf, ScanInv, EntriesInv, BaseInv, TypeOK, Tables
  <2>2. IsFiniteSet(KeysOf(memTable) \cup {k})
    BY FS_AddElement DEF ScanInv, FiniteTable
  <2>3. FiniteTable(memTable')
    BY <2>1, <2>2, FS_Subset DEF FiniteTable
  <2> QED
    BY <1>1, <1>4, <2>3 DEF Write, ScanInv, FiniteTable, KeysOf
<1>5. CASE Restart
  BY <1>1, <1>2, <1>5 DEF Restart, NewMemTable, ScanInv, FiniteTable, KeysOf
<1>6. CASE Close \/ UNCHANGED vars
  BY <1>1, <1>6 DEF Close, vars, ScanInv, FiniteTable, KeysOf
<1> QED
  BY <1>3, <1>4, <1>5, <1>6 DEF Next

\* Whatever fails and however often the process restarts, at every stage of a
\* call, a scan up to the last key returns what Get returns for each key
\* (tree.go:110, node.go:91).
THEOREM ScansAgree == CrashSpec => []ScanToEndMatchesGet
<1>1. ASSUME ScanInv PROVE ScanToEndMatchesGet
  <2> SUFFICES ASSUME NEW lo \in Keys, NEW hi \in Keys,
                      \A k \in Keys : k < hi \/ k = hi
               PROVE  Scan(lo, hi + 1) =
                          [k \in {k \in Keys : lo <= k /\ Get(k) # Missing} |-> Get(k)]
    BY DEF ScanToEndMatchesGet
  <2>1. Keys \subseteq Int /\ lo \in Int /\ hi \in Int /\ hi + 1 \in Int
    BY LSMTreeAssumption
  <2>2. \A k \in Keys : k < hi + 1
    BY <2>1
  <2>3. \A f \in LiveFiles : StartKey(disk[f]) \in Keys
    <3> SUFFICES ASSUME NEW f \in LiveFiles PROVE StartKey(disk[f]) \in Keys
      OBVIOUS
    <3>1. f \in DOMAIN disk /\ KeysOf(disk[f]) # {}
      BY <1>1 DEF LiveFiles, ScanInv, EntriesInv, BaseInv, NodesOnDisk, NoEmptySST
    <3>2. StartKey(disk[f]) \in KeysOf(disk[f])
      BY <1>1, <3>1, TableEnds DEF ScanInv
    <3> QED
      BY <3>2 DEF KeysOf
  <2>4. Scan(lo, hi + 1) =
            [k \in {k \in Keys : lo <= k /\ k < hi + 1 /\ Get(k) # Missing} |-> Get(k)]
    BY <1>1, <2>1, <2>2, <2>3, ScanIsGet
  <2>5. {k \in Keys : lo <= k /\ k < hi + 1 /\ Get(k) # Missing}
            = {k \in Keys : lo <= k /\ Get(k) # Missing}
    BY <2>2
  <2> QED
    BY <2>4, <2>5
<1> QED
  BY <1>1, ScanInvInit, ScanInvNext, PTL DEF CrashSpec

-----------------------------------------------------------------------------
(* The size counter of the memtable.                                       *)

\* The element a sum over the set takes first.
Element(s) == CHOOSE x \in s : TRUE

\* The recursion of MapThenSumSet over the entries a table has for keys of S.
SumStep(t, S, h) ==
    [s \in SUBSET S |->
        IF s = {} THEN 0
        ELSE EntryLen(Element(s), t[Element(s)]) + h[s \ {Element(s)}]]
Total(t, S) == (CHOOSE h : h = SumStep(t, S, h))[S]

LEMMA SizeIs ==
    MemSizeExact <=> memSize = Total(memTable, KeysOf(memTable))
  BY DEF MemSizeExact, MapThenSumSet, MapThenFoldSet, Total, SumStep, Element

LEMMA ElementIs ==
    ASSUME NEW s, s # {}
    PROVE  Element(s) \in s
BY DEF Element

LEMMA StepIs ==
    ASSUME NEW t, NEW S, NEW h, h = SumStep(t, S, h), NEW s \in SUBSET S
    PROVE  h[s] = IF s = {} THEN 0
                  ELSE EntryLen(Element(s), t[Element(s)]) + h[s \ {Element(s)}]
<1>1. SumStep(t, S, h)[s] =
          IF s = {} THEN 0
          ELSE EntryLen(Element(s), t[Element(s)]) + h[s \ {Element(s)}]
  BY Zenon DEF SumStep
<1> QED
  BY <1>1, Zenon

\* Up to n elements, a sum exists.
LEMMA SumExists ==
    ASSUME NEW t, NEW S, IsFiniteSet(S)
    PROVE  \E h : h = SumStep(t, S, h)
<1> DEFINE Small(n) == {s \in SUBSET S : Cardinality(s) <= n}
           F(h, s) == IF s = {} THEN 0
                      ELSE EntryLen(Element(s), t[Element(s)]) + h[s \ {Element(s)}]
           G == {n \in Nat : ~ \E h : h = [s \in Small(n) |-> F(h, s)]}
<1>1. \A s \in SUBSET S : IsFiniteSet(s) /\ Cardinality(s) \in Nat
  BY FS_Subset, FS_CardinalityType
<1>2. Cardinality(S) \in Nat /\ \A s \in SUBSET S : Cardinality(s) <= Cardinality(S)
  BY FS_Subset, FS_CardinalityType
<1>3. \A s \in SUBSET S : s # {} =>
          /\ Element(s) \in s /\ s \ {Element(s)} \in SUBSET S
          /\ Cardinality(s \ {Element(s)}) = Cardinality(s) - 1
  <2> SUFFICES ASSUME NEW s \in SUBSET S, s # {}
               PROVE  /\ Element(s) \in s /\ s \ {Element(s)} \in SUBSET S
                      /\ Cardinality(s \ {Element(s)}) = Cardinality(s) - 1
    OBVIOUS
  <2>1. Element(s) \in s
    BY ElementIs
  <2>2. IsFiniteSet(s)
    BY <1>1
  <2>3. Cardinality(s \ {Element(s)}) = Cardinality(s) - 1
    BY <2>1, <2>2, FS_RemoveElement
  <2> QED
    BY <2>1, <2>3
<1>4. G = {}
  <2> SUFFICES ASSUME G # {} PROVE FALSE
    OBVIOUS
  <2>1. PICK n \in G : \A i \in G : n <= i
    <3>1. G \subseteq Nat
      OBVIOUS
    <3> HIDE DEF G
    <3> QED
      BY <3>1, NatMin
  <2>2. CASE n = 0
    <3> DEFINE h == [s \in Small(0) |-> 0]
    <3>1. \A s \in Small(0) : s = {}
      <4> SUFFICES ASSUME NEW s \in SUBSET S, Cardinality(s) <= 0 PROVE s = {}
        OBVIOUS
      <4>1. Cardinality(s) = 0 /\ IsFiniteSet(s)
        BY <1>1
      <4> QED
        BY <4>1, FS_EmptySet
    <3>2. h = [s \in Small(0) |-> F(h, s)]
      <4>1. \A s \in Small(0) : F(h, s) = 0
        BY <3>1
      <4> HIDE DEF F, Small
      <4> QED
        BY <4>1
    <3> QED
      BY <2>2, <3>2
  <2>3. CASE n # 0
    <3>1. n - 1 \in Nat /\ n \in Nat /\ n - 1 \notin G
      <4>1. n \in Nat
        OBVIOUS
      <4>2. n - 1 \in Nat /\ ~ (n <= n - 1)
        BY <2>3, <4>1
      <4> HIDE DEF G
      <4> QED
        BY <2>1, <4>1, <4>2
    <3>2. PICK h : h = [s \in Small(n - 1) |-> F(h, s)]
      BY <3>1
    <3> DEFINE g == [s \in Small(n) |-> F(h, s)]
    <3>3. ASSUME NEW s \in Small(n), s # {}
          PROVE  s \ {Element(s)} \in Small(n - 1) /\ s \ {Element(s)} \in Small(n)
      <4>1. s \in SUBSET S /\ Cardinality(s) <= n
        OBVIOUS
      <4>2. /\ s \ {Element(s)} \in SUBSET S
            /\ Cardinality(s \ {Element(s)}) = Cardinality(s) - 1
        BY <1>3, <3>3
      <4>3. Cardinality(s) \in Nat
        BY <1>1
      <4> QED
        BY <3>1, <4>1, <4>2, <4>3
    <3>4. ASSUME NEW s \in Small(n - 1) PROVE g[s] = h[s]
      <4>1. h[s] = F(h, s)
        <5>1. [x \in Small(n - 1) |-> F(h, x)][s] = F(h, s)
          BY Zenon
        <5> QED
          BY <3>2, <5>1, Zenon
      <4>2. s \in Small(n)
        <5>1. Cardinality(s) \in Nat /\ Cardinality(s) <= n - 1 /\ s \in SUBSET S
          BY <1>1
        <5> QED
          BY <3>1, <5>1
      <4>3. g[s] = F(h, s)
        BY <4>2, Zenon
      <4> QED
        BY <4>1, <4>3, Zenon
    <3>5. g = [s \in Small(n) |-> F(h, s)]
      BY Zenon
    <3> HIDE DEF g
    <3>6. \A s \in Small(n) : F(g, s) = F(h, s)
      <4> SUFFICES ASSUME NEW s \in Small(n) PROVE F(g, s) = F(h, s)
        BY Zenon
      <4>1. CASE s = {}
        BY <4>1, Zenon
      <4>2. CASE s # {}
        <5>1. g[s \ {Element(s)}] = h[s \ {Element(s)}]
          BY <3>3, <3>4, <4>2, Zenon
        <5> QED
          BY <5>1, Zenon
      <4> QED
        BY <4>1, <4>2, Zenon
    <3>7. g = [s \in Small(n) |-> F(g, s)]
      <4> HIDE DEF F, Small
      <4> QED
        BY <3>5, <3>6
    <3> QED
      BY <3>7
  <2> QED
    BY <2>2, <2>3
<1>5. Small(Cardinality(S)) = SUBSET S
  BY <1>2
<1>6. PICK h : h = [s \in Small(Cardinality(S)) |-> F(h, s)]
  BY <1>2, <1>4
<1>7. h = [s \in SUBSET S |-> F(h, s)]
  <2> HIDE DEF F, Small
  <2> QED
    BY <1>5, <1>6
<1> QED
  BY <1>7, Zenon DEF SumStep

\* The sum of a table over a set of keys, by what makes it a sum: it does not
\* depend on which element is taken first.
LEMMA SumTakesAny ==
    ASSUME NEW t \in Tables, NEW S, S \subseteq Keys, IsFiniteSet(S),
           NEW h, h = SumStep(t, S, h)
    PROVE  \A s \in SUBSET S :
               /\ h[s] \in Int
               /\ \A x \in s : h[s] = EntryLen(x, t[x]) + h[s \ {x}]
<1> DEFINE Good(s) == /\ h[s] \in Int
                      /\ \A x \in s : h[s] = EntryLen(x, t[x]) + h[s \ {x}]
           D == {n \in Nat : \E s \in SUBSET S : Cardinality(s) = n /\ ~ Good(s)}
<1>1. \A s \in SUBSET S : IsFiniteSet(s) /\ Cardinality(s) \in Nat
  BY FS_Subset, FS_CardinalityType
<1>2. \A x \in Keys : EntryLen(x, t[x]) \in Int
  <2>1. \A x \in Keys : t[x] \in Stored
    BY DEF Tables
  <2> QED
    BY <2>1, LSMTreeAssumption DEF EntryLen, ValueLen
<1>3. \A s \in SUBSET S : \A x \in s :
          /\ s \ {x} \in SUBSET S
          /\ Cardinality(s \ {x}) \in Nat /\ Cardinality(s \ {x}) < Cardinality(s)
  <2> SUFFICES ASSUME NEW s \in SUBSET S, NEW x \in s
               PROVE  /\ s \ {x} \in SUBSET S
                      /\ Cardinality(s \ {x}) \in Nat
                      /\ Cardinality(s \ {x}) < Cardinality(s)
    OBVIOUS
  <2>1. s \ {x} \in SUBSET S /\ IsFiniteSet(s) /\ Cardinality(s) \in Nat
    BY <1>1
  <2>2. Cardinality(s \ {x}) = Cardinality(s) - 1
    BY <2>1, FS_RemoveElement
  <2>3. Cardinality(s \ {x}) \in Nat
    BY <1>1, <2>1
  <2> QED
    BY <2>1, <2>2, <2>3
<1>4. D = {}
  <2> SUFFICES ASSUME D # {} PROVE FALSE
    OBVIOUS
  <2>1. PICK n \in D : \A i \in D : n <= i
    <3>1. D \subseteq Nat
      OBVIOUS
    <3> HIDE DEF D
    <3> QED
      BY <3>1, NatMin
  <2>2. PICK s \in SUBSET S : Cardinality(s) = n /\ ~ Good(s)
    OBVIOUS
  <2>3. ASSUME NEW r \in SUBSET S, Cardinality(r) \in Nat, Cardinality(r) < n
        PROVE  Good(r)
    <3> HIDE DEF Good
    <3>1. CASE ~ Good(r)
      <4>1. Cardinality(r) \in D
        BY <2>3, <3>1
      <4>2. n \in Nat
        OBVIOUS
      <4> HIDE DEF D
      <4>3. n <= Cardinality(r)
        BY <2>1, <4>1
      <4> QED
        BY <2>3, <4>2, <4>3
    <3> QED
      BY <3>1
  <2>4. \A x \in s : Good(s \ {x})
    <3> HIDE DEF Good
    <3> QED
      BY <1>3, <2>2, <2>3
  <2> DEFINE e == Element(s)
             len(x) == EntryLen(x, t[x])
  <2>5. s # {} => e \in s /\ h[s] = len(e) + h[s \ {e}]
    BY StepIs, ElementIs
  <2>6. s = {} => h[s] = 0
    BY StepIs
  <2> HIDE DEF e
  <2>7. h[s] \in Int
    <3>1. CASE s = {}
      BY <2>6, <3>1
    <3>2. CASE s # {}
      <4>1. h[s \ {e}] \in Int /\ len(e) \in Int
        BY <1>2, <2>4, <2>5, <3>2
      <4> QED
        BY <2>5, <3>2, <4>1
    <3> QED
      BY <3>1, <3>2
  <2>8. ASSUME NEW x \in s PROVE h[s] = len(x) + h[s \ {x}]
    <3>1. s # {} /\ e \in s /\ h[s] = len(e) + h[s \ {e}]
      BY <2>5
    <3>2. CASE x = e
      BY <3>1, <3>2
    <3>3. CASE x # e
      <4>1. x \in s \ {e} /\ e \in s \ {x}
        BY <3>1, <3>3
      <4>2. h[s \ {e}] = len(x) + h[(s \ {e}) \ {x}]
        BY <2>4, <3>1, <4>1
      <4>3. h[s \ {x}] = len(e) + h[(s \ {x}) \ {e}]
        BY <2>4, <4>1
      <4>4. (s \ {e}) \ {x} = (s \ {x}) \ {e}
        OBVIOUS
      <4>5. h[(s \ {x}) \ {e}] \in Int
        <5>1. s \ {x} \in SUBSET S /\ Cardinality(s \ {x}) < n
          BY <1>3, <2>2
        <5>2. /\ (s \ {x}) \ {e} \in SUBSET S
              /\ Cardinality((s \ {x}) \ {e}) \in Nat
              /\ Cardinality((s \ {x}) \ {e}) < Cardinality(s \ {x})
          BY <1>3, <4>1, <5>1
        <5>3. Cardinality((s \ {x}) \ {e}) < n
          <6>1. Cardinality(s \ {x}) \in Nat /\ n \in Nat
            BY <1>3, <2>2
          <6> QED
            BY <5>1, <5>2, <6>1
        <5>4. Good((s \ {x}) \ {e})
          <6> HIDE DEF Good
          <6> QED
            BY <2>3, <5>2, <5>3
        <5> QED
          BY <5>4
      <4>6. len(x) \in Int /\ len(e) \in Int
        BY <1>2, <3>1
      <4> DEFINE q == h[(s \ {x}) \ {e}]
      <4>7. h[s \ {e}] = len(x) + q
        BY <4>2, <4>4, Zenon
      <4>8. h[s] = len(e) + (len(x) + q)
        BY <3>1, <4>7, Zenon
      <4>9. h[s \ {x}] = len(e) + q
        BY <4>3, Zenon
      <4>10. q \in Int
        BY <4>5, Zenon
      <4> HIDE DEF len, q
      <4>11. len(e) + (len(x) + q) = len(x) + (len(e) + q)
        BY <4>6, <4>10
      <4> QED
        BY <4>8, <4>9, <4>11, Zenon
    <3> QED
      BY <3>2, <3>3
  <2> QED
    BY <2>2, <2>7, <2>8
<1> QED
  <2> SUFFICES ASSUME NEW s \in SUBSET S PROVE Good(s)
    BY Zenon
  <2> HIDE DEF Good
  <2> QED
    BY <1>1, <1>4

\* A sum is one of the tables' entries over the keys of the table.
LEMMA TotalIs ==
    ASSUME NEW t, NEW S, IsFiniteSet(S)
    PROVE  \E h : h = SumStep(t, S, h) /\ Total(t, S) = h[S]
<1> DEFINE h == CHOOSE x : x = SumStep(t, S, x)
<1>1. h = SumStep(t, S, h)
  BY SumExists
<1>2. Total(t, S) = h[S]
  BY DEF Total
<1> HIDE DEF h
<1> QED
  BY <1>1, <1>2

\* Where two tables agree, so do their sums.
LEMMA SumsAgree ==
    ASSUME NEW t, NEW t2, NEW S, NEW S2, IsFiniteSet(S),
           NEW h, h = SumStep(t, S, h), NEW h2, h2 = SumStep(t2, S2, h2),
           NEW s, s \subseteq S, s \subseteq S2, \A x \in s : t[x] = t2[x]
    PROVE  h[s] = h2[s]
<1> DEFINE D == {n \in Nat : \E r \in SUBSET s : Cardinality(r) = n /\ h[r] # h2[r]}
<1>1. \A r \in SUBSET s : IsFiniteSet(r) /\ Cardinality(r) \in Nat
  <2>1. IsFiniteSet(s)
    BY FS_Subset
  <2> QED
    BY <2>1, FS_Subset, FS_CardinalityType
<1>2. D = {}
  <2> SUFFICES ASSUME D # {} PROVE FALSE
    OBVIOUS
  <2>1. PICK n \in D : \A i \in D : n <= i
    <3>1. D \subseteq Nat
      OBVIOUS
    <3> HIDE DEF D
    <3> QED
      BY <3>1, NatMin
  <2>2. PICK r \in SUBSET s : Cardinality(r) = n /\ h[r] # h2[r]
    OBVIOUS
  <2>3. r \in SUBSET S /\ r \in SUBSET S2 /\ IsFiniteSet(r) /\ Cardinality(r) = n /\ n \in Nat
    BY <1>1, <2>2
  <2> DEFINE e == Element(r)
             q == r \ {e}
  <2>4. /\ h[r] = IF r = {} THEN 0 ELSE EntryLen(e, t[e]) + h[q]
        /\ h2[r] = IF r = {} THEN 0 ELSE EntryLen(e, t2[e]) + h2[q]
    <3>1. h[r] = IF r = {} THEN 0 ELSE EntryLen(e, t[e]) + h[q]
      BY <2>3, StepIs
    <3>2. h2[r] = IF r = {} THEN 0 ELSE EntryLen(e, t2[e]) + h2[q]
      BY <2>3, StepIs
    <3> QED
      BY <3>1, <3>2
  <2>5. r # {}
    BY <2>2, <2>4
  <2>6. e \in r /\ e \in s /\ t[e] = t2[e]
    BY <2>5, ElementIs
  <2>7. q \in SUBSET s /\ Cardinality(q) = n - 1 /\ Cardinality(q) \in Nat
    <3>1. Cardinality(q) = Cardinality(r) - 1
      <4>1. Cardinality(r \ {e}) = IF e \in r THEN Cardinality(r) - 1 ELSE Cardinality(r)
        <5> HIDE DEF D, e
        <5> QED
          BY <2>3, FS_RemoveElement
      <4> QED
        BY <2>6, <4>1, Zenon
    <3>2. q \in SUBSET s
      OBVIOUS
    <3> QED
      BY <1>1, <2>3, <3>1, <3>2
  <2>8. h[q] = h2[q]
    <3> HIDE DEF q
    <3>1. CASE h[q] # h2[q]
      <4>1. Cardinality(q) \in D
        BY <2>7, <3>1
      <4> HIDE DEF D
      <4>2. n <= Cardinality(q)
        BY <2>1, <4>1
      <4> QED
        BY <2>3, <2>7, <4>2
    <3> QED
      BY <3>1
  <2>9. EntryLen(e, t[e]) + h[q] = EntryLen(e, t2[e]) + h2[q]
    BY <2>6, <2>8, Zenon
  <2> QED
    BY <2>2, <2>4, <2>9, Zenon
<1>3. s \in SUBSET s /\ Cardinality(s) \in Nat
  BY <1>1
<1> QED
  BY <1>2, <1>3

\* The counter counts what is in the memtable, of which there is finitely much.
SizeInv ==
    /\ TypeOK
    /\ IsFiniteSet(KeysOf(memTable))
    /\ memSize = Total(memTable, KeysOf(memTable))

LEMMA NothingWeighsNothing ==
    /\ KeysOf(NoEntries) = {} /\ IsFiniteSet(KeysOf(NoEntries))
    /\ Total(NoEntries, KeysOf(NoEntries)) = 0
<1>1. KeysOf(NoEntries) = {}
  BY DEF KeysOf, NoEntries
<1>2. IsFiniteSet({})
  BY FS_EmptySet
<1>3. PICK h : h = SumStep(NoEntries, {}, h) /\ Total(NoEntries, {}) = h[{}]
  BY <1>2, TotalIs
<1>4. h[{}] = 0
  BY <1>3, StepIs
<1> QED
  BY <1>1, <1>2, <1>3, <1>4

LEMMA SizeInit == Init => SizeInv
<1>1. Init => TypeOK
  BY BaseInit DEF BaseInv
<1> QED
  BY <1>1, NothingWeighsNothing DEF Init, SizeInv

\* An overwritten entry is taken out of the count before the new one is added.
LEMMA SizeWrite ==
    ASSUME SizeInv, NEW k \in Keys, NEW v \in Values, Write(k, v)
    PROVE  IsFiniteSet(KeysOf(memTable')) /\ memSize' = Total(memTable', KeysOf(memTable'))
<1> DEFINE t == memTable
           u == [memTable EXCEPT ![k] = v]
           S == KeysOf(t)
           U == KeysOf(u)
<1>1. memTable' = u /\ memSize' = memSize - EntryLen(k, t[k]) + EntryLen(k, v)
  BY DEF Write, NewSize
<1>2. /\ t \in Tables /\ v # Missing /\ v \in Stored /\ IsFiniteSet(S)
      /\ memSize = Total(t, S) /\ memSize \in Int
  BY LSMTreeAssumption DEF SizeInv, TypeOK, Values, Stored
<1>3. /\ u \in Tables /\ u[k] = v /\ \A x \in Keys \ {k} : u[x] = t[x]
  BY <1>2 DEF Tables
<1> HIDE DEF t, u
<1>4. U = S \cup {k} /\ S \subseteq Keys /\ U \subseteq Keys /\ U \ {k} = S \ {k}
  BY <1>2, <1>3 DEF KeysOf
<1>5. IsFiniteSet(U)
  BY <1>2, <1>4, FS_AddElement
<1>6. PICK h : h = SumStep(t, S, h) /\ Total(t, S) = h[S]
  BY <1>2, TotalIs
<1>7. PICK g : g = SumStep(u, U, g) /\ Total(u, U) = g[U]
  BY <1>5, TotalIs
<1>8. k \notin S => t[k] = Missing
  BY DEF KeysOf
<1> HIDE DEF S, U
<1>9. g[U] = EntryLen(k, v) + g[S \ {k}] /\ g[S \ {k}] \in Int
  <2>1. k \in U /\ U \in SUBSET U /\ U \ {k} \in SUBSET U
    BY <1>4
  <2>2. \A s \in SUBSET U :
            g[s] \in Int /\ \A x \in s : g[s] = EntryLen(x, u[x]) + g[s \ {x}]
    BY <1>3, <1>4, <1>5, <1>7, SumTakesAny
  <2>3. g[U] = EntryLen(k, u[k]) + g[U \ {k}] /\ g[U \ {k}] \in Int
    BY <2>1, <2>2
  <2> QED
    BY <1>3, <1>4, <2>3, Zenon
<1>10. h[S] = EntryLen(k, t[k]) + h[S \ {k}] /\ h[S \ {k}] \in Int
  <2>1. \A s \in SUBSET S :
            h[s] \in Int /\ \A x \in s : h[s] = EntryLen(x, t[x]) + h[s \ {x}]
    BY <1>2, <1>4, <1>6, SumTakesAny
  <2>2. S \in SUBSET S /\ S \ {k} \in SUBSET S
    OBVIOUS
  <2>3. CASE k \in S
    BY <2>1, <2>2, <2>3
  <2>4. CASE k \notin S
    <3>1. S \ {k} = S /\ EntryLen(k, t[k]) = 0
      BY <1>8, <2>4 DEF EntryLen
    <3>2. h[S] \in Int
      BY <2>1, <2>2
    <3>3. h[S] = 0 + h[S]
      BY <3>2
    <3> QED
      BY <3>1, <3>2, <3>3, Zenon
  <2> QED
    BY <2>3, <2>4
<1>11. h[S \ {k}] = g[S \ {k}]
  <2>1. S \ {k} \subseteq S /\ S \ {k} \subseteq U /\ \A x \in S \ {k} : t[x] = u[x]
    BY <1>3, <1>4
  <2> QED
    BY <1>2, <1>6, <1>7, <2>1, SumsAgree
<1>12. memSize' = Total(u, U)
  <2> DEFINE rest == g[S \ {k}]
             old == EntryLen(k, t[k])
             new == EntryLen(k, v)
  <2>1. old \in Int /\ new \in Int
    <3>1. t[k] \in Stored /\ v \in Stored
      BY <1>2 DEF Tables
    <3> QED
      BY <3>1, LSMTreeAssumption DEF EntryLen, ValueLen
  <2>2. memSize = old + rest /\ Total(u, U) = new + rest /\ memSize' = memSize - old + new
    BY <1>1, <1>2, <1>6, <1>7, <1>9, <1>10, <1>11, Zenon
  <2>3. rest \in Int
    BY <1>9
  <2> HIDE DEF rest, old, new
  <2>4. (old + rest) - old + new = new + rest
    BY <2>1, <2>3
  <2> QED
    BY <2>2, <2>4, Zenon
<1> QED
  BY <1>1, <1>5, <1>12 DEF U

LEMMA SizeNext == SizeInv /\ BaseInv /\ [Next \/ Restart]_vars => SizeInv'
<1> SUFFICES ASSUME SizeInv, BaseInv, [Next \/ Restart]_vars PROVE SizeInv'
  OBVIOUS
<1>1. TypeOK'
  BY BaseNext DEF BaseInv
<1>2. ASSUME NEW k \in Keys, NEW v \in Values, Write(k, v) PROVE SizeInv'
  BY <1>1, <1>2, SizeWrite DEF SizeInv
<1>3. ASSUME memTable' = NoEntries, memSize' = 0 PROVE SizeInv'
  BY <1>1, <1>3, NothingWeighsNothing DEF SizeInv
<1>4. ASSUME UNCHANGED <<memTable, memSize>> PROVE SizeInv'
  BY <1>1, <1>4 DEF SizeInv, KeysOf
<1>5. Continue => \/ UNCHANGED <<memTable, memSize>>
                  \/ memTable' = NoEntries /\ memSize' = 0
  BY DEF Continue, FlushMemTable, FlushOpenFails, FlushReaderFails, CompactLevel,
         CompactOpenFails, CompactMergeFails, CompactReaderFails, RemoveNodes,
         CascadeDone, NewMemTable
<1>6. Restart => memTable' = NoEntries /\ memSize' = 0
  BY DEF Restart, NewMemTable
<1>7. Close \/ UNCHANGED vars => UNCHANGED <<memTable, memSize>>
  BY DEF Close, vars
<1> QED
  BY <1>2, <1>3, <1>4, <1>5, <1>6, <1>7 DEF Next

\* Whatever fails and wherever the process restarts, the counter that decides
\* when to flush is the size of the entries in the memtable, although it is kept
\* incrementally through overwrites (Put of map_memtable.go and
\* treemap_memtable.go).
THEOREM SizeCounted == (Spec \/ CrashSpec) => []MemSizeExact
<1>1. SizeInv => MemSizeExact
  BY SizeIs DEF SizeInv
<1>2. [Next]_vars => [Next \/ Restart]_vars
  OBVIOUS
<1> QED
  BY <1>1, <1>2, SizeInit, SizeNext, BaseInit, BaseNext, PTL DEF Spec, CrashSpec
=============================================================================
