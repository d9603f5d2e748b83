------------------------------ MODULE LSMTree ------------------------------
(***************************************************************************)
(* The LSM tree of src/internal/lsm/tree: a memtable, levels of immutable  *)
(* SST files, a synchronous flush of the memtable when it is full, and the *)
(* cascade of compactions that the flush starts.                           *)
(*                                                                         *)
(* Put runs to its end in one goroutine, but it is not one step: the       *)
(* OnWrite, OnFlush and OnCompaction hooks run client code between its     *)
(* stages, an operation on a file can fail between any two of them, and    *)
(* the process can die there.  pc names the stage the call has reached.    *)
(*                                                                         *)
(* A table, in memory or on disk, is a function from Keys to what it holds *)
(* there (Missing where it has no entry).  How a file is cut into blocks   *)
(* and found again is abstracted to the one thing the tree observes, the   *)
(* start and end keys that GetRange prunes by.                             *)
(***************************************************************************)
EXTENDS Integers, Sequences, FiniteSetsExt

CONSTANTS
    Keys,           \* integers, ordered as bytes.Compare orders the keys
    Vals,           \* the values of at least one byte
    Nil,            \* the nil value: the tombstone written by Delete
    Empty,          \* the value of length zero that is not nil
    Missing,        \* no entry
    KeyLen,         \* bytes of each key
    ValLen,         \* bytes of each value of Vals
    MaxLevel,       \* conf.MaxLevel
    SSTSize,        \* conf.SSTSize: the memtable is flushed at this size
    SSTNumPerLevel, \* conf.SSTNumPerLevel: a level is merged at this length
    BlockLen,       \* entries that fill a data block (conf.SSTDataBlockSize)
    BitmapMode,     \* TRUE: compaction unions bitmaps; FALSE: newest wins
    Faults,         \* the file operations that may fail
    MaxSeq          \* bound on the number of flushes

\* A file cannot be created, read back, opened for reading or removed.
FaultKinds ==
    {"flushOpen", "flushReader", "compactOpen", "compactMerge", "compactReader",
     "remove"}

ASSUME LSMTreeAssumption ==
    /\ Keys \subseteq Int
    /\ Nil # Empty /\ Nil # Missing /\ Empty # Missing
    /\ Vals \cap {Nil, Empty, Missing} = {}
    /\ KeyLen \in [Keys -> Nat]
    /\ ValLen \in [Vals -> Nat]
    /\ MaxLevel \in Nat \ {0}
    /\ SSTSize \in Nat
    /\ SSTNumPerLevel \in Nat \ {0}
    /\ BlockLen \in Nat \ {0}
    /\ BitmapMode \in BOOLEAN
    /\ BitmapMode => Vals = SUBSET (UNION Vals)     \* bitmaps of doc ids
    /\ Faults \subseteq FaultKinds
    /\ MaxSeq \in Nat

VARIABLES
    memTable,       \* the entries of the memtable
    memSize,        \* its size counter, kept incrementally
    nodes,          \* nodes[l]: the seqs of the SSTs of level l, oldest first
    levelToSeq,     \* levelToSeq[l]: the last seq taken at level l
    disk,           \* the SST files: <<level, seq>> -> table
    stats,          \* the counters of GetStats
    pc,             \* the stage of the call in progress
    level           \* the loop variable of cascadeCompact

vars == <<memTable, memSize, nodes, levelToSeq, disk, stats, pc, level>>

Levels == 0 .. MaxLevel - 1
Values == Vals \cup {Nil, Empty}        \* what a client can pass to Put
Stored == Values \cup {Missing}
Tables == [Keys -> Stored]
NoEntries == [k \in Keys |-> Missing]
Files == Levels \X Nat                  \* sstFile: "<level>_<seq>.sst"

TypeOK ==
    /\ memTable \in Tables
    /\ memSize \in Int
    /\ nodes \in [Levels -> Seq(Nat)]
    /\ levelToSeq \in [Levels -> Nat]
    /\ DOMAIN disk \subseteq Files
    /\ \A f \in DOMAIN disk : disk[f] \in Tables
    /\ stats \in [flushCount : Nat, compactCount : Nat]
    /\ pc \in {"idle", "flush", "cascade", "cleanup", "closed"}
    /\ level \in Nat

-----------------------------------------------------------------------------
(* Reading.                                                                *)

ValueLen(v) == IF v \in Vals THEN ValLen[v] ELSE 0
EntryLen(k, v) == IF v = Missing THEN 0 ELSE KeyLen[k] + ValueLen(v)

\* What a file gives back for the value it was given: the length of nil is
\* zero, and the reader makes a non-nil slice of that length.
Persisted(v) == IF v = Nil THEN Empty ELSE v

\* The SSTs of level l that have an entry for k, by position.
Hits(l, k) == {i \in DOMAIN nodes[l] : disk[<<l, nodes[l][i]>>][k] # Missing}

FilesOf(l) == {<<l, nodes[l][i]>> : i \in DOMAIN nodes[l]}
LiveFiles == UNION {FilesOf(l) : l \in Levels}

\* The entry found by looking only into the SSTs H[l] of each level l: from
\* the first level down, from the newest SST of a level to the oldest.
Lookup(H, k) ==
    IF \A l \in Levels : H[l] = {}
    THEN Missing
    ELSE LET l == CHOOSE l \in Levels :
                      H[l] # {} /\ \A m \in Levels : H[m] # {} => l <= m
             i == CHOOSE i \in H[l] : \A j \in H[l] : j <= i
         IN  disk[<<l, nodes[l][i]>>][k]

NodesGet(k) == Lookup([l \in Levels |-> Hits(l, k)], k)

RawGet(k) == IF memTable[k] # Missing THEN memTable[k] ELSE NodesGet(k)

\* The result of Get: Missing when ok is false.
Get(k) == IF RawGet(k) = Nil THEN Missing ELSE RawGet(k)

-----------------------------------------------------------------------------
(* Scan, and the quick exclusion of GetRange.                              *)

KeysOf(t) == {k \in Keys : t[k] # Missing}
Rank(t, k) == Cardinality({j \in KeysOf(t) : j <= k})

\* index[0].Key is the last key of the first data block, index[len-1].Key the
\* last key of the file.
StartKey(t) ==
    CHOOSE k \in KeysOf(t) :
        Rank(t, k) = IF Cardinality(KeysOf(t)) < BlockLen
                     THEN Cardinality(KeysOf(t)) ELSE BlockLen
EndKey(t) == CHOOSE k \in KeysOf(t) : \A j \in KeysOf(t) : j <= k

Pruned_EndExclusive(t, lo, hi) == lo >= EndKey(t) \/ hi <= StartKey(t)
Pruned(t, lo, hi) == lo > EndKey(t) \/ hi <= StartKey(t)

\* What Scan(lo, hi) finds at k: Scan overwrites its map from the last level
\* up, from the oldest SST to the newest, and with the memtable at the end.
ScanGet(k, lo, hi) ==
    LET Seen(l) == {i \in Hits(l, k) : ~Pruned(disk[<<l, nodes[l][i]>>], lo, hi)}
        found == IF memTable[k] # Missing THEN memTable[k]
                 ELSE Lookup([l \in Levels |-> Seen(l)], k)
    IN  IF found = Nil THEN Missing ELSE found

\* The result of Scan(lo, hi): the keys of [lo, hi) it returns, with values.
Scan(lo, hi) ==
    [k \in {k \in Keys : lo <= k /\ k < hi /\ ScanGet(k, lo, hi) # Missing}
        |-> ScanGet(k, lo, hi)]

\* Scan returns an error, and no entry, when a read fails: it reads a block at
\* least of every SST that GetRange does not exclude.
ScanCanFail(lo, hi) == \E file \in LiveFiles : ~Pruned(disk[file], lo, hi)

-----------------------------------------------------------------------------
(* Put and Delete.                                                         *)

Init ==
    /\ memTable = NoEntries
    /\ memSize = 0
    /\ nodes = [l \in Levels |-> <<>>]
    /\ levelToSeq = [l \in Levels |-> 0]
    /\ disk = [f \in {} |-> NoEntries]
    /\ stats = [flushCount |-> 0, compactCount |-> 0]
    /\ pc = "idle"
    /\ level = 0

\* The size counter after k is set to v in the memtable.
NewSize_OldEntryKept(k, v) == memSize + EntryLen(k, v)
NewSize(k, v) == memSize - EntryLen(k, memTable[k]) + EntryLen(k, v)

\* Put(k, v) up to the OnWrite hook; Delete(k) is Put(k, Nil).  The bound
\* MaxSeq stops the clients, not the call in progress.
Write(k, v) ==
    /\ pc = "idle"
    /\ levelToSeq[0] < MaxSeq
    /\ memTable' = [memTable EXCEPT ![k] = v]
    /\ memSize' = NewSize(k, v)
    /\ pc' = IF NewSize(k, v) < SSTSize THEN "idle" ELSE "flush"
    /\ UNCHANGED <<nodes, levelToSeq, disk, stats, level>>

\* Put installs a new memtable when flushMemTable has returned.
NewMemTable == memTable' = NoEntries /\ memSize' = 0

-----------------------------------------------------------------------------
(* Flush.                                                                  *)

NextSeq_NotTaken(l) == IF levelToSeq[l] = 0 THEN 1 ELSE levelToSeq[l]
NextSeq(l) == levelToSeq[l] + 1

\* levelToSeq[l].Add(1), before anything can fail.
TakeSeq(l) == levelToSeq' = [levelToSeq EXCEPT ![l] = NextSeq(l)]

\* NewSSTWriter creates the file, or truncates the one of that name.
WriteFile(l, t) ==
    disk' = [f \in DOMAIN disk \cup {<<l, NextSeq(l)>>} |->
                IF f = <<l, NextSeq(l)>> THEN t ELSE disk[f]]

InsertNode(l) == nodes' = [nodes EXCEPT ![l] = Append(@, NextSeq(l))]

FlushedTable_NoTombstones ==
    [k \in Keys |-> IF memTable[k] = Nil THEN Missing ELSE memTable[k]]
FlushedTable == [k \in Keys |-> Persisted(memTable[k])]

\* The memtable becomes the newest SST of level 0; it stays in place until
\* the cascade is over.
FlushMemTable ==
    /\ pc = "flush"
    /\ TakeSeq(0)
    /\ WriteFile(0, FlushedTable)
    /\ InsertNode(0)
    /\ stats' = [stats EXCEPT !.flushCount = @ + 1]
    /\ pc' = "cascade" /\ level' = 0
    /\ UNCHANGED <<memTable, memSize>>

\* The file cannot be created: flushMemTable returns, Put does not notice.
FlushOpenFails ==
    /\ pc = "flush" /\ "flushOpen" \in Faults
    /\ TakeSeq(0)
    /\ NewMemTable
    /\ pc' = "idle"
    /\ UNCHANGED <<nodes, disk, stats, level>>

\* The file is written but cannot be opened for reading: no node for it.
FlushReaderFails ==
    /\ pc = "flush" /\ "flushReader" \in Faults
    /\ TakeSeq(0)
    /\ WriteFile(0, FlushedTable)
    /\ stats' = [stats EXCEPT !.flushCount = @ + 1]
    /\ pc' = "cascade" /\ level' = 0
    /\ UNCHANGED <<memTable, memSize, nodes>>

-----------------------------------------------------------------------------
(* Cascade of compactions.                                                 *)

MustCompact_OneMore(l) == l < MaxLevel - 1 /\ Len(nodes[l]) > SSTNumPerLevel
MustCompact(l) == l < MaxLevel - 1 /\ Len(nodes[l]) >= SSTNumPerLevel

NextLevel(l) == l + 1

Bits(v) == IF v \in {Nil, Empty} THEN {} ELSE v

\* The output of the merge iterator over the SSTs of level l, as it is read
\* back: the union of the bitmaps of a key, or the entry of the newest SST.
Merged_OldestWins(l) ==
    [k \in Keys |->
        IF Hits(l, k) = {} THEN Missing
        ELSE disk[<<l, nodes[l][CHOOSE i \in Hits(l, k) :
                                    \A j \in Hits(l, k) : i <= j]>>][k]]
Merged_NewestWins(l) ==
    [k \in Keys |->
        IF Hits(l, k) = {} THEN Missing
        ELSE disk[<<l, nodes[l][CHOOSE i \in Hits(l, k) :
                                    \A j \in Hits(l, k) : j <= i]>>][k]]
Merged_EmptyDropped(l) ==
    [k \in Keys |->
        IF Hits(l, k) = {} THEN Missing
        ELSE LET v == disk[<<l, nodes[l][CHOOSE i \in Hits(l, k) :
                                            \A j \in Hits(l, k) : j <= i]>>][k]
             IN  IF v = Empty THEN Missing ELSE v]
Merged(l) ==
    [k \in Keys |->
        IF Hits(l, k) = {} THEN Missing
        ELSE IF BitmapMode
        THEN UNION {Bits(disk[<<l, nodes[l][i]>>][k]) : i \in Hits(l, k)}
        ELSE disk[<<l, nodes[l][CHOOSE i \in Hits(l, k) :
                                    \A j \in Hits(l, k) : j <= i]>>][k]]

\* compactLevel(level) up to the OnCompaction hook: the SSTs of the level
\* are merged into a new SST of the next level and are still in place.
CompactLevel ==
    /\ pc = "cascade" /\ MustCompact(level)
    /\ TakeSeq(level + 1)
    /\ WriteFile(level + 1, Merged(level))
    /\ InsertNode(level + 1)
    /\ stats' = [stats EXCEPT !.compactCount = @ + 1]
    /\ pc' = "cleanup"
    /\ UNCHANGED <<memTable, memSize, level>>

\* The output cannot be created: the level is left as it is.
CompactOpenFails ==
    /\ pc = "cascade" /\ MustCompact(level) /\ "compactOpen" \in Faults
    /\ TakeSeq(level + 1)
    /\ level' = NextLevel(level)
    /\ UNCHANGED <<memTable, memSize, nodes, disk, stats, pc>>

\* A read error ends the merge: the level is left as it is, and so is a file
\* without content, since the writer flushes its buffers only in Finish.
CompactMergeFails ==
    /\ pc = "cascade" /\ MustCompact(level) /\ "compactMerge" \in Faults
    /\ TakeSeq(level + 1)
    /\ WriteFile(level + 1, NoEntries)
    /\ level' = NextLevel(level)
    /\ UNCHANGED <<memTable, memSize, nodes, stats, pc>>

\* insertNode cannot open the output: it only logs, and compactLevel goes on
\* to remove the inputs.
CompactReaderFails ==
    /\ pc = "cascade" /\ MustCompact(level) /\ "compactReader" \in Faults
    /\ TakeSeq(level + 1)
    /\ WriteFile(level + 1, Merged(level))
    /\ stats' = [stats EXCEPT !.compactCount = @ + 1]
    /\ pc' = "cleanup"
    /\ UNCHANGED <<memTable, memSize, nodes, level>>

Destroyed_LastKept(l) == {<<l, nodes[l][i]>> : i \in 1 .. Len(nodes[l]) - 1}
Destroyed(l) == FilesOf(l)

\* The files that os.Remove may leave behind: Destroy only logs it.
LeftBehind(l) == IF "remove" \in Faults THEN SUBSET Destroyed(l) ELSE {{}}

\* removeNodes: nothing is added to the level while it is compacted, so the
\* nodes to remove are all its nodes.
RemoveNodes ==
    /\ pc = "cleanup"
    /\ nodes' = [nodes EXCEPT ![level] = <<>>]
    /\ \E left \in LeftBehind(level) :
          disk' = [f \in DOMAIN disk \ (Destroyed(level) \ left) |-> disk[f]]
    /\ pc' = "cascade" /\ level' = NextLevel(level)
    /\ UNCHANGED <<memTable, memSize, levelToSeq, stats>>

\* The loop of cascadeCompact ends, flushMemTable and Put return.
CascadeDone_ShortLevelRetried ==
    /\ pc = "cascade" /\ level = MaxLevel - 1
    /\ NewMemTable
    /\ pc' = "idle" /\ level' = 0
    /\ UNCHANGED <<nodes, levelToSeq, disk, stats>>
CascadeDone ==
    /\ pc = "cascade" /\ ~MustCompact(level)
    /\ NewMemTable
    /\ pc' = "idle" /\ level' = 0
    /\ UNCHANGED <<nodes, levelToSeq, disk, stats>>

-----------------------------------------------------------------------------
\* Close: the readers are closed.  Nothing is flushed.
Close ==
    /\ pc = "idle"
    /\ pc' = "closed"
    /\ UNCHANGED <<memTable, memSize, nodes, levelToSeq, disk, stats, level>>

\* The process ends, at any stage, and NewTree opens the directory again: it
\* builds an empty tree and does not look at the files.
Restart ==
    /\ NewMemTable
    /\ nodes' = [l \in Levels |-> <<>>]
    /\ levelToSeq' = [l \in Levels |-> 0]
    /\ stats' = [flushCount |-> 0, compactCount |-> 0]
    /\ pc' = "idle" /\ level' = 0
    /\ UNCHANGED disk

\* The failures after which entries are found neither in the memtable nor in
\* an SST.
Losing == FlushOpenFails \/ FlushReaderFails \/ CompactReaderFails

\* The steps of a call after its OnWrite hook.
Continue ==
    \/ FlushMemTable \/ FlushOpenFails \/ FlushReaderFails
    \/ CompactLevel \/ CompactOpenFails \/ CompactMergeFails
    \/ CompactReaderFails \/ RemoveNodes \/ CascadeDone

Next == (\E k \in Keys, v \in Values : Write(k, v)) \/ Continue \/ Close

Spec == Init /\ [][Next]_vars

CrashSpec == Init /\ [][Next \/ Restart]_vars

\* A call that was started runs to its end, unless the process ends.
FairCrashSpec == CrashSpec /\ WF_vars(Continue)
-----------------------------------------------------------------------------
(* Refinement.                                                             *)

\* A client of KVStore does not distinguish an empty value from none.
Visible(v) == IF v \in Vals THEN v ELSE Missing

View == [k \in Keys |-> Visible(RawGet(k))]

KV == INSTANCE KVStore WITH Absent <- Missing, store <- View

\* Flushes, compactions and the removal of their inputs change nothing that
\* Get returns, at any stage of a call, but for the emptiness of a value; a
\* Put or a Delete changes its own key only (tree.go, tree_compact.go).
Implements == KV!Spec

-----------------------------------------------------------------------------
(* Safety.                                                                 *)

\* Every node has its file.
NodesOnDisk == \A l \in Levels : FilesOf(l) \subseteq DOMAIN disk

\* The nodes of a level are in the order they were written in, and no two
\* share a file; a file name is not taken again while a node uses it.
SeqsIncreasing ==
    \A l \in Levels : \A i, j \in DOMAIN nodes[l] :
        i < j => nodes[l][i] < nodes[l][j]
SeqsIssued ==
    \A l \in Levels : \A i \in DOMAIN nodes[l] : nodes[l][i] <= levelToSeq[l]

\* What holds of the files whatever fails and wherever the process dies.
BaseInv ==
    /\ TypeOK
    /\ NodesOnDisk
    /\ SeqsIncreasing
    /\ SeqsIssued

\* During the cascade the old memtable is still in place: whatever it holds,
\* the SSTs hold too, so that Put can drop it (tree.go:76).
MemCovered ==
    pc \in {"cascade", "cleanup"} =>
        \A k \in Keys : memTable[k] # Missing =>
            NodesGet(k) = Persisted(memTable[k])

\* When removeNodes starts, the newest SST of the next level says of every
\* key what the whole level to be removed says.
MergedCovered ==
    pc = "cleanup" =>
        /\ MustCompact(level)
        /\ nodes[level + 1] # <<>>
        /\ disk[<<level + 1, nodes[level + 1][Len(nodes[level + 1])]>>]
               = Merged(level)

\* Between calls no level but the last has reached the length at which it
\* is merged, and during the cascade none exceeds it.
LevelsBounded ==
    \A l \in 0 .. MaxLevel - 2 :
        /\ Len(nodes[l]) <= SSTNumPerLevel
        /\ pc = "idle" => Len(nodes[l]) < SSTNumPerLevel

\* Every SST of a level was made of SSTNumPerLevel SSTs of the level before,
\* all of them taken once: none is skipped and none is merged twice.
SSTsConserved ==
    \A l \in 0 .. MaxLevel - 2 :
        levelToSeq[l] =
            SSTNumPerLevel * levelToSeq[l + 1]
            + IF pc = "cleanup" /\ level = l THEN 0 ELSE Len(nodes[l])

\* Destroy leaves no file behind and takes none too many: the directory
\* holds exactly the files of the nodes.
DiskIsLive == DOMAIN disk = UNION {FilesOf(l) : l \in Levels}

\* No node is made of a file without entries: NewNode would panic on
\* index[0] (node.go:38).
NoEmptySST == \A l \in Levels : \A f \in FilesOf(l) : KeysOf(disk[f]) # {}

\* A scan up to the end of the keys returns what Get returns for each key:
\* level order, seq order, the memtable on top, and the quick exclusion of
\* the files that end before the scan starts.
ScanToEndMatchesGet ==
    \A lo, hi \in Keys :
        (\A k \in Keys : k < hi \/ k = hi) =>
            Scan(lo, hi + 1) =
                [k \in {k \in Keys : lo <= k /\ Get(k) # Missing} |-> Get(k)]

\* The size counter of the memtable is the size of what it holds, whatever was
\* overwritten by what (map_memtable.go, treemap_memtable.go).
MemSizeExact ==
    memSize = MapThenSumSet(LAMBDA k : EntryLen(k, memTable[k]), KeysOf(memTable))

\* What makes the refinement inductive.
IInv ==
    /\ TypeOK
    /\ NodesOnDisk
    /\ SeqsIncreasing
    /\ SeqsIssued
    /\ MemCovered
    /\ MergedCovered

-----------------------------------------------------------------------------
(* Action properties.                                                      *)

\* A file does not change while a node reads it, whatever fails and however
\* often the process restarts in the same directory: truncation by
\* NewSSTWriter only hits files no node uses.
LiveSSTsImmutable ==
    [][\A f \in LiveFiles \cap LiveFiles' : disk'[f] = disk[f]]_vars

\* A key that has an entry in an SST always has one: what was persisted is
\* found again.
SSTEntriesPersist ==
    [][\A k \in Keys : NodesGet(k) # Missing => NodesGet(k)' # Missing]_vars

\* A deleted key does not come back by itself: the steps after OnWrite find
\* no key that was not there before.
DeletedStaysDeleted ==
    [][Continue => \A k \in Keys : Get(k) = Missing => Get(k)' = Missing]_vars

-----------------------------------------------------------------------------
(* Liveness.                                                               *)

\* Every Put that fills the memtable returns, whatever fails on the way, unless
\* the process ends before.
CallEnds == pc # "idle" /\ pc # "closed" ~> pc = "idle"
=============================================================================
