------------------------------ MODULE LSMIndex ------------------------------
(***************************************************************************)
(* The inverted index on an LSM tree (src/internal/invertedindex/index/    *)
(* lsm_index.go).  Add reads the bitmap of every (feature, block) key of   *)
(* the document, adds the document and puts it back, one key at a time,    *)
(* into a tree whose compactions unite bitmaps; a posting list is a scan.  *)
(*                                                                         *)
(* This module composes LSMTree (in bitmap mode, its keys the composite    *)
(* keys, its values the sets of doc ids) with the index on top of it, and  *)
(* runs a MemIndex beside the two as the statement of what was added.      *)
(***************************************************************************)
EXTENDS LSMTree

CONSTANTS
    Docs,           \* the document ids, uint32
    Features,       \* the feature ids, uint32
    blockSize,      \* documents per block id
    NumBlocks,      \* block ids: 2^32 in the code
    NumFeatures,    \* feature ids: 2^32 in the code
    FeatureLists,   \* the lists of features a document is added with
    NoDoc,          \* no Add is in progress
    ReadErrors      \* TRUE: reads of SSTs can fail

\* encodeCompositeKey: big-endian, so the order is by feature, then by block.
CompositeKey(featureID, blockID) == featureID * NumBlocks + blockID

ASSUME LSMIndexAssumption ==
    /\ blockSize \in Nat \ {0}
    /\ NumBlocks \in Nat \ {0} /\ NumFeatures \in Nat \ {0}
    /\ Docs \subseteq 0 .. blockSize * NumBlocks - 1
    /\ Features \subseteq 0 .. NumFeatures - 1
    /\ FeatureLists \subseteq Seq(Features)
    /\ NoDoc \notin Docs
    /\ BitmapMode /\ ReadErrors \in BOOLEAN
    /\ Vals = SUBSET Docs
    /\ \A f \in Features, d \in Docs : CompositeKey(f, d \div blockSize) \in Keys

VARIABLES
    doc,        \* the document that is being added
    todo,       \* its features that are still to be written
    docCount,   \* LSMIndex.docCount
    lossy,      \* history: a file operation failed after which entries are lost
    misread,    \* history: Add began with an empty bitmap after a read error
    postings,   \* the MemIndex to which the same documents are added
    allDocs

indexVars == <<doc, todo, docCount, lossy, misread, postings, allDocs>>
allVars == <<vars, indexVars>>

Mem == INSTANCE MemIndex

IndexTypeOK ==
    /\ TypeOK
    /\ Mem!TypeOK
    /\ doc \in Docs \cup {NoDoc}
    /\ todo \in Seq(Features)
    /\ docCount \in Nat /\ {lossy, misread} \subseteq BOOLEAN

IndexInit ==
    /\ Init
    /\ Mem!Init
    /\ doc = NoDoc /\ todo = <<>> /\ docCount = 0
    /\ lossy = FALSE /\ misread = FALSE

-----------------------------------------------------------------------------
\* Add is called.  The MemIndex takes the whole document at once: it has no
\* hook and no error.
AddCalled(d, fs) ==
    /\ doc = NoDoc /\ pc = "idle"
    /\ doc' = d /\ todo' = fs
    /\ Mem!Add(d, fs)
    /\ UNCHANGED <<vars, docCount, lossy, misread>>

NewestBitmap(k) == IF Get(k) = Missing THEN {} ELSE Bits(Get(k))

\* What Get can make of it: Add ignores the error of Get, which finds a key of
\* the memtable without reading.
Reads(k) ==
    {NewestBitmap(k)}
    \cup (IF ReadErrors /\ memTable[k] = Missing THEN {{}} ELSE {})

\* The bitmap read back, with the document: a key without an entry starts with
\* an empty bitmap, and so does one whose value is not a bitmap.
NewBitmap_OldDropped(read) == {doc}
NewBitmap_NextDoc(read) == read \cup {doc + 1}
NewBitmap(read) == read \cup {doc}

\* The body of the loop of Add up to the OnWrite hook of Put; what Put does
\* after it are the steps of Continue.
AddFeature ==
    /\ doc # NoDoc /\ todo # <<>>
    /\ LET k == CompositeKey(Head(todo), doc \div blockSize)
       IN  \E read \in Reads(k) :
              /\ Write(k, NewBitmap(read))
              /\ misread' = (misread \/ read # NewestBitmap(k))
    /\ todo' = Tail(todo)
    /\ UNCHANGED <<doc, docCount, lossy, postings, allDocs>>

\* Add returns.
AddReturns ==
    /\ doc # NoDoc /\ todo = <<>> /\ pc = "idle"
    /\ docCount' = IF doc >= docCount THEN doc + 1 ELSE docCount
    /\ doc' = NoDoc
    /\ UNCHANGED <<vars, todo, lossy, misread, postings, allDocs>>

TreeContinues ==
    /\ Continue
    /\ lossy' = (lossy \/ Losing)
    /\ UNCHANGED <<doc, todo, docCount, misread, postings, allDocs>>

\* Close closes the tree and removes its directory.
CloseIndex ==
    /\ doc = NoDoc /\ pc = "idle"
    /\ pc' = "closed"
    /\ disk' = [f \in {} |-> NoEntries]
    /\ UNCHANGED <<memTable, memSize, nodes, levelToSeq, stats, level>>
    /\ UNCHANGED indexVars

IndexNext ==
    \/ \E d \in Docs, fs \in FeatureLists : AddCalled(d, fs)
    \/ AddFeature \/ AddReturns \/ TreeContinues \/ CloseIndex

IndexSpec == IndexInit /\ [][IndexNext]_allVars

-----------------------------------------------------------------------------
(* Queries.                                                                *)

\* Where the scan of a feature ends; featureID+1 is a uint32.
EndKeyOf(f) == CompositeKey((f + 1) % NumFeatures, 0)

\* Whether the scan fails: its error is only logged.
Failures(f) ==
    {FALSE} \cup (IF ReadErrors /\ ScanCanFail(CompositeKey(f, 0), EndKeyOf(f))
                  THEN {TRUE} ELSE {})

\* The composite keys of a feature are scanned and their bitmaps united; a
\* value that is not a bitmap is skipped.  A scan that fails gives no document.
GetPostingList_EndIncluded(f, failed) ==
    LET kvs == Scan(CompositeKey(f, 0), EndKeyOf(f) + 1)
    IN  IF failed THEN {} ELSE UNION {Bits(kvs[k]) : k \in DOMAIN kvs}
GetPostingList_LastBlockMissed(f, failed) ==
    LET kvs == Scan(CompositeKey(f, 0), EndKeyOf(f) - 1)
    IN  IF failed THEN {} ELSE UNION {Bits(kvs[k]) : k \in DOMAIN kvs}
GetPostingList(f, failed) ==
    LET kvs == Scan(CompositeKey(f, 0), EndKeyOf(f))
    IN  IF failed THEN {} ELSE UNION {Bits(kvs[k]) : k \in DOMAIN kvs}

\* And stops at the first empty result: what is left cannot add to it.  failing
\* says of which positions the scan fails.
And(featureIDs, failing) ==
    LET lists == {GetPostingList(featureIDs[i], i \in failing) :
                      i \in DOMAIN featureIDs}
    IN  IF featureIDs = <<>> THEN {} ELSE {d \in Docs : \A list \in lists : d \in list}

DocCount == docCount

-----------------------------------------------------------------------------
(* Properties.                                                             *)

\* The features that an Add in progress has still to write.
Pending(f) == IF \E i \in DOMAIN todo : todo[i] = f THEN {doc} ELSE {}

KeysOfFeature(f) == {k \in Keys : k \div NumBlocks = f}

\* The bitmaps of the keys of a feature, read one by one, hold what was added
\* to it and nothing else, at every stage of every flush and compaction, failed
\* ones included as long as they lose no entry and no read failed: the read-
\* modify-write of Add never starts from a stale bitmap, and the union made by
\* compaction never brings back or loses a document.
BitmapsMatchMem ==
    pc # "closed" /\ ~lossy /\ ~misread =>
        \A f \in Features :
            (UNION {NewestBitmap(k) : k \in KeysOfFeature(f)}) \cup Pending(f)
                = postings[f]

\* Of the entries of a key, the newer one holds every document of the older
\* one.  Get returns the newest entry and compaction the union of them: the
\* two agree for this reason only, and it has to hold whatever flush or
\* compaction fails, or documents would depend on whether a compaction happened.
\* While the inputs of a compaction are removed, its output is out of order.
Entries(k) ==
    {<<-1, 0, memTable[k]>>} \cup
    UNION {{<<l, -i, disk[<<l, nodes[l][i]>>][k]>> : i \in Hits(l, k)} : l \in Levels}
Newer(x, y) == x[1] < y[1] \/ (x[1] = y[1] /\ x[2] < y[2])
BitmapsGrow ==
    pc \notin {"cleanup", "closed"} /\ ~misread =>
        \A k \in Keys : \A x, y \in Entries(k) :
            Newer(x, y) /\ x[3] # Missing /\ y[3] # Missing =>
                Bits(y[3]) \subseteq Bits(x[3])

\* After a read error the documents of a feature are still in some entry, at
\* every stage of every compaction, so that the union of a later compaction
\* brings them back: only a lost entry loses them.
NothingLost ==
    pc # "closed" /\ ~lossy =>
        \A f \in Features :
            postings[f] \subseteq Pending(f) \cup
                {d \in Docs : \E k \in KeysOfFeature(f) : \E e \in Entries(k) :
                    e[3] # Missing /\ d \in Bits(e[3])}

\* No query returns a document that was not added with the feature, or with
\* each of the features, whatever file operation and whatever scan fails.
NoFalsePosting ==
    pc # "closed" =>
        /\ \A f \in Features : \A failed \in Failures(f) :
              GetPostingList(f, failed) \subseteq Mem!GetPostingList(f)
        /\ \A fs \in FeatureLists :
              \A failing \in SUBSET {i \in DOMAIN fs : TRUE \in Failures(fs[i])} :
                 And(fs, failing) \subseteq Mem!And(fs)

\* GetRange excludes every SST that has the document from the scan of the
\* feature, as each of them starts (in the sense of StartKey) at or after its end.
HasDoc(table, f, d) ==
    \E k \in KeysOfFeature(f) : table[k] # Missing /\ d \in Bits(table[k])
Excluded(f, d) ==
    LET holding == {file \in LiveFiles : HasDoc(disk[file], f, d)}
    IN  /\ ~HasDoc(memTable, f, d) /\ holding # {}
        /\ \A file \in holding : StartKey(disk[file]) >= EndKeyOf(f)

\* Between calls, and if no entry was lost or misread, a posting list holds what
\* was added to the feature but for exactly the documents that GetRange excludes,
\* and nothing if its scan fails; and the number of documents is right when their
\* ids are dense, as those of the engine are.  The scan of the last feature id
\* ends at key 0: it finds nothing.
QueriesComplete ==
    doc = NoDoc /\ pc = "idle" /\ ~lossy /\ ~misread =>
        /\ \A f \in Features : f + 1 < NumFeatures =>
              \A failed \in Failures(f) :
                 GetPostingList(f, failed) =
                     IF failed THEN {}
                     ELSE {d \in Mem!GetPostingList(f) : ~Excluded(f, d)}
        /\ allDocs = 0 .. Mem!DocCount - 1 => DocCount = Mem!DocCount

Kept ==
    pc' # "closed" =>
        \A k \in Keys : NewestBitmap(k) \subseteq NewestBitmap(k)'

\* A document that was found under a feature is found under it ever after, key
\* by key (Get), until an entry is lost or a read fails: no flush and no
\* compaction loses one.
PostingsKept == [][lossy' \/ misread' \/ Kept]_allVars

\* The same of compactions, whatever fails: "data is not lost: bitmaps are
\* united, not overwritten" (Inverted index design.md:196).
CompactionKeepsPostings == [][(pc \in {"cascade", "cleanup"}) => Kept]_allVars
=============================================================================
