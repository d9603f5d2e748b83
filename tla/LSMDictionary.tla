--------------------------- MODULE LSMDictionary ---------------------------
(***************************************************************************)
(* The dictionary on an LSM tree (src/internal/invertedindex/dictionary/   *)
(* lsm_dict.go): terms are keys and ids are values.  GetOrAddTerms looks   *)
(* its terms up one by one and puts those it does not find, each with the  *)
(* next id; GetOrAdd is GetOrAddTerms of one term.                         *)
(*                                                                         *)
(* This module composes LSMTree (newest entry wins) with the dictionary on *)
(* top of it, and runs a MemDictionary beside the two.                     *)
(***************************************************************************)
EXTENDS LSMTree

CONSTANTS
    ReadErrors,     \* TRUE: reads of SSTs can fail
    Batches,        \* the lists of terms a document is indexed with
    Prefixes,       \* pairs <<prefix, end>>: the terms that start with the
                    \* prefix are those from prefix to before prefix+"\xff",
                    \* as no term, being UTF-8, has the byte \xff
    EmptyPrefix     \* the pair of the prefix "", with which all terms start

ASSUME LSMDictionaryAssumption ==
    /\ Batches \subseteq Seq(Keys)
    /\ Prefixes \subseteq Int \X Int /\ EmptyPrefix \in Prefixes
    /\ \A t \in Keys : EmptyPrefix[1] <= t /\ t < EmptyPrefix[2]
    /\ Vals \subseteq Nat           \* ids; Vals is finite, which bounds nextID
    /\ \A v \in Vals : ValLen[v] = 4
    /\ ~BitmapMode /\ ReadErrors \in BOOLEAN

VARIABLES
    nextID,         \* LSMDictionary.nextID
    lossy,          \* history: a file operation failed and entries were lost
    misread,        \* history: a term was not found because a read failed
    terms,          \* the terms of the call in progress, still to be mapped
    returned,       \* history: the ids given for each term so far
    termToID,       \* the MemDictionary that gets the same terms
    memNextID

dictVars == <<nextID, lossy, misread, terms, returned, termToID, memNextID>>
allVars == <<vars, dictVars>>

Mem == INSTANCE MemDictionary WITH Terms <- Keys

DictTypeOK ==
    /\ TypeOK
    /\ Mem!TypeOK
    /\ nextID \in Nat /\ {lossy, misread} \subseteq BOOLEAN
    /\ terms \in Seq(Keys)
    /\ returned \in [Keys -> SUBSET Nat]

DictInit ==
    /\ Init
    /\ Mem!Init
    /\ nextID = 0 /\ lossy = FALSE /\ misread = FALSE /\ terms = <<>>
    /\ returned = [t \in Keys |-> {}]

-----------------------------------------------------------------------------
\* LSMDictionary.get: found, and a value of four bytes at least.
Found_NotFlushed(term) == memTable[term] \in Vals
Found(term) == Get(term) \in Vals

\* The call starts.
GetOrAddTerms(batch) ==
    /\ terms = <<>> /\ pc = "idle"
    /\ terms' = batch
    /\ UNCHANGED <<vars, nextID, lossy, misread, returned, termToID, memNextID>>

Answer(term, id) ==
    /\ returned' = [returned EXCEPT ![term] = @ \cup {id}]
    /\ terms' = Tail(terms)
    /\ Mem!GetOrAdd(term)

TermFound ==
    /\ terms # <<>> /\ pc = "idle"
    /\ Found(Head(terms))
    /\ Answer(Head(terms), Get(Head(terms)))
    /\ UNCHANGED <<vars, nextID, lossy, misread>>

IdAfter_Down(id) == id - 1
IdAfter_Size(id) == Cardinality({t \in Keys : Found(t)}) + 1
IdAfter(id) == id + 1

\* get drops the error of Get, which finds a term of the memtable without
\* reading.
Unread(term) == ReadErrors /\ memTable[term] = Missing

\* A term that is not found gets the next id; what its Put does after the
\* OnWrite hook are the steps of Continue, and its error is dropped.
TermAdded ==
    /\ terms # <<>> /\ (Found(Head(terms)) => Unread(Head(terms)))
    /\ misread' = (misread \/ Found(Head(terms)))
    /\ nextID \in Vals
    /\ nextID' = IdAfter(nextID)
    /\ Write(Head(terms), nextID)
    /\ Answer(Head(terms), nextID)
    /\ UNCHANGED lossy

TreeContinues ==
    /\ Continue
    /\ lossy' = (lossy \/ Losing)
    /\ UNCHANGED <<nextID, misread, terms, returned, termToID, memNextID>>

\* Close closes the tree and removes its directory.
CloseDictionary ==
    /\ terms = <<>> /\ pc = "idle"
    /\ pc' = "closed"
    /\ disk' = [f \in {} |-> NoEntries]
    /\ UNCHANGED <<memTable, memSize, nodes, levelToSeq, stats, level>>
    /\ UNCHANGED dictVars

DictNext ==
    \/ \E batch \in Batches : GetOrAddTerms(batch)
    \/ TermFound \/ TermAdded \/ TreeContinues \/ CloseDictionary

DictSpec == DictInit /\ [][DictNext]_allVars

-----------------------------------------------------------------------------
(* Queries.                                                                *)

Size == nextID

\* Whether the scan fails: its error is returned, without an id.
Failures(p) ==
    {FALSE} \cup (IF ReadErrors /\ ScanCanFail(p[1], p[2]) THEN {TRUE} ELSE {})

\* The ids in a scan from the prefix to prefix+"\xff"; for the empty prefix
\* there is no scan, and no id.
ScanPrefix_EndIncluded(p, failed) ==
    LET kvs == Scan(p[1], p[2] + 1)
    IN  IF p = EmptyPrefix \/ failed THEN {}
        ELSE {kvs[k] : k \in DOMAIN kvs} \cap Vals
ScanPrefix(p, failed) ==
    LET kvs == Scan(p[1], p[2])
    IN  IF p = EmptyPrefix \/ failed THEN {}
        ELSE {kvs[k] : k \in DOMAIN kvs} \cap Vals

WithPrefix(p) == {t \in Keys : p[1] <= t /\ t < p[2]}

-----------------------------------------------------------------------------
(* Properties.                                                             *)

\* The dictionary on the tree and the one in memory give every term the same
\* id, at every stage of every flush and compaction, failed ones included as
\* long as they lose no entry and no read fails: a term is never given a second
\* id because a stale table denies it, and the ids are dense.
AgreesWithMem ==
    pc # "closed" /\ ~lossy /\ ~misread =>
        /\ \A t \in Keys :
              IF t \in DOMAIN termToID
              THEN Get(t) = termToID[t] /\ returned[t] = {termToID[t]}
              ELSE ~Found(t) /\ returned[t] = {}
        /\ Size = Mem!Size

\* Whatever read or file operation fails, no id is given to two terms: a term
\* that was lost gets a new id and its old one is not used again, so the
\* postings of two terms are never mixed.
IdsUnique ==
    \A s, t \in Keys : s # t => returned[s] \cap returned[t] = {}

\* GetRange excludes every SST that has the term from a scan of the prefix, as
\* each of them starts (in the sense of StartKey) at or after the end of it.
Excluded(t, p) ==
    LET holding == {file \in LiveFiles : disk[file][t] # Missing}
    IN  /\ memTable[t] = Missing /\ holding # {}
        /\ \A file \in holding : StartKey(disk[file]) >= p[2]

\* Between calls, and if no entry was lost or misread, the scan of a prefix gives
\* the ids of all terms with the prefix and no other, but for exactly those terms
\* that GetRange excludes.  A scan that fails gives nothing, and so does the empty
\* prefix, of which dictionary.go:14 says otherwise ("featureIDs for all terms
\* that start with the given prefix").
PrefixExact ==
    pc = "idle" /\ ~lossy /\ ~misread =>
        \A p \in Prefixes : \A failed \in Failures(p) :
            ScanPrefix(p, failed) =
                IF failed \/ p = EmptyPrefix THEN {}
                ELSE Mem!IdsOf({t \in WithPrefix(p) : ~Excluded(t, p)})
=============================================================================
