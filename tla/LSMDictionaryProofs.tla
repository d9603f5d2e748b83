------------------------ MODULE LSMDictionaryProofs ------------------------
(***************************************************************************)
(* Proofs about LSMDictionary, for every set of terms, every sequence of   *)
(* calls and every failure of a read or of a file operation.               *)
(***************************************************************************)
EXTENDS LSMDictionary, LSMTreeProofs

\* A table holds ids only, and every id in it was given to its term.
Given(table) ==
    \A t \in Keys : table[t] # Missing =>
        table[t] \in Vals /\ table[t] \in returned[t]

\* What makes IdsUnique inductive: the ids that were given are below nextID,
\* and what the tree holds for a term was given to it.
DictInv ==
    /\ pc # "closed" => BaseInv
    /\ nextID \in Nat
    /\ terms \in Seq(Keys)
    /\ returned \in [Keys -> SUBSET (0 .. nextID - 1)]
    /\ Given(memTable)
    /\ \A f \in DOMAIN disk : Given(disk[f])
    /\ IdsUnique

LEMMA DictInvInit == ASSUME DictInit PROVE DictInv
<1>1. Init
  BY DEF DictInit
<1>2. BaseInv
  BY <1>1, BaseInit
<1>3. Given(memTable)
  BY <1>1, LSMTreeAssumption DEF Init, NoEntries, Given
<1>4. DOMAIN disk = {}
  BY <1>1 DEF Init
<1> QED
  BY <1>2, <1>3, <1>4 DEF DictInit, DictInv, IdsUnique

\* What Get returns was given to the term.
LEMMA GetGiven ==
    ASSUME DictInv, pc # "closed", NEW t \in Keys, Found(t)
    PROVE  Get(t) \in returned[t]
<1>1. BaseInv /\ Missing \notin Vals
  BY LSMTreeAssumption DEF DictInv
<1>2. Get(t) = RawGet(t) /\ RawGet(t) \in Vals
  BY <1>1 DEF Found, Get
<1>3. CASE memTable[t] # Missing
  BY <1>2, <1>3 DEF RawGet, DictInv, Given
<1>4. CASE memTable[t] = Missing
  <2>1. NodesGet(t) = RawGet(t) /\ NodesGet(t) # Missing
    BY <1>1, <1>2, <1>4 DEF RawGet
  <2>2. PICK f \in DOMAIN disk : NodesGet(t) = disk[f][t]
    BY <1>1, <2>1, NodesGetFrom
  <2> QED
    BY <1>2, <2>1, <2>2 DEF DictInv, Given
<1> QED
  BY <1>3, <1>4

\* The tables that a call in progress writes hold ids that were given.
LEMMA NewTablesGiven ==
    ASSUME DictInv, BaseInv, NEW table \in NewTables
    PROVE  Given(table)
<1> SUFFICES ASSUME NEW t \in Keys, table[t] # Missing
             PROVE  table[t] \in Vals /\ table[t] \in returned[t]
  BY DEF Given
<1>1. /\ Missing \notin Vals /\ Empty \notin Vals /\ Nil \notin Vals
      /\ Nil # Missing /\ ~BitmapMode
  BY LSMTreeAssumption, LSMDictionaryAssumption
<1>2. CASE table = FlushedTable
  BY <1>1, <1>2 DEF FlushedTable, Persisted, DictInv, Given
<1>3. CASE table = NoEntries
  BY <1>1, <1>3 DEF NoEntries
<1>4. ASSUME NEW l \in Levels, table = Merged(l)
      PROVE  table[t] \in Vals /\ table[t] \in returned[t]
  <2>1. PICK f \in DOMAIN disk : Merged(l)[t] = disk[f][t]
    BY <1>1, <1>4, MergedFrom
  <2> QED
    BY <1>4, <2>1 DEF DictInv, Given
<1> QED
  BY <1>2, <1>3, <1>4 DEF NewTables

\* The steps of Put after its hook give no id.
LEMMA ContinueKeeps ==
    ASSUME DictInv, TreeContinues
    PROVE  DictInv'
<1>1. Continue /\ UNCHANGED <<nextID, terms, returned>>
  BY DEF TreeContinues
<1>2. pc # "closed"
  BY <1>1 DEF Continue, FlushMemTable, FlushOpenFails, FlushReaderFails,
              CompactLevel, CompactOpenFails, CompactMergeFails,
              CompactReaderFails, RemoveNodes, CascadeDone
<1>3. BaseInv
  BY <1>2 DEF DictInv
<1>4. BaseInv'
  BY <1>1, <1>3, BaseNext DEF Next
<1>5. \A table : Given(table)' <=>
          \A t \in Keys : table'[t] # Missing =>
              table'[t] \in Vals /\ table'[t] \in returned[t]
  BY <1>1 DEF Given
<1>6. Given(memTable)'
  <2>1. Given(memTable) /\ Given(NoEntries)
    BY <1>3, NewTablesGiven DEF DictInv, NewTables
  <2> QED
    BY <1>1, <1>3, <2>1, ContinueTables DEF Given
<1>7. (\A f \in DOMAIN disk : Given(disk[f]))'
  <2> SUFFICES ASSUME NEW f \in DOMAIN disk', NEW t \in Keys,
                      disk'[f][t] # Missing
               PROVE  disk'[f][t] \in Vals /\ disk'[f][t] \in returned[t]
    BY <1>1 DEF Given
  <2>1. CASE f \in DOMAIN disk /\ disk'[f] = disk[f]
    BY <2>1 DEF DictInv, Given
  <2>2. CASE disk'[f] \in NewTables
    BY <1>3, <2>2, NewTablesGiven DEF Given
  <2> QED
    BY <1>1, <1>3, <2>1, <2>2, ContinueTables
<1>8. IdsUnique'
  BY <1>1 DEF DictInv, IdsUnique
<1> QED
  BY <1>1, <1>4, <1>6, <1>7, <1>8 DEF DictInv

\* A term that is not found, or not read, gets an id that no term has.
LEMMA AddedKeeps ==
    ASSUME DictInv, TermAdded
    PROVE  DictInv'
<1> DEFINE t == Head(terms)
<1>1. /\ pc = "idle" /\ BaseInv
      /\ nextID \in Nat /\ nextID \in Vals /\ nextID' = nextID + 1
      /\ Write(t, nextID)
      /\ terms # <<>> /\ terms' = Tail(terms) /\ terms \in Seq(Keys)
      /\ returned' = [returned EXCEPT ![t] = @ \cup {nextID}]
  BY DEF TermAdded, IdAfter, Write, Answer, DictInv
<1>2. t \in Keys /\ terms' \in Seq(Keys)
  BY <1>1, HeadTailProperties
<1>3. BaseInv'
  <2>1. nextID \in Values
    BY <1>1 DEF Values
  <2> QED
    BY <1>1, <1>2, <2>1, BaseNext DEF Next
<1>4. /\ memTable' = [memTable EXCEPT ![t] = nextID] /\ disk' = disk
      /\ memTable \in Tables
  BY <1>1 DEF Write, BaseInv, TypeOK
<1> HIDE DEF t
<1>5. /\ returned \in [Keys -> SUBSET (0 .. nextID - 1)]
      /\ returned'[t] = returned[t] \cup {nextID}
      /\ \A s \in Keys : s # t => returned'[s] = returned[s]
      /\ \A s \in Keys : nextID \notin returned[s]
  BY <1>1, <1>2 DEF DictInv
<1>6. returned' \in [Keys -> SUBSET (0 .. nextID' - 1)]
  <2>1. 0 .. nextID - 1 \subseteq 0 .. nextID' - 1 /\ nextID \in 0 .. nextID' - 1
    BY <1>1, SMT
  <2> QED
    BY <1>1, <1>2, <1>5, <2>1
<1>7. \A s \in Keys : returned[s] \subseteq returned'[s]
  BY <1>5
<1>8. Given(memTable)'
  <2>1. ASSUME NEW s \in Keys, memTable'[s] # Missing
        PROVE  memTable'[s] \in Vals /\ memTable'[s] \in returned'[s]
    <3>1. CASE s = t
      BY <1>1, <1>2, <1>4, <1>5, <3>1 DEF Tables
    <3>2. CASE s # t
      BY <1>2, <1>4, <1>7, <2>1, <3>2 DEF DictInv, Given, Tables
    <3> QED
      BY <3>1, <3>2
  <2> QED
    BY <2>1 DEF Given
<1>9. (\A f \in DOMAIN disk : Given(disk[f]))'
  BY <1>4, <1>7 DEF DictInv, Given
<1>10. IdsUnique'
  BY <1>2, <1>5 DEF DictInv, IdsUnique
<1> QED
  BY <1>1, <1>2, <1>3, <1>6, <1>8, <1>9, <1>10 DEF DictInv

\* A term that is found gets what was given to it before.
LEMMA FoundKeeps ==
    ASSUME DictInv, TermFound
    PROVE  DictInv'
<1> DEFINE t == Head(terms)
<1>1. /\ pc = "idle" /\ Found(t) /\ terms # <<>> /\ terms \in Seq(Keys)
      /\ UNCHANGED <<vars, nextID>> /\ terms' = Tail(terms)
      /\ returned' = [returned EXCEPT ![t] = @ \cup {Get(t)}]
  BY DEF TermFound, Answer, DictInv
<1>2. t \in Keys /\ terms' \in Seq(Keys)
  BY <1>1, HeadTailProperties
<1>3. Get(t) \in returned[t]
  BY <1>1, <1>2, GetGiven
<1>4. returned' = returned
  <2> HIDE DEF t
  <2> QED
    BY <1>1, <1>2, <1>3 DEF DictInv
<1>5. pc' # "closed" => BaseInv'
  <2>1. UNCHANGED vars /\ pc' = pc
    BY <1>1 DEF vars
  <2> QED
    BY <2>1, BaseNext DEF DictInv
<1> QED
  BY <1>1, <1>2, <1>4, <1>5 DEF DictInv, Given, IdsUnique, vars

LEMMA DictInvNext ==
    ASSUME DictInv, [DictNext]_allVars
    PROVE  DictInv'
<1>1. CASE UNCHANGED allVars
  <2>1. pc' # "closed" => BaseInv'
    <3>1. UNCHANGED vars /\ pc' = pc
      BY <1>1 DEF allVars, vars
    <3> QED
      BY <3>1, BaseNext DEF DictInv
  <2> QED
    BY <1>1, <2>1 DEF allVars, vars, dictVars, DictInv, Given, IdsUnique
<1>2. ASSUME NEW batch \in Batches, GetOrAddTerms(batch) PROVE DictInv'
  <2>1. terms' \in Seq(Keys)
    BY <1>2, LSMDictionaryAssumption DEF GetOrAddTerms
  <2>2. pc' # "closed" => BaseInv'
    <3>1. UNCHANGED vars /\ pc' = pc
      BY <1>2 DEF GetOrAddTerms, vars
    <3> QED
      BY <3>1, BaseNext DEF DictInv
  <2> QED
    BY <1>2, <2>1, <2>2
       DEF GetOrAddTerms, vars, DictInv, Given, IdsUnique
<1>3. CASE CloseDictionary
  BY <1>3 DEF CloseDictionary, dictVars, DictInv, Given, IdsUnique
<1> QED
  BY <1>1, <1>2, <1>3, FoundKeeps, AddedKeeps, ContinueKeeps DEF DictNext

\* Whatever read or file operation fails, however often, no id is ever given to
\* two terms (lsm_dict.go:69, lsm_dict.go:149).
THEOREM UniqueIds == DictSpec => []IdsUnique
<1>1. DictInv => IdsUnique
  BY DEF DictInv
<1> QED
  BY <1>1, DictInvInit, DictInvNext, PTL DEF DictSpec

-----------------------------------------------------------------------------
(* Agreement with the in-memory dictionary.                                *)

\* Between two losses the tree tells of every term the id that the in-memory
\* dictionary gave it, and no other id was given.
Agree ==
    /\ memNextID = nextID /\ nextID = Cardinality(DOMAIN termToID)
    /\ \A t \in DOMAIN termToID : /\ termToID[t] \in Vals
                                  /\ View[t] = termToID[t]
                                  /\ returned[t] = {termToID[t]}
    /\ \A t \in Keys \ DOMAIN termToID : View[t] = Missing /\ returned[t] = {}

\* What makes AgreesWithMem inductive.
AgreeInv ==
    /\ DictInv
    /\ lossy \in BOOLEAN /\ misread \in BOOLEAN
    /\ DOMAIN termToID \subseteq Keys /\ IsFiniteSet(DOMAIN termToID)
    /\ pc # "closed" /\ ~lossy => IInv
    /\ pc # "closed" /\ ~lossy /\ ~misread => Agree

\* View and Get say the same.
LEMMA ViewIsGet ==
    ASSUME NEW t \in Keys
    PROVE  /\ Found(t) <=> View[t] # Missing
           /\ View[t] \in Vals => Get(t) = View[t]
  BY LSMTreeAssumption DEF Found, Get, View, Visible

LEMMA AgreeInit == ASSUME DictInit PROVE AgreeInv
<1>1. Init /\ DictInv /\ IInv
  BY DictInvInit, IInvInit DEF DictInit
<1>2. DOMAIN termToID = {} /\ memNextID = 0 /\ nextID = 0
  BY DEF DictInit, Mem!Init
<1>3. IsFiniteSet(DOMAIN termToID) /\ Cardinality(DOMAIN termToID) = 0
  BY <1>2, FS_EmptySet
<1>4. \A t \in Keys : View[t] = Missing /\ returned[t] = {}
  BY <1>1, ViewInit DEF KV!Init, DictInit
<1> QED
  BY <1>1, <1>2, <1>3, <1>4 DEF AgreeInv, Agree, DictInit

\* The tree keeps its invariant, and what it says, when it is left alone.
LEMMA IInvQuiet ==
    ASSUME IInv, UNCHANGED vars
    PROVE  IInv' /\ View' = View /\ pc' = pc
<1>1. UNCHANGED <<memTable, nodes, disk, pc, level>>
  BY DEF vars
<1>2. TypeOK' /\ BaseInv'
  BY BaseNext DEF BaseInv, IInv
<1>3. \A k \in Keys : NodesGet(k)' = NodesGet(k)
  BY <1>1, <1>2, QuietReads
<1>4. MemCovered'
  BY <1>1, <1>3 DEF IInv, MemCovered
<1>5. \A l : Merged(l)' = Merged(l)
  BY <1>1 DEF Merged, Hits
<1>6. MergedCovered'
  BY <1>1, <1>5 DEF IInv, MergedCovered, MustCompact
<1>7. View' = View
  BY <1>1, <1>3 DEF View, RawGet, Visible
<1> QED
  BY <1>1, <1>2, <1>4, <1>6, <1>7 DEF BaseInv, IInv

\* A step that leaves the tree and the dictionaries alone.
LEMMA QuietAgrees ==
    ASSUME AgreeInv, DictInv', UNCHANGED <<vars, nextID, lossy, misread,
                                           returned, termToID, memNextID>>
    PROVE  AgreeInv'
<1>1. pc' = pc /\ (IInv => IInv' /\ View' = View)
  BY IInvQuiet DEF vars
<1> QED
  BY <1>1 DEF AgreeInv, Agree

LEMMA FoundAgrees ==
    ASSUME AgreeInv, DictInv', TermFound
    PROVE  AgreeInv'
<1> DEFINE t == Head(terms)
<1>1. /\ pc = "idle" /\ Found(t) /\ t \in Keys
      /\ UNCHANGED <<vars, nextID, lossy, misread>>
      /\ returned' = [returned EXCEPT ![t] = @ \cup {Get(t)}]
      /\ Mem!GetOrAdd(t)
  BY HeadTailProperties DEF TermFound, Answer, AgreeInv, DictInv
<1> HIDE DEF t
<1>2. returned' = returned
  BY <1>1, GetGiven DEF AgreeInv, DictInv
<1>3. CASE t \in DOMAIN termToID
  BY <1>1, <1>2, <1>3, QuietAgrees DEF Mem!GetOrAdd
<1>4. CASE t \notin DOMAIN termToID
  <2>1. ~ (~lossy /\ ~misread)
    BY <1>1, <1>4, ViewIsGet DEF AgreeInv, Agree
  <2>2. DOMAIN termToID' = DOMAIN termToID \cup {t}
    BY <1>4, <1>1 DEF Mem!GetOrAdd
  <2>3. IsFiniteSet(DOMAIN termToID')
    BY <2>2, FS_AddElement DEF AgreeInv
  <2>4. pc' = pc /\ (IInv => IInv')
    BY <1>1, IInvQuiet DEF vars
  <2> QED
    BY <1>1, <2>1, <2>2, <2>3, <2>4 DEF AgreeInv
<1> QED
  BY <1>3, <1>4

LEMMA AddedAgrees ==
    ASSUME AgreeInv, DictInv', TermAdded
    PROVE  AgreeInv'
<1> DEFINE t == Head(terms)
<1>1. /\ pc = "idle" /\ t \in Keys
      /\ nextID \in Nat /\ nextID \in Vals /\ nextID' = nextID + 1
      /\ Write(t, nextID) /\ lossy' = lossy
      /\ misread' = (misread \/ Found(t))
      /\ returned' = [returned EXCEPT ![t] = @ \cup {nextID}]
      /\ returned \in [Keys -> SUBSET (0 .. nextID - 1)]
      /\ Mem!GetOrAdd(t)
  BY HeadTailProperties
     DEF TermAdded, IdAfter, Write, Answer, AgreeInv, DictInv
<1> HIDE DEF t
<1>2. nextID \in Values /\ Write(t, nextID) => [Next]_vars /\ ~Losing
  BY <1>1 DEF Values, Next, Write, Losing, FlushOpenFails, FlushReaderFails,
              CompactReaderFails
<1>3. nextID \in Values
  BY <1>1 DEF Values
<1>4. ~lossy => IInv'
  BY <1>1, <1>2, <1>3, IInvStep, LSMDictionaryAssumption DEF AgreeInv
<1>5. DOMAIN termToID' \subseteq Keys /\ IsFiniteSet(DOMAIN termToID')
  <2>1. DOMAIN termToID' = DOMAIN termToID
        \/ DOMAIN termToID' = DOMAIN termToID \cup {t}
    BY <1>1 DEF Mem!GetOrAdd
  <2>2. IsFiniteSet(DOMAIN termToID \cup {t})
    BY FS_AddElement DEF AgreeInv
  <2> QED
    BY <1>1, <2>1, <2>2 DEF AgreeInv
<1>6. misread' \in BOOLEAN /\ (~misread' => ~misread /\ ~Found(t))
  BY <1>1 DEF AgreeInv
<1>7. ASSUME ~lossy, ~misread, ~Found(t) PROVE Agree'
  <2>1. IInv /\ Agree
    BY <1>1, <1>7 DEF AgreeInv
  <2>2. View[t] = Missing
    BY <1>1, <1>7, ViewIsGet
  <2>3. t \notin DOMAIN termToID
    BY <2>1, <2>2, LSMTreeAssumption DEF Agree
  <2>4. View' = [View EXCEPT ![t] = nextID]
    <3>1. Visible(nextID) = nextID
      BY <1>1 DEF Visible
    <3>2. TypeOK'
      BY <1>4, <1>7 DEF IInv
    <3> QED
      BY <1>1, <1>3, <2>1, <3>1, <3>2, ViewWrite
  <2>5. /\ termToID' = [s \in DOMAIN termToID \cup {t} |->
                           IF s = t THEN memNextID ELSE termToID[s]]
        /\ memNextID' = memNextID + 1
    BY <1>1, <2>3 DEF Mem!GetOrAdd
  <2>6. Cardinality(DOMAIN termToID') = Cardinality(DOMAIN termToID) + 1
    BY <2>3, <2>5, FS_AddElement DEF AgreeInv
  <2>7. memNextID' = nextID' /\ nextID' = Cardinality(DOMAIN termToID')
    BY <1>1, <2>1, <2>5, <2>6 DEF Agree
  <2>8. View \in [Keys -> Vals \cup {Missing}]
    BY DEF View, Visible
  <2>9. returned[t] = {}
    BY <1>1, <2>1, <2>3 DEF Agree
  <2>10. ASSUME NEW s \in DOMAIN termToID'
         PROVE  /\ termToID'[s] \in Vals
                /\ View'[s] = termToID'[s]
                /\ returned'[s] = {termToID'[s]}
    <3>1. CASE s = t
      BY <1>1, <2>1, <2>4, <2>5, <2>8, <2>9, <3>1 DEF Agree
    <3>2. CASE s # t
      <4>1. s \in DOMAIN termToID /\ s \in Keys
        BY <2>5, <3>2 DEF AgreeInv
      <4> QED
        BY <1>1, <2>1, <2>4, <2>5, <2>8, <3>2, <4>1 DEF Agree
    <3> QED
      BY <3>1, <3>2
  <2>11. ASSUME NEW s \in Keys \ DOMAIN termToID'
         PROVE  View'[s] = Missing /\ returned'[s] = {}
    BY <1>1, <2>1, <2>4, <2>5, <2>8 DEF Agree
  <2> QED
    BY <2>7, <2>10, <2>11 DEF Agree
<1> QED
  BY <1>1, <1>4, <1>5, <1>6, <1>7 DEF AgreeInv

LEMMA ContinueAgrees ==
    ASSUME AgreeInv, DictInv', TreeContinues
    PROVE  AgreeInv'
<1>1. /\ Continue /\ lossy' = (lossy \/ Losing)
      /\ UNCHANGED <<nextID, misread, returned, termToID, memNextID>>
  BY DEF TreeContinues
<1>2. pc # "closed" /\ pc' # "closed"
  BY <1>1 DEF Continue, FlushMemTable, FlushOpenFails, FlushReaderFails,
              CompactLevel, CompactOpenFails, CompactMergeFails,
              CompactReaderFails, RemoveNodes, CascadeDone
<1>3. lossy' \in BOOLEAN /\ (~lossy' => ~lossy /\ ~Losing)
  BY <1>1
<1>4. ASSUME ~lossy, ~Losing PROVE IInv' /\ View' = View
  <2>1. IInv /\ ~BitmapMode
    BY <1>2, <1>4, LSMDictionaryAssumption DEF AgreeInv
  <2>2. IInv'
    BY <1>1, <1>4, <2>1, IInvStep DEF Next
  <2> QED
    BY <1>1, <1>4, <2>1, <2>2, ViewStep DEF IInv
<1>5. ~lossy' /\ ~misread' => Agree'
  BY <1>1, <1>2, <1>3, <1>4 DEF AgreeInv, Agree
<1> QED
  BY <1>1, <1>3, <1>4, <1>5 DEF AgreeInv

LEMMA AgreeNext ==
    ASSUME AgreeInv, [DictNext]_allVars
    PROVE  AgreeInv'
<1>1. DictInv'
  BY DictInvNext DEF AgreeInv
<1>2. CASE UNCHANGED allVars \/ \E batch \in Batches : GetOrAddTerms(batch)
  <2>1. UNCHANGED <<vars, nextID, lossy, misread, returned, termToID, memNextID>>
    BY <1>2 DEF allVars, dictVars, GetOrAddTerms
  <2> QED
    BY <1>1, <2>1, QuietAgrees
<1>3. CASE CloseDictionary
  BY <1>1, <1>3 DEF CloseDictionary, dictVars, AgreeInv
<1> QED
  BY <1>1, <1>2, <1>3, FoundAgrees, AddedAgrees, ContinueAgrees DEF DictNext

\* As long as no failed file operation loses entries and no read fails, the
\* dictionary on the tree is the one in memory: the same term has the same id,
\* once and for all, whatever is flushed, merged and removed in between, also
\* when a compaction fails (lsm_dict.go:52, tree.go:89).
THEOREM Agreement == DictSpec => []AgreesWithMem
<1>1. ASSUME AgreeInv PROVE AgreesWithMem
  <2> SUFFICES ASSUME pc # "closed", ~lossy, ~misread, Agree
               PROVE  /\ \A t \in Keys :
                            IF t \in DOMAIN termToID
                            THEN Get(t) = termToID[t]
                                 /\ returned[t] = {termToID[t]}
                            ELSE ~Found(t) /\ returned[t] = {}
                      /\ Size = Mem!Size
    BY <1>1 DEF AgreesWithMem, AgreeInv
  <2>1. Size = Mem!Size
    BY DEF Agree, Size, Mem!Size, Cardinality, Mem!Cardinality, IsFiniteSet, Mem!IsFiniteSet
  <2>2. \A t \in DOMAIN termToID : t \in Keys
    BY <1>1 DEF AgreeInv
  <2> QED
    BY <2>1, <2>2, ViewIsGet DEF Agree
<1> QED
  BY <1>1, AgreeInit, AgreeNext, PTL DEF DictSpec

-----------------------------------------------------------------------------
(* Types.                                                                  *)

\* Unless it closes the tree, a step of the dictionary is one of the tree.
LEMMA TreeStep ==
    ASSUME DictInv, [DictNext]_allVars, pc' # "closed"
    PROVE  pc # "closed" /\ [Next]_vars
<1>1. CASE UNCHANGED allVars \/ TermFound \/ \E batch \in Batches : GetOrAddTerms(batch)
  BY <1>1 DEF allVars, vars, TermFound, GetOrAddTerms
<1>2. CASE TermAdded
  <2>1. terms # <<>> /\ nextID \in Values /\ Write(Head(terms), nextID)
    BY <1>2 DEF TermAdded, Values
  <2>2. Head(terms) \in Keys
    BY <2>1, HeadTailProperties DEF DictInv
  <2> QED
    BY <2>1, <2>2 DEF Next, Write
<1>3. CASE TreeContinues
  BY <1>3 DEF TreeContinues, Next, Continue, FlushMemTable, FlushOpenFails,
              FlushReaderFails, CompactLevel, CompactOpenFails, CompactMergeFails,
              CompactReaderFails, RemoveNodes, CascadeDone
<1> QED
  BY <1>1, <1>2, <1>3 DEF DictNext, CloseDictionary

\* The types are right at every stage of every call and after Close.
THEOREM DictTypes == DictSpec => []DictTypeOK
<1>1. ASSUME DictInit PROVE DictTypeOK
  <2>1. TypeOK
    BY <1>1, BaseInit DEF DictInit, BaseInv
  <2>2. Mem!TypeOK
    BY <1>1 DEF DictInit, Mem!Init, Mem!TypeOK
  <2>3. returned \in [Keys -> SUBSET Nat]
    BY <1>1 DEF DictInit
  <2>4. nextID = 0 /\ terms = <<>> /\ ~lossy /\ ~misread
    BY <1>1 DEF DictInit
  <2>5. <<>> \in Seq(Keys)
    BY EmptySeq
  <2>6. lossy \in BOOLEAN /\ misread \in BOOLEAN
    BY <1>1, Zenon DEF DictInit
  <2>7. {lossy, misread} \subseteq BOOLEAN
    BY <2>6
  <2> QED
    BY <2>1, <2>2, <2>3, <2>4, <2>5, <2>7 DEF DictTypeOK
<1>2. ASSUME DictInv, DictTypeOK, DictInv', [DictNext]_allVars PROVE DictTypeOK'
  <2>1. TypeOK'
    <3>1. CASE pc' # "closed"
      BY <1>2, <3>1 DEF DictInv, BaseInv
    <3>2. CASE pc' = "closed" /\ UNCHANGED vars
      BY <1>2, <3>2 DEF vars, DictTypeOK, TypeOK
    <3>3. CASE CloseDictionary
      BY <1>2, <3>3 DEF CloseDictionary, DictTypeOK, TypeOK
    <3>4. pc' # "closed" \/ UNCHANGED vars \/ CloseDictionary
      BY <1>2 DEF DictNext, TermAdded, Write, TermFound, GetOrAddTerms, TreeContinues,
              allVars, vars, Continue, FlushMemTable, FlushOpenFails,
              FlushReaderFails, CompactLevel, CompactOpenFails, CompactMergeFails,
              CompactReaderFails, RemoveNodes, CascadeDone
    <3> QED
      BY <3>1, <3>2, <3>3, <3>4
  <2>2. ASSUME NEW t \in Keys, Mem!GetOrAdd(t) PROVE Mem!TypeOK'
    BY <1>2, <2>2 DEF Mem!GetOrAdd, Mem!TypeOK, DictTypeOK
  <2>3. ASSUME terms # <<>> PROVE Head(terms) \in Keys
    BY <1>2, <2>3, HeadTailProperties DEF DictInv
  <2>4. Mem!TypeOK'
    <3>1. CASE TermFound \/ TermAdded
      BY <2>2, <2>3, <3>1 DEF TermFound, TermAdded, Answer
    <3>2. CASE UNCHANGED <<termToID, memNextID>>
      BY <1>2, <3>2 DEF DictTypeOK, Mem!TypeOK
    <3> QED
      BY <1>2, <3>1, <3>2 DEF DictNext, GetOrAddTerms, TreeContinues, CloseDictionary,
                              allVars, dictVars
  <2>5. lossy' \in BOOLEAN /\ misread' \in BOOLEAN
    BY <1>2 DEF DictTypeOK, DictNext, TermFound, TermAdded, GetOrAddTerms,
                TreeContinues, CloseDictionary, allVars, dictVars
  <2>6. nextID' \in Nat /\ terms' \in Seq(Keys) /\ returned' \in [Keys -> SUBSET Nat]
    BY <1>2 DEF DictInv
  <2> QED
    BY <2>1, <2>4, <2>5, <2>6 DEF DictTypeOK
<1> QED
  BY <1>1, <1>2, DictInvInit, DictInvNext, PTL DEF DictSpec

-----------------------------------------------------------------------------
(* Prefix scans.                                                           *)

\* What the proof of PrefixExact needs of the tree and of the in-memory
\* dictionary.
PrefixInv ==
    /\ AgreeInv
    /\ pc # "closed" => ScanInv

LEMMA PrefixInvInit == ASSUME DictInit PROVE PrefixInv
  BY AgreeInit, ScanInvInit DEF DictInit, PrefixInv

LEMMA PrefixInvNext == ASSUME PrefixInv, [DictNext]_allVars PROVE PrefixInv'
<1>1. AgreeInv'
  BY AgreeNext DEF PrefixInv
<1>2. ASSUME pc' # "closed" PROVE ScanInv'
  <2>1. pc # "closed" /\ [Next]_vars
    BY <1>2, TreeStep DEF PrefixInv, AgreeInv
  <2> QED
    BY <2>1, ScanInvNext DEF PrefixInv
<1> QED
  BY <1>1, <1>2 DEF PrefixInv

\* As long as no entry was lost or misread, the scan of a prefix that is not
\* empty gives, between calls, the ids of all terms with the prefix and no other,
\* but for exactly those terms all of whose SSTs GetRange excludes; a scan that
\* fails and the empty prefix give no id (lsm_dict.go:113, node.go:92,
\* tree.go:110).
THEOREM PrefixesExact == DictSpec => []PrefixExact
<1>1. ASSUME PrefixInv PROVE PrefixExact
  <2> SUFFICES ASSUME pc = "idle", ~lossy, ~misread,
                      NEW p \in Prefixes \ {EmptyPrefix}
               PROVE  /\ ScanPrefix(p, TRUE) = {}
                      /\ ScanPrefix(p, FALSE) =
                             Mem!IdsOf({t \in WithPrefix(p) : ~Excluded(t, p)})
    BY DEF PrefixExact, Failures, ScanPrefix
  <2> DEFINE lo == p[1]
             hi == p[2]
  <2>1. lo \in Int /\ hi \in Int /\ ScanInv /\ BaseInv /\ Agree /\ DictInv
    BY <1>1, LSMDictionaryAssumption
       DEF PrefixInv, AgreeInv, ScanInv, EntriesInv
  <2>2. /\ ScanPrefix(p, TRUE) = {}
        /\ ScanPrefix(p, FALSE) =
              {ScanGet(t, lo, hi) : t \in {t \in Keys : /\ lo <= t /\ t < hi
                                                    /\ ScanGet(t, lo, hi) # Missing}}
                  \cap Vals
    BY DEF ScanPrefix, Scan
  <2> HIDE DEF lo, hi
  <2>3. ASSUME NEW t \in Keys, memTable[t] # Missing
        PROVE  /\ t \in DOMAIN termToID /\ memTable[t] = termToID[t]
               /\ memTable[t] \in Vals
    BY <2>1, <2>3 DEF DictInv, Given, Agree
  <2>4. ASSUME NEW t \in Keys, NEW f \in LiveFiles, disk[f][t] # Missing
        PROVE  /\ t \in DOMAIN termToID /\ disk[f][t] = termToID[t]
               /\ disk[f][t] \in Vals
    <3>1. f \in DOMAIN disk
      BY <2>1 DEF LiveFiles, BaseInv, NodesOnDisk
    <3> QED
      BY <2>1, <2>4, <3>1 DEF DictInv, Given, Agree
  <2>5. ASSUME NEW t \in DOMAIN termToID
        PROVE  /\ t \in Keys
               /\ memTable[t] # Missing
                     \/ \E f \in LiveFiles : disk[f][t] # Missing
    <3>1. t \in Keys /\ View[t] = termToID[t] /\ termToID[t] \in Vals
      BY <1>1, <2>1 DEF PrefixInv, AgreeInv, Agree
    <3>2. RawGet(t) # Missing
      BY <3>1, LSMTreeAssumption DEF View, Visible
    <3>3. CASE memTable[t] = Missing
      <4>1. NodesGet(t) # Missing
        BY <3>2, <3>3 DEF RawGet
      <4>2. \E l \in Levels : Hits(l, t) # {}
        BY <4>1 DEF NodesGet, Lookup
      <4>3. PICK l \in Levels : Hits(l, t) # {}
        BY <4>2
      <4>4. PICK i \in DOMAIN nodes[l] : disk[<<l, nodes[l][i]>>][t] # Missing
        BY <4>3 DEF Hits
      <4>5. <<l, nodes[l][i]>> \in LiveFiles
        BY DEF LiveFiles, FilesOf
      <4> QED
        BY <3>1, <4>4, <4>5
    <3> QED
      BY <3>1, <3>3
  <2>6. ASSUME NEW t \in Keys, lo <= t, t < hi
        PROVE  IF t \in DOMAIN termToID /\ ~Excluded(t, p)
               THEN ScanGet(t, lo, hi) = termToID[t] /\ termToID[t] \in Vals
               ELSE ScanGet(t, lo, hi) = Missing
    <3>1. Missing \notin Vals /\ Nil \notin Vals /\ Missing # Nil
      BY LSMTreeAssumption
    <3>2. CASE memTable[t] # Missing
      <4>1. ScanGet(t, lo, hi) = memTable[t]
        BY <2>3, <3>1, <3>2 DEF ScanGet
      <4> QED
        BY <2>3, <3>2, <4>1 DEF Excluded
    <3>3. CASE memTable[t] = Missing
      <4>1. \A f \in LiveFiles : disk[f][t] # Missing =>
               /\ StartKey(disk[f]) \in Int
               /\ Pruned(disk[f], lo, hi) <=> StartKey(disk[f]) >= hi
        BY <2>1, <2>6, ExcludedIs
      <4>2. Excluded(t, p) <=>
               /\ \E f \in LiveFiles : disk[f][t] # Missing
               /\ \A f \in LiveFiles : disk[f][t] # Missing =>
                     Pruned(disk[f], lo, hi)
        BY <3>3, <4>1 DEF Excluded, hi
      <4>3. CASE /\ ScanGet(t, lo, hi) = Missing
                 /\ \A g \in LiveFiles :
                       disk[g][t] = Missing \/ Pruned(disk[g], lo, hi)
        BY <2>5, <3>3, <4>2, <4>3
      <4>4. ASSUME NEW f \in LiveFiles, disk[f][t] # Missing,
                   ~Pruned(disk[f], lo, hi),
                   ScanGet(t, lo, hi) = IF disk[f][t] = Nil THEN Missing ELSE disk[f][t]
            PROVE  /\ t \in DOMAIN termToID /\ ~Excluded(t, p)
                   /\ ScanGet(t, lo, hi) = termToID[t] /\ termToID[t] \in Vals
        BY <2>4, <3>1, <4>2, <4>4
      <4> QED
        BY <2>1, <3>3, <4>3, <4>4, ScanSource
    <3> QED
      BY <3>2, <3>3
  <2>7. WithPrefix(p) = {t \in Keys : lo <= t /\ t < hi}
    BY DEF WithPrefix, lo, hi
  <2>8. ScanPrefix(p, FALSE) \subseteq Mem!IdsOf({t \in WithPrefix(p) : ~Excluded(t, p)})
    BY <2>2, <2>6, <2>7 DEF Mem!IdsOf
  <2>9. Mem!IdsOf({t \in WithPrefix(p) : ~Excluded(t, p)}) \subseteq ScanPrefix(p, FALSE)
    <3>1. Missing \notin Vals
      BY LSMTreeAssumption
    <3> QED
      BY <2>2, <2>6, <2>7, <3>1 DEF Mem!IdsOf
  <2> QED
    BY <2>2, <2>8, <2>9
<1> QED
  BY <1>1, PrefixInvInit, PrefixInvNext, PTL DEF DictSpec
=============================================================================
