--------------------------- MODULE MemDictionary ---------------------------
(***************************************************************************)
(* The in-memory dictionary (src/internal/invertedindex/dictionary/        *)
(* mem_dict.go).  LSMDictionary runs one beside its LSM tree and is        *)
(* compared with it.                                                       *)
(***************************************************************************)
EXTENDS Integers, Sequences, FiniteSets

CONSTANT Terms

VARIABLES
    termToID,   \* the terms that have an id, with it
    memNextID   \* the next id

TypeOK ==
    /\ DOMAIN termToID \subseteq Terms
    /\ \A t \in DOMAIN termToID : termToID[t] \in Nat
    /\ memNextID \in Nat

Init == termToID = [t \in {} |-> 0] /\ memNextID = 0

GetOrAdd(term) ==
    IF term \in DOMAIN termToID
    THEN UNCHANGED <<termToID, memNextID>>
    ELSE /\ termToID' = [t \in DOMAIN termToID \cup {term} |->
                            IF t = term THEN memNextID ELSE termToID[t]]
         /\ memNextID' = memNextID + 1

\* The id of the first new term of a batch.
FirstNewID_Size == Cardinality(DOMAIN termToID)
FirstNewID == memNextID

\* GetOrAddTerms, of terms that are different from each other, as those of the
\* text pipeline are: GetOrAdd of one after the other.
GetOrAddTerms(batch) ==
    LET new == {i \in DOMAIN batch : batch[i] \notin DOMAIN termToID}
        ID(i) == FirstNewID + Cardinality({j \in new : j < i})
    IN  /\ termToID' = [t \in DOMAIN termToID \cup {batch[i] : i \in new} |->
                           IF t \in DOMAIN termToID THEN termToID[t]
                           ELSE ID(CHOOSE i \in new : batch[i] = t)]
        /\ memNextID' = memNextID + Cardinality(new)

Size == Cardinality(DOMAIN termToID)

\* The ids of the terms of a set: ScanPrefix, the set being all the terms that
\* start with the prefix.
IdsOf(S) == {termToID[t] : t \in S \cap DOMAIN termToID}
=============================================================================
