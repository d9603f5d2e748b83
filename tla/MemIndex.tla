------------------------------ MODULE MemIndex ------------------------------
(***************************************************************************)
(* The in-memory inverted index (src/internal/invertedindex/index/         *)
(* mem_index.go).  It is both an implementation of InvertedIndex that the  *)
(* engine can use and the plain statement of what the interface promises:  *)
(* LSMIndex runs one beside the LSM tree and is compared with it.          *)
(***************************************************************************)
EXTENDS Sequences, FiniteSets

CONSTANTS
    Docs,       \* the document ids
    Features    \* the feature ids

VARIABLES
    postings,   \* feature id -> doc ids; the bitmap of an absent one is empty
    allDocs     \* all doc ids that were added

TypeOK ==
    /\ postings \in [Features -> SUBSET Docs]
    /\ allDocs \subseteq Docs

Init ==
    /\ postings = [f \in Features |-> {}]
    /\ allDocs = {}

Add(docID, featureIDs) ==
    /\ allDocs' = allDocs \cup {docID}
    /\ postings' = [f \in Features |->
                       IF \E i \in DOMAIN featureIDs : featureIDs[i] = f
                       THEN postings[f] \cup {docID}
                       ELSE postings[f]]

GetPostingList(featureID) == postings[featureID]

\* And stops at the first empty result: what is left cannot add to it.
And(featureIDs) ==
    IF featureIDs = <<>> THEN {}
    ELSE {d \in Docs : \A i \in DOMAIN featureIDs : d \in postings[featureIDs[i]]}

DocCount == Cardinality(allDocs)
=============================================================================
