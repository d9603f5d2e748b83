----------------------------- MODULE KgramIndex -----------------------------
(***************************************************************************)
(* The two k-gram indexes (src/internal/invertedindex/kgram/mem_impl.go    *)
(* and lsm_impl.go), which get the same terms side by side: a map from     *)
(* grams to term ids, and a dictionary that numbers the grams with an      *)
(* inverted index from these numbers to term ids.  The dictionary and the  *)
(* index are taken for what they promise: LSMDictionary and LSMIndex.      *)
(***************************************************************************)
EXTENDS Kgram, FiniteSets

CONSTANTS
    FeatureIDs,     \* the ids of terms
    SomeTerms       \* the terms that are indexed

ASSUME KgramIndexAssumption ==
    /\ FeatureIDs \subseteq Nat
    /\ SomeTerms \subseteq Terms

VARIABLES
    termByID,       \* the terms that were added, by id; the same in both
    gramPostings,   \* MemKgramIndex.postings
    kgramDict,      \* LSMKgramIndex.kgramDict: gram -> number
    nextGramID,     \* the next number
    kgramIdx        \* LSMKgramIndex.kgramIdx: number -> term ids

kgramVars == <<termByID, gramPostings, kgramDict, nextGramID, kgramIdx>>

KgramTypeOK ==
    /\ DOMAIN termByID \subseteq FeatureIDs
    /\ \A f \in DOMAIN termByID : termByID[f] \in Terms
    /\ \A g \in DOMAIN gramPostings : gramPostings[g] \subseteq FeatureIDs
    /\ nextGramID \in Nat
    /\ \A g \in DOMAIN kgramDict : kgramDict[g] \in 0 .. nextGramID - 1
    /\ kgramIdx \in [0 .. nextGramID - 1 -> SUBSET FeatureIDs]

KgramInit ==
    /\ termByID = [f \in {} |-> <<>>]
    /\ gramPostings = [g \in {} |-> {}]
    /\ kgramDict = [g \in {} |-> 0]
    /\ nextGramID = 0
    /\ kgramIdx = [n \in 0 .. -1 |-> {}]

-----------------------------------------------------------------------------
\* MemKgramIndex.AddTerm, of a term that is not there yet.
MemAdd(f, term) ==
    gramPostings' =
        [g \in DOMAIN gramPostings \cup Grams(term) |->
            (IF g \in DOMAIN gramPostings THEN gramPostings[g] ELSE {})
            \cup (IF g \in Grams(term) THEN {f} ELSE {})]

\* The numbers that GetOrAdd gives to the grams of a term, taken in order: a
\* gram that is new gets the next one when it occurs first.
NewGrams(term) == Grams(term) \ DOMAIN kgramDict
First(term, g) ==
    CHOOSE i \in DOMAIN Generate(term) :
        Generate(term)[i] = g /\ \A j \in 1 .. i - 1 : Generate(term)[j] # g
Before(term, g) ==
    {h \in NewGrams(term) : First(term, h) < First(term, g)}
GramID(term, g) ==
    IF g \in DOMAIN kgramDict THEN kgramDict[g]
    ELSE nextGramID + Cardinality(Before(term, g))

\* LSMKgramIndex.AddTerm: the grams are numbered, then the id is added to the
\* bitmaps of their numbers.
LSMAdd_LastGramMissed(f, term) ==
    /\ kgramDict' = [g \in DOMAIN kgramDict \cup Grams(term) |-> GramID(term, g)]
    /\ nextGramID' = nextGramID + Cardinality(NewGrams(term))
    /\ LET n == Len(Generate(term))
           ids == {GramID(term, Generate(term)[i]) : i \in 1 .. n - 1}
       IN  kgramIdx' =
              [i \in 0 .. nextGramID + Cardinality(NewGrams(term)) - 1 |->
                  (IF i < nextGramID THEN kgramIdx[i] ELSE {})
                  \cup (IF i \in ids THEN {f} ELSE {})]
LSMAdd(f, term) ==
    /\ kgramDict' = [g \in DOMAIN kgramDict \cup Grams(term) |-> GramID(term, g)]
    /\ nextGramID' = nextGramID + Cardinality(NewGrams(term))
    /\ LET ids == {GramID(term, g) : g \in Grams(term)}
       IN  kgramIdx' =
              [i \in 0 .. nextGramID + Cardinality(NewGrams(term)) - 1 |->
                  (IF i < nextGramID THEN kgramIdx[i] ELSE {})
                  \cup (IF i \in ids THEN {f} ELSE {})]

\* AddTerm: an id that has a term is left alone, whatever the term.
AddTerm(f, term) ==
    IF f \in DOMAIN termByID THEN UNCHANGED kgramVars
    ELSE /\ termByID' = [i \in DOMAIN termByID \cup {f} |->
                            IF i = f THEN term ELSE termByID[i]]
         /\ MemAdd(f, term)
         /\ LSMAdd(f, term)

KgramNext == \E f \in FeatureIDs, term \in SomeTerms : AddTerm(f, term)

KgramSpec == KgramInit /\ [][KgramNext]_kgramVars

-----------------------------------------------------------------------------
(* Search.                                                                 *)

MemPostings(g) == IF g \in DOMAIN gramPostings THEN gramPostings[g] ELSE {}
LSMPostings(g) ==
    IF g \in DOMAIN kgramDict THEN kgramIdx[kgramDict[g]] ELSE {}

\* The ids that have every gram of the pattern: a gram that is not there, and
\* an intersection that is empty, end the search with no result.
Candidates(p) ==
    {f \in DOMAIN termByID :
        \A g \in ExtractFromPattern(p) : f \in MemPostings(g)}

KgramSearch(p) ==
    IF ExtractFromPattern(p) = {} THEN {}
    ELSE {f \in Candidates(p) : MatchPattern(termByID[f], p)}

-----------------------------------------------------------------------------
(* Properties.                                                             *)

\* The posting list of a gram has the terms with the gram and no other, in
\* both indexes, although one of them goes through numbers that are given to
\* grams as they come: no two grams share a number, and none has two.
PostingsExact ==
    \A g \in DOMAIN gramPostings \cup DOMAIN kgramDict
             \cup UNION {Grams(termByID[f]) : f \in DOMAIN termByID} :
        /\ MemPostings(g) = {f \in DOMAIN termByID : g \in Grams(termByID[f])}
        /\ LSMPostings(g) = MemPostings(g)

GramNumbersDiffer ==
    \A g, h \in DOMAIN kgramDict : g # h => kgramDict[g] # kgramDict[h]

\* What makes it inductive.
KgramInv ==
    /\ KgramTypeOK
    /\ PostingsExact
    /\ GramNumbersDiffer
    /\ DOMAIN kgramDict = DOMAIN gramPostings

\* The candidates for a pattern that has a gram include every term that
\* matches it: the intersection never drops one that the filter would keep.
CandidatesComplete(ps) ==
    \A p \in ps :
        {f \in DOMAIN termByID : Matches(termByID[f], p)} \subseteq Candidates(p)
=============================================================================
