---------------------------- MODULE KgramProofs ----------------------------
(***************************************************************************)
(* Proofs about Kgram and KgramIndex, for every alphabet, every length of  *)
(* a gram and every set of terms: the two indexes hold the same posting    *)
(* lists, and the candidates for a pattern include every term that matches *)
(* it.                                                                     *)
(***************************************************************************)
EXTENDS KgramIndex, TLAPS, WellFoundedInduction, FiniteSetTheorems,
        SequenceTheorems

-----------------------------------------------------------------------------
(* Numbers.                                                                *)

\* The relation of the well-founded order of the naturals.
LEMMA LessThan == OpToRel(<, Nat) = {ss \in Nat \X Nat : ss[1] < ss[2]}
  BY DEF OpToRel

\* A set of naturals that is not empty has a least element.
LEMMA NatMin ==
    ASSUME NEW S, S \subseteq Nat, S # {}
    PROVE  \E n \in S : \A j \in S : n <= j
<1> DEFINE R == {ss \in Nat \X Nat : ss[1] < ss[2]}
<1>1. IsWellFoundedOn(R, Nat)
  BY NatLessThanWellFounded, LessThan, Zenon
<1>2. \E x \in S : \A y \in S : ~ (<<y, x>> \in R)
  <2> HIDE DEF R
  <2> QED
    BY <1>1, WFMin
<1>3. PICK n \in S : \A j \in S : <<j, n>> \notin R
  BY <1>2
<1>4. ASSUME NEW j \in S PROVE n <= j
  <2>1. n \in Nat /\ j \in Nat /\ <<j, n>> \notin R
    BY <1>3
  <2>2. ~ (j < n)
    BY <2>1
  <2> QED
    BY <2>1, <2>2
<1> QED
  BY <1>4

\* Induction over an interval, of a set of its members.
LEMMA UpTo ==
    ASSUME NEW n \in Nat, NEW G, n > 0 => 1 \in G,
           \A i \in 1 .. n : i \in G /\ i < n => i + 1 \in G
    PROVE  \A i \in 1 .. n : i \in G
<1> DEFINE Bad == {i \in 1 .. n : i \notin G}
<1> SUFFICES ASSUME Bad # {} PROVE FALSE
  OBVIOUS
<1>1. Bad \subseteq Nat
  OBVIOUS
<1>2. PICK m \in Bad : \A j \in Bad : m <= j
  <2> HIDE DEF Bad
  <2> QED
    BY <1>1, NatMin
<1>3. m \in 1 .. n /\ m \notin G /\ m # 1
  OBVIOUS
<1>4. m - 1 \in 1 .. n /\ m - 1 < n /\ m - 1 + 1 = m
  BY <1>3
<1>5. m - 1 \in Bad
  BY <1>3, <1>4
<1> HIDE DEF Bad
<1>6. m <= m - 1
  BY <1>2, <1>5
<1> QED
  BY <1>3, <1>6

-----------------------------------------------------------------------------
(* The grams of a term.                                                    *)

\* Generate is a function on an interval from 1.
LEMMA GenerateDomain ==
    ASSUME NEW term \in Terms
    PROVE  \E n \in Nat : DOMAIN Generate(term) = 1 .. n
<1>1. Padded(term) \in Seq(Runes \cup {Marker}) /\ Len(Padded(term)) \in Nat
  BY SMT DEF Padded, Terms
<1>2. CASE Len(Padded(term)) < k
  <2>1. Generate(term) = <<Padded(term)>>
    BY <1>2 DEF Generate
  <2> QED
    BY <2>1, SMT
<1>3. CASE ~ (Len(Padded(term)) < k)
  <2>1. Generate(term) = [i \in Starts(Padded(term)) |-> Window(Padded(term), i)]
    BY <1>3 DEF Generate
  <2>2. Len(Padded(term)) - k + 1 \in Nat
    BY <1>1, <1>3, KgramAssumption, SMT
  <2> QED
    BY <2>1, <2>2 DEF Starts
<1> QED
  BY <1>2, <1>3

\* Every gram occurs first somewhere.
LEMMA FirstOccurs ==
    ASSUME NEW term \in Terms, NEW g \in Grams(term)
    PROVE  /\ First(term, g) \in DOMAIN Generate(term)
           /\ Generate(term)[First(term, g)] = g
<1> DEFINE S == {i \in DOMAIN Generate(term) : Generate(term)[i] = g}
<1>1. PICK n \in Nat : DOMAIN Generate(term) = 1 .. n
  BY GenerateDomain
<1>2. S \subseteq Nat /\ S # {}
  BY <1>1 DEF Grams
<1>3. PICK i \in S : \A j \in S : i <= j
  <2> HIDE DEF S
  <2> QED
    BY <1>2, NatMin
<1>4. \A j \in 1 .. i - 1 : Generate(term)[j] # g
  <2> SUFFICES ASSUME NEW j \in 1 .. i - 1, Generate(term)[j] = g PROVE FALSE
    OBVIOUS
  <2>1. j \in 1 .. n /\ j < i
    BY <1>1, <1>3, SMT
  <2>2. j \in S
    BY <1>1, <2>1
  <2> QED
    BY <1>1, <1>3, <2>1, <2>2, SMT
<1>5. \E x \in DOMAIN Generate(term) :
          Generate(term)[x] = g /\ \A j \in 1 .. x - 1 : Generate(term)[j] # g
  BY <1>3, <1>4
<1> QED
  BY <1>5 DEF First

\* The grams of a term are finitely many.
LEMMA GramsFinite ==
    ASSUME NEW term \in Terms
    PROVE  IsFiniteSet(Grams(term))
<1>1. PICK n \in Nat : DOMAIN Generate(term) = 1 .. n
  BY GenerateDomain
<1> DEFINE first == [g \in Grams(term) |-> First(term, g)]
<1>2. first \in [Grams(term) -> 1 .. n]
  BY <1>1, FirstOccurs
<1>3. \A g, h \in Grams(term) : first[g] = first[h] => g = h
  BY FirstOccurs
<1>4. first \in Injection(Grams(term), 1 .. n)
  <2> HIDE DEF first
  <2> QED
    BY <1>2, <1>3 DEF Injection, IsInjective
<1>5. IsFiniteSet(1 .. n)
  BY FS_Interval
<1> QED
  BY <1>4, <1>5, FS_Injection

-----------------------------------------------------------------------------
(* The numbers of the grams.                                               *)

\* A new gram gets a number of the next ones, and no two grams get the same.
LEMMA GramIDs ==
    ASSUME KgramInv, NEW term \in Terms
    PROVE  /\ Cardinality(NewGrams(term)) \in Nat
           /\ \A g \in DOMAIN kgramDict : GramID(term, g) \in 0 .. nextGramID - 1
           /\ \A g \in NewGrams(term) :
                 GramID(term, g) \in
                     nextGramID .. nextGramID + Cardinality(NewGrams(term)) - 1
           /\ \A g, h \in DOMAIN kgramDict \cup Grams(term) :
                 g # h => GramID(term, g) # GramID(term, h)
<1> DEFINE N == NewGrams(term)
<1>1. IsFiniteSet(N)
  BY GramsFinite, FS_Subset DEF NewGrams
<1>2. Cardinality(N) \in Nat
  BY <1>1, FS_CardinalityType
<1>3. nextGramID \in Nat
  BY DEF KgramInv, KgramTypeOK
<1>4. ASSUME NEW g \in N
      PROVE  /\ IsFiniteSet(Before(term, g))
             /\ Cardinality(Before(term, g)) \in 0 .. Cardinality(N) - 1
             /\ GramID(term, g) = nextGramID + Cardinality(Before(term, g))
  <2>1. First(term, g) \in Nat
    BY GenerateDomain, FirstOccurs DEF NewGrams
  <2>2. Before(term, g) \in SUBSET N /\ g \notin Before(term, g)
    BY <2>1, SMT DEF Before
  <2>3. /\ IsFiniteSet(Before(term, g))
        /\ Cardinality(Before(term, g)) <= Cardinality(N)
        /\ Cardinality(N) = Cardinality(Before(term, g)) => N = Before(term, g)
    <3> HIDE DEF N
    <3> QED
      BY <1>1, <2>2, FS_Subset
  <2>4. Cardinality(Before(term, g)) \in Nat
    BY <2>3, FS_CardinalityType
  <2>5. Cardinality(N) # Cardinality(Before(term, g))
    BY <2>2, <2>3
  <2>6. GramID(term, g) = nextGramID + Cardinality(Before(term, g))
    BY DEF GramID, NewGrams
  <2> HIDE DEF N
  <2> QED
    BY <1>2, <2>3, <2>4, <2>5, <2>6, SMT
<1>5. ASSUME NEW g \in N, NEW h \in N, First(term, h) < First(term, g)
      PROVE  GramID(term, g) # GramID(term, h)
  <2>1. First(term, g) \in Nat /\ First(term, h) \in Nat
    BY GenerateDomain, FirstOccurs DEF NewGrams
  <2>2. \A x \in N : First(term, x) \in Nat
    BY GenerateDomain, FirstOccurs DEF NewGrams
  <2>3. Before(term, h) \in SUBSET Before(term, g)
    BY <1>5, <2>1, <2>2, SMT DEF Before
  <2>4. h \in Before(term, g) /\ h \notin Before(term, h)
    BY <1>5, <2>1, SMT DEF Before
  <2>5. Cardinality(Before(term, g)) # Cardinality(Before(term, h))
    BY <1>4, <2>3, <2>4, FS_Subset
  <2> HIDE DEF N
  <2> QED
    BY <1>2, <1>3, <1>4, <2>5, SMT
<1>6. \A g \in DOMAIN kgramDict : GramID(term, g) \in 0 .. nextGramID - 1
  BY DEF GramID, KgramInv, KgramTypeOK
<1>7. \A g \in N : GramID(term, g) \in nextGramID .. nextGramID + Cardinality(N) - 1
  <2> SUFFICES ASSUME NEW g \in N
               PROVE  GramID(term, g) \in
                          nextGramID .. nextGramID + Cardinality(N) - 1
    OBVIOUS
  <2> HIDE DEF N
  <2> QED
    BY <1>2, <1>3, <1>4, SMT
<1>8. ASSUME NEW g \in DOMAIN kgramDict \cup Grams(term),
             NEW h \in DOMAIN kgramDict \cup Grams(term), g # h
      PROVE  GramID(term, g) # GramID(term, h)
  <2>1. g \in DOMAIN kgramDict \/ g \in N
    BY DEF NewGrams
  <2>2. h \in DOMAIN kgramDict \/ h \in N
    BY DEF NewGrams
  <2>3. CASE g \in DOMAIN kgramDict /\ h \in DOMAIN kgramDict
    BY <1>8, <2>3 DEF GramID, KgramInv, GramNumbersDiffer
  <2>4. CASE g \in N /\ h \in N
    <3>1. First(term, g) \in Nat /\ First(term, h) \in Nat
      BY <2>4, GenerateDomain, FirstOccurs DEF NewGrams
    <3>2. First(term, g) # First(term, h)
      BY <1>8, <2>4, FirstOccurs DEF NewGrams
    <3>3. First(term, g) < First(term, h) \/ First(term, h) < First(term, g)
      BY <3>1, <3>2, SMT
    <3> HIDE DEF N
    <3> QED
      BY <1>5, <2>4, <3>3
  <2>5. ASSUME NEW x \in DOMAIN kgramDict, NEW y \in N
        PROVE  GramID(term, x) # GramID(term, y)
    <3> HIDE DEF N
    <3> QED
      BY <1>2, <1>3, <1>6, <1>7, SMT
  <2> HIDE DEF N
  <2> QED
    BY <2>1, <2>2, <2>3, <2>4, <2>5
<1> QED
  BY <1>2, <1>6, <1>7, <1>8

-----------------------------------------------------------------------------
(* The posting lists.                                                      *)

LEMMA KgramInvInit == ASSUME KgramInit PROVE KgramInv
<1>1. KgramTypeOK
  <2>1. DOMAIN termByID = {} /\ DOMAIN gramPostings = {} /\ DOMAIN kgramDict = {}
    BY DEF KgramInit
  <2>2. kgramIdx \in [0 .. nextGramID - 1 -> SUBSET FeatureIDs]
    BY SMT DEF KgramInit
  <2> QED
    BY <2>1, <2>2 DEF KgramInit, KgramTypeOK
<1> QED
  BY <1>1 DEF KgramInit, KgramInv, PostingsExact, GramNumbersDiffer

\* What a gram has in the two indexes after a term was added.
LEMMA AddedPostings ==
    ASSUME KgramInv, NEW f \in FeatureIDs, NEW term \in SomeTerms,
           f \notin DOMAIN termByID, AddTerm(f, term),
           NEW g
    PROVE  /\ MemPostings(g)' =
                 MemPostings(g) \cup (IF g \in Grams(term) THEN {f} ELSE {})
           /\ LSMPostings(g)' =
                 LSMPostings(g) \cup (IF g \in Grams(term) THEN {f} ELSE {})
<1>1. term \in Terms
  BY KgramIndexAssumption
<1>2. /\ MemAdd(f, term) /\ LSMAdd(f, term)
  BY DEF AddTerm
<1>3. MemPostings(g)' =
          MemPostings(g) \cup (IF g \in Grams(term) THEN {f} ELSE {})
  BY <1>2 DEF MemAdd, MemPostings
<1> DEFINE n == Cardinality(NewGrams(term))
           ids == {GramID(term, h) : h \in Grams(term)}
<1>4. nextGramID \in Nat /\ n \in Nat
  BY <1>1, GramIDs DEF KgramInv, KgramTypeOK
<1>5. /\ kgramDict' = [h \in DOMAIN kgramDict \cup Grams(term) |-> GramID(term, h)]
      /\ kgramIdx' = [i \in 0 .. nextGramID + n - 1 |->
                         (IF i < nextGramID THEN kgramIdx[i] ELSE {})
                         \cup (IF i \in ids THEN {f} ELSE {})]
  BY <1>2 DEF LSMAdd
<1>6. ASSUME g \in DOMAIN kgramDict \cup Grams(term)
      PROVE  LSMPostings(g)' =
                (IF GramID(term, g) < nextGramID THEN kgramIdx[GramID(term, g)]
                                                 ELSE {})
                \cup (IF GramID(term, g) \in ids THEN {f} ELSE {})
  <2>1. GramID(term, g) \in 0 .. nextGramID + n - 1
    <3>1. g \in DOMAIN kgramDict \/ g \in NewGrams(term)
      BY <1>6 DEF NewGrams
    <3>2. GramID(term, g) \in 0 .. nextGramID - 1
          \/ GramID(term, g) \in nextGramID .. nextGramID + n - 1
      BY <1>1, <3>1, GramIDs
    <3> HIDE DEF n
    <3> QED
      BY <1>4, <3>2, SMT
  <2> HIDE DEF n, ids
  <2> QED
    BY <1>5, <1>6, <2>1 DEF LSMPostings
<1>7. ASSUME g \in DOMAIN kgramDict \cup Grams(term)
      PROVE  GramID(term, g) \in ids <=> g \in Grams(term)
  BY <1>1, <1>7, GramIDs
<1>8. CASE g \in DOMAIN kgramDict
  <2>1. GramID(term, g) = kgramDict[g] /\ GramID(term, g) < nextGramID
    BY <1>8, SMT DEF GramID, KgramInv, KgramTypeOK
  <2> HIDE DEF n, ids
  <2> QED
    BY <1>3, <1>6, <1>7, <1>8, <2>1 DEF LSMPostings
<1>9. CASE g \in NewGrams(term)
  <2>1. GramID(term, g) \in nextGramID .. nextGramID + n - 1
    BY <1>1, <1>9, GramIDs
  <2>2. ~ (GramID(term, g) < nextGramID)
    <3> HIDE DEF n
    <3> QED
      BY <1>4, <2>1, SMT
  <2> HIDE DEF n, ids
  <2> QED
    BY <1>3, <1>6, <1>7, <1>9, <2>2 DEF LSMPostings, NewGrams
<1>10. CASE g \notin DOMAIN kgramDict \cup Grams(term)
  <2>1. DOMAIN kgramDict' = DOMAIN kgramDict \cup Grams(term)
    BY <1>5
  <2> QED
    BY <1>3, <1>10, <2>1 DEF LSMPostings
<1> QED
  BY <1>8, <1>9, <1>10 DEF NewGrams

LEMMA AddedType ==
    ASSUME KgramInv, NEW f \in FeatureIDs, NEW term \in SomeTerms,
           f \notin DOMAIN termByID, AddTerm(f, term)
    PROVE  KgramTypeOK'
<1>1. term \in Terms
  BY KgramIndexAssumption
<1> DEFINE n == Cardinality(NewGrams(term))
           ids == {GramID(term, h) : h \in Grams(term)}
<1>2. nextGramID \in Nat /\ n \in Nat
  BY <1>1, GramIDs DEF KgramInv, KgramTypeOK
<1>3. nextGramID' = nextGramID + n
  BY DEF AddTerm, LSMAdd
<1>4. \A i \in DOMAIN termByID' : i \in FeatureIDs /\ termByID'[i] \in Terms
  BY <1>1 DEF AddTerm, KgramInv, KgramTypeOK
<1>5. \A g \in DOMAIN gramPostings' : gramPostings'[g] \subseteq FeatureIDs
  BY DEF AddTerm, MemAdd, KgramInv, KgramTypeOK
<1>6. \A g \in DOMAIN kgramDict' : kgramDict'[g] \in 0 .. nextGramID' - 1
  <2> SUFFICES ASSUME NEW g \in DOMAIN kgramDict'
               PROVE  kgramDict'[g] \in 0 .. nextGramID' - 1
    OBVIOUS
  <2>1. g \in DOMAIN kgramDict \cup Grams(term) /\ kgramDict'[g] = GramID(term, g)
    BY DEF AddTerm, LSMAdd
  <2>2. GramID(term, g) \in 0 .. nextGramID - 1
        \/ GramID(term, g) \in nextGramID .. nextGramID + n - 1
    BY <1>1, <2>1, GramIDs DEF NewGrams
  <2> HIDE DEF n
  <2> QED
    BY <1>2, <1>3, <2>1, <2>2, SMT
<1>7. kgramIdx' \in [0 .. nextGramID' - 1 -> SUBSET FeatureIDs]
  <2>1. kgramIdx' = [i \in 0 .. nextGramID' - 1 |->
                        (IF i < nextGramID THEN kgramIdx[i] ELSE {})
                        \cup (IF i \in ids THEN {f} ELSE {})]
    <3>1. LSMAdd(f, term)
      BY DEF AddTerm
    <3>2. kgramIdx' = [i \in 0 .. nextGramID + n - 1 |->
                          (IF i < nextGramID THEN kgramIdx[i] ELSE {})
                          \cup (IF i \in ids THEN {f} ELSE {})]
      BY <3>1 DEF LSMAdd
    <3> HIDE DEF n, ids
    <3>3. nextGramID' - 1 = nextGramID + n - 1
      BY <1>2, <1>3, SMT
    <3> QED
      BY <3>2, <3>3, Zenon
  <2>2. \A i \in 0 .. nextGramID' - 1 :
            i < nextGramID => kgramIdx[i] \subseteq FeatureIDs
    <3>1. \A i \in 0 .. nextGramID - 1 : kgramIdx[i] \subseteq FeatureIDs
      BY DEF KgramInv, KgramTypeOK
    <3>2. \A i \in 0 .. nextGramID' - 1 :
              i < nextGramID => i \in 0 .. nextGramID - 1
      BY <1>2, SMT
    <3> QED
      BY <3>1, <3>2
  <2> HIDE DEF ids
  <2> QED
    BY <2>1, <2>2
<1>8. nextGramID' \in Nat
  <2> HIDE DEF n
  <2> QED
    BY <1>2, <1>3, SMT
<1> QED
  BY <1>4, <1>5, <1>6, <1>7, <1>8 DEF KgramTypeOK

LEMMA KgramInvNext ==
    ASSUME KgramInv, [KgramNext]_kgramVars
    PROVE  KgramInv'
<1>1. CASE UNCHANGED kgramVars
  BY <1>1 DEF kgramVars, KgramInv, KgramTypeOK, PostingsExact,
              GramNumbersDiffer, MemPostings, LSMPostings
<1>2. CASE KgramNext
  <2>1. PICK f \in FeatureIDs, term \in SomeTerms : AddTerm(f, term)
    BY <1>2 DEF KgramNext
  <2>2. CASE f \in DOMAIN termByID
    BY <1>1, <2>1, <2>2 DEF AddTerm
  <2>3. CASE f \notin DOMAIN termByID
    <3>1. KgramTypeOK'
      BY <2>1, <2>3, AddedType
    <3>2. GramNumbersDiffer'
      <4>1. term \in Terms
        BY KgramIndexAssumption
      <4>2. kgramDict' = [g \in DOMAIN kgramDict \cup Grams(term) |->
                             GramID(term, g)]
        BY <2>1, <2>3 DEF AddTerm, LSMAdd
      <4> QED
        BY <4>1, <4>2, GramIDs DEF GramNumbersDiffer
    <3>3. (DOMAIN kgramDict = DOMAIN gramPostings)'
      BY <2>1, <2>3 DEF AddTerm, MemAdd, LSMAdd, KgramInv
    <3>4. PostingsExact'
      <4>1. termByID' = [i \in DOMAIN termByID \cup {f} |->
                            IF i = f THEN term ELSE termByID[i]]
        BY <2>1, <2>3 DEF AddTerm
      <4>2. ASSUME NEW g
            PROVE  /\ MemPostings(g) =
                         {d \in DOMAIN termByID : g \in Grams(termByID[d])}
                   /\ LSMPostings(g) = MemPostings(g)
        <5>1. CASE g \in DOMAIN gramPostings \cup DOMAIN kgramDict
                         \cup UNION {Grams(termByID[d]) : d \in DOMAIN termByID}
          BY <5>1 DEF KgramInv, PostingsExact
        <5>2. CASE g \notin DOMAIN gramPostings \cup DOMAIN kgramDict
                         \cup UNION {Grams(termByID[d]) : d \in DOMAIN termByID}
          BY <5>2 DEF MemPostings, LSMPostings
        <5> QED
          BY <5>1, <5>2
      <4>3. ASSUME NEW g
            PROVE  /\ MemPostings(g)' =
                         {d \in DOMAIN termByID' : g \in Grams(termByID'[d])}
                   /\ LSMPostings(g)' = MemPostings(g)'
        <5>1. /\ MemPostings(g)' =
                    MemPostings(g) \cup (IF g \in Grams(term) THEN {f} ELSE {})
              /\ LSMPostings(g)' =
                    LSMPostings(g) \cup (IF g \in Grams(term) THEN {f} ELSE {})
          BY <2>1, <2>3, AddedPostings
        <5>2. {d \in DOMAIN termByID' : g \in Grams(termByID'[d])} =
                  {d \in DOMAIN termByID : g \in Grams(termByID[d])}
                  \cup (IF g \in Grams(term) THEN {f} ELSE {})
          BY <2>3, <4>1
        <5> QED
          BY <4>2, <5>1, <5>2
      <4>4. PostingsExact' =
                \A g \in DOMAIN gramPostings' \cup DOMAIN kgramDict'
                         \cup UNION {Grams(termByID'[d]) : d \in DOMAIN termByID'} :
                    /\ MemPostings(g)' =
                          {d \in DOMAIN termByID' : g \in Grams(termByID'[d])}
                    /\ LSMPostings(g)' = MemPostings(g)'
        BY DEF PostingsExact
      <4> QED
        BY <4>3, <4>4
    <3> QED
      BY <3>1, <3>2, <3>3, <3>4 DEF KgramInv
  <2> QED
    BY <2>2, <2>3
<1> QED
  BY <1>1, <1>2

\* The posting lists of the two indexes are the same and exact, whatever terms
\* are added in whatever order, under whatever ids: the numbers that GetOrAdd
\* gives to grams never mix two of them (lsm_impl.go:60).
THEOREM KgramPostings == KgramSpec => []KgramInv
<1> QED
  BY KgramInvInit, KgramInvNext, PTL DEF KgramSpec

-----------------------------------------------------------------------------
(* The candidates for a pattern.                                           *)

\* The rune of s, with its markers, at position i from 0.
LEMMA PaddedRune ==
    ASSUME NEW R, NEW s \in Seq(R)
    PROVE  /\ Len(Padded(s)) = Len(s) + 2
           /\ Padded(s)[1] = Marker
           /\ Padded(s)[Len(s) + 2] = Marker
           /\ \A i \in 1 .. Len(s) : Padded(s)[i + 1] = s[i]
<1>1. Len(s) \in Nat
  OBVIOUS
<1>2. <<Marker>> \in Seq(R \cup {Marker}) /\ s \in Seq(R \cup {Marker})
  BY SMT
<1> DEFINE q == <<Marker>> \o s
<1>3. /\ q \in Seq(R \cup {Marker}) /\ Len(q) = Len(s) + 1
      /\ q[1] = Marker /\ \A i \in 1 .. Len(s) : q[i + 1] = s[i]
  BY <1>1, <1>2, SMT
<1>4. Padded(s) = q \o <<Marker>>
  BY <1>2 DEF Padded
<1> HIDE DEF q
<1> QED
  BY <1>1, <1>2, <1>3, <1>4, SMT

\* A window of s is a gram of it.
LEMMA WindowIsGram ==
    ASSUME NEW s \in Terms, NEW i \in Starts(Padded(s))
    PROVE  Window(Padded(s), i) \in Grams(s)
<1>1. Len(Padded(s)) = Len(s) + 2 /\ Len(s) \in Nat
  BY PaddedRune DEF Terms
<1>2. ~ (Len(Padded(s)) < k)
  BY <1>1, KgramAssumption, SMT DEF Starts
<1>3. Generate(s) = [j \in Starts(Padded(s)) |-> Window(Padded(s), j)]
  BY <1>2 DEF Generate
<1> QED
  BY <1>3 DEF Grams

\* A window of the pattern without a star stands in the term as it is: its
\* runes follow each other there too.
LEMMA MatchedGrams ==
    ASSUME NEW s \in Terms, NEW p \in Patterns, Matches(s, p)
    PROVE  ExtractFromPattern(p) \subseteq Grams(s)
<1> SUFFICES ASSUME NEW i \in Starts(Padded(p)),
                    \A j \in 1 .. k : Window(Padded(p), i)[j] # Star
             PROVE  Window(Padded(p), i) \in Grams(s)
  BY DEF ExtractFromPattern
<1>1. PICK cut \in [1 .. Len(p) + 1 -> 1 .. Len(s) + 1] : Fits(cut, s, p)
  BY DEF Matches
<1> DEFINE m == Len(p)
           n == Len(s)
           c(x) == IF x = 0 THEN 0 ELSE cut[x]
<1>2. /\ m \in Nat /\ n \in Nat /\ k \in Nat /\ k >= 2
      /\ Len(Padded(p)) = m + 2 /\ Len(Padded(s)) = n + 2
  BY PaddedRune, KgramAssumption DEF Terms, Patterns
<1>3. i \in Nat /\ 1 <= i /\ i + k - 1 <= m + 2
  BY <1>2, SMT DEF Starts
<1>4. \A x \in 0 .. m + 1 : c(x) \in 0 .. n + 1
  BY <1>1, <1>2, SMT
<1>5. \A j \in 1 .. k : /\ Window(Padded(p), i)[j] = Padded(p)[i + j - 1]
                        /\ Padded(p)[i + j - 1] # Star
  <2>1. Padded(p) \in Seq(Runes \cup {Star, Marker})
    BY SMT DEF Padded, Patterns
  <2>2. \A j \in 1 .. k : Window(Padded(p), i)[j] = Padded(p)[i + j - 1]
    BY <1>2, <1>3, <2>1, SMT DEF Window
  <2> QED
    BY <2>2
<1>6. ASSUME NEW x \in 0 .. m + 1, Padded(p)[x + 1] # Star
      PROVE  /\ Padded(s)[c(x) + 1] = Padded(p)[x + 1]
             /\ x < m + 1 => c(x + 1) = c(x) + 1
  <2>1. CASE x = 0
    <3>1. c(0) = 0 /\ c(1) = 1
      BY <1>1, <1>2 DEF Fits
    <3> QED
      BY <1>2, <2>1, <3>1, PaddedRune DEF Terms, Patterns
  <2>2. CASE x = m + 1
    <3>1. c(m + 1) = n + 1
      BY <1>1, <1>2 DEF Fits
    <3> HIDE DEF c
    <3>2. Padded(p)[m + 2] = Marker /\ Padded(s)[n + 2] = Marker
      BY PaddedRune DEF Terms, Patterns
    <3>3. x + 1 = m + 2 /\ c(x) + 1 = n + 2 /\ ~ (x < m + 1)
      BY <1>2, <2>2, <3>1, SMT
    <3> QED
      BY <3>2, <3>3
  <2>3. CASE x \in 1 .. m
    <3>1. Padded(p)[x + 1] = p[x]
      BY <2>3, PaddedRune DEF Patterns
    <3>2. /\ cut[x] \in Nat /\ 1 <= cut[x] /\ cut[x] <= n
          /\ s[cut[x]] = p[x] /\ cut[x + 1] = cut[x] + 1
      <4>1. cut[x] \in 1 .. n + 1
        BY <1>1, <1>2, <2>3, SMT
      <4>2. cut[x] <= n /\ s[cut[x]] = p[x] /\ cut[x + 1] = cut[x] + 1
        BY <1>1, <1>6, <2>3, <3>1 DEF Fits
      <4> QED
        BY <1>2, <4>1, <4>2, SMT
    <3>3. Padded(s)[cut[x] + 1] = s[cut[x]]
      <4>1. cut[x] \in 1 .. Len(s)
        BY <1>2, <3>2, SMT
      <4> QED
        BY <4>1, PaddedRune DEF Terms
    <3>4. c(x) = cut[x] /\ c(x + 1) = cut[x + 1]
      BY <1>2, <2>3, SMT
    <3> HIDE DEF c
    <3> QED
      BY <3>1, <3>2, <3>3, <3>4
  <2> QED
    BY <1>2, <2>1, <2>2, <2>3, SMT
<1> HIDE DEF c
<1>7. ASSUME NEW j \in 1 .. k
      PROVE  c(i + j - 2) = c(i - 1) + j - 1
  <2> DEFINE S == {x \in 1 .. k : c(i + x - 2) # c(i - 1) + x - 1}
  <2> SUFFICES ASSUME S # {} PROVE FALSE
    OBVIOUS
  <2>1. S \subseteq Nat
    BY <1>2, SMT
  <2>2. PICK x \in S : \A y \in S : x <= y
    <3> HIDE DEF S
    <3> QED
      BY <2>1, NatMin
  <2>3. x \in 1 .. k /\ c(i + x - 2) # c(i - 1) + x - 1
    OBVIOUS
  <2>4. c(i - 1) \in Nat
    <3>1. i - 1 \in 0 .. m + 1
      BY <1>2, <1>3, SMT
    <3> QED
      BY <1>2, <1>4, <3>1, SMT
  <2>5. x # 1
    <3> SUFFICES ASSUME x = 1 PROVE FALSE
      OBVIOUS
    <3>1. i + x - 2 = i - 1 /\ c(i - 1) + x - 1 = c(i - 1)
      BY <1>3, <2>4, SMT
    <3> QED
      BY <2>3, <3>1
  <2>6. x - 1 \in 1 .. k /\ x - 1 < x
    BY <1>2, <2>3, <2>5, SMT
  <2>7. x - 1 \notin S
    BY <2>2, <2>6, SMT
  <2>8. c(i + (x - 1) - 2) = c(i - 1) + (x - 1) - 1
    BY <2>6, <2>7
  <2> DEFINE y == i + x - 3
  <2>9. y \in 0 .. m + 1 /\ y < m + 1 /\ y + 1 = i + (x - 1) - 1
        /\ y = i + (x - 1) - 2 /\ y + 1 = i + x - 2
    BY <1>2, <1>3, <2>6, SMTT(40)
  <2>10. Padded(p)[y + 1] # Star
    BY <1>5, <2>6, <2>9
  <2> HIDE DEF y
  <2>11. c(y + 1) = c(y) + 1
    BY <1>6, <2>9, <2>10
  <2>12. c(i + x - 2) = c(i - 1) + (x - 1) - 1 + 1
    BY <2>8, <2>9, <2>11
  <2> QED
    BY <2>3, <2>4, <2>12, SMT
<1> DEFINE at == c(i - 1) + 1
<1>8. c(i - 1) \in 0 .. n + 1 /\ c(i + k - 2) \in 0 .. n + 1
  <2>1. i - 1 \in 0 .. m + 1 /\ i + k - 2 \in 0 .. m + 1
    BY <1>2, <1>3, SMT
  <2> QED
    BY <1>4, <2>1
<1>9. at \in Starts(Padded(s))
  <2>1. c(i + k - 2) = c(i - 1) + k - 1
    BY <1>2, <1>7, SMT
  <2> QED
    BY <1>2, <1>8, <2>1, SMTT(40) DEF Starts
<1>10. ASSUME NEW j \in 1 .. k
       PROVE  Padded(s)[at + j - 1] = Padded(p)[i + j - 1]
  <2>1. i + j - 2 \in 0 .. m + 1 /\ (i + j - 2) + 1 = i + j - 1
    BY <1>2, <1>3, SMT
  <2>2. Padded(s)[c(i + j - 2) + 1] = Padded(p)[i + j - 1]
    BY <1>5, <1>6, <2>1
  <2>3. c(i + j - 2) + 1 = at + j - 1
    BY <1>7, <1>8, <1>2, SMT
  <2> QED
    BY <2>2, <2>3
<1>11. Window(Padded(s), at) = Window(Padded(p), i)
  <2>1. /\ Padded(p) \in Seq(Runes \cup {Star, Marker})
        /\ Padded(s) \in Seq(Runes \cup {Star, Marker})
    BY SMT DEF Padded, Patterns, Terms
  <2>2. at \in Nat /\ 1 <= at /\ at + k - 1 <= n + 2
    BY <1>2, <1>8, <1>9, SMTT(40) DEF Starts
  <2> HIDE DEF at
  <2>3. /\ Window(Padded(s), at) = [j \in 1 .. k |-> Padded(s)[at + j - 1]]
        /\ Window(Padded(p), i) = [j \in 1 .. k |-> Padded(p)[i + j - 1]]
    BY <1>2, <1>3, <2>1, <2>2, SMT DEF Window
  <2> QED
    BY <1>10, <2>3
<1> HIDE DEF at
<1> QED
  BY <1>9, <1>11, WindowIsGram

LEMMA CandidatesHave == ASSUME KgramInv PROVE CandidatesComplete(Patterns)
<1> SUFFICES ASSUME NEW p \in Patterns, NEW f \in DOMAIN termByID,
                    Matches(termByID[f], p), NEW g \in ExtractFromPattern(p)
             PROVE  f \in MemPostings(g)
  BY DEF CandidatesComplete, Candidates
<1>1. termByID[f] \in Terms
  BY DEF KgramInv, KgramTypeOK
<1>2. g \in Grams(termByID[f])
  BY <1>1, MatchedGrams
<1> QED
  BY <1>2 DEF KgramInv, PostingsExact

\* The candidates for a pattern include every indexed term that matches it: a
\* gram of the pattern that is missing from a term, or a posting list that is
\* missing an id, never costs a result (lsm_impl.go:76).
THEOREM NoMatchDropped == KgramSpec => []CandidatesComplete(Patterns)
<1> QED
  BY CandidatesHave, KgramPostings, PTL

-----------------------------------------------------------------------------
(* The matching of a term with a pattern.                                  *)

CutAt(cut, s, p, x) ==
    IF p[x] = Star THEN cut[x] <= cut[x + 1]
    ELSE cut[x] <= Len(s) /\ s[cut[x]] = p[x] /\ cut[x + 1] = cut[x] + 1

\* The term from rune i on matches the pattern from rune j on.
TailMatches(s, p, i, j) ==
    \E cut \in [1 .. Len(p) + 1 -> 1 .. Len(s) + 1] :
        /\ cut[j] = i /\ cut[Len(p) + 1] = Len(s) + 1
        /\ \A x \in j .. Len(p) : CutAt(cut, s, p, x)

LEMMA TailsOfAll ==
    ASSUME NEW s \in Terms, NEW p \in Patterns
    PROVE  /\ TailMatches(s, p, 1, 1) <=> Matches(s, p)
           /\ \A i \in 1 .. Len(s) + 1 : TailMatches(s, p, i, Len(p) + 1) <=> i = Len(s) + 1
<1> DEFINE m == Len(p)
           n == Len(s)
<1>1. m \in Nat /\ n \in Nat
  BY DEF Terms, Patterns
<1>2. TailMatches(s, p, 1, 1) <=> Matches(s, p)
  BY DEF TailMatches, Matches, Fits, CutAt
<1>3. ASSUME NEW i \in 1 .. n + 1, TailMatches(s, p, i, m + 1) PROVE i = n + 1
  BY <1>3 DEF TailMatches
<1>4. TailMatches(s, p, n + 1, m + 1)
  <2> DEFINE cut == [x \in 1 .. m + 1 |-> n + 1]
  <2>1. cut \in [1 .. m + 1 -> 1 .. n + 1] /\ cut[m + 1] = n + 1
    BY <1>1
  <2>2. \A x \in m + 1 .. m : FALSE
    BY <1>1
  <2> HIDE DEF cut
  <2> QED
    BY <2>1, <2>2 DEF TailMatches
<1> QED
  BY <1>2, <1>3, <1>4

\* One rune of the pattern: a star stands for any piece, another rune for
\* itself.
LEMMA TailFrom ==
    ASSUME NEW s \in Terms, NEW p \in Patterns,
           NEW i \in 1 .. Len(s) + 1, NEW j \in 1 .. Len(p)
    PROVE  /\ p[j] = Star =>
                 (TailMatches(s, p, i, j) <=>
                     \E x \in i .. Len(s) + 1 : TailMatches(s, p, x, j + 1))
           /\ p[j] # Star =>
                 (TailMatches(s, p, i, j) <=>
                     i <= Len(s) /\ s[i] = p[j] /\ TailMatches(s, p, i + 1, j + 1))
<1> DEFINE m == Len(p)
           n == Len(s)
<1>1. m \in Nat /\ n \in Nat
  BY DEF Terms, Patterns
<1>2. i \in Nat /\ 1 <= i /\ i <= n + 1 /\ j \in Nat /\ 1 <= j /\ j <= m
      /\ j \in 1 .. m + 1 /\ j + 1 \in 1 .. m + 1 /\ j # j + 1 /\ j # m + 1
  BY <1>1
<1>3. ASSUME TailMatches(s, p, i, j)
      PROVE  /\ p[j] = Star => \E x \in i .. n + 1 : TailMatches(s, p, x, j + 1)
             /\ p[j] # Star => i <= n /\ s[i] = p[j] /\ TailMatches(s, p, i + 1, j + 1)
  <2>1. PICK cut \in [1 .. m + 1 -> 1 .. n + 1] :
           /\ cut[j] = i /\ cut[m + 1] = n + 1
           /\ \A x \in j .. m : CutAt(cut, s, p, x)
    BY <1>3 DEF TailMatches
  <2>2. CutAt(cut, s, p, j) /\ \A x \in j + 1 .. m : CutAt(cut, s, p, x)
    BY <1>1, <1>2, <2>1
  <2>3. TailMatches(s, p, cut[j + 1], j + 1) /\ cut[j + 1] \in 1 .. n + 1
    BY <1>2, <2>1, <2>2 DEF TailMatches
  <2> QED
    BY <1>1, <1>2, <2>1, <2>2, <2>3 DEF CutAt
<1>4. ASSUME NEW y \in 1 .. n + 1, TailMatches(s, p, y, j + 1),
             IF p[j] = Star THEN i <= y ELSE i <= n /\ s[i] = p[j] /\ y = i + 1
      PROVE  TailMatches(s, p, i, j)
  <2>1. PICK cut \in [1 .. m + 1 -> 1 .. n + 1] :
           /\ cut[j + 1] = y /\ cut[m + 1] = n + 1
           /\ \A x \in j + 1 .. m : CutAt(cut, s, p, x)
    BY <1>4 DEF TailMatches
  <2> DEFINE new == [cut EXCEPT ![j] = i]
  <2>2. /\ new \in [1 .. m + 1 -> 1 .. n + 1] /\ new[j] = i
        /\ \A x \in 1 .. m + 1 : x # j => new[x] = cut[x]
    BY <1>2, <2>1
  <2> HIDE DEF new
  <2>3. new[m + 1] = n + 1 /\ new[j + 1] = y
    BY <1>1, <1>2, <2>1, <2>2
  <2>4. CutAt(new, s, p, j)
    BY <1>2, <1>4, <2>2, <2>3 DEF CutAt
  <2>5. ASSUME NEW x \in j + 1 .. m PROVE CutAt(new, s, p, x)
    <3>1. x \in 1 .. m + 1 /\ x + 1 \in 1 .. m + 1 /\ x # j /\ x + 1 # j
      BY <1>1, <1>2
    <3>2. new[x] = cut[x] /\ new[x + 1] = cut[x + 1]
      BY <2>2, <3>1
    <3> QED
      BY <2>1, <3>2 DEF CutAt
  <2>6. \A x \in j .. m : x = j \/ x \in j + 1 .. m
    BY <1>1, <1>2
  <2> QED
    BY <2>2, <2>3, <2>4, <2>5, <2>6 DEF TailMatches
<1>5. CASE p[j] = Star
  <2>1. \A x \in i .. n + 1 : x \in 1 .. n + 1 /\ i <= x
    BY <1>1, <1>2
  <2> QED
    BY <1>3, <1>4, <1>5, <2>1
<1>6. CASE p[j] # Star
  <2>1. i <= n => i + 1 \in 1 .. n + 1
    BY <1>1, <1>2
  <2> QED
    BY <1>3, <1>4, <1>6, <2>1
<1> QED
  BY <1>5, <1>6

AfterStars(p, j) ==
    CHOOSE m \in j .. Len(p) + 1 :
        /\ m = Len(p) + 1 \/ p[m] # Star
        /\ \A n \in j .. m - 1 : p[n] = Star

\* The stars in a row that are skipped together stand for one piece.
LEMMA StarsInRow ==
    ASSUME NEW s \in Terms, NEW p \in Patterns,
           NEW i \in 1 .. Len(s) + 1, NEW j \in 1 .. Len(p), p[j] = Star
    PROVE  /\ AfterStars(p, j) \in j + 1 .. Len(p) + 1
           /\ TailMatches(s, p, i, j) <=>
                 \E x \in i .. Len(s) + 1 : TailMatches(s, p, x, AfterStars(p, j))
<1> DEFINE m == Len(p)
           n == Len(s)
           Ends == {a \in j .. m + 1 : a = m + 1 \/ p[a] # Star}
           a == AfterStars(p, j)
<1>1. m \in Nat /\ n \in Nat /\ j \in Nat /\ 1 <= j /\ j <= m
      /\ i \in Nat /\ 1 <= i
  BY DEF Terms, Patterns
<1>2. PICK e \in Ends : \A b \in Ends : e <= b
  <2>1. m + 1 \in Ends /\ Ends \subseteq Nat
    BY <1>1
  <2> HIDE DEF Ends
  <2> QED
    BY <2>1, NatMin
<1>3. \A x \in j .. e - 1 : p[x] = Star
  <2> SUFFICES ASSUME NEW x \in j .. e - 1, p[x] # Star PROVE FALSE
    OBVIOUS
  <2>1. x \in Ends /\ x < e /\ e \in Nat /\ x \in Nat
    BY <1>1, <1>2
  <2> HIDE DEF Ends
  <2>2. e <= x
    BY <1>2, <2>1
  <2> QED
    BY <2>1, <2>2
<1>4. a \in j .. m + 1 /\ (a = m + 1 \/ p[a] # Star) /\ \A x \in j .. a - 1 : p[x] = Star
  BY <1>2, <1>3 DEF AfterStars
<1> HIDE DEF a, Ends
<1>5. a \in j + 1 .. m + 1 /\ a \in Nat
  <2>1. a # j
    BY <1>1, <1>4
  <2> QED
    BY <1>1, <1>4, <2>1
<1> DEFINE Some(y) == \E x \in i .. n + 1 : TailMatches(s, p, x, y)
           Good == {d \in 1 .. a - j : Some(a - d) <=> Some(a)}
<1>6. ASSUME NEW y \in j .. a - 1 PROVE Some(y) <=> Some(y + 1)
  <2>1. p[y] = Star /\ y \in 1 .. m /\ y \in Nat
    BY <1>1, <1>4, <1>5
  <2>2. ASSUME NEW x \in i .. n + 1
        PROVE  TailMatches(s, p, x, y) <=> \E z \in x .. n + 1 : TailMatches(s, p, z, y + 1)
    <3>1. x \in 1 .. n + 1
      BY <1>1
    <3> QED
      BY <2>1, <3>1, TailFrom
  <2>3. \A x \in i .. n + 1 : x \in x .. n + 1 /\ \A z \in x .. n + 1 : z \in i .. n + 1
    BY <1>1
  <2> QED
    BY <2>2, <2>3
<1>7. \A d \in 1 .. a - j : d \in Good
  <2>0. a - j \in Nat /\ a - j > 0
    BY <1>1, <1>5
  <2>1. 1 \in Good
    <3>1. a - 1 \in j .. a - 1 /\ a - 1 + 1 = a /\ 1 \in 1 .. a - j
      BY <1>1, <1>5
    <3>2. Some(a - 1) <=> Some(a - 1 + 1)
      BY <1>6, <3>1
    <3> HIDE DEF Some
    <3> QED
      BY <3>1, <3>2
  <2>2. ASSUME NEW d \in 1 .. a - j, d \in Good, d < a - j PROVE d + 1 \in Good
    <3>1. a - (d + 1) \in j .. a - 1 /\ a - (d + 1) + 1 = a - d /\ d + 1 \in 1 .. a - j
      BY <1>1, <1>5, <2>2
    <3>2. Some(a - (d + 1)) <=> Some(a - (d + 1) + 1)
      BY <1>6, <3>1
    <3>3. Some(a - d) <=> Some(a)
      BY <2>2
    <3> HIDE DEF Some
    <3> QED
      BY <3>1, <3>2, <3>3
  <2> HIDE DEF Good
  <2> QED
    BY <2>0, <2>1, <2>2, UpTo
<1>8. Some(j) <=> Some(a)
  <2>1. a - j \in 1 .. a - j /\ a - (a - j) = j
    BY <1>1, <1>5
  <2>2. a - j \in Good
    BY <1>7, <2>1
  <2> HIDE DEF Some
  <2>3. Some(a - (a - j)) <=> Some(a)
    BY <2>2
  <2> QED
    BY <2>1, <2>3
<1>9. TailMatches(s, p, i, j) <=> Some(j)
  <2>1. TailMatches(s, p, i, j) <=> Some(j + 1)
    BY TailFrom
  <2>2. Some(j) <=> Some(j + 1)
    <3>1. j \in j .. a - 1
      BY <1>1, <1>5
    <3> QED
      BY <1>6, <3>1
  <2> HIDE DEF Some
  <2> QED
    BY <2>1, <2>2
<1> QED
  BY <1>5, <1>8, <1>9 DEF a

MatchStep(s, p, g) ==
    [r \in (1 .. Len(s) + 1) \X (1 .. Len(p) + 1) |->
        IF r[2] > Len(p) THEN r[1] > Len(s)
        ELSE IF p[r[2]] = Star
        THEN \E m \in r[1] .. Len(s) + 1 : g[<<m, AfterStars(p, r[2])>>]
        ELSE r[1] <= Len(s) /\ s[r[1]] = p[r[2]] /\ g[<<r[1] + 1, r[2] + 1>>]]

FindsEnd(s, p, g, i, j) ==
    \E m \in i .. Len(s) + 1 : g[<<m, AfterStars(p, j)>>]

LEMMA MatchStepAt ==
    ASSUME NEW s \in Terms, NEW p \in Patterns, NEW g,
           NEW i \in 1 .. Len(s) + 1, NEW j \in 1 .. Len(p) + 1
    PROVE  /\ j > Len(p) => (MatchStep(s, p, g)[<<i, j>>] <=> i > Len(s))
           /\ ~ (j > Len(p)) /\ p[j] = Star =>
                 (MatchStep(s, p, g)[<<i, j>>] <=> FindsEnd(s, p, g, i, j))
           /\ ~ (j > Len(p)) /\ p[j] # Star =>
                 (MatchStep(s, p, g)[<<i, j>>] <=>
                    i <= Len(s) /\ s[i] = p[j] /\ g[<<i + 1, j + 1>>])
           /\ MatchStep(s, p, g)[<<i, j>>] \in BOOLEAN
<1>1. <<i, j>> \in (1 .. Len(s) + 1) \X (1 .. Len(p) + 1)
  OBVIOUS
<1>2. MatchStep(s, p, g)[<<i, j>>] =
          IF j > Len(p) THEN i > Len(s)
          ELSE IF p[j] = Star
          THEN \E m \in i .. Len(s) + 1 : g[<<m, AfterStars(p, j)>>]
          ELSE i <= Len(s) /\ s[i] = p[j] /\ g[<<i + 1, j + 1>>]
  BY <1>1 DEF MatchStep
<1> DEFINE M == MatchStep(s, p, g)[<<i, j>>]
           A == i > Len(s)
           B == \E m \in i .. Len(s) + 1 : g[<<m, AfterStars(p, j)>>]
           C == i <= Len(s) /\ s[i] = p[j] /\ g[<<i + 1, j + 1>>]
<1>3. CASE j > Len(p)
  <2>1. M = A
    BY <1>2, <1>3, Zenon
  <2>2. M \in BOOLEAN /\ (M <=> A)
    <3>1. A \in BOOLEAN
      OBVIOUS
    <3> HIDE DEF M
    <3>2. M <=> A
      BY <2>1, Zenon
    <3> QED
      BY <2>1, <3>1, <3>2, Zenon
  <2> QED
    BY <1>3, <2>2, Zenon
<1>4. CASE ~ (j > Len(p)) /\ p[j] = Star
  <2>1. M = B
    BY <1>2, <1>4, Zenon
  <2>2. M \in BOOLEAN /\ (M <=> B)
    BY <2>1
  <2> QED
    BY <1>4, <2>2, Zenon DEF FindsEnd
<1>5. CASE ~ (j > Len(p)) /\ p[j] # Star
  <2>1. M = C
    BY <1>2, <1>5, Zenon
  <2>2. M \in BOOLEAN /\ (M <=> C)
    BY <2>1
  <2> QED
    BY <1>5, <2>2, Zenon
<1> QED
  BY <1>3, <1>4, <1>5

\* One step of the recursion of matchWildcard: it is right where the calls it
\* makes, with a later rune of the pattern, are.
LEMMA MatchStepRight ==
    ASSUME NEW s \in Terms, NEW p \in Patterns, NEW g,
           NEW i \in 1 .. Len(s) + 1, NEW j \in 1 .. Len(p) + 1,
           \A x \in 1 .. Len(s) + 1, y \in j + 1 .. Len(p) + 1 :
              g[<<x, y>>] <=> TailMatches(s, p, x, y)
    PROVE  MatchStep(s, p, g)[<<i, j>>] <=> TailMatches(s, p, i, j)
<1> DEFINE m == Len(p)
           n == Len(s)
           M == MatchStep(s, p, g)[<<i, j>>]
<1>1. m \in Nat /\ n \in Nat /\ i \in Nat /\ 1 <= i /\ i <= n + 1
      /\ j \in Nat /\ 1 <= j /\ j <= m + 1
  BY DEF Terms, Patterns
<1>3. CASE j = m + 1
  <2>1. M <=> i > n
    <3>1. j > m
      BY <1>1, <1>3
    <3> QED
      BY <3>1, MatchStepAt, Zenon
  <2>2. TailMatches(s, p, i, j) <=> i = n + 1
    BY <1>3, TailsOfAll
  <2>3. i > n <=> i = n + 1
    BY <1>1
  <2> QED
    BY <2>1, <2>2, <2>3, Zenon
<1>4. CASE j # m + 1 /\ p[j] = Star
  <2>1. j \in 1 .. m
    BY <1>1, <1>4
  <2>2. M <=> \E x \in i .. n + 1 : g[<<x, AfterStars(p, j)>>]
    <3>1. ~ (j > m)
      BY <1>1, <2>1
    <3>2. M <=> FindsEnd(s, p, g, i, j)
      BY <1>4, <3>1, MatchStepAt, Zenon
    <3> QED
      BY <3>2, Zenon DEF FindsEnd
  <2>3. /\ AfterStars(p, j) \in j + 1 .. m + 1
        /\ TailMatches(s, p, i, j) <=>
              \E x \in i .. n + 1 : TailMatches(s, p, x, AfterStars(p, j))
    BY <1>4, <2>1, StarsInRow
  <2>4. \A x \in i .. n + 1 : x \in 1 .. n + 1
    BY <1>1
  <2>5. \A x \in i .. n + 1 :
           g[<<x, AfterStars(p, j)>>] <=> TailMatches(s, p, x, AfterStars(p, j))
    BY <2>3, <2>4
  <2> QED
    BY <2>2, <2>3, <2>5, Zenon
<1>5. CASE j # m + 1 /\ p[j] # Star
  <2>1. j \in 1 .. m /\ j + 1 \in j + 1 .. m + 1
    BY <1>1, <1>5
  <2>2. M <=> i <= n /\ s[i] = p[j] /\ g[<<i + 1, j + 1>>]
    <3>1. ~ (j > m)
      BY <1>1, <2>1
    <3> QED
      BY <1>5, <3>1, MatchStepAt, Zenon
  <2>3. TailMatches(s, p, i, j) <=>
           i <= n /\ s[i] = p[j] /\ TailMatches(s, p, i + 1, j + 1)
    BY <1>5, <2>1, TailFrom
  <2>4. i <= n => i + 1 \in 1 .. n + 1
    BY <1>1
  <2>5. i <= n => (g[<<i + 1, j + 1>>] <=> TailMatches(s, p, i + 1, j + 1))
    BY <2>1, <2>4
  <2> QED
    BY <2>2, <2>3, <2>5, Zenon
<1> QED
  BY <1>3, <1>4, <1>5

\* matchWildcard finds a cut if there is one, and only then.
LEMMA MatchFinds ==
    ASSUME NEW s \in Terms, NEW p \in Patterns
    PROVE  MatchPattern(s, p) <=> Matches(s, p)
<1> DEFINE m == Len(p)
           n == Len(s)
           D == (1 .. n + 1) \X (1 .. m + 1)
           g == [r \in D |-> TailMatches(s, p, r[1], r[2])]
<1>1. m \in Nat /\ n \in Nat
  BY DEF Terms, Patterns
<1>2. g = MatchStep(s, p, g)
  <2>1. \A x \in 1 .. n + 1, y \in 1 .. m + 1 : <<x, y>> \in D
    OBVIOUS
  <2>2. \A x \in 1 .. n + 1, y \in 1 .. m + 1 :
           g[<<x, y>>] \in BOOLEAN /\ (g[<<x, y>>] <=> TailMatches(s, p, x, y))
    BY <2>1 DEF TailMatches
  <2>3. g = [r \in D |-> g[r]]
    OBVIOUS
  <2> HIDE DEF g
  <2>4. ASSUME NEW r \in D PROVE g[r] = MatchStep(s, p, g)[r]
    <3>1. PICK i \in 1 .. n + 1, j \in 1 .. m + 1 : r = <<i, j>>
      OBVIOUS
    <3>2. \A x \in 1 .. n + 1, y \in j + 1 .. m + 1 :
             g[<<x, y>>] <=> TailMatches(s, p, x, y)
      <4>1. \A y \in j + 1 .. m + 1 : y \in 1 .. m + 1
        BY <1>1
      <4> QED
        BY <2>2, <4>1
    <3>3. MatchStep(s, p, g)[<<i, j>>] <=> TailMatches(s, p, i, j)
      BY <3>2, MatchStepRight
    <3>4. MatchStep(s, p, g)[<<i, j>>] \in BOOLEAN
      BY MatchStepAt
    <3>5. g[<<i, j>>] \in BOOLEAN /\ (g[<<i, j>>] <=> TailMatches(s, p, i, j))
      BY <2>2
    <3> QED
      BY <3>1, <3>3, <3>4, <3>5
  <2>5. MatchStep(s, p, g) = [r \in D |-> MatchStep(s, p, g)[r]]
    BY DEF MatchStep
  <2> QED
    BY <2>3, <2>4, <2>5, Zenon
<1> DEFINE h == CHOOSE f : f = MatchStep(s, p, f)
<1>3. h = MatchStep(s, p, h)
  BY <1>2
<1>4. MatchPattern(s, p) = h[<<1, 1>>]
  BY DEF MatchPattern, MatchStep, AfterStars
<1> HIDE DEF h, g
<1> DEFINE Good == {d \in 1 .. m + 1 :
                       \A y \in m + 2 - d .. m + 1, x \in 1 .. n + 1 :
                           h[<<x, y>>] <=> TailMatches(s, p, x, y)}
<1>5. ASSUME NEW y \in 1 .. m + 1,
             \A x \in 1 .. n + 1, z \in y + 1 .. m + 1 :
                h[<<x, z>>] <=> TailMatches(s, p, x, z)
      PROVE  \A x \in 1 .. n + 1 : h[<<x, y>>] <=> TailMatches(s, p, x, y)
  BY <1>3, <1>5, MatchStepRight
<1>6. \A d \in 1 .. m + 1 : d \in Good
  <2>1. ASSUME NEW d \in 1 .. m + 1,
               \A y \in m + 3 - d .. m + 1, x \in 1 .. n + 1 :
                  h[<<x, y>>] <=> TailMatches(s, p, x, y)
        PROVE  d \in Good
    <3> DEFINE y == m + 2 - d
    <3>1. y \in 1 .. m + 1 /\ y \in Nat /\ m + 3 - d = y + 1
          /\ \A z \in y .. m + 1 : z = y \/ z \in y + 1 .. m + 1
      BY <1>1
    <3> HIDE DEF y
    <3>2. \A x \in 1 .. n + 1 : h[<<x, y>>] <=> TailMatches(s, p, x, y)
      BY <1>5, <2>1, <3>1
    <3>3. \A z \in y .. m + 1, x \in 1 .. n + 1 : h[<<x, z>>] <=> TailMatches(s, p, x, z)
      BY <2>1, <3>1, <3>2
    <3> QED
      BY <3>3 DEF y
  <2>2. 1 \in Good
    <3>1. 1 \in 1 .. m + 1 /\ \A y \in m + 3 - 1 .. m + 1 : FALSE
      BY <1>1
    <3> HIDE DEF Good
    <3> QED
      BY <2>1, <3>1
  <2>3. ASSUME NEW d \in 1 .. m + 1, d \in Good, d < m + 1 PROVE d + 1 \in Good
    <3>1. d + 1 \in 1 .. m + 1 /\ m + 3 - (d + 1) = m + 2 - d
      BY <1>1, <2>3
    <3>2. \A y \in m + 2 - d .. m + 1, x \in 1 .. n + 1 :
             h[<<x, y>>] <=> TailMatches(s, p, x, y)
      BY <2>3
    <3> HIDE DEF Good
    <3> QED
      BY <2>1, <3>1, <3>2
  <2>4. m + 1 \in Nat
    BY <1>1
  <2> HIDE DEF Good
  <2> QED
    BY <2>2, <2>3, <2>4, UpTo
<1>7. h[<<1, 1>>] <=> TailMatches(s, p, 1, 1)
  <2>1. m + 1 \in 1 .. m + 1 /\ 1 \in m + 2 - (m + 1) .. m + 1 /\ 1 \in 1 .. n + 1
    BY <1>1
  <2>2. m + 1 \in Good
    BY <1>6, <2>1
  <2>3. \A y \in m + 2 - (m + 1) .. m + 1, x \in 1 .. n + 1 :
           h[<<x, y>>] <=> TailMatches(s, p, x, y)
    BY <2>2
  <2> QED
    BY <2>1, <2>3
<1> QED
  BY <1>4, <1>7, TailsOfAll

\* A search for a pattern with a k-gram returns the ids of the terms that match
\* it: "Search returns featureIDs of indexed terms that match the wildcard
\* pattern" (kgram/index.go:10).  The posting lists of its grams have them all,
\* and matchWildcard, which tries every end for a star, tells them from the
\* others.
PatternsExact ==
    \A p \in Patterns :
        ExtractFromPattern(p) # {} =>
            KgramSearch(p) = {f \in DOMAIN termByID : Matches(termByID[f], p)}

THEOREM PatternsFound == KgramSpec => []PatternsExact
<1>1. ASSUME KgramInv PROVE PatternsExact
  <2> SUFFICES ASSUME NEW p \in Patterns, ExtractFromPattern(p) # {}
               PROVE  KgramSearch(p) =
                          {f \in DOMAIN termByID : Matches(termByID[f], p)}
    BY DEF PatternsExact
  <2>1. \A f \in DOMAIN termByID : termByID[f] \in Terms
    BY <1>1 DEF KgramInv, KgramTypeOK
  <2>2. \A f \in DOMAIN termByID : MatchPattern(termByID[f], p) <=> Matches(termByID[f], p)
    BY <2>1, MatchFinds
  <2>3. {f \in DOMAIN termByID : Matches(termByID[f], p)} \subseteq Candidates(p)
    BY <1>1, CandidatesHave DEF CandidatesComplete
  <2> QED
    BY <2>2, <2>3 DEF KgramSearch, Candidates
<1> QED
  BY <1>1, KgramPostings, PTL
=============================================================================
