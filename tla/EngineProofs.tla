---------------------------- MODULE EngineProofs ----------------------------
(***************************************************************************)
(* Proofs about Engine, for every set of files, every configuration and    *)
(* every number of documents.                                              *)
(***************************************************************************)
EXTENDS Engine, KgramProofs

LOCAL INSTANCE SequencesExt

-----------------------------------------------------------------------------
(* The binary search of the date indexes.                                  *)

Step(n, ok, g) ==
    [r \in (0 .. n) \X (0 .. n) |->
        IF r[1] >= r[2] THEN r[1]
        ELSE IF ~ok[(r[1] + r[2]) \div 2 + 1]
        THEN g[<<(r[1] + r[2]) \div 2 + 1, r[2]>>]
        ELSE g[<<r[1], (r[1] + r[2]) \div 2>>]]

LEMMA StepAt ==
    ASSUME NEW n \in Nat, NEW ok, NEW g, NEW a \in 0 .. n, NEW b \in 0 .. n
    PROVE  /\ a >= b => Step(n, ok, g)[<<a, b>>] = a
           /\ a < b => Step(n, ok, g)[<<a, b>>] =
                           IF ~ok[(a + b) \div 2 + 1]
                           THEN g[<<(a + b) \div 2 + 1, b>>]
                           ELSE g[<<a, (a + b) \div 2>>]
<1>1. <<a, b>> \in (0 .. n) \X (0 .. n)
  OBVIOUS
<1> QED
  BY <1>1 DEF Step

\* The middle of an interval that is not empty is in it.
LEMMA Middle ==
    ASSUME NEW a \in Nat, NEW b \in Nat, a < b
    PROVE  /\ (a + b) \div 2 \in Nat
           /\ a <= (a + b) \div 2 /\ (a + b) \div 2 < b
  OBVIOUS

\* Where the values of ok turn from FALSE to TRUE.
LEMMA Turn ==
    ASSUME NEW n \in Nat, NEW ok \in [1 .. n -> BOOLEAN],
           \A i, j \in 1 .. n : i <= j /\ ok[i] => ok[j]
    PROVE  \E p \in 0 .. n : \A i \in 1 .. n : ok[i] <=> p < i
<1> DEFINE S == {i \in 0 .. n : i = n \/ ok[i + 1]}
<1>1. S \subseteq Nat /\ n \in S
  OBVIOUS
<1>2. PICK p \in S : \A i \in S : p <= i
  <2> HIDE DEF S
  <2> QED
    BY <1>1, NatMin
<1>3. ASSUME NEW i \in 1 .. n, ok[i] PROVE p < i
  <2>1. i - 1 \in 0 .. n /\ ok[i - 1 + 1]
    BY <1>3
  <2>2. i - 1 \in S
    BY <2>1
  <2> HIDE DEF S
  <2>3. p <= i - 1 /\ p \in Nat
    BY <1>1, <1>2, <2>2
  <2> QED
    BY <2>3
<1>4. ASSUME NEW i \in 1 .. n, p < i PROVE ok[i]
  <2>1. p # n /\ p \in 0 .. n
    BY <1>2, <1>4
  <2>2. ok[p + 1] /\ p + 1 \in 1 .. n /\ p + 1 <= i
    BY <1>2, <1>4, <2>1
  <2> QED
    BY <2>2
<1> QED
  BY <1>2, <1>3, <1>4

\* sort.Search finds it: the loop ends at the first position at which ok holds.
LEMMA SearchFinds ==
    ASSUME NEW n \in Nat, NEW ok \in [1 .. n -> BOOLEAN],
           \A i, j \in 1 .. n : i <= j /\ ok[i] => ok[j]
    PROVE  /\ SortSearch(n, ok) \in 1 .. n + 1
           /\ \A i \in 1 .. n : ok[i] <=> SortSearch(n, ok) <= i
<1> DEFINE D == (0 .. n) \X (0 .. n)
<1>1. PICK p \in 0 .. n : \A i \in 1 .. n : ok[i] <=> p < i
  BY Turn
<1> DEFINE g == [r \in D |-> IF r[1] >= r[2] THEN r[1]
                             ELSE IF p <= r[1] THEN r[1]
                             ELSE IF r[2] <= p THEN r[2] ELSE p]
<1>2. \A a, b \in 0 .. n :
         g[<<a, b>>] = IF a >= b THEN a ELSE IF p <= a THEN a
                       ELSE IF b <= p THEN b ELSE p
  OBVIOUS
<1>3. g = [r \in D |-> g[r]]
  OBVIOUS
<1> HIDE DEF g
<1>4. g = Step(n, ok, g)
  <2>1. ASSUME NEW a \in 0 .. n, NEW b \in 0 .. n
        PROVE  g[<<a, b>>] = Step(n, ok, g)[<<a, b>>]
    <3> DEFINE m == (a + b) \div 2
    <3>1. CASE a >= b
      <4>1. Step(n, ok, g)[<<a, b>>] = a
        BY <3>1, StepAt
      <4>2. g[<<a, b>>] = a
        BY <1>2, <3>1
      <4> QED
        BY <4>1, <4>2
    <3>2. CASE a < b
      <4>1. m \in Nat /\ a <= m /\ m < b
        BY <3>2, Middle
      <4>2. m + 1 \in 1 .. n /\ m + 1 \in 0 .. n /\ m \in 0 .. n
        BY <4>1
      <4>3. Step(n, ok, g)[<<a, b>>] = IF ~ok[m + 1] THEN g[<<m + 1, b>>]
                                                    ELSE g[<<a, m>>]
        BY <3>2, StepAt
      <4> HIDE DEF m
      <4>4. ok[m + 1] <=> p < m + 1
        BY <1>1, <4>2
      <4>5. g[<<m + 1, b>>] = IF m + 1 >= b THEN m + 1
                               ELSE IF p <= m + 1 THEN m + 1
                               ELSE IF b <= p THEN b ELSE p
        BY <1>2, <4>2
      <4>6. g[<<a, m>>] = IF a >= m THEN a ELSE IF p <= a THEN a
                           ELSE IF m <= p THEN m ELSE p
        BY <1>2, <4>2
      <4>7. g[<<a, b>>] = IF p <= a THEN a ELSE IF b <= p THEN b ELSE p
        BY <1>2, <3>2
      <4> QED
        BY <4>1, <4>3, <4>4, <4>5, <4>6, <4>7
    <3> QED
      BY <3>1, <3>2
  <2>2. \A r \in D : g[r] = Step(n, ok, g)[r]
    BY <2>1
  <2>3. Step(n, ok, g) = [r \in D |-> Step(n, ok, g)[r]]
    BY DEF Step
  <2> QED
    BY <1>3, <2>2, <2>3, Zenon
<1> DEFINE h == CHOOSE f : f = Step(n, ok, f)
<1>5. h = Step(n, ok, h)
  BY <1>4
<1>6. SortSearch(n, ok) = h[<<0, n>>] + 1
  BY DEF SortSearch, Step
<1> HIDE DEF h
<1>7. ASSUME NEW a \in 0 .. n, NEW b \in 0 .. n
      PROVE  /\ a >= b => h[<<a, b>>] = a
             /\ a < b => h[<<a, b>>] = IF ~ok[(a + b) \div 2 + 1]
                                       THEN h[<<(a + b) \div 2 + 1, b>>]
                                       ELSE h[<<a, (a + b) \div 2>>]
  <2>1. h[<<a, b>>] = Step(n, ok, h)[<<a, b>>]
    BY <1>5, Zenon
  <2>2. a >= b => Step(n, ok, h)[<<a, b>>] = a
    BY StepAt
  <2>3. a < b => Step(n, ok, h)[<<a, b>>] = IF ~ok[(a + b) \div 2 + 1]
                                            THEN h[<<(a + b) \div 2 + 1, b>>]
                                            ELSE h[<<a, (a + b) \div 2>>]
    BY StepAt
  <2> QED
    BY <2>1, <2>2, <2>3
<1>8. ASSUME NEW a \in 0 .. n, NEW b \in 0 .. n, a <= p, p <= b PROVE h[<<a, b>>] = p
  <2> DEFINE Bad == {d \in Nat : \E r \in D : /\ r[1] <= p /\ p <= r[2]
                                              /\ d = r[2] - r[1] /\ h[r] # p}
  <2>1. ASSUME Bad # {} PROVE FALSE
    <3>1. PICK d \in Bad : \A e \in Bad : d <= e
      <4>1. Bad \subseteq Nat
        OBVIOUS
      <4> HIDE DEF Bad
      <4> QED
        BY <2>1, <4>1, NatMin
    <3>2. PICK r \in D : r[1] <= p /\ p <= r[2] /\ d = r[2] - r[1] /\ h[r] # p
      BY <3>1
    <3>3. PICK x \in 0 .. n, y \in 0 .. n : r = <<x, y>>
      BY <3>2
    <3> DEFINE m == (x + y) \div 2
    <3>4. x <= p /\ p <= y /\ d = y - x /\ h[<<x, y>>] # p
      BY <3>2, <3>3
    <3>5. x < y
      <4>1. x >= y => h[<<x, y>>] = x
        BY <1>7
      <4> QED
        BY <3>4, <4>1
    <3>6. m \in Nat /\ x <= m /\ m < y
      BY <3>5, Middle
    <3>7. m + 1 \in 1 .. n /\ m + 1 \in 0 .. n /\ m \in 0 .. n
      BY <3>6
    <3>8. h[<<x, y>>] = IF ~ok[m + 1] THEN h[<<m + 1, y>>] ELSE h[<<x, m>>]
      BY <1>7, <3>5
    <3> HIDE DEF m
    <3>9. ok[m + 1] <=> p < m + 1
      BY <1>1, <3>7
    <3>10. CASE ok[m + 1]
      <4>1. p <= m /\ h[<<x, m>>] # p
        BY <3>4, <3>7, <3>8, <3>9, <3>10
      <4>2. m - x \in Bad
        <5>1. <<x, m>> \in D /\ m - x \in Nat /\ x <= p
          BY <3>4, <3>6, <3>7, SMTT(40)
        <5> QED
          BY <4>1, <5>1
      <4> HIDE DEF Bad
      <4> QED
        BY <3>1, <3>4, <3>6, <3>7, <4>2
    <3>11. CASE ~ok[m + 1]
      <4>1. m + 1 <= p /\ h[<<m + 1, y>>] # p
        BY <3>4, <3>7, <3>8, <3>9, <3>11
      <4>2. y - (m + 1) \in Bad
        <5>1. <<m + 1, y>> \in D /\ y - (m + 1) \in Nat /\ p <= y
          BY <3>4, <3>6, <3>7, SMTT(40)
        <5> QED
          BY <4>1, <5>1
      <4> HIDE DEF Bad
      <4> QED
        BY <3>1, <3>4, <3>6, <3>7, <4>2, SMTT(40)
    <3> QED
      BY <3>10, <3>11
  <2>2. b - a \in Nat /\ <<a, b>> \in D
    BY <1>8
  <2>3. ASSUME h[<<a, b>>] # p PROVE b - a \in Bad
    BY <1>8, <2>2, <2>3
  <2> QED
    BY <2>1, <2>3
<1>9. h[<<0, n>>] = p
  BY <1>8
<1> QED
  BY <1>1, <1>6, <1>9

-----------------------------------------------------------------------------
(* Date indexes: the entries are in the order of their days, so that the   *)
(* searches for an interval find the entries whose days are in it.         *)

DayEntries == [day : Int, docID : Nat]

Sorted(entries) ==
    \A i, j \in 1 .. Len(entries) : i <= j => entries[i].day <= entries[j].day

Listed(entries) == {entries[i] : i \in 1 .. Len(entries)}

LEMMA EntryTypes ==
    ASSUME NEW entries \in Seq(DayEntries)
    PROVE  /\ Len(entries) \in Nat /\ DOMAIN entries = 1 .. Len(entries)
           /\ \A i \in 1 .. Len(entries) : /\ entries[i] \in DayEntries
                                          /\ entries[i].day \in Int
                                          /\ entries[i].docID \in Nat
<1>1. \A i \in 1 .. Len(entries) : entries[i] \in DayEntries
  OBVIOUS
<1>2. \A e \in DayEntries : e.day \in Int /\ e.docID \in Nat
  BY DEF DayEntries
<1> QED
  BY <1>1, <1>2

LEMMA DayFound ==
    ASSUME NEW entries \in Seq(DayEntries), Sorted(entries), NEW day \in Int
    PROVE  /\ SearchDay(entries, day) \in 1 .. Len(entries) + 1
           /\ \A i \in 1 .. Len(entries) :
                 entries[i].day >= day <=> SearchDay(entries, day) <= i
<1> DEFINE n == Len(entries)
           ok == [j \in DOMAIN entries |-> entries[j].day >= day]
<1>1. n \in Nat /\ DOMAIN entries = 1 .. n
      /\ \A i \in 1 .. n : entries[i].day \in Int
  BY EntryTypes
<1>2. \A i \in 1 .. n : ok[i] = (entries[i].day >= day)
  BY <1>1
<1>3. ok \in [1 .. n -> BOOLEAN]
  BY <1>1
<1>4. SearchDay(entries, day) = SortSearch(n, ok)
  BY DEF SearchDay
<1> HIDE DEF ok
<1>5. ASSUME NEW i \in 1 .. n, NEW j \in 1 .. n, i <= j, ok[i] PROVE ok[j]
  <2>1. entries[i].day >= day /\ entries[i].day <= entries[j].day
    BY <1>2, <1>5 DEF Sorted
  <2>2. entries[j].day >= day
    BY <1>1, <2>1
  <2> QED
    BY <1>2, <2>2
<1> HIDE DEF n
<1>6. /\ SortSearch(n, ok) \in 1 .. n + 1
      /\ \A i \in 1 .. n : ok[i] <=> SortSearch(n, ok) <= i
  BY <1>1, <1>3, <1>5, SearchFinds
<1>7. \A i \in 1 .. n : entries[i].day >= day <=> SortSearch(n, ok) <= i
  BY <1>2, <1>6
<1> QED
  BY <1>4, <1>6, <1>7 DEF n

\* Add keeps the order, and adds the entry.
LEMMA InsertKeepsOrder ==
    ASSUME NEW entries \in Seq(DayEntries), Sorted(entries),
           NEW day \in Int, NEW docID \in Nat
    PROVE  /\ Insert(entries, day, docID) \in Seq(DayEntries)
           /\ Sorted(Insert(entries, day, docID))
           /\ Listed(Insert(entries, day, docID)) =
                 Listed(entries) \cup {[day |-> day, docID |-> docID]}
<1> DEFINE n == Len(entries)
           p == SearchDay(entries, day)
           e == [day |-> day, docID |-> docID]
           s == Insert(entries, day, docID)
<1>1. n \in Nat /\ e \in DayEntries /\ e.day = day
  BY DEF DayEntries
<1>2. p \in 1 .. n + 1 /\ \A i \in 1 .. n : entries[i].day >= day <=> p <= i
  BY DayFound
<1>3. \A i \in 1 .. n : entries[i] \in DayEntries /\ entries[i].day \in Int
  BY EntryTypes
<1>4. s = SubSeq(entries, 1, p - 1) \o <<e>> \o SubSeq(entries, p, n)
  BY DEF Insert, InsertAt
<1> HIDE DEF p, e, s
<1> DEFINE a == SubSeq(entries, 1, p - 1)
           b == SubSeq(entries, p, n)
<1>5. /\ a \in Seq(DayEntries) /\ Len(a) = p - 1
      /\ \A i \in 1 .. p - 1 : a[i] = entries[i]
  BY <1>1, <1>2, <1>3, SubSeqProperties
<1>6. /\ b \in Seq(DayEntries) /\ Len(b) = n - p + 1
      /\ \A i \in 1 .. n - p + 1 : b[i] = entries[p + i - 1]
  BY <1>1, <1>2, <1>3, SubSeqProperties
<1> HIDE DEF a, b
<1>7. s \in Seq(DayEntries) /\ Len(s) = n + 1
      /\ \A i \in 1 .. n + 1 : s[i] = IF i < p THEN entries[i]
                                       ELSE IF i = p THEN e ELSE entries[i - 1]
  <2> DEFINE c == a \o <<e>>
  <2>1. s = c \o b
    BY <1>4 DEF a, b
  <2>2. a \o <<e>> \in Seq(DayEntries) /\ Len(a \o <<e>>) = p
        /\ \A i \in 1 .. p : (a \o <<e>>)[i] = IF i < p THEN entries[i] ELSE e
    BY <1>1, <1>2, <1>5
  <2> HIDE DEF c
  <2>3. c \in Seq(DayEntries) /\ Len(c) = p
        /\ \A i \in 1 .. p : c[i] = IF i < p THEN entries[i] ELSE e
    BY <2>2 DEF c
  <2>4. c \o b \in Seq(DayEntries) /\ Len(c \o b) = p + (n - p + 1)
        /\ \A i \in 1 .. p + (n - p + 1) :
               (c \o b)[i] = IF i <= p THEN c[i] ELSE b[i - p]
    <3>1. /\ c \o b \in Seq(DayEntries) /\ Len(c \o b) = Len(c) + Len(b)
          /\ \A i \in 1 .. Len(c) + Len(b) :
                 (c \o b)[i] = IF i <= Len(c) THEN c[i] ELSE b[i - Len(c)]
      BY <1>6, <2>3, ConcatProperties, Zenon
    <3> QED
      BY <1>6, <2>3, <3>1, Zenon
  <2>5. p + (n - p + 1) = n + 1
    BY <1>1, <1>2
  <2>6. \A i \in 1 .. n + 1 :
            i > p => i - p \in 1 .. n - p + 1 /\ b[i - p] = entries[i - 1]
    BY <1>1, <1>2, <1>6
  <2>7. \A i \in 1 .. n + 1 : i <= p => i \in 1 .. p
    OBVIOUS
  <2>8. s \in Seq(DayEntries) /\ Len(s) = n + 1
        /\ \A i \in 1 .. n + 1 : s[i] = IF i <= p THEN c[i] ELSE b[i - p]
    BY <2>1, <2>4, <2>5
  <2>9. \A i \in 1 .. n + 1 :
            s[i] = IF i < p THEN entries[i]
                   ELSE IF i = p THEN e ELSE entries[i - 1]
    <3> SUFFICES ASSUME NEW i \in 1 .. n + 1
                 PROVE  s[i] = IF i < p THEN entries[i]
                               ELSE IF i = p THEN e ELSE entries[i - 1]
      OBVIOUS
    <3>1. CASE i <= p
      <4>1. s[i] = c[i] /\ i \in 1 .. p
        BY <2>7, <2>8, <3>1
      <4> QED
        BY <1>2, <2>3, <3>1, <4>1
    <3>2. CASE i > p
      <4>1. s[i] = b[i - p]
        BY <1>2, <2>8, <3>2
      <4> QED
        BY <1>2, <2>6, <3>2, <4>1
    <3> QED
      BY <1>2, <3>1, <3>2
  <2> QED
    BY <2>8, <2>9
<1>8. Sorted(s)
  <2> SUFFICES ASSUME NEW i \in 1 .. n + 1, NEW j \in 1 .. n + 1, i <= j
               PROVE  s[i].day <= s[j].day
    BY <1>7 DEF Sorted
  <2>1. CASE j < p
    <3>1. i \in 1 .. n /\ j \in 1 .. n /\ s[i] = entries[i] /\ s[j] = entries[j]
      BY <1>2, <1>7, <2>1
    <3> QED
      BY <3>1 DEF Sorted
  <2>2. CASE j = p /\ i < p
    <3>1. i \in 1 .. n /\ s[i] = entries[i] /\ s[j] = e
      BY <1>2, <1>7, <2>2
    <3> QED
      BY <1>1, <1>2, <1>3, <2>2, <3>1
  <2>3. CASE j = p /\ i = p
    BY <1>1, <1>7, <2>3
  <2>4. CASE j > p /\ i < p
    <3>1. i \in 1 .. n /\ j - 1 \in 1 .. n /\ i <= j - 1
          /\ s[i] = entries[i] /\ s[j] = entries[j - 1]
      BY <1>2, <1>7, <2>4
    <3> QED
      BY <3>1 DEF Sorted
  <2>5. CASE j > p /\ i = p
    <3>1. j - 1 \in 1 .. n /\ p <= j - 1 /\ s[i] = e /\ s[j] = entries[j - 1]
      BY <1>2, <1>7, <2>5
    <3> QED
      BY <1>1, <1>2, <1>3, <3>1
  <2>6. CASE j > p /\ i > p
    <3>1. i - 1 \in 1 .. n /\ j - 1 \in 1 .. n /\ i - 1 <= j - 1
          /\ s[i] = entries[i - 1] /\ s[j] = entries[j - 1]
      BY <1>2, <1>7, <2>6
    <3> QED
      BY <3>1 DEF Sorted
  <2> QED
    BY <1>2, <2>1, <2>2, <2>3, <2>4, <2>5, <2>6
<1>9. Listed(s) = Listed(entries) \cup {e}
  <2>1. \A i \in 1 .. n + 1 : s[i] \in Listed(entries) \cup {e}
    <3> SUFFICES ASSUME NEW i \in 1 .. n + 1, i # p
                 PROVE  s[i] \in Listed(entries)
      BY <1>2, <1>7
    <3>1. CASE i < p
      BY <1>2, <1>7, <3>1 DEF Listed
    <3>2. CASE i > p
      <4>1. i - 1 \in 1 .. n /\ s[i] = entries[i - 1]
        BY <1>2, <1>7, <3>2
      <4> QED
        BY <4>1 DEF Listed
    <3> QED
      BY <1>2, <3>1, <3>2
  <2>2. ASSUME NEW i \in 1 .. n PROVE entries[i] \in Listed(s)
    <3>1. CASE i < p
      <4>1. i \in 1 .. n + 1 /\ s[i] = entries[i]
        BY <1>2, <1>7, <3>1
      <4> QED
        BY <1>7, <4>1 DEF Listed
    <3>2. CASE i >= p
      <4>1. i + 1 \in 1 .. n + 1 /\ s[i + 1] = entries[i]
        BY <1>2, <1>7, <3>2
      <4> QED
        BY <1>7, <4>1 DEF Listed
    <3> QED
      BY <1>2, <3>1, <3>2
  <2>3. e \in Listed(s)
    BY <1>2, <1>7 DEF Listed
  <2>4. Listed(s) \subseteq Listed(entries) \cup {e}
    BY <1>7, <2>1 DEF Listed
  <2>5. Listed(entries) \subseteq Listed(s)
    BY <2>2 DEF Listed
  <2> QED
    BY <2>3, <2>4, <2>5
<1> QED
  BY <1>7, <1>8, <1>9 DEF s, e

\* The documents of the entries that satisfy a condition.
DocsOf(entries, from, to) ==
    {e.docID : e \in {e \in Listed(entries) : from <= e.day /\ e.day <= to}}

\* From the first entry of an interval on, the documents up to the last one.
LEMMA RunIs ==
    ASSUME NEW entries \in Seq(DayEntries), Sorted(entries),
           NEW lo \in 1 .. Len(entries) + 1, NEW to \in Int
    PROVE  Run(entries, lo, to) =
               {entries[i].docID : i \in {i \in lo .. Len(entries) :
                                             entries[i].day <= to}}
<1> DEFINE n == Len(entries)
<1>1. \A i \in 1 .. n : entries[i].day \in Int
  BY EntryTypes
<1>2. ASSUME NEW i \in lo .. n
      PROVE  (\A j \in lo .. i : entries[j].day <= to) <=> entries[i].day <= to
  <2>1. i \in lo .. i /\ i \in 1 .. n
    OBVIOUS
  <2>2. ASSUME entries[i].day <= to, NEW j \in lo .. i PROVE entries[j].day <= to
    <3>1. j \in 1 .. n /\ j <= i
      OBVIOUS
    <3>2. entries[j].day <= entries[i].day
      BY <2>1, <3>1 DEF Sorted
    <3> QED
      BY <1>1, <2>1, <2>2, <3>1, <3>2
  <2> QED
    BY <2>1, <2>2
<1> QED
  BY <1>2 DEF Run

LEMMA DayRangeIs ==
    ASSUME NEW entries \in Seq(DayEntries), Sorted(entries),
           NEW from \in Int, NEW to \in Int
    PROVE  DayRange(entries, from, to) = DocsOf(entries, from, to)
<1> DEFINE n == Len(entries)
           p == SearchDay(entries, from)
<1>1. p \in 1 .. n + 1 /\ \A i \in 1 .. n : entries[i].day >= from <=> p <= i
  BY DayFound
<1>2. DayRange(entries, from, to) =
          {entries[i].docID : i \in {i \in p .. n : entries[i].day <= to}}
  BY <1>1, RunIs DEF DayRange
<1>3. \A i \in 1 .. n : entries[i].day \in Int
  BY EntryTypes
<1>4. \A i \in 1 .. n : i \in p .. n <=> from <= entries[i].day
  BY <1>1, <1>3
<1>5. p .. n \subseteq 1 .. n
  BY <1>1
<1> HIDE DEF n, p
<1> QED
  BY <1>2, <1>4, <1>5 DEF DocsOf, Listed, n

LEMMA LeBitmapIs ==
    ASSUME NEW entries \in Seq(DayEntries), Sorted(entries), NEW d \in Int
    PROVE  LeBitmap(entries, d) =
               {e.docID : e \in {e \in Listed(entries) : e.day <= d}}
<1>1. 1 \in 1 .. Len(entries) + 1
  OBVIOUS
<1> QED
  BY <1>1, RunIs DEF LeBitmap, Listed

LEMMA GeBitmapIs ==
    ASSUME NEW entries \in Seq(DayEntries), Sorted(entries), NEW d \in Int
    PROVE  GeBitmap(entries, d) =
               {e.docID : e \in {e \in Listed(entries) : d <= e.day}}
<1> DEFINE n == Len(entries)
           p == SearchDay(entries, d)
<1>1. p \in 1 .. n + 1 /\ \A i \in 1 .. n : entries[i].day >= d <=> p <= i
  BY DayFound
<1>2. \A i \in 1 .. n : entries[i].day \in Int
  BY EntryTypes
<1>3. \A i \in 1 .. n : i \in p .. n <=> d <= entries[i].day
  BY <1>1, <1>2
<1>4. p .. n \subseteq 1 .. n
  BY <1>1
<1>5. GeBitmap(entries, d) = {entries[i].docID : i \in p .. n}
  BY DEF GeBitmap
<1> HIDE DEF n, p
<1> QED
  BY <1>3, <1>4, <1>5 DEF Listed, n

-----------------------------------------------------------------------------
(* The date indexes of the engine.                                         *)

\* The quotient of a division is the only number that it can be.
LEMMA QuotientIs ==
    ASSUME NEW n \in Nat, n # 0, NEW t \in Int, NEW q \in Int,
           n * q <= t, t < n * q + n
    PROVE  t \div n = q
<1> DEFINE r == t \div n
<1>1. r \in Int /\ n * r <= t /\ t < n * r + n
  OBVIOUS
<1> HIDE DEF r
<1>2. ASSUME r < q PROVE FALSE
  <2>1. n * (r + 1) <= n * q /\ n * (r + 1) = n * r + n
    BY <1>1, <1>2
  <2> QED
    BY <1>1, <2>1
<1>3. ASSUME q < r PROVE FALSE
  <2>1. n * (q + 1) <= n * r /\ n * (q + 1) = n * q + n
    BY <1>1, <1>3
  <2> QED
    BY <1>1, <2>1
<1>4. r = q
  BY <1>1, <1>2, <1>3
<1> QED
  BY <1>4 DEF r

\* Go's division and the day agree on the times of documents.
LEMMA DayIs ==
    ASSUME NEW t \in Times
    PROVE  DayFromTime(t) = Day(t) /\ Day(t) \in Int
<1> DEFINE n == SecondsPerDay
<1>1. n \in Nat /\ n # 0 /\ t \in Int /\ (t >= 0 \/ t % n = 0)
  BY DateIndexAssumption, EngineAssumption
<1>2. Day(t) = t \div n /\ DayFromTime(t) = IF t >= 0 THEN t \div n ELSE -((-t) \div n)
  BY DEF Day, DayFromTime, GoDiv
<1> HIDE DEF n
<1>3. t \div n \in Int
  BY <1>1
<1>4. ASSUME ~(t >= 0) PROVE -((-t) \div n) = t \div n
  <2> DEFINE q == t \div n
  <2>1. q \in Int /\ t = n * q + (t % n)
    BY <1>1
  <2> HIDE DEF q
  <2>2. t = n * q
    BY <1>1, <1>4, <2>1
  <2>3. -t = n * (-q)
    BY <1>1, <2>1, <2>2
  <2>4. (-t) \div n = -q
    <3>1. n * (-q) <= -t /\ -t < n * (-q) + n /\ -t \in Int /\ -q \in Int
      BY <1>1, <2>1, <2>3
    <3> QED
      BY <1>1, <3>1, QuotientIs
  <2>5. -((-t) \div n) = q
    BY <2>1, <2>4
  <2> QED
    BY <2>5 DEF q
<1> QED
  BY <1>1, <1>2, <1>3, <1>4

\* An index has for each document with a time its day, in order.
Indexes(entries, times) ==
    /\ entries \in Seq(DayEntries)
    /\ Sorted(entries)
    /\ Listed(entries) =
          {[day |-> Day(times[d]), docID |-> d] :
              d \in {d \in DOMAIN times : times[d] # NoTime}}

\* Entry by entry and document by document.
LEMMA EntryOfDoc ==
    ASSUME NEW entries, NEW times, Indexes(entries, times)
    PROVE  /\ \A e \in Listed(entries) :
                 /\ e.docID \in DOMAIN times /\ times[e.docID] # NoTime
                 /\ e.day = Day(times[e.docID])
           /\ \A d \in DOMAIN times : times[d] # NoTime =>
                 \E e \in Listed(entries) : e.docID = d /\ e.day = Day(times[d])
<1> DEFINE D == {d \in DOMAIN times : times[d] # NoTime}
<1>1. Listed(entries) = {[day |-> Day(times[d]), docID |-> d] : d \in D}
  BY DEF Indexes
<1>2. ASSUME NEW d \in D
      PROVE  \E e \in Listed(entries) : e.docID = d /\ e.day = Day(times[d])
  <2> DEFINE e == [day |-> Day(times[d]), docID |-> d]
  <2>1. e \in Listed(entries) /\ e.docID = d /\ e.day = Day(times[d])
    BY <1>1
  <2> HIDE DEF e
  <2> QED
    BY <2>1
<1>3. ASSUME NEW e \in Listed(entries)
      PROVE  /\ e.docID \in DOMAIN times /\ times[e.docID] # NoTime
             /\ e.day = Day(times[e.docID])
  BY <1>1
<1> QED
  BY <1>2, <1>3

LEMMA EnterKeeps ==
    ASSUME NEW n \in Nat, NEW times \in [0 .. n - 1 -> Times \cup {NoTime}],
           NEW entries, Indexes(entries, times), NEW t \in Times \cup {NoTime}
    PROVE  Indexes(Enter(entries, t, n),
                   [d \in 0 .. n |-> IF d = n THEN t ELSE times[d]])
<1> DEFINE more == [d \in 0 .. n |-> IF d = n THEN t ELSE times[d]]
           D(f) == {d \in DOMAIN f : f[d] # NoTime}
           E(f) == {[day |-> Day(f[d]), docID |-> d] : d \in D(f)}
<1>1. DOMAIN times = 0 .. n - 1 /\ DOMAIN more = 0 .. n
      /\ more[n] = t /\ \A d \in 0 .. n - 1 : more[d] = times[d]
  OBVIOUS
<1>2. 0 .. n = (0 .. n - 1) \cup {n} /\ n \notin 0 .. n - 1
  OBVIOUS
<1> HIDE DEF more
<1>3. CASE t = NoTime
  <2>1. D(more) = D(times)
    BY <1>1, <1>2, <1>3
  <2>2. E(more) = E(times)
    BY <1>1, <1>2, <2>1
  <2>3. Enter(entries, t, n) = entries
    BY <1>3 DEF Enter
  <2> QED
    BY <2>2, <2>3 DEF Indexes, more
<1>4. CASE t # NoTime
  <2> DEFINE e == [day |-> Day(t), docID |-> n]
  <2>1. t \in Times /\ DayFromTime(t) = Day(t) /\ Day(t) \in Int
    BY <1>4, DayIs
  <2>2. Enter(entries, t, n) = Insert(entries, Day(t), n)
    BY <1>4, <2>1 DEF Enter
  <2>3. /\ Enter(entries, t, n) \in Seq(DayEntries)
        /\ Sorted(Enter(entries, t, n))
        /\ Listed(Enter(entries, t, n)) = Listed(entries) \cup {e}
    BY <2>1, <2>2, InsertKeepsOrder DEF Indexes
  <2>4. D(more) = D(times) \cup {n}
    BY <1>1, <1>2, <1>4
  <2>5. E(more) = E(times) \cup {e}
    BY <1>1, <1>2, <2>4
  <2>6. Listed(entries) = E(times)
    BY DEF Indexes
  <2> QED
    BY <2>3, <2>5, <2>6 DEF Indexes, more
<1> QED
  BY <1>3, <1>4

\* A document with its text and its dates.
DocRecords == [text : Seq(Words), meta : DateMeta]

\* How many documents have been entered into the date indexes.
Dated == IF stage = "terms" THEN Len(docs) - 1 ELSE Len(docs)

Dates == [d \in 0 .. Dated - 1 |-> docs[d + 1].meta.Date]
StartDates == [d \in 0 .. Dated - 1 |-> docs[d + 1].meta.StartDate]
EndDates == [d \in 0 .. Dated - 1 |-> docs[d + 1].meta.EndDate]

\* What makes DateRangesExact and ValidityExact inductive.
DateInv ==
    /\ setup \in Setups
    /\ docs \in Seq(DocRecords)
    /\ stage = "terms" => docs # <<>>
    /\ Indexes(dateIdx, Dates)
    /\ Indexes(startDateIdx, StartDates)
    /\ Indexes(endDateIdx, EndDates)
    /\ openEndDocs =
          {d \in 0 .. Dated - 1 : EndDates[d] = NoTime /\ StartDates[d] # NoTime}

LEMMA DateInvInit == ASSUME EngineInit PROVE DateInv
<1>1. docs = <<>> /\ docs \in Seq(DocRecords) /\ Dated = 0
  BY DEF EngineInit, Dated
<1>2. Indexes(<<>>, Dates) /\ Indexes(<<>>, StartDates) /\ Indexes(<<>>, EndDates)
  BY <1>1 DEF Indexes, Sorted, Listed, Dates, StartDates, EndDates
<1> QED
  BY <1>1, <1>2 DEF EngineInit, DateInv

\* The dates of a document are instants.
LEMMA DocTypes ==
    ASSUME DateInv, NEW d \in DocIDs
    PROVE  /\ docs[d + 1].text \in Seq(Words)
           /\ docs[d + 1].meta \in DateMeta
           /\ docs[d + 1].meta.Date \in Times \cup {NoTime}
           /\ docs[d + 1].meta.StartDate \in Times \cup {NoTime}
           /\ docs[d + 1].meta.EndDate \in Times \cup {NoTime}
<1>1. d + 1 \in 1 .. Len(docs)
  BY DEF DateInv, DocIDs
<1>2. docs[d + 1] \in DocRecords
  BY <1>1 DEF DateInv
<1>3. docs[d + 1].meta \in DateMeta /\ docs[d + 1].text \in Seq(Words)
  BY <1>2 DEF DocRecords
<1> QED
  BY <1>3 DEF DateMeta

\* What is kept as long as the dated documents are.
LEMMA SameDates ==
    ASSUME DateInv, UNCHANGED <<setup, dateVars>>,
           docs' \in Seq(DocRecords), stage' = "terms" => docs' # <<>>,
           Dated' = Dated,
           \A d \in 0 .. Dated - 1 : docs'[d + 1] = docs[d + 1]
    PROVE  DateInv'
<1>1. Dates' = Dates /\ StartDates' = StartDates /\ EndDates' = EndDates
  BY DEF Dates, StartDates, EndDates
<1> QED
  BY <1>1 DEF DateInv, dateVars, Indexes

\* loadMetadataFile makes the dates of a document of the strings of its entry.
LEMMA MetaTypes ==
    ASSUME NEW s \in Setups, NEW file \in s.files
    PROVE  [text |-> file.text, meta |-> LoadMeta(file.entry)] \in DocRecords
<1>1. file \in Files
  BY EngineAssumption
<1>2. file.text \in Seq(Words)
      /\ file.entry \in [{"Date", "StartDate", "EndDate"} -> Times \cup {NoTime, BadDate}]
  BY <1>1 DEF Files
<1>3. LoadMeta(file.entry) \in [{"Date", "StartDate", "EndDate"} -> Times \cup {NoTime}]
  BY <1>2 DEF LoadMeta
<1>4. LoadMeta(file.entry) \in DateMeta
  BY <1>3 DEF DateMeta
<1> QED
  BY <1>2, <1>4 DEF DocRecords

LEMMA DateInvNext == ASSUME DateInv, [EngineNext]_engineVars PROVE DateInv'
<1>1. ASSUME NEW file \in setup.files, IndexFile(file) PROVE DateInv'
  <2> DEFINE rec == [text |-> file.text, meta |-> LoadMeta(file.entry)]
  <2>1. /\ docs' = Append(docs, rec) /\ stage = "files" /\ stage' = "terms"
        /\ UNCHANGED <<setup, dateVars>>
    BY <1>1 DEF IndexFile
  <2>2. rec \in DocRecords /\ docs \in Seq(DocRecords)
    BY MetaTypes DEF DateInv
  <2> HIDE DEF rec
  <2>3. docs' \in Seq(DocRecords) /\ Len(docs') = Len(docs) + 1 /\ docs' # <<>>
        /\ \A i \in 1 .. Len(docs) : docs'[i] = docs[i]
    BY <2>1, <2>2
  <2>4. Dated = Len(docs) /\ Dated' = Dated
    BY <2>1, <2>2, <2>3 DEF Dated
  <2>5. \A d \in 0 .. Dated - 1 : docs'[d + 1] = docs[d + 1]
    BY <2>2, <2>3, <2>4
  <2> QED
    BY <2>1, <2>3, <2>4, <2>5, SameDates
<1>2. CASE EnterDates
  <2> DEFINE n == Len(docs) - 1
             meta == docs[Len(docs)].meta
  <2>1. docs \in Seq(DocRecords) /\ stage = "terms" /\ stage' = "files"
        /\ docs' = docs /\ setup' = setup /\ docs # <<>>
    BY <1>2 DEF EnterDates, DateInv
  <2>2. n \in Nat /\ Dated = n /\ Dated' = n + 1 /\ n \in DocIDs
        /\ Len(docs) = n + 1
    BY <2>1 DEF Dated, DocIDs
  <2>3. meta = docs[n + 1].meta
    BY <2>2
  <2>4. meta.Date \in Times \cup {NoTime} /\ meta.StartDate \in Times \cup {NoTime}
        /\ meta.EndDate \in Times \cup {NoTime}
    BY <2>2, <2>3, DocTypes
  <2>5. \A d \in 0 .. n - 1 : d \in DocIDs
    BY <2>2 DEF DocIDs
  <2>6. /\ Dates \in [0 .. n - 1 -> Times \cup {NoTime}]
        /\ StartDates \in [0 .. n - 1 -> Times \cup {NoTime}]
        /\ EndDates \in [0 .. n - 1 -> Times \cup {NoTime}]
    BY <2>2, <2>5, DocTypes DEF Dates, StartDates, EndDates
  <2>7. /\ dateIdx' = Enter(dateIdx, meta.Date, n)
        /\ startDateIdx' = Enter(startDateIdx, meta.StartDate, n)
        /\ endDateIdx' = Enter(endDateIdx, meta.EndDate, n)
        /\ openEndDocs' = IF OpenEnd(meta) THEN openEndDocs \cup {n} ELSE openEndDocs
    BY <1>2 DEF EnterDates
  <2> HIDE DEF meta
  <2>8. \A d \in 0 .. n : d < n => d \in 0 .. n - 1
    BY <2>2
  <2>9. /\ Dates' = [d \in 0 .. n |-> IF d = n THEN meta.Date ELSE Dates[d]]
        /\ StartDates' = [d \in 0 .. n |-> IF d = n THEN meta.StartDate
                                                    ELSE StartDates[d]]
        /\ EndDates' = [d \in 0 .. n |-> IF d = n THEN meta.EndDate
                                                  ELSE EndDates[d]]
    <3> HIDE DEF n
    <3>1. 0 .. Dated' - 1 = 0 .. n
      BY <2>2
    <3>2. \A d \in 0 .. n : d # n => d \in 0 .. Dated - 1
      BY <2>2
    <3> QED
      BY <2>1, <2>3, <3>1, <3>2 DEF Dates, StartDates, EndDates
  <2> HIDE DEF n
  <2>10. /\ Indexes(dateIdx', Dates') /\ Indexes(startDateIdx', StartDates')
         /\ Indexes(endDateIdx', EndDates')
    BY <2>2, <2>4, <2>6, <2>7, <2>9, EnterKeeps DEF DateInv
  <2>11. openEndDocs' =
            {d \in 0 .. n : EndDates'[d] = NoTime /\ StartDates'[d] # NoTime}
    <3>1. openEndDocs =
            {d \in 0 .. n - 1 : EndDates[d] = NoTime /\ StartDates[d] # NoTime}
      BY <2>2 DEF DateInv
    <3>2. OpenEnd(meta) <=> EndDates'[n] = NoTime /\ StartDates'[n] # NoTime
      BY <2>2, <2>9 DEF OpenEnd
    <3>3. \A d \in 0 .. n - 1 : EndDates'[d] = EndDates[d]
                                /\ StartDates'[d] = StartDates[d]
      BY <2>2, <2>9
    <3>4. 0 .. n = (0 .. n - 1) \cup {n}
      BY <2>2
    <3> QED
      BY <2>7, <3>1, <3>2, <3>3, <3>4
  <2> QED
    BY <2>1, <2>2, <2>10, <2>11 DEF DateInv, Indexes
<1>3. ASSUME UNCHANGED <<setup, docs, dateVars>>,
             stage' = stage \/ (stage # "terms" /\ stage' # "terms")
      PROVE  DateInv'
  <2>1. Dated' = Dated
    BY <1>3 DEF Dated
  <2> QED
    BY <1>3, <2>1, SameDates DEF DateInv
<1>4. CASE NewEngine \/ EnterTerm \/ IndexDone \/ Lose \/ Miss \/ FoundAgain
           \/ Close \/ AnswerLine \/ AwaitLine \/ UNCHANGED engineVars
  BY <1>3, <1>4 DEF NewEngine, EnterTerm, IndexDone, Lose, Miss, FoundAgain,
                    Close, AnswerLine, AwaitLine, engineVars
<1> QED
  BY <1>1, <1>2, <1>4 DEF EngineNext, MainNext

\* Whatever the order in which documents are indexed, and whatever dates they
\* have, a search by date or by the day of appearance finds the documents whose
\* day is in the interval and no other (engine.go:392, engine.go:423,
\* dateindex.go:26).
THEOREM DatesFound == EngineSpec => []DateRangesExact
<1>1. ASSUME DateInv PROVE DateRangesExact
  <2> SUFFICES ASSUME Between, NEW from \in QueryDays, NEW to \in QueryDays
               PROVE  /\ SearchDateRange(from, to) =
                            DocsWhere(LAMBDA m : m.Date # NoTime
                                         /\ from <= Day(m.Date) /\ Day(m.Date) <= to)
                      /\ SearchAppearedInRange(from, to) =
                            DocsWhere(LAMBDA m : m.StartDate # NoTime
                                         /\ from <= Day(m.StartDate)
                                         /\ Day(m.StartDate) <= to)
    BY DEF DateRangesExact
  <2>1. from \in Int /\ to \in Int
    BY EngineAssumption
  <2>2. 0 .. Dated - 1 = DocIDs
    BY DEF Between, Dated, DocIDs
  <2>3. ASSUME NEW entries, NEW times, Indexes(entries, times)
        PROVE  DayRange(entries, from, to) =
                   {d \in DOMAIN times : times[d] # NoTime
                       /\ from <= Day(times[d]) /\ Day(times[d]) <= to}
    <3>1. DayRange(entries, from, to) =
              {e.docID : e \in {e \in Listed(entries) : from <= e.day /\ e.day <= to}}
      BY <2>1, <2>3, DayRangeIs DEF Indexes, DocsOf
    <3> DEFINE Q == {d \in DOMAIN times : times[d] # NoTime
                        /\ from <= Day(times[d]) /\ Day(times[d]) <= to}
    <3>2. DayRange(entries, from, to) \subseteq Q
      BY <2>3, <3>1, EntryOfDoc
    <3>3. Q \subseteq DayRange(entries, from, to)
      BY <2>3, <3>1, EntryOfDoc
    <3> QED
      BY <3>2, <3>3
  <2>4. SearchDateRange(from, to) =
            {d \in DocIDs : docs[d + 1].meta.Date # NoTime
                /\ from <= Day(docs[d + 1].meta.Date)
                /\ Day(docs[d + 1].meta.Date) <= to}
    <3>1. Indexes(dateIdx, Dates) /\ DOMAIN Dates = DocIDs
      BY <1>1, <2>2 DEF DateInv, Dates
    <3>2. \A d \in DocIDs : Dates[d] = docs[d + 1].meta.Date
      BY <2>2 DEF Dates
    <3> QED
      BY <2>3, <3>1, <3>2 DEF SearchDateRange
  <2>5. SearchAppearedInRange(from, to) =
            {d \in DocIDs : docs[d + 1].meta.StartDate # NoTime
                /\ from <= Day(docs[d + 1].meta.StartDate)
                /\ Day(docs[d + 1].meta.StartDate) <= to}
    <3>1. Indexes(startDateIdx, StartDates) /\ DOMAIN StartDates = DocIDs
      BY <1>1, <2>2 DEF DateInv, StartDates
    <3>2. \A d \in DocIDs : StartDates[d] = docs[d + 1].meta.StartDate
      BY <2>2 DEF StartDates
    <3> QED
      BY <2>3, <3>1, <3>2 DEF SearchAppearedInRange
  <2> QED
    BY <2>4, <2>5 DEF DocsWhere
<1> QED
  BY <1>1, DateInvInit, DateInvNext, PTL DEF EngineSpec

\* A search by validity finds the documents that had started by the end of the
\* interval and had not ended before its start, those without an end included
\* (engine.go:406).
THEOREM ValidFound == EngineSpec => []ValidityExact
<1>1. ASSUME DateInv PROVE ValidityExact
  <2> SUFFICES ASSUME Between, NEW from \in QueryDays, NEW to \in QueryDays
               PROVE  SearchValidInRange(from, to) =
                        DocsWhere(LAMBDA m :
                            m.StartDate # NoTime /\ Day(m.StartDate) <= to
                            /\ (m.EndDate = NoTime \/ from <= Day(m.EndDate)))
    BY DEF ValidityExact
  <2>1. from \in Int /\ to \in Int
    BY EngineAssumption
  <2>2. 0 .. Dated - 1 = DocIDs
    BY DEF Between, Dated, DocIDs
  <2>3. /\ Indexes(startDateIdx, StartDates) /\ Indexes(endDateIdx, EndDates)
        /\ DOMAIN StartDates = DocIDs /\ DOMAIN EndDates = DocIDs
        /\ openEndDocs = {d \in DocIDs : EndDates[d] = NoTime
                                         /\ StartDates[d] # NoTime}
    BY <1>1, <2>2 DEF DateInv, StartDates, EndDates
  <2>4. \A d \in DocIDs : /\ StartDates[d] = docs[d + 1].meta.StartDate
                          /\ EndDates[d] = docs[d + 1].meta.EndDate
    BY <2>2 DEF StartDates, EndDates
  <2>5. LeBitmap(startDateIdx, to) =
            {d \in DocIDs : StartDates[d] # NoTime /\ Day(StartDates[d]) <= to}
    <3>1. LeBitmap(startDateIdx, to) =
              {e.docID : e \in {e \in Listed(startDateIdx) : e.day <= to}}
      BY <2>1, <2>3, LeBitmapIs DEF Indexes
    <3> DEFINE Q == {d \in DocIDs : StartDates[d] # NoTime /\ Day(StartDates[d]) <= to}
    <3>2. LeBitmap(startDateIdx, to) \subseteq Q
      BY <2>3, <3>1, EntryOfDoc
    <3>3. Q \subseteq LeBitmap(startDateIdx, to)
      BY <2>3, <3>1, EntryOfDoc
    <3> QED
      BY <3>2, <3>3
  <2>6. GeBitmap(endDateIdx, from) =
            {d \in DocIDs : EndDates[d] # NoTime /\ from <= Day(EndDates[d])}
    <3>1. GeBitmap(endDateIdx, from) =
              {e.docID : e \in {e \in Listed(endDateIdx) : from <= e.day}}
      BY <2>1, <2>3, GeBitmapIs DEF Indexes
    <3> DEFINE Q == {d \in DocIDs : EndDates[d] # NoTime /\ from <= Day(EndDates[d])}
    <3>2. GeBitmap(endDateIdx, from) \subseteq Q
      BY <2>3, <3>1, EntryOfDoc
    <3>3. Q \subseteq GeBitmap(endDateIdx, from)
      BY <2>3, <3>1, EntryOfDoc
    <3> QED
      BY <3>2, <3>3
  <2>7. SearchValidInRange(from, to) =
            {d \in DocIDs :
                StartDates[d] # NoTime /\ Day(StartDates[d]) <= to
                /\ (EndDates[d] = NoTime \/ from <= Day(EndDates[d]))}
    BY <2>3, <2>5, <2>6 DEF SearchValidInRange
  <2> QED
    BY <2>4, <2>7 DEF DocsWhere
<1> QED
  BY <1>1, DateInvInit, DateInvNext, PTL DEF EngineSpec

-----------------------------------------------------------------------------
(* The sequences of the text pipeline.                                     *)

\* Induction over an interval from 0, of a set of its members.
LEMMA FromZero ==
    ASSUME NEW n \in Nat, NEW G, 0 \in G,
           \A i \in 0 .. n : i \in G /\ i < n => i + 1 \in G
    PROVE  \A i \in 0 .. n : i \in G
<1> DEFINE Bad == {i \in 0 .. n : i \notin G}
<1> SUFFICES ASSUME Bad # {} PROVE FALSE
  OBVIOUS
<1>1. Bad \subseteq Nat
  OBVIOUS
<1>2. PICK m \in Bad : \A j \in Bad : m <= j
  <2> HIDE DEF Bad
  <2> QED
    BY <1>1, NatMin
<1>3. m \in 0 .. n /\ m \notin G /\ m # 0
  OBVIOUS
<1>4. m - 1 \in 0 .. n /\ m - 1 < n /\ m - 1 + 1 = m
  BY <1>3
<1>5. m - 1 \in Bad
  BY <1>3, <1>4
<1> HIDE DEF Bad
<1>6. m <= m - 1
  BY <1>2, <1>5
<1> QED
  BY <1>3, <1>6

\* Step by step, the joining of the sequences ss[1], ..., ss[n].
Joining(ss, n, h) ==
    [i \in 0 .. n |-> IF i = 0 THEN <<>> ELSE h[i - 1] \o ss[i]]

LEMMA JoiningSteps ==
    ASSUME NEW ss, NEW n \in Nat, NEW h
    PROVE  h = Joining(ss, n, h) <=>
              /\ h = [i \in 0 .. n |-> h[i]]
              /\ \A i \in 0 .. n : h[i] = IF i = 0 THEN <<>> ELSE h[i - 1] \o ss[i]
<1> DEFINE J == Joining(ss, n, h)
<1>1. J = [i \in 0 .. n |-> J[i]]
  BY DEF Joining
<1>2. \A i \in 0 .. n : J[i] = IF i = 0 THEN <<>> ELSE h[i - 1] \o ss[i]
  BY DEF Joining
<1> HIDE DEF J
<1>3. ASSUME h = [i \in 0 .. n |-> h[i]], \A i \in 0 .. n : h[i] = J[i]
      PROVE  h = J
  BY <1>1, <1>3
<1>4. ASSUME h = J PROVE h = [i \in 0 .. n |-> h[i]] /\ \A i \in 0 .. n : h[i] = J[i]
  BY <1>1, <1>4
<1>5. (\A i \in 0 .. n : h[i] = J[i]) <=>
         \A i \in 0 .. n : h[i] = IF i = 0 THEN <<>> ELSE h[i - 1] \o ss[i]
  BY <1>2
<1>6. h = J <=> /\ h = [i \in 0 .. n |-> h[i]] /\ \A i \in 0 .. n : h[i] = J[i]
  BY <1>3, <1>4
<1> QED
  BY <1>5, <1>6 DEF J

LEMMA JoiningExists ==
    ASSUME NEW ss, NEW n \in Nat
    PROVE  \E h : h = Joining(ss, n, h)
<1> DEFINE G == {m \in 0 .. n : \E h : h = Joining(ss, m, h)}
<1>1. 0 \in G
  <2> DEFINE h == [i \in 0 .. 0 |-> <<>>]
  <2>1. h = Joining(ss, 0, h)
    <3>1. \A i \in 0 .. 0 : i = 0
      OBVIOUS
    <3> QED
      BY <3>1 DEF Joining
  <2> HIDE DEF h
  <2> QED
    BY <2>1
<1>2. ASSUME NEW m \in 0 .. n, m \in G, m < n PROVE m + 1 \in G
  <2>1. PICK f : f = Joining(ss, m, f)
    BY <1>2
  <2> DEFINE g == [i \in 0 .. m + 1 |->
                      IF i = m + 1 THEN f[m] \o ss[m + 1] ELSE f[i]]
  <2>2. /\ g[m + 1] = f[m] \o ss[m + 1]
        /\ \A i \in 0 .. m : g[i] = f[i]
        /\ g = [i \in 0 .. m + 1 |-> g[i]]
    OBVIOUS
  <2> HIDE DEF g
  <2>3. \A i \in 0 .. m : f[i] = IF i = 0 THEN <<>> ELSE f[i - 1] \o ss[i]
    BY <2>1, JoiningSteps
  <2>4. ASSUME NEW i \in 0 .. m + 1
        PROVE  g[i] = IF i = 0 THEN <<>> ELSE g[i - 1] \o ss[i]
    <3>1. CASE i = m + 1
      <4>1. i # 0 /\ i - 1 = m /\ m \in 0 .. m
        BY <3>1
      <4> QED
        BY <2>2, <3>1, <4>1, Zenon
    <3>2. CASE i # m + 1 /\ i # 0
      <4>1. i \in 0 .. m /\ i - 1 \in 0 .. m
        BY <3>2
      <4>2. g[i] = f[i] /\ g[i - 1] = f[i - 1] /\ f[i] = f[i - 1] \o ss[i]
        BY <2>2, <2>3, <3>2, <4>1, Zenon
      <4> QED
        BY <3>2, <4>2, Zenon
    <3>3. CASE i # m + 1 /\ i = 0
      <4>1. i \in 0 .. m
        BY <3>3
      <4> QED
        BY <2>2, <2>3, <3>3, <4>1, Zenon
    <3> QED
      BY <3>1, <3>2, <3>3
  <2>5. g = Joining(ss, m + 1, g)
    <3>1. m + 1 \in Nat
      OBVIOUS
    <3> QED
      BY <2>2, <2>4, <3>1, JoiningSteps, Zenon
  <2>6. m + 1 \in 0 .. n
    BY <1>2
  <2> QED
    BY <2>5, <2>6
<1>3. \A m \in 0 .. n : m \in G
  <2> HIDE DEF G
  <2> QED
    BY <1>1, <1>2, FromZero
<1> QED
  BY <1>3

NoRepeats(s) == \A m, n \in DOMAIN s : s[m] = s[n] => m = n

LEMMA ConcatSet ==
    ASSUME NEW S, NEW s \in Seq(S), NEW t \in Seq(S)
    PROVE  /\ s \o t \in Seq(S) /\ Len(s \o t) = Len(s) + Len(t)
           /\ ToSet(s \o t) = ToSet(s) \cup ToSet(t)
           /\ NoRepeats(s) /\ NoRepeats(t) /\ ToSet(s) \cap ToSet(t) = {}
                => NoRepeats(s \o t)
<1> DEFINE u == s \o t
           a == Len(s)
           b == Len(t)
<1>1. /\ u \in Seq(S) /\ Len(u) = a + b
      /\ \A i \in 1 .. a + b : u[i] = IF i <= a THEN s[i] ELSE t[i - a]
  BY ConcatProperties
<1>2. /\ a \in Nat /\ b \in Nat
      /\ DOMAIN u = 1 .. a + b /\ DOMAIN s = 1 .. a /\ DOMAIN t = 1 .. b
  BY <1>1
<1> HIDE DEF u, a, b
<1>3. \A i \in 1 .. a : i \in 1 .. a + b /\ u[i] = s[i]
  BY <1>1, <1>2
<1>4. \A i \in 1 .. b : i + a \in 1 .. a + b /\ u[i + a] = t[i]
  <2> TAKE i \in 1 .. b
  <2> DEFINE j == i + a
  <2>1. j \in 1 .. a + b /\ ~ (j <= a) /\ j - a = i
    BY <1>2
  <2> HIDE DEF j
  <2>2. u[j] = t[i]
    BY <1>1, <2>1
  <2> QED
    BY <2>1, <2>2 DEF j
<1>5. \A j \in 1 .. a + b : j \in 1 .. a \/ \E i \in 1 .. b : j = i + a
  <2> TAKE j \in 1 .. a + b
  <2>1. CASE j <= a
    BY <2>1
  <2>2. CASE ~ (j <= a)
    <3>1. j - a \in 1 .. b /\ j = (j - a) + a
      BY <1>2, <2>2
    <3> QED
      BY <3>1
  <2> QED
    BY <2>1, <2>2
<1>6. ToSet(u) = ToSet(s) \cup ToSet(t)
  <2>1. ASSUME NEW x \in ToSet(u) PROVE x \in ToSet(s) \cup ToSet(t)
    <3>1. PICK j \in 1 .. a + b : x = u[j]
      BY <1>2 DEF ToSet
    <3>2. CASE j \in 1 .. a
      BY <1>2, <1>3, <3>1, <3>2 DEF ToSet
    <3>3. CASE \E i \in 1 .. b : j = i + a
      BY <1>2, <1>4, <3>1, <3>3 DEF ToSet
    <3> QED
      BY <1>5, <3>2, <3>3
  <2>2. ToSet(s) \subseteq ToSet(u)
    BY <1>2, <1>3 DEF ToSet
  <2>3. ToSet(t) \subseteq ToSet(u)
    BY <1>2, <1>4 DEF ToSet
  <2> QED
    BY <2>1, <2>2, <2>3
<1>7. ASSUME NoRepeats(s), NoRepeats(t), ToSet(s) \cap ToSet(t) = {}
      PROVE  NoRepeats(u)
  <2> SUFFICES ASSUME NEW m \in 1 .. a + b, NEW n \in 1 .. a + b, u[m] = u[n]
               PROVE  m = n
    BY <1>2 DEF NoRepeats
  <2>1. \A i \in 1 .. a, j \in 1 .. b : s[i] # t[j]
    BY <1>2, <1>7 DEF ToSet
  <2>2. CASE m \in 1 .. a /\ n \in 1 .. a
    BY <1>2, <1>3, <1>7, <2>2 DEF NoRepeats
  <2>3. CASE m \in 1 .. a /\ \E i \in 1 .. b : n = i + a
    BY <1>3, <1>4, <2>1, <2>3
  <2>4. CASE n \in 1 .. a /\ \E i \in 1 .. b : m = i + a
    BY <1>3, <1>4, <2>1, <2>4
  <2>5. CASE /\ \E i \in 1 .. b : n = i + a
             /\ \E i \in 1 .. b : m = i + a
    <3>1. PICK i \in 1 .. b, j \in 1 .. b : n = i + a /\ m = j + a
      BY <2>5
    <3>2. t[i] = t[j]
      BY <1>4, <3>1
    <3>3. i = j
      BY <1>2, <1>7, <3>2 DEF NoRepeats
    <3> QED
      BY <3>1, <3>3
  <2> QED
    BY <1>5, <2>2, <2>3, <2>4, <2>5
<1> QED
  BY <1>1, <1>6, <1>7 DEF u, a, b

\* What is in a joined sequence, how long it is, and what is in it only once.
LEMMA JoinedIs ==
    ASSUME NEW S, NEW ss \in Seq(Seq(S)), NEW L, L = Len(ss),
           NEW h, h = Joining(ss, L, h)
    PROVE  /\ h[L] \in Seq(S)
           /\ ToSet(h[L]) = UNION {ToSet(ss[i]) : i \in DOMAIN ss}
           /\ (\A i \in DOMAIN ss : Len(ss[i]) <= 1) => Len(h[L]) <= L
           /\ (\A i, j \in DOMAIN ss :
                  NoRepeats(ss[i]) /\ (i # j => ToSet(ss[i]) \cap ToSet(ss[j]) = {}))
                 => NoRepeats(h[L])
<1>1. L \in Nat /\ DOMAIN ss = 1 .. L /\ \A i \in 1 .. L : ss[i] \in Seq(S)
  OBVIOUS
<1>2. h[0] = <<>> /\ \A i \in 1 .. L : h[i] = h[i - 1] \o ss[i]
  <2>1. \A i \in 0 .. L : h[i] = IF i = 0 THEN <<>> ELSE h[i - 1] \o ss[i]
    BY <1>1, JoiningSteps
  <2>2. 0 \in 0 .. L /\ \A i \in 1 .. L : i \in 0 .. L /\ i # 0
    BY <1>1
  <2> QED
    BY <2>1, <2>2, Zenon
<1> DEFINE Short == \A i \in 1 .. L : Len(ss[i]) <= 1
           Apart == \A i, j \in 1 .. L :
                NoRepeats(ss[i]) /\ (i # j => ToSet(ss[i]) \cap ToSet(ss[j]) = {})
           Of(n) == UNION {ToSet(ss[i]) : i \in 1 .. n}
           Good(n) == /\ h[n] \in Seq(S)
                      /\ ToSet(h[n]) = Of(n)
                      /\ Short => Len(h[n]) <= n
                      /\ Apart => NoRepeats(h[n])
           G == {n \in 0 .. L : Good(n)}
<1>3. Good(0)
  <2>1. <<>> \in Seq(S) /\ ToSet(<<>>) = {} /\ Len(<<>>) <= 0 /\ NoRepeats(<<>>)
    BY EmptySeq DEF ToSet, NoRepeats
  <2>2. Of(0) = {}
    OBVIOUS
  <2> HIDE DEF Short, Apart, Of
  <2> QED
    BY <1>2, <2>1, <2>2, Zenon
<1>4. ASSUME NEW n \in 0 .. L, Good(n), n < L PROVE Good(n + 1)
  <2> DEFINE m == n + 1
  <2>1. /\ m \in 1 .. L /\ n \in Nat /\ m \notin 1 .. n /\ m - 1 = n
        /\ 1 .. m = (1 .. n) \cup {m}
    BY <1>1, <1>4
  <2> HIDE DEF m
  <2>2. h[m] = h[n] \o ss[m]
    BY <1>2, <2>1
  <2>3. h[n] \in Seq(S) /\ ss[m] \in Seq(S)
    BY <1>1, <1>4, <2>1
  <2>4. Of(m) = Of(n) \cup ToSet(ss[m])
    BY <2>1
  <2>5. ToSet(h[m]) = Of(m)
    <3>1. ToSet(h[m]) = ToSet(h[n]) \cup ToSet(ss[m])
      BY <2>2, <2>3, ConcatSet
    <3> QED
      BY <1>4, <2>4, <3>1, Zenon
  <2>6. h[m] \in Seq(S)
    BY <2>2, <2>3, ConcatSet
  <2>7. Short => Len(h[m]) <= m
    <3>1. Len(h[m]) = Len(h[n]) + Len(ss[m])
      BY <2>2, <2>3, ConcatSet
    <3>2. Len(h[n]) \in Nat /\ Len(ss[m]) \in Nat
      BY <2>3
    <3>3. Short => Len(ss[m]) <= 1 /\ Len(h[n]) <= n
      BY <1>4, <2>1
    <3>4. \A x, y \in Nat : x <= n /\ y <= 1 => x + y <= m
      BY DEF m
    <3> HIDE DEF Short
    <3> QED
      BY <3>1, <3>2, <3>3, <3>4, Zenon
  <2>8. ASSUME Apart PROVE NoRepeats(h[m])
    <3>1. \A i \in 1 .. n : i \in 1 .. L /\ i # m
      BY <1>1, <1>4, <2>1
    <3>2. \A i \in 1 .. n : ToSet(ss[i]) \cap ToSet(ss[m]) = {}
      BY <2>1, <2>8, <3>1
    <3>3. Of(n) \cap ToSet(ss[m]) = {}
      BY <3>2
    <3>4. NoRepeats(ss[m]) /\ NoRepeats(h[n])
      BY <1>4, <2>1, <2>8
    <3>5. ToSet(h[n]) \cap ToSet(ss[m]) = {}
      BY <1>4, <3>3, Zenon
    <3> QED
      BY <2>2, <2>3, <3>4, <3>5, ConcatSet
  <2> HIDE DEF Short, Apart, Of
  <2>9. Good(m)
    BY <2>5, <2>6, <2>7, <2>8
  <2> QED
    BY <2>9 DEF m
<1>5. Good(L)
  <2> HIDE DEF Good
  <2>1. 0 \in G
    BY <1>1, <1>3
  <2>2. \A n \in 0 .. L : n \in G /\ n < L => n + 1 \in G
    <3>1. \A n \in 0 .. L : n < L => n + 1 \in 0 .. L
      BY <1>1
    <3> QED
      BY <1>4, <3>1
  <2>3. \A n \in 0 .. L : n \in G
    <3> HIDE DEF G
    <3> QED
      BY <1>1, <2>1, <2>2, FromZero
  <2>4. L \in 0 .. L
    BY <1>1
  <2> QED
    BY <2>3, <2>4
<1> QED
  BY <1>1, <1>5

LEMMA SelectIs ==
    ASSUME NEW S, NEW s \in Seq(S), NEW keep \in [DOMAIN s -> BOOLEAN]
    PROVE  /\ Select(s, keep) \in Seq(S)
           /\ Len(Select(s, keep)) <= Len(s)
           /\ ToSet(Select(s, keep)) = {s[i] : i \in {j \in DOMAIN s : keep[j]}}
           /\ (\A i, j \in DOMAIN s : keep[i] /\ keep[j] /\ s[i] = s[j] => i = j)
                => NoRepeats(Select(s, keep))
<1> DEFINE ss == [i \in DOMAIN s |-> IF keep[i] THEN <<s[i]>> ELSE <<>>]
<1>1. \A i \in DOMAIN s : s[i] \in S /\ keep[i] \in BOOLEAN
  OBVIOUS
<1>2. \A i \in DOMAIN s : ss[i] = IF keep[i] THEN <<s[i]>> ELSE <<>>
  OBVIOUS
<1>3. DOMAIN s = 1 .. Len(s) /\ Len(s) \in Nat
  OBVIOUS
<1>4. \A x : /\ Len(<<x>>) = 1 /\ DOMAIN <<x>> = {1} /\ <<x>>[1] = x
             /\ x \in S => <<x>> \in Seq(S)
  OBVIOUS
<1>5. Len(<<>>) = 0 /\ DOMAIN <<>> = {} /\ <<>> \in Seq(S)
  BY EmptySeq
<1>6. ss \in Seq(Seq(S)) /\ Len(ss) = Len(s) /\ DOMAIN ss = DOMAIN s
  <2>1. \A i \in DOMAIN s : ss[i] \in Seq(S)
    BY <1>1, <1>2, <1>4, <1>5, Zenon
  <2>2. ss \in [1 .. Len(s) -> Seq(S)]
    BY <1>3, <2>1
  <2> HIDE DEF ss
  <2>3. DOMAIN ss = 1 .. Len(s) /\ \A i \in 1 .. Len(s) : ss[i] \in Seq(S)
    BY <2>2
  <2>4. ss \in Seq(Seq(S))
    BY <1>3, <2>2, SeqDef
  <2> QED
    BY <1>3, <2>3, <2>4
<1> DEFINE L == Len(s)
           A(h) == [n \in 0 .. L |->
                       IF n = 0 THEN <<>>
                       ELSE h[n - 1] \o (IF keep[n] THEN <<s[n]>> ELSE <<>>)]
           kept == CHOOSE h : h = A(h)
<1>7. kept = Joining(ss, L, kept) /\ Select(s, keep) = kept[L]
  <2>1. ASSUME NEW h PROVE A(h) = Joining(ss, L, h)
    <3>1. ASSUME NEW n \in 0 .. L, n # 0
          PROVE  (IF keep[n] THEN <<s[n]>> ELSE <<>>) = ss[n]
      <4>1. n \in DOMAIN s
        BY <1>3, <3>1
      <4> QED
        BY <1>2, <4>1, Zenon
    <3> HIDE DEF ss
    <3> QED
      BY <3>1, Zenon DEF Joining
  <2>2. Select(s, keep) = kept[L]
    BY DEF Select
  <2> HIDE DEF A
  <2>3. PICK h : h = Joining(ss, L, h)
    <3> HIDE DEF ss
    <3> QED
      BY <1>3, JoiningExists
  <2>4. h = A(h)
    BY <2>1, <2>3, Zenon
  <2>5. kept = A(kept)
    BY <2>4
  <2> HIDE DEF kept, ss
  <2> QED
    BY <2>1, <2>2, <2>5, Zenon
<1> HIDE DEF kept
<1>J. /\ kept[L] \in Seq(S)
      /\ ToSet(kept[L]) = UNION {ToSet(ss[i]) : i \in DOMAIN ss}
      /\ (\A i \in DOMAIN ss : Len(ss[i]) <= 1) => Len(kept[L]) <= L
      /\ (\A i, j \in DOMAIN ss :
             NoRepeats(ss[i]) /\ (i # j => ToSet(ss[i]) \cap ToSet(ss[j]) = {}))
            => NoRepeats(kept[L])
  BY <1>6, <1>7, JoinedIs, ZenonT(40)
<1> HIDE DEF ss
<1>8. \A i \in DOMAIN s : ToSet(ss[i]) = IF keep[i] THEN {s[i]} ELSE {}
  <2> TAKE i \in DOMAIN s
  <2>1. CASE keep[i]
    <3>1. ss[i] = <<s[i]>>
      BY <1>2, <2>1
    <3> QED
      BY <1>4, <2>1, <3>1 DEF ToSet
  <2>2. CASE ~ keep[i]
    <3>1. ss[i] = <<>>
      BY <1>2, <2>2
    <3> QED
      BY <1>5, <2>2, <3>1 DEF ToSet
  <2> QED
    BY <1>1, <2>1, <2>2
<1>9. \A i \in DOMAIN s : Len(ss[i]) <= 1 /\ NoRepeats(ss[i])
  <2> TAKE i \in DOMAIN s
  <2>1. CASE keep[i]
    <3>1. ss[i] = <<s[i]>>
      BY <1>2, <2>1
    <3> QED
      BY <1>4, <3>1 DEF NoRepeats
  <2>2. CASE ~ keep[i]
    <3>1. ss[i] = <<>>
      BY <1>2, <2>2
    <3> QED
      BY <1>5, <3>1 DEF NoRepeats
  <2> QED
    BY <1>1, <2>1, <2>2
<1>10. ToSet(Select(s, keep)) = {s[i] : i \in {j \in DOMAIN s : keep[j]}}
  <2>1. ToSet(kept[L]) = UNION {ToSet(ss[i]) : i \in DOMAIN s}
    BY <1>6, <1>J, Zenon
  <2>2. UNION {ToSet(ss[i]) : i \in DOMAIN s} = {s[i] : i \in {j \in DOMAIN s : keep[j]}}
    BY <1>8, Zenon
  <2> QED
    BY <1>7, <2>1, <2>2
<1>11. ASSUME \A i, j \in DOMAIN s : keep[i] /\ keep[j] /\ s[i] = s[j] => i = j
       PROVE  NoRepeats(Select(s, keep))
  <2>1. \A i, j \in DOMAIN s : i # j => ToSet(ss[i]) \cap ToSet(ss[j]) = {}
    BY <1>8, <1>11
  <2> QED
    BY <1>6, <1>7, <1>9, <1>J, <2>1, Zenon
<1>12. Select(s, keep) \in Seq(S) /\ Len(Select(s, keep)) <= Len(s)
  BY <1>6, <1>7, <1>9, <1>J, Zenon
<1> QED
  BY <1>10, <1>11, <1>12

-----------------------------------------------------------------------------
(* The text pipeline, word by word: what a word becomes does not depend on *)
(* the words around it.                                                    *)

FormOf(pc, w) == IF pc.Normalize THEN Normalized[pc.StripAccents][w] ELSE w
Formed(pc, w) ==
    pc.Normalize => FormOf(pc, w) # <<>> /\ Len(FormOf(pc, w)) >= pc.MinTermLen
NoStopWord(pc, t) == pc.StopWords => t \notin StopWordsOf[DetectTokenLang(t)]
StemOf(pc, t) == IF pc.Stemming THEN Stemmed[DetectTokenLang(t)][t] ELSE t

TermOf(pc, w) == StemOf(pc, FormOf(pc, w))
Passes(pc, w) ==
    /\ Formed(pc, w)
    /\ NoStopWord(pc, FormOf(pc, w))
    /\ pc.Stemming => TermOf(pc, w) # <<>>

LEMMA TermTypes ==
    ASSUME NEW pc \in PipelineConfig
    PROVE  /\ \A w \in Words : FormOf(pc, w) \in NormalForms
           /\ \A t \in NormalForms : StemOf(pc, t) \in NormalForms
           /\ \A w \in Words : TermOf(pc, w) \in NormalForms
           /\ {pc.Normalize, pc.StopWords, pc.Stemming} \subseteq BOOLEAN
<1>1. /\ pc.Normalize \in BOOLEAN /\ pc.StopWords \in BOOLEAN
      /\ pc.Stemming \in BOOLEAN /\ pc.StripAccents \in BOOLEAN
  BY DEF PipelineConfig
<1>2. \A w \in Words : FormOf(pc, w) \in NormalForms
  BY <1>1, TextPipelineAssumption DEF FormOf
<1>3. \A t : DetectTokenLang(t) \in Langs
  BY DEF DetectTokenLang, Langs
<1>4. \A t \in NormalForms : StemOf(pc, t) \in NormalForms
  BY <1>1, <1>3, TextPipelineAssumption DEF StemOf
<1>5. \A w \in Words : TermOf(pc, w) \in NormalForms
  BY <1>2, <1>4 DEF TermOf
<1> QED
  BY <1>1, <1>2, <1>4, <1>5, Zenon

LEMMA NormalizeIs ==
    ASSUME NEW pc \in PipelineConfig, NEW text \in Seq(Words)
    PROVE  /\ Normalize(pc, text) \in Seq(NormalForms)
           /\ Len(Normalize(pc, text)) <= Len(text)
           /\ ToSet(Normalize(pc, text)) =
                 {FormOf(pc, w) : w \in {v \in ToSet(text) : Formed(pc, v)}}
<1>0. pc.Normalize \in BOOLEAN
  BY DEF PipelineConfig
<1>1. CASE ~ pc.Normalize
  <2>1. Normalize(pc, text) = text
    BY <1>1 DEF Normalize
  <2>2. \A w : FormOf(pc, w) = w /\ Formed(pc, w)
    BY <1>1 DEF FormOf, Formed
  <2>3. text \in Seq(NormalForms) /\ Len(text) \in Nat
    BY TextPipelineAssumption
  <2>4. {FormOf(pc, w) : w \in {v \in ToSet(text) : Formed(pc, v)}} = ToSet(text)
    BY <2>2
  <2> QED
    BY <2>1, <2>3, <2>4
<1>2. CASE pc.Normalize
  <2> DEFINE forms == [i \in DOMAIN text |-> Normalized[pc.StripAccents][text[i]]]
             keep == [i \in DOMAIN forms |-> /\ forms[i] # <<>>
                                             /\ Len(forms[i]) >= pc.MinTermLen]
  <2>1. Normalize(pc, text) = Select(forms, keep)
    BY <1>2 DEF Normalize
  <2>2. \A i \in DOMAIN text : text[i] \in Words /\ forms[i] = FormOf(pc, text[i])
    BY <1>2 DEF FormOf
  <2>3. \A i \in DOMAIN text : keep[i] = Formed(pc, text[i])
    <3>1. \A i \in DOMAIN text : keep[i] = /\ forms[i] # <<>>
                                           /\ Len(forms[i]) >= pc.MinTermLen
      OBVIOUS
    <3> HIDE DEF forms, keep
    <3> QED
      BY <1>2, <2>2, <3>1 DEF Formed
  <2>4. DOMAIN forms = DOMAIN text /\ DOMAIN text = 1 .. Len(text) /\ Len(text) \in Nat
    OBVIOUS
  <2>5. forms \in Seq(NormalForms) /\ Len(forms) = Len(text)
    <3>1. \A i \in DOMAIN text : forms[i] \in NormalForms
      <4> HIDE DEF forms
      <4> QED
        BY <2>2, TermTypes
    <3>2. forms \in [1 .. Len(text) -> NormalForms]
      BY <2>4, <3>1
    <3> HIDE DEF forms
    <3> QED
      BY <2>4, <3>2
  <2>6. keep \in [DOMAIN forms -> BOOLEAN]
    OBVIOUS
  <2> HIDE DEF forms, keep
  <2>7. ToSet(Select(forms, keep)) =
           {forms[i] : i \in {j \in DOMAIN text : keep[j]}}
    BY <2>4, <2>5, <2>6, SelectIs, ZenonT(40)
  <2>8. {forms[i] : i \in {j \in DOMAIN text : keep[j]}}
           = {FormOf(pc, w) : w \in {v \in ToSet(text) : Formed(pc, v)}}
    BY <2>2, <2>3 DEF ToSet
  <2>9. /\ Select(forms, keep) \in Seq(NormalForms)
        /\ Len(Select(forms, keep)) <= Len(forms)
    BY <2>5, <2>6, SelectIs
  <2> QED
    BY <2>1, <2>5, <2>7, <2>8, <2>9, Zenon
<1> QED
  BY <1>0, <1>1, <1>2

LEMMA FilterIs ==
    ASSUME NEW pc \in PipelineConfig, NEW tokens \in Seq(NormalForms), NEW lang
    PROVE  /\ Filter(pc, tokens, lang) \in Seq(NormalForms)
           /\ Len(Filter(pc, tokens, lang)) <= Len(tokens)
           /\ ToSet(Filter(pc, tokens, lang)) =
                 {t \in ToSet(tokens) : NoStopWord(pc, t)}
<1>0. pc.StopWords \in BOOLEAN
  BY DEF PipelineConfig
<1>1. CASE ~ pc.StopWords
  BY <1>1 DEF Filter, NoStopWord, ToSet
<1>2. CASE pc.StopWords
  <2> DEFINE keep == [i \in DOMAIN tokens |->
                         tokens[i] \notin StopWordsOf[DetectTokenLang(tokens[i])]]
  <2>1. Filter(pc, tokens, lang) = Select(tokens, keep)
    BY <1>2 DEF Filter
  <2>2. keep \in [DOMAIN tokens -> BOOLEAN]
    OBVIOUS
  <2>3. \A i \in DOMAIN tokens : keep[i] = NoStopWord(pc, tokens[i])
    BY <1>2 DEF NoStopWord
  <2> HIDE DEF keep
  <2>4. {tokens[i] : i \in {j \in DOMAIN tokens : keep[j]}}
           = {t \in ToSet(tokens) : NoStopWord(pc, t)}
    BY <2>3 DEF ToSet
  <2> QED
    BY <2>1, <2>2, <2>4, SelectIs
<1> QED
  BY <1>0, <1>1, <1>2

LEMMA StemTokensIs ==
    ASSUME NEW pc \in PipelineConfig, NEW tokens \in Seq(NormalForms), NEW lang
    PROVE  /\ StemTokens(pc, tokens, lang) \in Seq(NormalForms)
           /\ Len(StemTokens(pc, tokens, lang)) <= Len(tokens)
           /\ ToSet(StemTokens(pc, tokens, lang)) =
                 {StemOf(pc, t) : t \in {u \in ToSet(tokens) :
                                            pc.Stemming => StemOf(pc, u) # <<>>}}
<1>0. pc.Stemming \in BOOLEAN
  BY DEF PipelineConfig
<1>1. CASE ~ pc.Stemming
  <2>1. StemTokens(pc, tokens, lang) = tokens
    BY <1>1 DEF StemTokens
  <2>2. \A t : StemOf(pc, t) = t
    BY <1>1 DEF StemOf
  <2>3. {StemOf(pc, t) : t \in {u \in ToSet(tokens) :
                                   pc.Stemming => StemOf(pc, u) # <<>>}}
           = ToSet(tokens)
    BY <1>1, <2>2
  <2> QED
    BY <2>1, <2>3
<1>2. CASE pc.Stemming
  <2> DEFINE stems == [i \in DOMAIN tokens |->
                          Stemmed[DetectTokenLang(tokens[i])][tokens[i]]]
             keep == [i \in DOMAIN stems |-> stems[i] # <<>>]
  <2>1. StemTokens(pc, tokens, lang) = Select(stems, keep)
    BY <1>2 DEF StemTokens
  <2>2. \A i \in DOMAIN tokens : /\ tokens[i] \in NormalForms
                                 /\ stems[i] = StemOf(pc, tokens[i])
    BY <1>2 DEF StemOf
  <2>3. DOMAIN stems = DOMAIN tokens /\ DOMAIN tokens = 1 .. Len(tokens)
    OBVIOUS
  <2>4. stems \in Seq(NormalForms) /\ Len(stems) = Len(tokens)
    <3>1. \A i \in DOMAIN tokens : stems[i] \in NormalForms
      <4> HIDE DEF stems
      <4> QED
        BY <2>2, TermTypes
    <3>2. stems \in [1 .. Len(tokens) -> NormalForms] /\ Len(tokens) \in Nat
      BY <2>3, <3>1
    <3> HIDE DEF stems
    <3> QED
      BY <2>3, <3>2
  <2>5. \A i \in DOMAIN tokens : keep[i] = (stems[i] # <<>>)
    OBVIOUS
  <2>6. keep \in [DOMAIN stems -> BOOLEAN]
    OBVIOUS
  <2> HIDE DEF stems, keep
  <2>7. ToSet(Select(stems, keep)) = {stems[i] : i \in {j \in DOMAIN tokens : keep[j]}}
    BY <2>3, <2>4, <2>6, SelectIs, ZenonT(40)
  <2>8. {stems[i] : i \in {j \in DOMAIN tokens : keep[j]}}
           = {StemOf(pc, t) : t \in {u \in ToSet(tokens) :
                                        pc.Stemming => StemOf(pc, u) # <<>>}}
    BY <1>2, <2>2, <2>5 DEF ToSet
  <2>9. Select(stems, keep) \in Seq(NormalForms) /\ Len(Select(stems, keep)) <= Len(stems)
    BY <2>4, <2>6, SelectIs
  <2> QED
    BY <2>1, <2>4, <2>7, <2>8, <2>9
<1> QED
  BY <1>0, <1>1, <1>2

\* The first of the equal tokens stays, and no other.
LEMMA UniqueTermsIs ==
    ASSUME NEW S, NEW tokens \in Seq(S)
    PROVE  /\ UniqueTerms(tokens) \in Seq(S)
           /\ Len(UniqueTerms(tokens)) <= Len(tokens)
           /\ ToSet(UniqueTerms(tokens)) = ToSet(tokens)
           /\ NoRepeats(UniqueTerms(tokens))
<1> DEFINE keep == [i \in DOMAIN tokens |->
                       \A j \in 1 .. i - 1 : tokens[j] # tokens[i]]
<1>1. UniqueTerms(tokens) = Select(tokens, keep)
  BY DEF UniqueTerms
<1>2. keep \in [DOMAIN tokens -> BOOLEAN]
  OBVIOUS
<1>3. \A i \in DOMAIN tokens : keep[i] = \A j \in 1 .. i - 1 : tokens[j] # tokens[i]
  OBVIOUS
<1>4. DOMAIN tokens = 1 .. Len(tokens) /\ Len(tokens) \in Nat
  OBVIOUS
<1> HIDE DEF keep
<1>5. \A i, j \in DOMAIN tokens :
         keep[i] /\ keep[j] /\ tokens[i] = tokens[j] => i = j
  <2> SUFFICES ASSUME NEW i \in DOMAIN tokens, NEW j \in DOMAIN tokens,
                      keep[i], keep[j], tokens[i] = tokens[j], i # j
               PROVE  FALSE
    OBVIOUS
  <2>1. i \in 1 .. j - 1 \/ j \in 1 .. i - 1
    BY <1>4
  <2> QED
    BY <1>3, <2>1
<1>6. ASSUME NEW n \in DOMAIN tokens
      PROVE  \E i \in DOMAIN tokens : keep[i] /\ tokens[i] = tokens[n]
  <2> DEFINE E == {i \in DOMAIN tokens : tokens[i] = tokens[n]}
  <2>1. E \subseteq Nat /\ E # {}
    BY <1>4
  <2>2. PICK i \in E : \A j \in E : i <= j
    <3> HIDE DEF E
    <3> QED
      BY <2>1, NatMin
  <2>3. i \in DOMAIN tokens /\ tokens[i] = tokens[n]
    OBVIOUS
  <2>4. ASSUME NEW j \in 1 .. i - 1 PROVE tokens[j] # tokens[i]
    <3>1. j \in DOMAIN tokens /\ ~ (i <= j)
      BY <1>4, <2>3
    <3>2. j \notin E
      BY <2>2, <3>1
    <3> QED
      BY <2>3, <3>1, <3>2
  <2> QED
    BY <1>3, <2>3, <2>4
<1>7. {tokens[i] : i \in {j \in DOMAIN tokens : keep[j]}} = ToSet(tokens)
  BY <1>6 DEF ToSet
<1>8. /\ Select(tokens, keep) \in Seq(S)
      /\ Len(Select(tokens, keep)) <= Len(tokens)
      /\ ToSet(Select(tokens, keep)) = {tokens[i] : i \in {j \in DOMAIN tokens : keep[j]}}
  BY <1>2, SelectIs
<1>9. NoRepeats(Select(tokens, keep))
  BY <1>2, <1>5, SelectIs
<1> QED
  BY <1>1, <1>7, <1>8, <1>9

\* Process: the terms of the words that pass, each once.
LEMMA ProcessIs ==
    ASSUME NEW pc \in PipelineConfig, NEW language, NEW text \in Seq(Words)
    PROVE  /\ Process(pc, language, text) \in Seq(NormalForms)
           /\ Len(Process(pc, language, text)) <= Len(text)
           /\ ToSet(Process(pc, language, text)) =
                 {TermOf(pc, w) : w \in {v \in ToSet(text) : Passes(pc, v)}}
           /\ NoRepeats(Process(pc, language, text))
<1> DEFINE detected == IF language = "auto" THEN DetectLang(text) ELSE language
           lang == IF detected = "unknown" THEN "english" ELSE detected
           formed == Normalize(pc, text)
           kept == Filter(pc, formed, lang)
           stems == StemTokens(pc, kept, lang)
<1>1. Process(pc, language, text) = UniqueTerms(stems)
  BY DEF Process
<1> HIDE DEF lang
<1>2. /\ formed \in Seq(NormalForms) /\ Len(formed) <= Len(text)
      /\ ToSet(formed) = {FormOf(pc, w) : w \in {v \in ToSet(text) : Formed(pc, v)}}
  BY NormalizeIs
<1> HIDE DEF formed
<1>3. /\ kept \in Seq(NormalForms) /\ Len(kept) <= Len(formed)
      /\ ToSet(kept) = {t \in ToSet(formed) : NoStopWord(pc, t)}
  BY <1>2, FilterIs
<1> HIDE DEF kept
<1>4. /\ stems \in Seq(NormalForms) /\ Len(stems) <= Len(kept)
      /\ ToSet(stems) = {StemOf(pc, t) : t \in {u \in ToSet(kept) :
                                                  pc.Stemming => StemOf(pc, u) # <<>>}}
  BY <1>3, StemTokensIs
<1> HIDE DEF stems
<1>5. /\ UniqueTerms(stems) \in Seq(NormalForms)
      /\ Len(UniqueTerms(stems)) <= Len(stems)
      /\ ToSet(UniqueTerms(stems)) = ToSet(stems)
      /\ NoRepeats(UniqueTerms(stems))
  BY <1>4, UniqueTermsIs
<1>6. Len(UniqueTerms(stems)) <= Len(text)
  <2>1. /\ Len(UniqueTerms(stems)) \in Nat /\ Len(stems) \in Nat
        /\ Len(kept) \in Nat /\ Len(formed) \in Nat /\ Len(text) \in Nat
    BY <1>2, <1>3, <1>4, <1>5
  <2> QED
    BY <1>2, <1>3, <1>4, <1>5, <2>1
<1>7. ToSet(stems) = {TermOf(pc, w) : w \in {v \in ToSet(text) : Passes(pc, v)}}
  BY <1>2, <1>3, <1>4 DEF Passes, TermOf
<1> QED
  BY <1>1, <1>5, <1>6, <1>7

\* A word alone.
LEMMA WordAlone ==
    ASSUME NEW pc \in PipelineConfig, NEW language, NEW w \in Words
    PROVE  Process(pc, language, <<w>>) =
              IF Passes(pc, w) THEN <<TermOf(pc, w)>> ELSE <<>>
<1> DEFINE P == Process(pc, language, <<w>>)
<1>1. <<w>> \in Seq(Words) /\ Len(<<w>>) = 1 /\ ToSet(<<w>>) = {w}
  BY DEF ToSet
<1>2. /\ P \in Seq(NormalForms) /\ Len(P) <= 1
      /\ ToSet(P) = {TermOf(pc, v) : v \in {u \in {w} : Passes(pc, u)}}
  BY <1>1, ProcessIs
<1> HIDE DEF P
<1>3. CASE Passes(pc, w)
  <2>1. ToSet(P) = {TermOf(pc, w)}
    BY <1>2, <1>3
  <2>2. PICK i \in DOMAIN P : P[i] = TermOf(pc, w)
    BY <2>1 DEF ToSet
  <2>3. Len(P) = 1 /\ i = 1
    BY <1>2, <2>2
  <2>4. P = <<TermOf(pc, w)>>
    BY <1>2, <2>2, <2>3
  <2> QED
    BY <1>3, <2>4 DEF P
<1>4. CASE ~ Passes(pc, w)
  <2>1. ToSet(P) = {}
    BY <1>2, <1>4
  <2>2. Len(P) = 0
    BY <1>2, <2>1 DEF ToSet
  <2>3. P = <<>>
    BY <1>2, <2>2
  <2> QED
    BY <1>4, <2>3 DEF P
<1> QED
  BY <1>3, <1>4

-----------------------------------------------------------------------------
(* The ids that GetOrAddTerms gives.                                       *)

\* How many members of a set of positions precede each of them.
LEMMA Ranks ==
    ASSUME NEW n \in Nat, NEW P \in SUBSET (1 .. n)
    PROVE  /\ Cardinality(P) \in 0 .. n
           /\ \A i \in P : Cardinality({j \in P : j < i}) \in 0 .. Cardinality(P) - 1
           /\ \A i, m \in P : i # m =>
                 Cardinality({j \in P : j < i}) # Cardinality({j \in P : j < m})
<1> DEFINE B(i) == {j \in P : j < i}
<1>1. IsFiniteSet(1 .. n) /\ Cardinality(1 .. n) = n
  BY FS_Interval
<1>2. IsFiniteSet(P) /\ Cardinality(P) <= n
  BY <1>1, FS_Subset
<1>3. Cardinality(P) \in Nat
  BY <1>2, FS_CardinalityType
<1>4. ASSUME NEW Q \in SUBSET P
      PROVE  IsFiniteSet(Q) /\ Cardinality(Q) \in Nat /\ Cardinality(Q) <= Cardinality(P)
  BY <1>2, FS_Subset, FS_CardinalityType
<1>5. ASSUME NEW Q \in SUBSET P, NEW i \in Q, NEW R \in SUBSET Q, i \notin R
      PROVE  Cardinality(R) # Cardinality(Q)
  BY <1>4, <1>5, FS_Subset
<1>6. ASSUME NEW i \in P PROVE Cardinality(B(i)) \in 0 .. Cardinality(P) - 1
  <2>1. B(i) \in SUBSET P /\ i \notin B(i) /\ P \in SUBSET P
    OBVIOUS
  <2>2. Cardinality(B(i)) # Cardinality(P)
    <3> HIDE DEF B
    <3> QED
      BY <1>5, <2>1
  <2>3. Cardinality(B(i)) \in Nat /\ Cardinality(B(i)) <= Cardinality(P)
    <3> HIDE DEF B
    <3> QED
      BY <1>4, <2>1
  <2> HIDE DEF B
  <2> QED
    BY <1>3, <2>2, <2>3
<1>7. ASSUME NEW i \in P, NEW m \in P, i < m
      PROVE  Cardinality(B(i)) # Cardinality(B(m))
  <2>0. \A j \in P : j < i => j < m
    BY <1>7
  <2>1. B(m) \in SUBSET P /\ i \in B(m) /\ B(i) \in SUBSET B(m)
    BY <1>7, <2>0, Zenon
  <2>2. i \notin B(i)
    OBVIOUS
  <2> HIDE DEF B
  <2> QED
    BY <1>5, <2>1, <2>2
<1>8. \A i, m \in P : i # m => i < m \/ m < i
  OBVIOUS
<1>9. \A i, m \in P : i # m => Cardinality(B(i)) # Cardinality(B(m))
  <2> HIDE DEF B
  <2> QED
    BY <1>7, <1>8
<1> QED
  BY <1>2, <1>3, <1>6, <1>9

LEMMA DictCardinality == \A S : Dict!Cardinality(S) = Cardinality(S)
  BY DEF Dict!Cardinality, Cardinality

LEMMA BatchIs ==
    ASSUME memNextID \in Nat, NEW S, NEW batch \in Seq(S), NoRepeats(batch),
           Dict!GetOrAddTerms(batch)
    PROVE  /\ DOMAIN termToID' = DOMAIN termToID \cup ToSet(batch)
           /\ memNextID' \in Nat
           /\ memNextID <= memNextID' /\ memNextID' <= memNextID + Len(batch)
           /\ \A t \in DOMAIN termToID : termToID'[t] = termToID[t]
           /\ \A t \in ToSet(batch) \ DOMAIN termToID :
                 termToID'[t] \in memNextID .. memNextID' - 1
           /\ \A t, u \in ToSet(batch) \ DOMAIN termToID :
                 t # u => termToID'[t] # termToID'[u]
<1> DEFINE new == {i \in DOMAIN batch : batch[i] \notin DOMAIN termToID}
           Rank(i) == Cardinality({j \in new : j < i})
           at(t) == CHOOSE i \in new : batch[i] = t
           N == Len(batch)
           C == Cardinality(new)
<1>1. /\ termToID' = [t \in DOMAIN termToID \cup {batch[i] : i \in new} |->
                         IF t \in DOMAIN termToID THEN termToID[t]
                         ELSE memNextID + Rank(at(t))]
      /\ memNextID' = memNextID + C
  BY DictCardinality DEF Dict!GetOrAddTerms, Dict!FirstNewID
<1>2. N \in Nat /\ DOMAIN batch = 1 .. N
  OBVIOUS
<1>3. new \in SUBSET (1 .. N)
  OBVIOUS
<1>4. /\ C \in 0 .. N
      /\ \A i \in new : Rank(i) \in 0 .. C - 1
      /\ \A i, m \in new : i # m => Rank(i) # Rank(m)
  <2> HIDE DEF new, N
  <2> QED
    BY <1>2, <1>3, Ranks
<1>5. DOMAIN termToID \cup {batch[i] : i \in new} = DOMAIN termToID \cup ToSet(batch)
  BY DEF ToSet
<1>6. \A t \in ToSet(batch) \ DOMAIN termToID : at(t) \in new /\ batch[at(t)] = t
  <2> TAKE t \in ToSet(batch) \ DOMAIN termToID
  <2>1. \E i \in new : batch[i] = t
    BY DEF ToSet
  <2> HIDE DEF new
  <2> QED
    BY <2>1
<1> HIDE DEF new, Rank, at, N, C
<1>7. DOMAIN termToID' = DOMAIN termToID \cup ToSet(batch)
  BY <1>1, <1>5
<1>8. \A t \in DOMAIN termToID : termToID'[t] = termToID[t]
  BY <1>1
<1>9. \A t \in ToSet(batch) \ DOMAIN termToID : termToID'[t] = memNextID + Rank(at(t))
  BY <1>1, <1>5
<1>10. \A t \in ToSet(batch) \ DOMAIN termToID : Rank(at(t)) \in 0 .. C - 1
  BY <1>4, <1>6
<1>11. \A t, u \in ToSet(batch) \ DOMAIN termToID : t # u => Rank(at(t)) # Rank(at(u))
  <2> TAKE t, u \in ToSet(batch) \ DOMAIN termToID
  <2>1. t # u => at(t) # at(u)
    BY <1>6
  <2> QED
    BY <1>4, <1>6, <2>1
<1>12. ASSUME NEW t \in ToSet(batch) \ DOMAIN termToID
       PROVE  termToID'[t] \in memNextID .. memNextID' - 1
  BY <1>1, <1>2, <1>4, <1>9, <1>10
<1>13. ASSUME NEW t \in ToSet(batch) \ DOMAIN termToID,
              NEW u \in ToSet(batch) \ DOMAIN termToID, t # u
       PROVE  termToID'[t] # termToID'[u]
  <2>1. Rank(at(t)) \in Nat /\ Rank(at(u)) \in Nat
    BY <1>10
  <2> QED
    BY <1>9, <1>11, <1>13, <2>1
<1>14. memNextID' \in Nat /\ memNextID <= memNextID' /\ memNextID' <= memNextID + N
  BY <1>1, <1>2, <1>4
<1> QED
  BY <1>7, <1>8, <1>12, <1>13, <1>14 DEF N

-----------------------------------------------------------------------------
(* The terms of documents, their ids and their postings.                   *)

DocTerms ==
    [d \in DocIDs |-> ToSet(Process(conf.Index, conf.Language, docs[d + 1].text))]

\* An id with the term that is under it in the k-gram index, or is going to be.
Owners == {<<f, termByID[f]>> : f \in DOMAIN termByID} \cup ToSet(todo)

Running == stage \notin {"start", "exited"}

StageInv ==
    /\ stage \in {"start", "files", "terms", "prompt", "answered", "exited",
                  "closed"}
    /\ conf \in EngineConfig
    /\ Running =>
          Valid(conf) /\ \A n \in DOMAIN conf.Sizes : conf.Sizes[n] \in Nat \ {0}
    /\ Len(docs) <= setup.maxDocs
    /\ losses \in 0 .. setup.maxLosses
    /\ losses # 0 \/ missed # {} => conf.Backend = "lsm"

\* Ids are given one after the other, and an id stays with its term: also that
\* of a term that the dictionary has lost is not given to another one.  As long
\* as nothing has been lost a term has one id.
IDsInv ==
    /\ memNextID \in Nat /\ memNextID <= Len(docs) * MaxWords
    /\ DOMAIN termToID \subseteq NormalForms
    /\ \A t \in DOMAIN termToID :
          termToID[t] \in 0 .. memNextID - 1 /\ <<termToID[t], t>> \in Owners
    /\ todo \in Seq(FeatureIDs \X NormalForms)
    /\ stage # "terms" => todo = <<>>
    /\ Owners \subseteq (0 .. memNextID - 1) \X NormalForms
    /\ \A f, t, u : <<f, t>> \in Owners /\ <<f, u>> \in Owners => t = u
    /\ losses = 0 =>
          \A f, t : <<f, t>> \in Owners =>
             t \in DOMAIN termToID /\ termToID[t] = f

\* A posting list has documents with the term that owns the id, and all of
\* them as long as nothing has been lost.
PostingsInv ==
    /\ postings \in [FeatureIDs -> SUBSET DocIDs] /\ allDocs \subseteq DocIDs
    /\ \A f \in FeatureIDs : f >= memNextID => postings[f] = {}
    /\ \A f \in FeatureIDs : \A t : <<f, t>> \in Owners =>
          \A d \in postings[f] : t \in DocTerms[d]
    /\ \A t \in DOMAIN termToID : \E d \in DocIDs : t \in DocTerms[d]
    /\ losses = 0 =>
          \A d \in DocIDs : \A t \in DocTerms[d] :
             t \in DOMAIN termToID /\ d \in postings[termToID[t]]

\* What makes SearchExact, WildcardExact and NoFalseResult inductive.
TextInv == DateInv /\ KgramInv /\ StageInv /\ IDsInv /\ PostingsInv

LEMMA SetupTypes ==
    ASSUME NEW s \in Setups
    PROVE  /\ s.conf \in EngineConfig
           /\ \A file \in s.files : file \in Files /\ Len(file.text) <= MaxWords
           /\ s.maxDocs \in Nat /\ s.maxDocs <= MaxDocs /\ s.maxLosses \in Nat
  BY EngineAssumption

LEMMA ConfTypes ==
    ASSUME NEW c \in EngineConfig
    PROVE  /\ c.Sizes \in [DOMAIN DefaultSizes -> Int]
           /\ c.Index \in PipelineConfig /\ c.Query \in PipelineConfig
           /\ WithDefaults(c) \in EngineConfig
           /\ Valid(c) => Valid(WithDefaults(c))
           /\ \A n \in DOMAIN WithDefaults(c).Sizes :
                 WithDefaults(c).Sizes[n] \in Nat \ {0}
           /\ WithDefaults(c).Index = c.Index
           /\ WithDefaults(c).Language = c.Language
           /\ WithDefaults(c).Backend = c.Backend
<1> DEFINE sizes == [n \in DOMAIN c.Sizes |->
                        IF c.Sizes[n] <= 0 THEN DefaultSizes[n] ELSE c.Sizes[n]]
           w == WithDefaults(c)
<1>1. /\ c.Sizes \in [DOMAIN DefaultSizes -> Int]
      /\ c.Index \in PipelineConfig /\ c.Query \in PipelineConfig
  BY DEF EngineConfig
<1>2. w = [c EXCEPT !.Sizes = sizes]
  BY DEF WithDefaults
<1>3. \A n \in DOMAIN DefaultSizes : sizes[n] \in Nat \ {0}
  BY <1>1, EngineAssumption
<1>4. DOMAIN sizes = DOMAIN DefaultSizes
  BY <1>1
<1>5. sizes \in [DOMAIN DefaultSizes -> Int]
  <2>1. \A n \in DOMAIN c.Sizes :
           (IF c.Sizes[n] <= 0 THEN DefaultSizes[n] ELSE c.Sizes[n]) \in Int
    BY <1>1, EngineAssumption
  <2>2. DOMAIN c.Sizes = DOMAIN DefaultSizes
    BY <1>1
  <2> QED
    BY <2>1, <2>2
<1> HIDE DEF sizes, w
<1>6. /\ w \in EngineConfig /\ w.Sizes = sizes
      /\ w.Dir = c.Dir /\ w.Language = c.Language /\ w.Backend = c.Backend
      /\ w.Index = c.Index /\ w.Query = c.Query
  BY <1>2, <1>5 DEF EngineConfig
<1>7. Valid(c) => Valid(w)
  BY <1>6 DEF Valid
<1> QED
  BY <1>1, <1>3, <1>4, <1>6, <1>7 DEF w

LEMMA StageInvInit == ASSUME EngineInit PROVE StageInv
<1>1. setup \in Setups /\ stage = "start" /\ conf = setup.conf /\ docs = <<>>
      /\ losses = 0 /\ missed = {}
  BY DEF EngineInit
<1>2. Len(docs) = 0 /\ 0 <= setup.maxDocs /\ losses \in 0 .. setup.maxLosses
  BY <1>1, SetupTypes
<1> QED
  BY <1>1, <1>2, SetupTypes DEF StageInv, Running

LEMMA StageInvNext ==
    ASSUME DateInv, StageInv, [EngineNext]_engineVars
    PROVE  StageInv'
<1> DEFINE Positive == \A n \in DOMAIN conf.Sizes : conf.Sizes[n] \in Nat \ {0}
<1>1. ASSUME UNCHANGED <<conf, setup, docs, losses>>,
             missed' # {} => missed # {} \/ conf.Backend = "lsm",
             stage' \in {"start", "files", "terms", "prompt", "answered", "exited",
                         "closed"},
             Running' => Running
      PROVE  StageInv'
  BY <1>1 DEF StageInv
<1>2. CASE NewEngine
  <2>1. conf \in EngineConfig
    BY DEF StageInv
  <2>2. UNCHANGED <<setup, docs, losses, missed>>
    BY <1>2 DEF NewEngine
  <2>3. CASE Valid(conf) /\ conf' = WithDefaults(conf) /\ stage' = "files"
    BY <2>1, <2>2, <2>3, ConfTypes DEF StageInv
  <2>4. CASE stage' = "exited" /\ UNCHANGED conf
    BY <2>2, <2>4 DEF StageInv, Running
  <2> QED
    BY <1>2, <2>3, <2>4 DEF NewEngine
<1>3. ASSUME NEW file \in setup.files, IndexFile(file) PROVE StageInv'
  <2>1. /\ stage = "files" /\ stage' = "terms" /\ Len(docs) < setup.maxDocs
        /\ docs' = Append(docs, [text |-> file.text, meta |-> LoadMeta(file.entry)])
        /\ UNCHANGED <<conf, setup, losses>> /\ missed' = {}
    BY <1>3 DEF IndexFile
  <2>2. docs \in Seq(DocRecords) /\ setup.maxDocs \in Nat
    BY SetupTypes DEF DateInv
  <2>3. Len(docs') = Len(docs) + 1
    BY <2>1, <2>2
  <2>4. Len(docs') <= setup.maxDocs
    BY <2>1, <2>2, <2>3
  <2> QED
    BY <2>1, <2>4 DEF StageInv, Running
<1>4. CASE Lose
  <2>1. losses < setup.maxLosses /\ losses' = losses + 1 /\ setup.maxLosses \in Nat
        /\ UNCHANGED <<conf, setup, docs, stage>> /\ conf.Backend = "lsm"
    BY <1>4, SetupTypes DEF Lose, DateInv
  <2>2. losses' \in 0 .. setup.maxLosses
    BY <2>1 DEF StageInv
  <2> QED
    BY <2>1, <2>2 DEF StageInv, Running
<1>5. CASE EnterTerm \/ EnterDates \/ IndexDone \/ Miss \/ FoundAgain \/ Close
           \/ AnswerLine \/ AwaitLine \/ UNCHANGED engineVars
  <2>1. /\ UNCHANGED <<conf, setup, docs, losses>>
        /\ missed' # {} => missed # {} \/ conf.Backend = "lsm"
    BY <1>5 DEF EnterTerm, EnterDates, IndexDone, Miss, FoundAgain, Close,
                AnswerLine, AwaitLine, engineVars
  <2>2. stage' \in {"start", "files", "terms", "prompt", "answered", "exited",
                    "closed"}
        /\ (Running' => Running)
    BY <1>5 DEF EnterTerm, EnterDates, IndexDone, Miss, FoundAgain, Close,
                AnswerLine, AwaitLine, engineVars, StageInv, Running
  <2> QED
    BY <1>1, <2>1, <2>2
<1> QED
  BY <1>2, <1>3, <1>4, <1>5 DEF EngineNext, MainNext

LEMMA TextInvInit == ASSUME EngineInit PROVE TextInv
<1>1. /\ docs = <<>> /\ todo = <<>> /\ memNextID = 0 /\ DOMAIN termToID = {}
      /\ postings = [f \in FeatureIDs |-> {}] /\ allDocs = {}
      /\ DOMAIN termByID = {} /\ KgramInit
  BY DEF EngineInit, KgramInit
<1>2. Len(docs) = 0 /\ DocIDs = {} /\ DOMAIN todo = {}
  BY <1>1 DEF DocIDs
<1>3. Owners = {}
  BY <1>1, <1>2 DEF Owners, ToSet
<1>4. memNextID \in Nat /\ memNextID <= Len(docs) * MaxWords
  <2>1. 0 * MaxWords = 0
    BY EngineAssumption
  <2> QED
    BY <1>1, <1>2, <2>1
<1>5. IDsInv
  BY <1>1, <1>3, <1>4, EmptySeq DEF IDsInv
<1>6. PostingsInv
  BY <1>1, <1>2, <1>3 DEF PostingsInv
<1> QED
  BY <1>1, <1>5, <1>6, DateInvInit, KgramInvInit, StageInvInit DEF TextInv

LEMMA Products ==
    ASSUME NEW a \in Nat, NEW b \in Nat, NEW w \in Nat, a <= b
    PROVE  a * w \in Nat /\ b * w \in Nat /\ a * w <= b * w /\ (a + 1) * w = a * w + w
<1> DEFINE c == b - a
<1>1. c \in Nat /\ b = a + c
  OBVIOUS
<1> HIDE DEF c
<1>2. (a + c) * w = a * w + c * w /\ a * w \in Nat /\ c * w \in Nat
  BY <1>1
<1>3. (a + 1) * w = a * w + w
  OBVIOUS
<1>4. b * w = a * w + c * w
  BY <1>1, <1>2
<1> QED
  BY <1>2, <1>3, <1>4

\* The ids do not run out.
LEMMA IDsFit ==
    ASSUME DateInv, StageInv, NEW m \in Nat, m <= Len(docs) * MaxWords
    PROVE  0 .. m - 1 \subseteq FeatureIDs
<1>1. Len(docs) \in Nat /\ MaxDocs \in Nat /\ MaxWords \in Nat
      /\ 0 .. MaxDocs * MaxWords - 1 \subseteq FeatureIDs
  BY EngineAssumption DEF DateInv
<1>2. Len(docs) <= MaxDocs
  BY <1>1, SetupTypes DEF DateInv, StageInv
<1>3. Len(docs) * MaxWords <= MaxDocs * MaxWords
      /\ Len(docs) * MaxWords \in Nat /\ MaxDocs * MaxWords \in Nat
  BY <1>1, <1>2, Products
<1>4. m <= MaxDocs * MaxWords
  BY <1>3
<1>5. 0 .. m - 1 \subseteq 0 .. MaxDocs * MaxWords - 1
  BY <1>3, <1>4
<1> QED
  BY <1>1, <1>5

\* What leaves the documents, the dictionary, the postings and the terms of
\* the k-gram index as they are.
LEMMA TextSame ==
    ASSUME IDsInv, PostingsInv,
           UNCHANGED <<docs, dictVars, idxVars, todo, termByID, losses>>,
           stage' # "terms" => todo = <<>>,
           conf'.Index = conf.Index, conf'.Language = conf.Language
    PROVE  IDsInv' /\ PostingsInv'
<1>1. UNCHANGED <<docs, termToID, memNextID, postings, allDocs, todo, termByID, losses>>
  BY DEF dictVars, idxVars
<1>2. Owners' = Owners
  BY <1>1 DEF Owners
<1>3. DocIDs' = DocIDs /\ DocTerms' = DocTerms
  BY <1>1 DEF DocIDs, DocTerms
<1>4. IDsInv'
  BY <1>1, <1>2 DEF IDsInv
<1>5. PostingsInv'
  BY <1>1, <1>2, <1>3 DEF PostingsInv
<1> QED
  BY <1>4, <1>5

LEMMA TextEnterTerm ==
    ASSUME TextInv, EnterTerm
    PROVE  KgramInv' /\ IDsInv' /\ PostingsInv'
<1> DEFINE id == todo[1][1]
           term == todo[1][2]
<1>1. /\ stage = "terms" /\ todo # <<>> /\ AddTerm(id, term)
      /\ todo' = Tail(todo) /\ stage' = stage
      /\ UNCHANGED <<conf, docs, termToID, memNextID, postings, allDocs, losses>>
  BY DEF EnterTerm, dictVars, idxVars
<1>2. todo \in Seq(FeatureIDs \X NormalForms)
  BY DEF TextInv, IDsInv
<1>3. Len(todo) \in Nat \ {0} /\ DOMAIN todo = 1 .. Len(todo)
  BY <1>1, <1>2
<1>4. id \in FeatureIDs /\ term \in NormalForms /\ todo[1] = <<id, term>> /\ 1 \in DOMAIN todo
  BY <1>2, <1>3
<1>5. /\ todo' \in Seq(FeatureIDs \X NormalForms)
      /\ DOMAIN todo' = 1 .. Len(todo) - 1
      /\ \A i \in 1 .. Len(todo) - 1 : todo'[i] = todo[i + 1]
  BY <1>1, <1>2, <1>3
<1> HIDE DEF id, term
<1>6. KgramInv'
  <2>1. term \in SomeTerms
    BY <1>4, EngineAssumption
  <2>2. KgramNext
    BY <1>1, <1>4, <2>1 DEF KgramNext
  <2> QED
    BY <2>2, KgramInvNext DEF TextInv
<1>7. <<id, term>> \in Owners
  BY <1>4 DEF Owners, ToSet
<1>8. \A f, t : (f \in DOMAIN termByID' /\ termByID'[f] = t) <=>
                   (f \in DOMAIN termByID /\ termByID[f] = t) \/ (f = id /\ t = term)
  <2>1. CASE id \in DOMAIN termByID
    <3>1. termByID' = termByID
      BY <1>1, <2>1 DEF AddTerm, kgramVars
    <3>2. termByID[id] = term
      <4>1. <<id, termByID[id]>> \in Owners
        BY <2>1 DEF Owners
      <4> QED
        BY <1>7, <4>1 DEF TextInv, IDsInv
    <3> QED
      BY <2>1, <3>1, <3>2
  <2>2. CASE id \notin DOMAIN termByID
    <3>1. termByID' = [i \in DOMAIN termByID \cup {id} |->
                          IF i = id THEN term ELSE termByID[i]]
      BY <1>1, <2>2 DEF AddTerm
    <3> QED
      BY <2>2, <3>1
  <2> QED
    BY <2>1, <2>2
<1>9. \A f, t : (\E i \in DOMAIN todo : todo[i] = <<f, t>>) <=>
                   (\E i \in DOMAIN todo' : todo'[i] = <<f, t>>) \/ (f = id /\ t = term)
  <2> TAKE f, t
  <2>1. ASSUME NEW i \in DOMAIN todo, todo[i] = <<f, t>>
        PROVE  (\E j \in DOMAIN todo' : todo'[j] = <<f, t>>) \/ (f = id /\ t = term)
    <3>1. CASE i = 1
      BY <1>4, <2>1, <3>1
    <3>2. CASE i # 1
      <4> DEFINE j == i - 1
      <4>1. j \in 1 .. Len(todo) - 1 /\ j + 1 = i
        BY <1>3, <3>2
      <4>2. todo'[j] = todo[j + 1]
        BY <1>5, <4>1
      <4> HIDE DEF j
      <4> QED
        BY <1>5, <2>1, <4>1, <4>2
    <3> QED
      BY <3>1, <3>2
  <2>2. ASSUME NEW j \in DOMAIN todo', todo'[j] = <<f, t>>
        PROVE  \E i \in DOMAIN todo : todo[i] = <<f, t>>
    <3>1. j \in 1 .. Len(todo) - 1 /\ j + 1 \in DOMAIN todo /\ todo'[j] = todo[j + 1]
      BY <1>3, <1>5
    <3> QED
      BY <2>2, <3>1
  <2> QED
    BY <1>4, <2>1, <2>2
<1>10. Owners' = Owners
  <2>1. ASSUME NEW x \in Owners PROVE x \in Owners'
    <3>1. PICK f, t : x = <<f, t>>
      BY <1>2 DEF Owners, ToSet
    <3> QED
      BY <1>8, <1>9, <2>1, <3>1 DEF Owners, ToSet
  <2>2. ASSUME NEW x \in Owners' PROVE x \in Owners
    <3>1. PICK f, t : x = <<f, t>>
      BY <1>5, <2>2 DEF Owners, ToSet
    <3> QED
      BY <1>8, <1>9, <2>2, <3>1 DEF Owners, ToSet
  <2> QED
    BY <2>1, <2>2
<1>11. DocIDs' = DocIDs /\ DocTerms' = DocTerms
  BY <1>1 DEF DocIDs, DocTerms
<1>12. IDsInv'
  BY <1>1, <1>5, <1>10 DEF TextInv, IDsInv
<1>13. PostingsInv'
  BY <1>1, <1>10, <1>11 DEF TextInv, PostingsInv
<1> QED
  BY <1>6, <1>12, <1>13

LEMMA TextLose ==
    ASSUME TextInv, Lose
    PROVE  IDsInv' /\ PostingsInv'
<1>1. /\ stage' = stage /\ losses' # 0
      /\ UNCHANGED <<conf, docs, memNextID, allDocs, todo, termByID>>
      /\ \/ \E t \in DOMAIN termToID :
               /\ termToID' = [s \in DOMAIN termToID \ {t} |-> termToID[s]]
               /\ postings' = postings
         \/ \E t \in DOMAIN termToID, f \in DOMAIN termByID :
               /\ termByID[f] = t
               /\ termToID' = [termToID EXCEPT ![t] = f]
               /\ postings' = postings
         \/ \E f \in FeatureIDs : \E d \in postings[f] :
               /\ postings' = [postings EXCEPT ![f] = @ \ {d}]
               /\ termToID' = termToID
  <2>1. losses' = losses + 1 /\ losses \in Nat
    BY DEF Lose, TextInv, StageInv
  <2>2. losses' # 0
    BY <2>1
  <2> QED
    BY <2>2 DEF Lose, LoseTerm, ShowOlder, LosePosting, idxVars, dictVars, kgramVars
<1>2. Owners' = Owners
  BY <1>1 DEF Owners
<1>3. DocIDs' = DocIDs /\ DocTerms' = DocTerms
  BY <1>1 DEF DocIDs, DocTerms
<1>4. /\ DOMAIN termToID' \subseteq DOMAIN termToID
      /\ \A t \in DOMAIN termToID' :
            termToID'[t] = termToID[t] \/ <<termToID'[t], t>> \in Owners
  <2>1. ASSUME NEW t \in DOMAIN termToID, NEW f \in DOMAIN termByID, termByID[f] = t,
               termToID' = [termToID EXCEPT ![t] = f]
        PROVE  /\ DOMAIN termToID' = DOMAIN termToID
               /\ \A u \in DOMAIN termToID' :
                     termToID'[u] = termToID[u] \/ <<termToID'[u], u>> \in Owners
    <3>1. <<f, t>> \in Owners
      BY <2>1 DEF Owners
    <3> QED
      BY <2>1, <3>1
  <2>2. ASSUME NEW t \in DOMAIN termToID,
               termToID' = [s \in DOMAIN termToID \ {t} |-> termToID[s]]
        PROVE  /\ DOMAIN termToID' \subseteq DOMAIN termToID
               /\ \A u \in DOMAIN termToID' : termToID'[u] = termToID[u]
    BY <2>2
  <2> QED
    BY <1>1, <2>1, <2>2
<1>5. postings' \in [FeatureIDs -> SUBSET DocIDs]
      /\ \A f \in FeatureIDs : postings'[f] \subseteq postings[f]
  <2>0. postings \in [FeatureIDs -> SUBSET DocIDs]
    BY DEF TextInv, PostingsInv
  <2>1. CASE postings' = postings
    BY <2>0, <2>1
  <2>2. ASSUME NEW f \in FeatureIDs, NEW d \in postings[f],
               postings' = [postings EXCEPT ![f] = @ \ {d}]
        PROVE  /\ postings' \in [FeatureIDs -> SUBSET DocIDs]
               /\ \A g \in FeatureIDs : postings'[g] \subseteq postings[g]
    <3>1. postings[f] \ {d} \in SUBSET DocIDs
      BY <2>0
    <3>2. \A g \in FeatureIDs : postings'[g] = IF g = f THEN postings[f] \ {d}
                                                       ELSE postings[g]
      BY <2>0, <2>2
    <3> QED
      BY <2>0, <2>2, <3>1, <3>2
  <2> QED
    BY <1>1, <2>1, <2>2
<1>6. IDsInv'
  <2>1. \A t \in DOMAIN termToID' :
           termToID'[t] \in 0 .. memNextID - 1 /\ <<termToID'[t], t>> \in Owners
    <3> SUFFICES ASSUME NEW t \in DOMAIN termToID'
                 PROVE  termToID'[t] \in 0 .. memNextID - 1
                        /\ <<termToID'[t], t>> \in Owners
      OBVIOUS
    <3>1. <<termToID'[t], t>> \in Owners
      BY <1>4 DEF TextInv, IDsInv
    <3>2. <<termToID'[t], t>> \in (0 .. memNextID - 1) \X NormalForms
      BY <3>1 DEF TextInv, IDsInv
    <3> QED
      BY <3>1, <3>2
  <2> QED
    BY <1>1, <1>2, <1>4, <2>1 DEF TextInv, IDsInv
<1>7. PostingsInv'
  <2>1. \A f \in FeatureIDs : f >= memNextID => postings'[f] = {}
    BY <1>5 DEF TextInv, PostingsInv
  <2>2. \A f \in FeatureIDs : \A t : <<f, t>> \in Owners =>
           \A d \in postings'[f] : t \in DocTerms[d]
    BY <1>5 DEF TextInv, PostingsInv
  <2>3. \A t \in DOMAIN termToID' : \E d \in DocIDs : t \in DocTerms[d]
    BY <1>4 DEF TextInv, PostingsInv
  <2> QED
    BY <1>1, <1>2, <1>3, <1>5, <2>1, <2>2, <2>3 DEF TextInv, PostingsInv
<1> QED
  BY <1>6, <1>7

LEMMA Intervals ==
    ASSUME NEW a \in Nat, NEW b \in Nat, a <= b
    PROVE  /\ \A f \in 0 .. a - 1 : f \in 0 .. b - 1
           /\ \A f \in a .. b - 1 : f \in 0 .. b - 1
           /\ \A f \in a .. b - 1 : f \notin 0 .. a - 1
           /\ \A f \in Nat : ~ (f >= a) => f \notin a .. b - 1
           /\ \A f \in Nat : f >= b => f >= a /\ f \notin 0 .. b - 1
  OBVIOUS

LEMMA TextIndexFile ==
    ASSUME TextInv, StageInv', NEW file \in setup.files, IndexFile(file)
    PROVE  IDsInv' /\ PostingsInv'
<1>0. PICK n \in Nat : n = Len(docs)
  BY DEF TextInv, DateInv
<1> DEFINE P == Process(conf.Index, conf.Language, file.text)
           F == [i \in DOMAIN P |-> termToID'[P[i]]]
<1>1. /\ stage = "files" /\ stage' = "terms"
      /\ docs' = Append(docs, [text |-> file.text, meta |-> LoadMeta(file.entry)])
      /\ Dict!GetOrAddTerms(P) /\ Idx!Add(n, F)
      /\ todo' = [i \in DOMAIN P |-> <<F[i], P[i]>>]
      /\ UNCHANGED <<setup, conf, termByID, losses>>
  BY <1>0 DEF IndexFile, kgramVars
<1>2. file \in Files /\ file.text \in Seq(Words) /\ Len(file.text) <= MaxWords
  BY SetupTypes DEF TextInv, DateInv, Files
<1>3. n \in Nat /\ docs \in Seq(DocRecords) /\ MaxWords \in Nat
  BY EngineAssumption DEF TextInv, DateInv
<1>4. P \in Seq(NormalForms) /\ Len(P) <= MaxWords /\ NoRepeats(P)
      /\ Len(P) \in Nat /\ DOMAIN P = 1 .. Len(P)
  <2>1. conf.Index \in PipelineConfig
    BY ConfTypes DEF TextInv, StageInv
  <2>2. P \in Seq(NormalForms) /\ Len(P) <= Len(file.text) /\ NoRepeats(P)
    BY <1>2, <2>1, ProcessIs
  <2> HIDE DEF P
  <2>3. Len(P) \in Nat /\ Len(file.text) \in Nat /\ DOMAIN P = 1 .. Len(P)
    BY <1>2, <2>2
  <2> QED
    BY <1>2, <1>3, <2>2, <2>3
<1>5. \A i \in DOMAIN P : F[i] = termToID'[P[i]] /\ P[i] \in ToSet(P)
  BY DEF ToSet
<1>6. DOMAIN F = DOMAIN P
  OBVIOUS
<1>7. /\ Len(docs') = n + 1
      /\ \A d \in 0 .. n - 1 : docs'[d + 1] = docs[d + 1]
      /\ docs'[n + 1].text = file.text
  <2> DEFINE rec == [text |-> file.text, meta |-> LoadMeta(file.entry)]
  <2>1. rec \in DocRecords /\ rec.text = file.text
    BY MetaTypes DEF TextInv, DateInv
  <2>2. docs' = Append(docs, rec)
    BY <1>1
  <2> HIDE DEF rec
  <2>3. Len(docs') = n + 1 /\ docs'[n + 1] = rec
        /\ \A i \in 1 .. n : docs'[i] = docs[i]
    BY <1>0, <1>3, <2>1, <2>2
  <2>4. \A d \in 0 .. n - 1 : d + 1 \in 1 .. n
    BY <1>3
  <2> QED
    BY <2>1, <2>3, <2>4
<1>8. DocIDs = 0 .. n - 1 /\ DocIDs' = DocIDs \cup {n} /\ n \notin DocIDs
  <2>1. DocIDs = 0 .. n - 1 /\ DocIDs' = 0 .. n
    BY <1>0, <1>3, <1>7 DEF DocIDs
  <2> QED
    BY <1>3, <2>1
<1>9. DocTerms' = [d \in DocIDs \cup {n} |-> IF d = n THEN ToSet(P) ELSE DocTerms[d]]
  <2>1. conf' = conf
    BY <1>1
  <2> DEFINE T(d) == ToSet(Process(conf.Index, conf.Language, docs'[d + 1].text))
  <2>2. DocTerms' = [d \in DocIDs \cup {n} |-> T(d)]
    BY <1>8, <2>1 DEF DocTerms
  <2>3. \A d \in DocIDs : d # n /\ T(d) = DocTerms[d]
    BY <1>7, <1>8 DEF DocTerms
  <2>4. T(n) = ToSet(P)
    BY <1>7, Zenon
  <2> HIDE DEF T, P
  <2> QED
    BY <2>2, <2>3, <2>4
<1>10. /\ memNextID \in Nat /\ DateInv /\ StageInv
       /\ DOMAIN termToID \subseteq NormalForms
       /\ \A t \in DOMAIN termToID :
             termToID[t] \in 0 .. memNextID - 1 /\ <<termToID[t], t>> \in Owners
       /\ todo = <<>>
  BY <1>1 DEF TextInv, IDsInv
<1> DEFINE Fresh == ToSet(P) \ DOMAIN termToID
<1>11. /\ DOMAIN termToID' = DOMAIN termToID \cup ToSet(P)
       /\ memNextID' \in Nat
       /\ memNextID <= memNextID' /\ memNextID' <= memNextID + Len(P)
       /\ \A t \in DOMAIN termToID : termToID'[t] = termToID[t]
       /\ \A t \in Fresh : termToID'[t] \in memNextID .. memNextID' - 1
       /\ \A t, u \in Fresh : t # u => termToID'[t] # termToID'[u]
  BY <1>1, <1>4, <1>10, BatchIs
<1> HIDE DEF P, F
<1>12. /\ memNextID \in Nat /\ memNextID' \in Nat /\ memNextID <= memNextID'
       /\ \A f \in 0 .. memNextID - 1 : f \in 0 .. memNextID' - 1
       /\ \A f \in memNextID .. memNextID' - 1 : /\ f \in 0 .. memNextID' - 1
                                                /\ f \notin 0 .. memNextID - 1
  <2>1. memNextID \in Nat /\ memNextID' \in Nat /\ memNextID <= memNextID'
    BY <1>10, <1>11
  <2> QED
    BY <2>1, Intervals
<1> DEFINE New == {<<termToID'[t], t>> : t \in Fresh}
<1>13. /\ ToSet(P) \subseteq Fresh \cup DOMAIN termToID
       /\ Fresh \subseteq ToSet(P) /\ Fresh \cap DOMAIN termToID = {}
       /\ ToSet(P) \subseteq NormalForms
  BY <1>4 DEF ToSet
<1> HIDE DEF Fresh
<1>14. Owners' = Owners \cup New
  <2>1. Owners = {<<f, termByID[f]>> : f \in DOMAIN termByID}
    <3>1. ToSet(todo) = {}
      BY <1>10 DEF ToSet
    <3> QED
      BY <3>1 DEF Owners
  <2>2. ToSet(todo') = {<<termToID'[t], t>> : t \in ToSet(P)}
    <3>1. DOMAIN todo' = DOMAIN P
          /\ \A i \in DOMAIN P : todo'[i] = <<termToID'[P[i]], P[i]>>
      BY <1>1, <1>5
    <3> QED
      BY <3>1 DEF ToSet
  <2>3. Owners' = Owners \cup {<<termToID'[t], t>> : t \in ToSet(P)}
    <3>1. termByID' = termByID
      BY <1>1
    <3>2. Owners' = {<<f, termByID'[f]>> : f \in DOMAIN termByID'} \cup ToSet(todo')
      BY DEF Owners
    <3> QED
      BY <2>1, <2>2, <3>1, <3>2, Zenon
  <2>4. \A t \in DOMAIN termToID : <<termToID'[t], t>> \in Owners
    BY <1>10, <1>11
  <2> QED
    BY <1>13, <2>3, <2>4
<1>15. Owners \subseteq (0 .. memNextID - 1) \X NormalForms
       /\ New \subseteq (memNextID .. memNextID' - 1) \X NormalForms
  <2>1. Owners \subseteq (0 .. memNextID - 1) \X NormalForms
    BY DEF TextInv, IDsInv
  <2>2. \A t \in Fresh : termToID'[t] \in memNextID .. memNextID' - 1 /\ t \in NormalForms
    BY <1>11, <1>13
  <2> QED
    BY <2>1, <2>2
<1>16. Owners' \subseteq (0 .. memNextID' - 1) \X NormalForms
  BY <1>12, <1>14, <1>15
<1>17. \A f, t, u : <<f, t>> \in Owners' /\ <<f, u>> \in Owners' => t = u
  <2> SUFFICES ASSUME NEW f, NEW t, NEW u, <<f, t>> \in Owners', <<f, u>> \in Owners'
               PROVE  t = u
    OBVIOUS
  <2>1. CASE <<f, t>> \in Owners /\ <<f, u>> \in Owners
    BY <2>1 DEF TextInv, IDsInv
  <2>2. CASE <<f, t>> \in New /\ <<f, u>> \in New
    <3>1. t \in Fresh /\ u \in Fresh /\ termToID'[t] = f /\ termToID'[u] = f
      BY <2>2
    <3> QED
      BY <1>11, <3>1
  <2>3. ~ (<<f, t>> \in Owners /\ <<f, u>> \in New)
        /\ ~ (<<f, t>> \in New /\ <<f, u>> \in Owners)
    <3> HIDE DEF New
    <3> QED
      BY <1>12, <1>15
  <2> QED
    BY <1>14, <2>1, <2>2, <2>3
<1>29. \A t \in DOMAIN termToID' :
          termToID'[t] \in 0 .. memNextID' - 1 /\ <<termToID'[t], t>> \in Owners'
  <2>1. \A t \in DOMAIN termToID : <<termToID'[t], t>> \in Owners
    BY <1>10, <1>11
  <2>2. \A t \in Fresh : <<termToID'[t], t>> \in New
    OBVIOUS
  <2>3. \A t \in DOMAIN termToID' : t \in DOMAIN termToID \/ t \in Fresh
    BY <1>11, <1>13
  <2> HIDE DEF New
  <2>4. \A t \in DOMAIN termToID' : <<termToID'[t], t>> \in Owners'
    BY <1>14, <2>1, <2>2, <2>3
  <2> QED
    BY <1>16, <2>4
<1>18. memNextID' <= Len(docs') * MaxWords /\ 0 .. memNextID' - 1 \subseteq FeatureIDs
  <2> DEFINE a == n * MaxWords
             b == (n + 1) * MaxWords
  <2>1. memNextID <= a
    BY <1>0 DEF TextInv, IDsInv
  <2>2. memNextID' <= b
    <3>1. a \in Nat /\ b = a + MaxWords
      BY <1>3, Products
    <3> HIDE DEF a, b
    <3> QED
      BY <1>3, <1>4, <1>11, <1>12, <2>1, <3>1
  <2>3. DateInv'
    <3>1. EngineNext
      BY DEF EngineNext, MainNext
    <3> QED
      BY <1>10, <3>1, DateInvNext
  <2>4. Len(docs') = n + 1 /\ memNextID' <= Len(docs') * MaxWords
    BY <1>7, <2>2
  <2>5. (0 .. memNextID' - 1 \subseteq FeatureIDs)
    <3>1. Len(docs') \in Nat /\ MaxDocs \in Nat /\ Len(docs') <= MaxDocs
      <4>1. setup' \in Setups /\ Len(docs') <= setup'.maxDocs
        BY <2>3 DEF DateInv, StageInv
      <4>2. setup'.maxDocs \in Nat /\ setup'.maxDocs <= MaxDocs
        BY <4>1, SetupTypes
      <4> QED
        BY <1>3, <2>4, <4>1, <4>2, EngineAssumption
    <3>2. Len(docs') * MaxWords <= MaxDocs * MaxWords
          /\ Len(docs') * MaxWords \in Nat /\ MaxDocs * MaxWords \in Nat
      BY <1>3, <3>1, Products
    <3> DEFINE low == Len(docs') * MaxWords
                high == MaxDocs * MaxWords
    <3>3. memNextID' \in Nat /\ memNextID' <= low /\ low \in Nat /\ high \in Nat /\ low <= high
      BY <1>12, <2>4, <3>2
    <3>4. 0 .. high - 1 \subseteq FeatureIDs
      BY EngineAssumption
    <3> HIDE DEF low, high
    <3>5. \A f \in 0 .. memNextID' - 1 : f \in 0 .. high - 1
      BY <3>3, Intervals
    <3> QED
      BY <3>4, <3>5
  <2> QED
    BY <2>4, <2>5
<1>19. todo' \in Seq(FeatureIDs \X NormalForms)
  <2>1. \A i \in 1 .. Len(P) : <<F[i], P[i]>> \in FeatureIDs \X NormalForms
    <3> TAKE i \in 1 .. Len(P)
    <3>1. F[i] = termToID'[P[i]] /\ P[i] \in ToSet(P)
      BY <1>4, <1>5
    <3>2. F[i] \in FeatureIDs
      BY <1>11, <1>18, <1>29, <3>1
    <3> QED
      BY <1>13, <3>1, <3>2
  <2>2. todo' = [i \in 1 .. Len(P) |-> <<F[i], P[i]>>]
    BY <1>1, <1>4
  <2>3. todo' \in [1 .. Len(P) -> FeatureIDs \X NormalForms]
    BY <2>1, <2>2
  <2> QED
    BY <1>4, <2>3, SeqDef
<1>30. ASSUME losses' = 0, NEW f, NEW t, <<f, t>> \in Owners'
       PROVE  t \in DOMAIN termToID' /\ termToID'[t] = f
  <2>1. CASE <<f, t>> \in Owners
    <3>1. t \in DOMAIN termToID /\ termToID[t] = f
      BY <1>1, <1>30, <2>1 DEF TextInv, IDsInv
    <3> QED
      BY <1>11, <3>1
  <2>2. CASE <<f, t>> \in New
    <3>1. t \in Fresh /\ termToID'[t] = f
      BY <2>2
    <3> QED
      BY <1>11, <1>13, <3>1
  <2> HIDE DEF New
  <2> QED
    BY <1>14, <1>30, <2>1, <2>2
<1>20. IDsInv'
  <2>1. DOMAIN termToID' \subseteq NormalForms
    BY <1>10, <1>11, <1>13
  <2>2. (losses = 0)' => \A f, t : <<f, t>> \in Owners' =>
           t \in DOMAIN termToID' /\ termToID'[t] = f
    BY <1>30
  <2> QED
    BY <1>1, <1>12, <1>16, <1>17, <1>18, <1>19, <1>29, <2>1, <2>2 DEF IDsInv
<1>21. /\ postings \in [FeatureIDs -> SUBSET DocIDs] /\ allDocs \subseteq DocIDs
       /\ \A f \in FeatureIDs : f >= memNextID => postings[f] = {}
       /\ \A f \in FeatureIDs : \A t : <<f, t>> \in Owners =>
             \A d \in postings[f] : t \in DocTerms[d]
  BY DEF TextInv, PostingsInv
<1>22. /\ postings' = [f \in FeatureIDs |->
                          IF \E i \in DOMAIN F : F[i] = f THEN postings[f] \cup {n}
                                                         ELSE postings[f]]
       /\ allDocs' = allDocs \cup {n}
  BY <1>1 DEF Idx!Add
<1>23. \A f \in FeatureIDs :
          postings'[f] = IF \E t \in ToSet(P) : termToID'[t] = f
                         THEN postings[f] \cup {n} ELSE postings[f]
  <2> TAKE f \in FeatureIDs
  <2>1. (\E i \in DOMAIN F : F[i] = f) <=> \E t \in ToSet(P) : termToID'[t] = f
    BY <1>5, <1>6 DEF ToSet
  <2> QED
    BY <1>22, <2>1
<1>24. postings' \in [FeatureIDs -> SUBSET DocIDs']
  <2>1. \A f \in FeatureIDs : postings'[f] \subseteq DocIDs'
    <3>1. \A f \in FeatureIDs : postings[f] \subseteq DocIDs
      BY <1>21
    <3>2. \A f \in FeatureIDs : postings'[f] \subseteq postings[f] \cup {n}
      BY <1>23
    <3> QED
      BY <1>8, <3>1, <3>2, Zenon
  <2>2. postings' = [f \in FeatureIDs |-> postings'[f]]
    BY <1>22
  <2> QED
    BY <2>1, <2>2
<1>25. \A f \in FeatureIDs : f >= memNextID' => postings'[f] = {}
  <2> TAKE f \in FeatureIDs
  <2> SUFFICES ASSUME f >= memNextID' PROVE postings'[f] = {}
    OBVIOUS
  <2>1. f \in Nat
    BY KgramIndexAssumption
  <2>2. f >= memNextID /\ f \notin 0 .. memNextID' - 1
    BY <1>12, <2>1, Intervals
  <2>3. ~ \E t \in ToSet(P) : termToID'[t] = f
    BY <1>11, <1>29, <2>2
  <2> QED
    BY <1>21, <1>23, <2>2, <2>3
<1>26. \A f \in FeatureIDs : \A t : <<f, t>> \in Owners' =>
          \A d \in postings'[f] : t \in DocTerms'[d]
  <2> SUFFICES ASSUME NEW f \in FeatureIDs, NEW t, <<f, t>> \in Owners',
                      NEW d \in postings'[f]
               PROVE  t \in DocTerms'[d]
    OBVIOUS
  <2>1. postings[f] \subseteq DocIDs /\ n \notin postings[f]
    BY <1>8, <1>21
  <2>2. CASE d = n
    <3>1. PICK u \in ToSet(P) : termToID'[u] = f
      BY <1>23, <2>1, <2>2, Zenon
    <3>2. <<f, u>> \in Owners'
      BY <1>11, <1>29, <3>1
    <3>3. u = t
      BY <1>17, <3>2
    <3> QED
      BY <1>9, <2>2, <3>1, <3>3
  <2>3. CASE d # n
    <3>1. d \in postings[f] /\ d \in DocIDs
      <4>1. postings'[f] \subseteq postings[f] \cup {n}
        BY <1>23
      <4> QED
        BY <2>1, <2>3, <4>1
    <3>2. f \in Nat /\ ~ (f >= memNextID)
      BY <1>21, <3>1, KgramIndexAssumption
    <3>3. <<f, t>> \notin New
      <4>1. f \notin memNextID .. memNextID' - 1
        BY <1>12, <3>2, Intervals
      <4> HIDE DEF New
      <4> QED
        BY <1>15, <4>1
    <3>4. <<f, t>> \in Owners
      BY <1>14, <3>3
    <3> QED
      BY <1>9, <1>21, <2>3, <3>1, <3>4
  <2> QED
    BY <2>2, <2>3
<1>27. ASSUME losses' = 0, NEW d \in DocIDs', NEW t \in DocTerms'[d]
       PROVE  t \in DOMAIN termToID' /\ d \in postings'[termToID'[t]]
  <2>1. CASE d \in DocIDs
    <3>1. t \in DOMAIN termToID /\ d \in postings[termToID[t]]
      <4>1. losses = 0 /\ t \in DocTerms[d]
        BY <1>1, <1>8, <1>9, <1>27, <2>1
      <4> QED
        BY <2>1, <4>1 DEF TextInv, PostingsInv
    <3>2. termToID'[t] = termToID[t] /\ termToID'[t] \in FeatureIDs
      BY <1>11, <1>18, <1>29, <3>1
    <3> QED
      BY <1>11, <1>23, <3>1, <3>2, ZenonT(40)
  <2>2. CASE d = n
    <3>1. t \in ToSet(P)
      BY <1>9, <1>27, <2>2
    <3>2. t \in DOMAIN termToID' /\ termToID'[t] \in FeatureIDs
      BY <1>11, <1>18, <1>29, <3>1
    <3>3. postings'[termToID'[t]] = postings[termToID'[t]] \cup {n}
      BY <1>23, <3>1, <3>2, Zenon
    <3> QED
      BY <2>2, <3>2, <3>3
  <2> QED
    BY <1>8, <2>1, <2>2
<1>28. PostingsInv'
  <2>1. allDocs' \subseteq DocIDs'
    BY <1>8, <1>21, <1>22
  <2>2. (losses = 0)' => \A d \in DocIDs' : \A t \in DocTerms'[d] :
           t \in DOMAIN termToID' /\ d \in postings'[termToID'[t]]
    BY <1>27
  <2>3. \A t \in DOMAIN termToID' : \E d \in DocIDs' : t \in DocTerms'[d]
    <3>1. ASSUME NEW t \in DOMAIN termToID
          PROVE  \E d \in DocIDs' : t \in DocTerms'[d]
      <4>1. PICK d \in DocIDs : t \in DocTerms[d]
        BY DEF TextInv, PostingsInv
      <4>2. d \in DocIDs' /\ DocTerms'[d] = DocTerms[d]
        BY <1>8, <1>9
      <4> QED
        BY <4>1, <4>2
    <3>2. \A t \in ToSet(P) : n \in DocIDs' /\ t \in DocTerms'[n]
      BY <1>8, <1>9
    <3> QED
      BY <1>11, <3>1, <3>2
  <2> QED
    BY <1>24, <1>25, <1>26, <2>1, <2>2, <2>3 DEF PostingsInv
<1> QED
  BY <1>20, <1>28

LEMMA TextInvNext == ASSUME TextInv, [EngineNext]_engineVars PROVE TextInv'
<1>1. DateInv' /\ StageInv'
  BY DateInvNext, StageInvNext DEF TextInv
<1>2. ASSUME UNCHANGED kgramVars PROVE KgramInv'
  BY <1>2, KgramInvNext DEF TextInv
<1>3. ASSUME NEW file \in setup.files, IndexFile(file) PROVE TextInv'
  BY <1>1, <1>2, <1>3, TextIndexFile DEF TextInv, IndexFile
<1>4. CASE EnterTerm
  BY <1>1, <1>4, TextEnterTerm DEF TextInv
<1>5. CASE Lose
  BY <1>1, <1>2, <1>5, TextLose DEF TextInv, Lose
<1>6. ASSUME UNCHANGED <<docs, dictVars, idxVars, kgramVars, todo, losses>>,
             stage' # "terms" => todo = <<>>,
             conf'.Index = conf.Index, conf'.Language = conf.Language
      PROVE  TextInv'
  BY <1>1, <1>2, <1>6, TextSame DEF TextInv, kgramVars
<1>7. CASE NewEngine
  <2>1. stage = "start" /\ UNCHANGED <<docs, dictVars, idxVars, kgramVars, todo, losses>>
    BY <1>7 DEF NewEngine
  <2>2. conf'.Index = conf.Index /\ conf'.Language = conf.Language
    BY <1>7, ConfTypes DEF NewEngine, TextInv, StageInv
  <2>3. todo = <<>>
    BY <2>1 DEF TextInv, IDsInv
  <2> QED
    BY <1>6, <2>1, <2>2, <2>3
<1>8. CASE EnterDates \/ IndexDone \/ Miss \/ FoundAgain \/ Close \/ AnswerLine
           \/ AwaitLine \/ UNCHANGED engineVars
  <2>1. UNCHANGED <<conf, docs, dictVars, idxVars, kgramVars, todo, losses>>
    BY <1>8 DEF EnterDates, IndexDone, Miss, FoundAgain, Close, AnswerLine,
                AwaitLine, engineVars
  <2>2. todo = <<>> \/ stage' = stage
    BY <1>8 DEF EnterDates, IndexDone, Miss, FoundAgain, Close, AnswerLine,
                AwaitLine, engineVars, TextInv, IDsInv
  <2>3. stage' # "terms" => todo = <<>>
    BY <2>2 DEF TextInv, IDsInv
  <2> QED
    BY <1>6, <2>1, <2>3
<1> QED
  BY <1>3, <1>4, <1>5, <1>7, <1>8 DEF EngineNext, MainNext

\* What is missed is there to be found.
MissedInv ==
    /\ stage = "terms" => missed = {}
    /\ \A m \in missed : m \in Missable

LEMMA MissedInvNext ==
    ASSUME MissedInv, [EngineNext]_engineVars
    PROVE  MissedInv'
<1>1. ASSUME UNCHANGED <<termToID, postings, termByID>>,
             stage' = "terms" => stage = stage',
             \A m \in missed' : m \in missed \/ (m \in Missable /\ stage' # "terms")
      PROVE  MissedInv'
  <2>1. Missable' = Missable
    BY <1>1 DEF Missable
  <2> QED
    BY <1>1, <2>1 DEF MissedInv
<1>2. ASSUME NEW file \in setup.files, IndexFile(file) PROVE MissedInv'
  BY <1>2 DEF IndexFile, MissedInv
<1>3. CASE EnterTerm
  <2>1. stage = "terms" /\ missed' = missed
    BY <1>3 DEF EnterTerm
  <2> QED
    BY <2>1 DEF MissedInv
<1>4. CASE Lose
  BY <1>4 DEF Lose, MissedInv
<1>5. CASE Miss
  BY <1>1, <1>5 DEF Miss, dictVars, idxVars, kgramVars
<1>6. CASE FoundAgain
  BY <1>1, <1>6 DEF FoundAgain, dictVars, idxVars, kgramVars
<1>7. CASE NewEngine \/ EnterDates \/ IndexDone \/ Close \/ AnswerLine \/ AwaitLine
           \/ UNCHANGED engineVars
  <2>1. UNCHANGED <<termToID, postings, termByID, missed>>
        /\ (stage' = "terms" => stage = stage')
    BY <1>7 DEF NewEngine, EnterDates, IndexDone, Close, AnswerLine, AwaitLine,
                engineVars, dictVars, idxVars, kgramVars
  <2> QED
    BY <1>1, <2>1
<1> QED
  BY <1>2, <1>3, <1>4, <1>5, <1>6, <1>7 DEF EngineNext, MainNext

\* Every variable of the engine has its type: the ids of terms stay in their
\* range, the postings and the date indexes have documents that exist, and the
\* sizes of the configuration are positive once it is accepted (engine.go:75,
\* engine.go:295, config.go:114).
THEOREM EngineTypes == EngineSpec => []EngineTypeOK
<1>1. ASSUME TextInv, MissedInv PROVE EngineTypeOK
  <2>0. DateInv /\ StageInv /\ IDsInv /\ PostingsInv /\ KgramTypeOK
    BY <1>1 DEF TextInv, KgramInv
  <2>1. Len(docs) \in Nat /\ DOMAIN docs = 1 .. Len(docs) /\ Len(docs) <= MaxDocs
    <3>1. docs \in Seq(DocRecords) /\ Len(docs) <= setup.maxDocs /\ setup \in Setups
      BY <2>0 DEF DateInv, StageInv
    <3>2. setup.maxDocs \in Nat /\ setup.maxDocs <= MaxDocs /\ MaxDocs \in Nat
      BY <3>1, SetupTypes, EngineAssumption
    <3>3. Len(docs) \in Nat /\ DOMAIN docs = 1 .. Len(docs)
      BY <3>1
    <3> QED
      BY <3>1, <3>2, <3>3
  <2>2. Dict!TypeOK
    <3>1. NormalForms \subseteq Terms
      BY EngineAssumption, KgramIndexAssumption
    <3>2. \A t \in DOMAIN termToID : termToID[t] \in Nat
      <4>1. \A f \in 0 .. memNextID - 1 : f \in Nat
        BY <2>0 DEF IDsInv
      <4> QED
        BY <2>0, <4>1 DEF IDsInv
    <3> QED
      BY <2>0, <3>1, <3>2 DEF IDsInv, Dict!TypeOK
  <2>3. DocIDs \subseteq 0 .. MaxDocs - 1
    <3>1. MaxDocs \in Nat
      BY EngineAssumption
    <3> QED
      BY <2>1, <3>1, Intervals DEF DocIDs
  <2>4. Idx!TypeOK
    BY <2>0, <2>3 DEF PostingsInv, Idx!TypeOK
  <2>5. \A i \in DOMAIN docs : docs[i].meta \in DateMeta
    <3>1. \A i \in DOMAIN docs : docs[i] \in DocRecords
      BY <2>0 DEF DateInv
    <3> QED
      BY <3>1 DEF DocRecords
  <2>6. \A f \in FeatureIDs : postings[f] \subseteq DocIDs
    BY <2>0 DEF PostingsInv
  <2>7. \A t \in DOMAIN termToID : termToID[t] \in FeatureIDs
    <3>1. 0 .. memNextID - 1 \subseteq FeatureIDs
      BY <2>0, IDsFit DEF IDsInv
    <3> QED
      BY <2>0, <3>1 DEF IDsInv
  <2>8. 0 .. Dated - 1 \subseteq DocIDs
    <3>1. CASE stage = "terms"
      <4>1. Dated = Len(docs) - 1
        BY <3>1 DEF Dated
      <4> QED
        BY <2>1, <4>1 DEF DocIDs
    <3>2. CASE stage # "terms"
      BY <3>2 DEF Dated, DocIDs
    <3> QED
      BY <3>1, <3>2
  <2>9. ASSUME NEW entries, NEW times, DOMAIN times = 0 .. Dated - 1,
               Indexes(entries, times)
        PROVE  entries \in Seq(DateEntry)
    <3>1. entries \in Seq(DayEntries)
      BY <2>9 DEF Indexes
    <3>2. Len(entries) \in Nat /\ DOMAIN entries = 1 .. Len(entries)
          /\ \A i \in 1 .. Len(entries) : entries[i] \in DayEntries
      BY <3>1
    <3>3. \A i \in 1 .. Len(entries) : entries[i] \in Listed(entries)
      BY <3>2 DEF Listed
    <3>4. \A i \in 1 .. Len(entries) : entries[i].docID \in DocIDs
      BY <2>8, <2>9, <3>3, EntryOfDoc
    <3>5. \A i \in 1 .. Len(entries) : entries[i] \in DateEntry
      BY <3>2, <3>4 DEF DayEntries, DateEntry
    <3>6. entries = [i \in 1 .. Len(entries) |-> entries[i]]
      BY <3>1
    <3>7. entries \in [1 .. Len(entries) -> DateEntry]
      BY <3>5, <3>6
    <3> QED
      BY <3>2, <3>7, SeqDef
  <2>10. {dateIdx, startDateIdx, endDateIdx} \subseteq Seq(DateEntry)
    <3>1. DOMAIN Dates = 0 .. Dated - 1 /\ DOMAIN StartDates = 0 .. Dated - 1
          /\ DOMAIN EndDates = 0 .. Dated - 1
      BY DEF Dates, StartDates, EndDates
    <3>2. /\ dateIdx \in Seq(DateEntry) /\ startDateIdx \in Seq(DateEntry)
          /\ endDateIdx \in Seq(DateEntry)
      BY <2>0, <2>9, <3>1 DEF DateInv
    <3> QED
      BY <3>2, Zenon
  <2>11. openEndDocs \subseteq DocIDs
    BY <2>0, <2>8 DEF DateInv
  <2>12. setup \in Setups
    BY <2>0 DEF DateInv
  <2>13. \A m \in missed : m \in Missable
    BY <1>1 DEF MissedInv
  <2> QED
    BY <2>0, <2>2, <2>4, <2>5, <2>6, <2>7, <2>10, <2>11, <2>12,
       <2>13 DEF EngineTypeOK, StageInv, Running
<1>2. ASSUME EngineInit PROVE TextInv /\ MissedInv
  BY <1>2, TextInvInit DEF EngineInit, MissedInv
<1> QED
  BY <1>1, <1>2, TextInvNext, MissedInvNext, PTL DEF EngineSpec

-----------------------------------------------------------------------------
(* The searches for words.                                                 *)

\* The two pipelines and the one that drops nothing make the same term of a
\* word: that is what validate is for.
LEMMA BaseIs ==
    ASSUME StageInv, Running, NEW pc \in {conf.Index, conf.Query},
           NEW w \in Words
    PROVE  /\ TermOf(pc, w) \in NormalForms
           /\ Passes(pc, w) => Base(w) = <<TermOf(pc, w)>>
           /\ Keeps(pc, w) <=> Passes(pc, w)
<1> DEFINE bare == [conf.Index EXCEPT !.StopWords = FALSE, !.MinTermLen = 0]
<1>1. /\ conf \in EngineConfig /\ Valid(conf)
      /\ conf.Index \in PipelineConfig /\ conf.Query \in PipelineConfig
  BY ConfTypes DEF StageInv
<1>2. /\ bare \in PipelineConfig
      /\ bare.Normalize = conf.Index.Normalize /\ bare.Stemming = conf.Index.Stemming
      /\ bare.StripAccents = conf.Index.StripAccents
      /\ bare.StopWords = FALSE /\ bare.MinTermLen = 0
  BY <1>1 DEF PipelineConfig
<1>3. /\ pc.Normalize = bare.Normalize /\ pc.Stemming = bare.Stemming
      /\ pc.StripAccents = bare.StripAccents /\ pc \in PipelineConfig
  BY <1>1, <1>2 DEF Valid
<1>4. Base(w) = Process(bare, conf.Language, <<w>>)
  BY DEF Base
<1> HIDE DEF bare
<1>5. FormOf(bare, w) = FormOf(pc, w)
  BY <1>3 DEF FormOf
<1>6. TermOf(bare, w) = TermOf(pc, w)
  BY <1>3, <1>5 DEF TermOf, StemOf
<1>7. FormOf(pc, w) \in NormalForms /\ TermOf(pc, w) \in NormalForms
  BY <1>3, TermTypes
<1>8. Len(FormOf(pc, w)) \in Nat
  BY <1>7, EngineAssumption, KgramIndexAssumption DEF Terms
<1>9. ASSUME Passes(pc, w) PROVE Passes(bare, w)
  <2>1. Formed(bare, w)
    BY <1>2, <1>3, <1>5, <1>8, <1>9 DEF Passes, Formed
  <2>2. NoStopWord(bare, FormOf(bare, w))
    BY <1>2 DEF NoStopWord
  <2>3. bare.Stemming => TermOf(bare, w) # <<>>
    BY <1>3, <1>6, <1>9 DEF Passes
  <2> QED
    BY <2>1, <2>2, <2>3 DEF Passes
<1>10. ASSUME Passes(pc, w) PROVE Base(w) = <<TermOf(pc, w)>>
  BY <1>2, <1>4, <1>6, <1>9, <1>10, WordAlone
<1>11. Process(pc, conf.Language, <<w>>) =
          IF Passes(pc, w) THEN <<TermOf(pc, w)>> ELSE <<>>
  BY <1>3, WordAlone
<1>12. <<TermOf(pc, w)>> # <<>>
  OBVIOUS
<1>13. Keeps(pc, w) <=> Passes(pc, w)
  BY <1>11, <1>12 DEF Keeps
<1> QED
  BY <1>7, <1>10, <1>13

Tuple1(S) == {<<t>> : t \in S}

\* The bases of a set of words that a pipeline keeps.
LEMMA BasesAre ==
    ASSUME StageInv, Running, NEW pc \in {conf.Index, conf.Query},
           NEW W, W \subseteq Words
    PROVE  {Base(w) : w \in {v \in W : Keeps(pc, v)}} =
              Tuple1({TermOf(pc, w) : w \in {v \in W : Passes(pc, v)}})
<1>1. \A w \in W : Keeps(pc, w) <=> Passes(pc, w)
  BY BaseIs
<1>2. \A w \in W : Passes(pc, w) => Base(w) = <<TermOf(pc, w)>>
  BY BaseIs
<1>3. ASSUME NEW b
      PROVE  b \in {Base(w) : w \in {v \in W : Keeps(pc, v)}}
             <=> b \in Tuple1({TermOf(pc, w) : w \in {v \in W : Passes(pc, v)}})
  BY <1>1, <1>2 DEF Tuple1
<1> QED
  BY <1>3

\* The bases of a document are its terms.
LEMMA BasesOfDoc ==
    ASSUME DateInv, StageInv, Running, NEW d \in DocIDs
    PROVE  BasesOf(d) = Tuple1(DocTerms[d])
<1>1. docs[d + 1].text \in Seq(Words)
  BY DocTypes DEF DocRecords, DocIDs
<1>2. ToSet(docs[d + 1].text) \subseteq Words
  BY <1>1 DEF ToSet
<1>3. conf.Index \in PipelineConfig
  BY ConfTypes DEF StageInv
<1>4. DocTerms[d] = {TermOf(conf.Index, w) :
                        w \in {v \in ToSet(docs[d + 1].text) : Passes(conf.Index, v)}}
  BY <1>1, <1>3, ProcessIs DEF DocTerms
<1> QED
  BY <1>2, <1>4, BasesAre DEF BasesOf

WordsOf(q) == UNION {ToSet(q[i]) : i \in DOMAIN q}
QueryTerms(q) ==
    {TermOf(conf.Query, w) : w \in {v \in WordsOf(q) : Passes(conf.Query, v)}}
Known(q) == QueryTerms(q) \cap KnownTerms

\* The features of the terms that the dictionary knows.
LEMMA KnownIDsIs ==
    ASSUME NEW terms \in Seq(NormalForms)
    PROVE  LET ids == {termToID[t] : t \in ToSet(terms) \cap KnownTerms}
           IN  KnownIDs(terms) \in Seq(ids) /\ ToSet(KnownIDs(terms)) = ids
<1> DEFINE keep == [i \in DOMAIN terms |-> terms[i] \in KnownTerms]
           known == Select(terms, keep)
           I == {termToID[t] : t \in ToSet(terms) \cap KnownTerms}
<1>1. keep \in [DOMAIN terms -> BOOLEAN]
  OBVIOUS
<1>2. \A i \in DOMAIN terms : keep[i] = (terms[i] \in KnownTerms)
  OBVIOUS
<1>3. KnownIDs(terms) = [i \in DOMAIN known |-> termToID[known[i]]]
  BY DEF KnownIDs
<1> HIDE DEF keep
<1>4. known \in Seq(NormalForms)
      /\ ToSet(known) = {terms[i] : i \in {j \in DOMAIN terms : keep[j]}}
  BY <1>1, SelectIs
<1>5. ToSet(known) = ToSet(terms) \cap KnownTerms
  BY <1>2, <1>4 DEF ToSet
<1> HIDE DEF known
<1>6. DOMAIN known = 1 .. Len(known) /\ Len(known) \in Nat
  BY <1>4
<1> DEFINE ids == KnownIDs(terms)
<1>7. DOMAIN ids = DOMAIN known /\ \A i \in DOMAIN known : ids[i] = termToID[known[i]]
  BY <1>3
<1>8. ids = [i \in DOMAIN known |-> ids[i]]
  BY <1>3
<1> HIDE DEF ids
<1>9. ToSet(ids) = I
  BY <1>5, <1>7 DEF ToSet
<1>10. \A i \in 1 .. Len(known) : ids[i] \in I
  BY <1>6, <1>7, <1>9 DEF ToSet
<1>11. ids \in [1 .. Len(known) -> I]
  <2> HIDE DEF I
  <2> QED
    BY <1>6, <1>8, <1>10
<1>12. ids \in Seq(I)
  <2> HIDE DEF I
  <2> QED
    BY <1>6, <1>11, SeqDef
<1> QED
  BY <1>9, <1>12 DEF ids

LEMMA SearchIs ==
    ASSUME StageInv, NEW q \in Seq(Seq(Words))
    PROVE  Search(q) = IF Known(q) = {} THEN {}
                       ELSE {d \in 0 .. MaxDocs - 1 :
                                \A t \in Known(q) : d \in PostingsRead[termToID[t]]}
<1> DEFINE L == Len(q)
           ss == [n \in 1 .. L |->
                     KnownIDs(Process(conf.Query, conf.Language, q[n]))]
           I == {termToID[t] : t \in KnownTerms}
           A(h) == [n \in 0 .. L |->
                       IF n = 0 THEN <<>>
                       ELSE h[n - 1]
                            \o KnownIDs(Process(conf.Query, conf.Language, q[n]))]
           featureIDs == CHOOSE h : h = A(h)
           ids == ResolveTerms(q)
<1>1. conf.Query \in PipelineConfig
  BY ConfTypes DEF StageInv
<1>2. L \in Nat /\ DOMAIN q = 1 .. L /\ \A n \in 1 .. L : q[n] \in Seq(Words)
  OBVIOUS
<1>3. ids = featureIDs[L]
  BY DEF ResolveTerms
<1> DEFINE Ts(n) == {TermOf(conf.Query, w) :
                        w \in {v \in ToSet(q[n]) : Passes(conf.Query, v)}}
<1>4. \A n \in 1 .. L :
         /\ ss[n] = KnownIDs(Process(conf.Query, conf.Language, q[n]))
         /\ ss[n] \in Seq(I)
         /\ ToSet(ss[n]) = {termToID[t] : t \in Ts(n) \cap KnownTerms}
  <2> TAKE n \in 1 .. L
  <2> DEFINE terms == Process(conf.Query, conf.Language, q[n])
             J == {termToID[t] : t \in ToSet(terms) \cap KnownTerms}
  <2>1. terms \in Seq(NormalForms) /\ ToSet(terms) = Ts(n)
    BY <1>1, <1>2, ProcessIs
  <2>2. ss[n] = KnownIDs(terms)
    OBVIOUS
  <2> HIDE DEF terms, ss
  <2>3. KnownIDs(terms) \in Seq(J) /\ ToSet(KnownIDs(terms)) = J
    BY <2>1, KnownIDsIs
  <2>4. J \subseteq I
    OBVIOUS
  <2>5. J = {termToID[t] : t \in Ts(n) \cap KnownTerms}
    BY <2>1, Zenon
  <2> HIDE DEF I, J, Ts
  <2>6. Seq(J) \subseteq Seq(I)
    BY <2>4
  <2> QED
    BY <2>2, <2>3, <2>5, <2>6 DEF terms
<1>5. ss \in Seq(Seq(I)) /\ Len(ss) = L /\ DOMAIN ss = 1 .. L
  <2>1. ss = [n \in 1 .. L |-> ss[n]]
    OBVIOUS
  <2> HIDE DEF ss, I
  <2>2. ss \in [1 .. L -> Seq(I)]
    BY <1>4, <2>1
  <2>3. \A T : [1 .. L -> T] \subseteq Seq(T)
    <3>1. L \in Nat
      BY <1>2
    <3> HIDE DEF L
    <3>2. ASSUME NEW T PROVE [1 .. L -> T] \subseteq Seq(T)
      BY <3>1, SeqDef
    <3> QED
      BY <3>2
  <2>4. ss \in Seq(Seq(I))
    BY <2>2, <2>3, Zenon
  <2> QED
    BY <1>2, <2>2, <2>4
<1> HIDE DEF ss
<1>6. featureIDs = Joining(ss, L, featureIDs)
  <2>1. ASSUME NEW h PROVE A(h) = Joining(ss, L, h)
    <3>1. ASSUME NEW n \in 0 .. L, n # 0
          PROVE  KnownIDs(Process(conf.Query, conf.Language, q[n])) = ss[n]
      <4>1. n \in 1 .. L
        BY <1>2, <3>1
      <4> QED
        BY <1>4, <4>1, Zenon
    <3> QED
      BY <3>1, Zenon DEF Joining
  <2> HIDE DEF A
  <2>2. PICK h : h = Joining(ss, L, h)
    BY <1>2, JoiningExists
  <2>3. h = A(h)
    BY <2>1, <2>2, Zenon
  <2>4. featureIDs = A(featureIDs)
    BY <2>3
  <2> HIDE DEF featureIDs
  <2> QED
    BY <2>1, <2>4, Zenon
<1> HIDE DEF featureIDs, A
<1>7. ids \in Seq(I) /\ ToSet(ids) = UNION {ToSet(ss[n]) : n \in 1 .. L}
  <2> HIDE DEF I, ids
  <2> QED
    BY <1>3, <1>5, <1>6, JoinedIs, ZenonT(40)
<1>8. ToSet(ids) = {termToID[t] : t \in Known(q)}
  <2>1. UNION {ToSet(ss[n]) : n \in 1 .. L} =
           UNION {{termToID[t] : t \in Ts(n) \cap KnownTerms} : n \in 1 .. L}
    BY <1>4, Zenon
  <2>2. QueryTerms(q) = UNION {Ts(n) : n \in 1 .. L}
    BY <1>2 DEF QueryTerms, WordsOf
  <2> HIDE DEF Ts, ids
  <2>3. \A x : x \in ToSet(ids) <=>
             \E n \in 1 .. L : \E t \in Ts(n) \cap KnownTerms : x = termToID[t]
    <3>1. ToSet(ids) =
             UNION {{termToID[t] : t \in Ts(n) \cap KnownTerms} : n \in 1 .. L}
      BY <1>7, <2>1, Zenon
    <3>2. \A n : \A x : x \in {termToID[t] : t \in Ts(n) \cap KnownTerms}
             <=> \E t \in Ts(n) \cap KnownTerms : x = termToID[t]
      OBVIOUS
    <3> QED
      BY <3>1, <3>2, Zenon
  <2>4. \A x : x \in {termToID[t] : t \in Known(q)} <=>
             \E n \in 1 .. L : \E t \in Ts(n) \cap KnownTerms : x = termToID[t]
    BY <2>2 DEF Known
  <2> QED
    BY <2>3, <2>4
<1> HIDE DEF ids
<1>9. {ids[i] : i \in DOMAIN ids} = {termToID[t] : t \in Known(q)}
  BY <1>8 DEF ToSet
<1>10. ids = <<>> <=> Known(q) = {}
  <2>1. DOMAIN ids = 1 .. Len(ids) /\ Len(ids) \in Nat /\ DOMAIN <<>> = {}
    BY <1>7, EmptySeq
  <2>2. CASE Known(q) = {}
    <3>1. DOMAIN ids = {}
      BY <1>9, <2>2
    <3>2. Len(ids) = 0
      BY <2>1, <3>1
    <3> HIDE DEF I
    <3> QED
      BY <1>7, <2>2, <3>2
  <2>3. CASE Known(q) # {}
    BY <1>9, <2>1, <2>3
  <2> QED
    BY <2>2, <2>3
<1>11. Search(q) = IF ids = <<>> THEN {}
                   ELSE {d \in 0 .. MaxDocs - 1 :
                            \A i \in DOMAIN ids : d \in PostingsRead[ids[i]]}
  BY DEF Search, And, ids
<1>12. {d \in 0 .. MaxDocs - 1 : \A i \in DOMAIN ids : d \in PostingsRead[ids[i]]} =
          {d \in 0 .. MaxDocs - 1 : \A t \in Known(q) : d \in PostingsRead[termToID[t]]}
  <2>1. ASSUME NEW d
        PROVE  (\A i \in DOMAIN ids : d \in PostingsRead[ids[i]])
               <=> \A t \in Known(q) : d \in PostingsRead[termToID[t]]
    <3>1. (\A i \in DOMAIN ids : d \in PostingsRead[ids[i]])
          <=> \A x \in {ids[i] : i \in DOMAIN ids} : d \in PostingsRead[x]
      OBVIOUS
    <3>2. (\A t \in Known(q) : d \in PostingsRead[termToID[t]])
          <=> \A x \in {termToID[t] : t \in Known(q)} : d \in PostingsRead[x]
      OBVIOUS
    <3> QED
      BY <1>9, <3>1, <3>2, Zenon
  <2> QED
    BY <2>1, Zenon
<1> QED
  BY <1>10, <1>11, <1>12, Zenon

\* The postings of a term that the dictionary knows.
LEMMA PostingsAre ==
    ASSUME TextInv, NEW t \in DOMAIN termToID
    PROVE  /\ PostingsRead[termToID[t]] \subseteq {d \in DocIDs : t \in DocTerms[d]}
           /\ losses = 0 =>
                 PostingsRead[termToID[t]] =
                    {d \in DocIDs : t \in DocTerms[d] /\ Leads(t, d)}
<1> DEFINE f == termToID[t]
<1>1. 0 .. memNextID - 1 \subseteq FeatureIDs
  BY IDsFit DEF TextInv, IDsInv
<1>2. f \in FeatureIDs /\ <<f, t>> \in Owners
  BY <1>1 DEF TextInv, IDsInv
<1>3. postings[f] \subseteq DocIDs
  BY <1>2 DEF TextInv, PostingsInv
<1>4. \A d \in postings[f] : t \in DocTerms[d]
  BY <1>2 DEF TextInv, PostingsInv
<1>5. losses = 0 => \A d \in DocIDs : t \in DocTerms[d] => d \in postings[f]
  BY DEF TextInv, PostingsInv
<1>6. PostingsRead[f] = {d \in postings[f] : Reached("posting", <<f, d>>)}
  BY <1>2 DEF PostingsRead
<1>7. \A d : Leads(t, d) <=> Reached("posting", <<f, d>>)
  BY DEF Leads
<1> HIDE DEF f
<1>8. PostingsRead[f] \subseteq {d \in DocIDs : t \in DocTerms[d]}
  BY <1>3, <1>4, <1>6
<1>9. losses = 0 => PostingsRead[f] = {d \in DocIDs : t \in DocTerms[d] /\ Leads(t, d)}
  BY <1>3, <1>4, <1>5, <1>6, <1>7
<1> QED
  BY <1>8, <1>9 DEF f

LEMMA DocIDsFit ==
    ASSUME DateInv, StageInv
    PROVE  DocIDs \subseteq 0 .. MaxDocs - 1
<1>1. Len(docs) \in Nat /\ MaxDocs \in Nat /\ Len(docs) <= setup.maxDocs
      /\ setup.maxDocs \in Nat /\ setup.maxDocs <= MaxDocs
  BY SetupTypes, EngineAssumption DEF DateInv, StageInv
<1> QED
  BY <1>1 DEF DocIDs

LEMMA WordsOfTypes ==
    ASSUME NEW q \in Seq(Seq(Words))
    PROVE  WordsOf(q) \subseteq Words
<1>1. \A i \in DOMAIN q : q[i] \in Seq(Words)
  OBVIOUS
<1>2. \A s \in Seq(Words) : ToSet(s) \subseteq Words
  BY DEF ToSet
<1> QED
  BY <1>1, <1>2 DEF WordsOf

\* What a search for words finds.
LEMMA SearchFindsWords ==
    ASSUME TextInv, Running, losses = 0, NEW q \in Seq(Seq(Words))
    PROVE  Search(q) = Expected(q)
<1>0. DateInv /\ StageInv
  BY DEF TextInv
<1> DEFINE K == Known(q)
           All == UNION {DocTerms[d] : d \in DocIDs}
           asked == {Base(w) : w \in {v \in WordsOf(q) : Keeps(conf.Query, v)}}
           known == {b \in asked \cap UNION {BasesOf(d) : d \in DocIDs} :
                        Reached("get", b[1])}
           Led(d) == {b \in BasesOf(d) : Leads(b[1], d)}
<1>1. Expected(q) = IF known = {} THEN {} ELSE {d \in DocIDs : known \subseteq Led(d)}
  BY DEF Expected, WordsOf
<1>2. asked = Tuple1(QueryTerms(q))
  BY <1>0, BasesAre, WordsOfTypes DEF QueryTerms
<1>3. \A d \in DocIDs : BasesOf(d) = Tuple1(DocTerms[d])
  BY <1>0, BasesOfDoc
<1>4. /\ \A t, u : <<t>> = <<u>> => t = u
      /\ \A t : <<t>>[1] = t
  OBVIOUS
<1>5. \A A, t : <<t>> \in Tuple1(A) <=> t \in A
  BY <1>4 DEF Tuple1
<1>6. DOMAIN termToID = All
  <2>1. /\ \A t \in DOMAIN termToID : \E d \in DocIDs : t \in DocTerms[d]
        /\ \A d \in DocIDs : \A t \in DocTerms[d] : t \in DOMAIN termToID
    BY DEF TextInv, PostingsInv
  <2> QED
    BY <2>1, Zenon
<1>7. UNION {BasesOf(d) : d \in DocIDs} = Tuple1(All)
  BY <1>3 DEF Tuple1
<1>8. known = Tuple1(K)
  <2>1. asked \cap UNION {BasesOf(d) : d \in DocIDs} = Tuple1(QueryTerms(q) \cap All)
    <3>1. Tuple1(QueryTerms(q)) \cap Tuple1(All) = Tuple1(QueryTerms(q) \cap All)
      BY <1>5 DEF Tuple1
    <3> HIDE DEF All, asked
    <3> QED
      BY <1>2, <1>7, <3>1
  <2>2. K = {t \in QueryTerms(q) \cap All : Reached("get", t)}
    BY <1>6 DEF Known, KnownTerms
  <2>3. \A A : {b \in Tuple1(A) : Reached("get", b[1])}
                 = Tuple1({t \in A : Reached("get", t)})
    <3> TAKE A
    <3>1. ASSUME NEW b \in Tuple1(A), Reached("get", b[1])
          PROVE  b \in Tuple1({t \in A : Reached("get", t)})
      BY <1>4, <3>1 DEF Tuple1
    <3>2. ASSUME NEW b \in Tuple1({t \in A : Reached("get", t)})
          PROVE  b \in Tuple1(A) /\ Reached("get", b[1])
      <4>1. PICK t \in A : b = <<t>> /\ Reached("get", t)
        BY <3>2 DEF Tuple1
      <4> QED
        BY <1>4, <4>1 DEF Tuple1
    <3> QED
      BY <3>1, <3>2
  <2> HIDE DEF All, asked, K
  <2> QED
    BY <2>1, <2>2, <2>3
<1> HIDE DEF known, All, asked
<1>9. known = {} <=> K = {}
  BY <1>8 DEF Tuple1
<1>10. \A d \in DocIDs :
          known \subseteq Led(d) <=> \A t \in K : t \in DocTerms[d] /\ Leads(t, d)
  <2> TAKE d \in DocIDs
  <2>1. \A t : <<t>> \in Led(d) <=> t \in DocTerms[d] /\ Leads(t, d)
    BY <1>3, <1>4, <1>5
  <2> HIDE DEF K, Led
  <2> QED
    BY <1>8, <2>1 DEF Tuple1
<1>11. \A t \in K : PostingsRead[termToID[t]] =
                       {d \in DocIDs : t \in DocTerms[d] /\ Leads(t, d)}
  BY PostingsAre DEF Known, KnownTerms
<1>12. Search(q) = IF K = {} THEN {}
                   ELSE {d \in 0 .. MaxDocs - 1 :
                            \A t \in K : d \in PostingsRead[termToID[t]]}
  BY <1>0, SearchIs
<1>13. DocIDs \subseteq 0 .. MaxDocs - 1
  BY <1>0, DocIDsFit
<1> HIDE DEF K, Led
<1>14. CASE K = {}
  BY <1>1, <1>9, <1>12, <1>14
<1>15. CASE K # {}
  <2>1. {d \in 0 .. MaxDocs - 1 : \A t \in K : d \in PostingsRead[termToID[t]]}
           = {d \in DocIDs : \A t \in K : t \in DocTerms[d] /\ Leads(t, d)}
    BY <1>11, <1>13, <1>15
  <2>2. {d \in DocIDs : \A t \in K : t \in DocTerms[d] /\ Leads(t, d)}
           = {d \in DocIDs : known \subseteq Led(d)}
    BY <1>10
  <2> QED
    BY <1>1, <1>9, <1>12, <1>15, <2>1, <2>2
<1> QED
  BY <1>14, <1>15

\* A search finds the documents with the words of the query, whatever was
\* indexed in whatever order, under whatever configuration that validate
\* accepts (config.go:114, engine.go:341): the terms of a query and those of a
\* document come from two pipelines that differ in what they drop.  With the LSM
\* backend it finds them but for what its reads miss, whatever that is.
THEOREM WordsFound == EngineSpec => []SearchExact
<1>1. ASSUME TextInv PROVE SearchExact
  <2> SUFFICES ASSUME stage = "files", losses = 0, NEW q \in TextQueries
               PROVE  Search(q) = Expected(q)
    BY DEF SearchExact, Between
  <2>1. q \in Seq(Seq(Words)) /\ Running
    BY EngineAssumption DEF Running
  <2> QED
    BY <1>1, <2>1, SearchFindsWords
<1> QED
  BY <1>1, TextInvInit, TextInvNext, PTL DEF EngineSpec

-----------------------------------------------------------------------------
(* The searches for patterns.                                              *)

LEMMA LowerTypes ==
    ASSUME NEW p \in Patterns
    PROVE  /\ ToLower(p) \in Patterns /\ Len(ToLower(p)) = Len(p)
           /\ DOMAIN ToLower(p) = 1 .. Len(p)
           /\ \A i \in 1 .. Len(p) :
                 /\ ToLower(p)[i] = IF p[i] = Star THEN Star ELSE Lower[p[i]]
                 /\ ToLower(p)[i] = Star <=> p[i] = Star
<1> DEFINE l == ToLower(p)
<1>1. Len(p) \in Nat /\ DOMAIN p = 1 .. Len(p)
      /\ \A i \in 1 .. Len(p) : p[i] \in Runes \cup {Star}
  BY DEF Patterns
<1>2. \A i \in 1 .. Len(p) : p[i] # Star => Lower[p[i]] \in Runes /\ Lower[p[i]] # Star
  BY <1>1, EngineAssumption, KgramAssumption
<1>3. l = [i \in 1 .. Len(p) |-> IF p[i] = Star THEN Star ELSE Lower[p[i]]]
  BY <1>1 DEF ToLower
<1> HIDE DEF l
<1>4. \A i \in 1 .. Len(p) : l[i] \in Runes \cup {Star} /\ (l[i] = Star <=> p[i] = Star)
  BY <1>1, <1>2, <1>3
<1>5. l \in [1 .. Len(p) -> Runes \cup {Star}]
  BY <1>3, <1>4
<1>6. l \in Patterns /\ Len(l) = Len(p)
  BY <1>1, <1>5 DEF Patterns
<1>7. \A i \in 1 .. Len(p) : l[i] = IF p[i] = Star THEN Star ELSE Lower[p[i]]
  BY <1>3
<1> QED
  BY <1>3, <1>4, <1>6, <1>7 DEF l

\* A pattern that ends in its only star matches the terms with the prefix that
\* stands before it.
LEMMA PrefixMatches ==
    ASSUME NEW p \in Patterns, Len(p) > 0, StarAtEnd(p), NEW t \in Terms
    PROVE  IsPrefix(ToLower(SubSeq(p, 1, Len(p) - 1)), t) <=> Matches(t, ToLower(p))
<1> DEFINE n == Len(p) - 1
           l == ToLower(p)
           start == SubSeq(p, 1, n)
           pre == ToLower(start)
           m == Len(t)
<1>1. n \in Nat /\ Len(p) = n + 1 /\ m \in Nat /\ p \in Seq(Runes \cup {Star})
  BY DEF Patterns, Terms
<1> HIDE DEF n
<1>2. start \in Patterns /\ Len(start) = n /\ \A i \in 1 .. n : start[i] = p[i]
  BY <1>1 DEF Patterns
<1> HIDE DEF start
<1>3. l \in Patterns /\ Len(l) = n + 1 /\ l[n + 1] = Star /\ \A i \in 1 .. n : l[i] # Star
  BY <1>1, LowerTypes DEF StarAtEnd
<1>4. pre \in Patterns /\ Len(pre) = n /\ \A i \in 1 .. n : pre[i] = l[i]
  BY <1>1, <1>2, LowerTypes
<1> HIDE DEF l, pre
<1>5. IsPrefix(pre, t) <=> n <= m /\ \A i \in 1 .. n : t[i] = l[i]
  <2>1. pre \in Seq(Runes \cup {Star}) /\ t \in Seq(Runes \cup {Star})
    BY <1>4 DEF Patterns, Terms
  <2>2. SubSeq(pre, 1, n) = [i \in 1 .. n |-> pre[i]]
    BY <1>1, <1>4, <2>1
  <2>3. n <= m => SubSeq(t, 1, n) = [i \in 1 .. n |-> t[i]]
    BY <1>1, <2>1
  <2>4. [i \in 1 .. n |-> pre[i]] = [i \in 1 .. n |-> t[i]]
        <=> \A i \in 1 .. n : pre[i] = t[i]
    <3> DEFINE a == [i \in 1 .. n |-> pre[i]]
               b == [i \in 1 .. n |-> t[i]]
    <3>1. (\A i \in 1 .. n : a[i] = pre[i]) /\ \A i \in 1 .. n : b[i] = t[i]
      OBVIOUS
    <3>2. ASSUME \A i \in 1 .. n : pre[i] = t[i] PROVE a = b
      BY <3>2
    <3> HIDE DEF a, b
    <3>3. ASSUME a = b PROVE \A i \in 1 .. n : pre[i] = t[i]
      BY <3>1, <3>3
    <3> QED
      BY <3>2, <3>3 DEF a, b
  <2> QED
    BY <1>4, <2>2, <2>3, <2>4 DEF IsPrefix
<1>6. ASSUME n <= m, \A i \in 1 .. n : t[i] = l[i] PROVE Matches(t, l)
  <2> DEFINE cut == [x \in 1 .. n + 2 |-> IF x <= n + 1 THEN x ELSE m + 1]
  <2>1. cut \in [1 .. Len(l) + 1 -> 1 .. m + 1]
    <3>1. Len(l) + 1 = n + 2
      BY <1>1, <1>3
    <3> QED
      BY <1>1, <1>6, <3>1
  <2>2. \A x \in 1 .. n + 1 : cut[x] = x
    BY <1>1
  <2>3. cut[n + 2] = m + 1
    BY <1>1
  <2> HIDE DEF cut
  <2>4. cut[1] = 1 /\ cut[Len(l) + 1] = m + 1
    BY <1>1, <1>3, <2>2, <2>3
  <2>5. ASSUME NEW j \in 1 .. Len(l)
        PROVE  IF l[j] = Star THEN cut[j] <= cut[j + 1]
               ELSE cut[j] <= m /\ t[cut[j]] = l[j] /\ cut[j + 1] = cut[j] + 1
    <3>1. CASE j = n + 1
      <4>1. l[j] = Star /\ cut[j] = n + 1 /\ cut[j + 1] = m + 1
        BY <1>1, <1>3, <2>2, <2>3, <3>1
      <4> QED
        BY <1>1, <1>6, <4>1
    <3>2. CASE j # n + 1
      <4>1. j \in 1 .. n /\ j + 1 \in 1 .. n + 1 /\ j \in 1 .. n + 1
        BY <1>1, <1>3, <3>2
      <4>2. l[j] # Star /\ cut[j] = j /\ cut[j + 1] = j + 1 /\ t[j] = l[j] /\ j <= m
        BY <1>1, <1>3, <1>6, <2>2, <4>1
      <4> QED
        BY <4>2
    <3> QED
      BY <3>1, <3>2
  <2> QED
    BY <2>1, <2>4, <2>5 DEF Matches, Fits
<1>7. ASSUME Matches(t, l) PROVE n <= m /\ \A i \in 1 .. n : t[i] = l[i]
  <2>1. PICK cut \in [1 .. Len(l) + 1 -> 1 .. m + 1] : Fits(cut, t, l)
    BY <1>7 DEF Matches
  <2> DEFINE Good == {x \in 1 .. n + 1 : cut[x] = x}
  <2>2. \A j \in 1 .. n : cut[j] <= m /\ t[cut[j]] = l[j] /\ cut[j + 1] = cut[j] + 1
    BY <1>1, <1>3, <2>1 DEF Fits
  <2>3. 1 \in Good
    BY <1>1, <2>1 DEF Fits
  <2>4. ASSUME NEW i \in 1 .. n + 1, i \in Good, i < n + 1 PROVE i + 1 \in Good
    <3>1. i \in 1 .. n /\ cut[i] = i /\ i + 1 \in 1 .. n + 1
      BY <1>1, <2>4
    <3> QED
      BY <2>2, <3>1
  <2>5. \A i \in 1 .. n + 1 : i \in Good
    <3>1. n + 1 \in Nat
      BY <1>1
    <3> HIDE DEF Good
    <3> QED
      BY <2>3, <2>4, <3>1, UpTo
  <2>6. \A i \in 1 .. n : cut[i] = i
    BY <1>1, <2>5
  <2>7. \A i \in 1 .. n : i <= m /\ t[i] = l[i]
    BY <2>2, <2>6
  <2>8. n <= m
    <3>1. n = 0 \/ n \in 1 .. n
      BY <1>1
    <3> QED
      BY <1>1, <2>7, <3>1
  <2> QED
    BY <2>7, <2>8
<1> QED
  BY <1>5, <1>6, <1>7 DEF pre, start, l, n

LEMMA WildcardTypes ==
    ASSUME NEW p \in Wildcards
    PROVE  p \in Patterns /\ Len(p) > 0
<1>1. p \in Patterns /\ \E i \in DOMAIN p : p[i] = Star
  BY EngineAssumption
<1>2. DOMAIN p = 1 .. Len(p) /\ Len(p) \in Nat
  BY <1>1 DEF Patterns
<1> QED
  BY <1>1, <1>2

Matched(p) == {d \in DocIDs : \E t \in DocTerms[d] : Matches(t, ToLower(p))}

\* Those that what is missed leaves.
Led(p) ==
    {d \in DocIDs : \E t \in DocTerms[d] :
        Matches(t, ToLower(p)) /\ Leads(t, d) /\ FoundBy(p, t)}

\* What is expected of a search for a pattern, said of the terms.
LEMMA ExpectedIs ==
    ASSUME DateInv, StageInv, Running, NEW p \in Wildcards
    PROVE  DocsMatching(p) = Matched(p) /\ ExpectedOf(p) = Led(p)
<1>1. ASSUME NEW d \in DocIDs
      PROVE  /\ (\E b \in BasesOf(d) : <<b[1], p>> \in Matching)
                <=> \E t \in DocTerms[d] : Matches(t, ToLower(p))
             /\ (\E b \in BasesOf(d) : /\ <<b[1], p>> \in Matching
                                      /\ Leads(b[1], d) /\ FoundBy(p, b[1]))
                <=> \E t \in DocTerms[d] : /\ Matches(t, ToLower(p))
                                           /\ Leads(t, d) /\ FoundBy(p, t)
  <2>1. BasesOf(d) = {<<t>> : t \in DocTerms[d]}
    BY BasesOfDoc DEF Tuple1
  <2>2. \A t : <<t>>[1] = t
    OBVIOUS
  <2>3. DocTerms[d] \subseteq SomeTerms
    <3>1. conf.Index \in PipelineConfig /\ docs[d + 1].text \in Seq(Words)
      BY ConfTypes, DocTypes DEF StageInv
    <3>2. Process(conf.Index, conf.Language, docs[d + 1].text) \in Seq(NormalForms)
      BY <3>1, ProcessIs
    <3>3. \A s \in Seq(NormalForms) : ToSet(s) \subseteq NormalForms
      BY DEF ToSet
    <3> QED
      BY <3>2, <3>3, EngineAssumption DEF DocTerms
  <2>4. \A t \in DocTerms[d] : <<t, p>> \in Matching <=> Matches(t, ToLower(p))
    <3>1. \A t \in DocTerms[d] : <<t, p>> \in SomeTerms \X Wildcards
                                 /\ <<t, p>>[1] = t /\ <<t, p>>[2] = p
      BY <2>3
    <3> QED
      BY <3>1, Zenon DEF Matching
  <2>5. \A b : b \in BasesOf(d) <=> \E t \in DocTerms[d] : b = <<t>>
    BY <2>1
  <2>6. ASSUME NEW t \in DocTerms[d]
        PROVE  <<t>> \in BasesOf(d) /\ <<t>>[1] = t
               /\ (<<<<t>>[1], p>> \in Matching <=> Matches(t, ToLower(p)))
    BY <2>2, <2>4, <2>5
  <2>7. ASSUME NEW b \in BasesOf(d)
        PROVE  \E t \in DocTerms[d] : b[1] = t
    BY <2>2, <2>5
  <2>8. (\E b \in BasesOf(d) : <<b[1], p>> \in Matching)
        <=> \E t \in DocTerms[d] : Matches(t, ToLower(p))
    <3>1. ASSUME NEW b \in BasesOf(d), <<b[1], p>> \in Matching
          PROVE  \E t \in DocTerms[d] : Matches(t, ToLower(p))
      BY <2>4, <2>7, <3>1
    <3> QED
      BY <2>6, <3>1, Zenon
  <2>9. (\E b \in BasesOf(d) : <<b[1], p>> \in Matching
                                /\ Leads(b[1], d) /\ FoundBy(p, b[1]))
        <=> \E t \in DocTerms[d] : Matches(t, ToLower(p))
                                   /\ Leads(t, d) /\ FoundBy(p, t)
    <3>1. ASSUME NEW b \in BasesOf(d), <<b[1], p>> \in Matching,
                 Leads(b[1], d), FoundBy(p, b[1])
          PROVE  \E t \in DocTerms[d] : Matches(t, ToLower(p))
                                        /\ Leads(t, d) /\ FoundBy(p, t)
      BY <2>4, <2>7, <3>1, Zenon
    <3>2. ASSUME NEW t \in DocTerms[d], Matches(t, ToLower(p)),
                 Leads(t, d), FoundBy(p, t)
          PROVE  \E b \in BasesOf(d) : <<b[1], p>> \in Matching
                                        /\ Leads(b[1], d) /\ FoundBy(p, b[1])
      BY <2>6, <3>2, Zenon
    <3> QED
      BY <3>1, <3>2
  <2> QED
    BY <2>8, <2>9
<1>2. DocsMatching(p) = Matched(p)
  BY <1>1 DEF DocsMatching, Matched
<1>3. ExpectedOf(p) = Led(p)
  BY <1>1 DEF ExpectedOf, Led
<1> QED
  BY <1>2, <1>3

LEMMA PrefixSearch ==
    ASSUME TextInv, NEW p \in Wildcards, StarAtEnd(p)
    PROVE  SearchPattern(p) =
              UNION {PostingsRead[termToID[t]] :
                        t \in {u \in DOMAIN termToID :
                                  Matches(u, ToLower(p)) /\ FoundBy(p, u)}}
<1>1. p \in Patterns /\ Len(p) > 0
  BY WildcardTypes
<1>2. DOMAIN termToID \subseteq Terms
  BY EngineAssumption, KgramIndexAssumption DEF TextInv, IDsInv
<1> DEFINE pre == ToLower(SubSeq(p, 1, Len(p) - 1))
           T == ScanPrefix(pre)
           U == {u \in DOMAIN termToID : Matches(u, ToLower(p)) /\ FoundBy(p, u)}
<1>3. \A u \in DOMAIN termToID : IsPrefix(pre, u) <=> Matches(u, ToLower(p))
  BY <1>1, <1>2, PrefixMatches
<1>4. SearchPattern(p) = PostingsOf(Dict!IdsOf(T))
  BY DEF SearchPattern, SearchPrefix
<1>5. pre = <<>> <=> Len(p) = 1
  <2> DEFINE q == SubSeq(p, 1, Len(p) - 1)
  <2>1. q \in Patterns /\ Len(q) = Len(p) - 1 /\ Len(p) \in Nat
    BY <1>1 DEF Patterns
  <2> HIDE DEF q
  <2>2. ToLower(q) \in Patterns /\ Len(ToLower(q)) = Len(p) - 1
    BY <2>1, LowerTypes
  <2>3. \A s \in Seq(Runes \cup {Star}) : s = <<>> <=> Len(s) = 0
    OBVIOUS
  <2>4. ToLower(q) = <<>> <=> Len(p) - 1 = 0
    BY <2>2, <2>3 DEF Patterns
  <2> QED
    BY <2>1, <2>4 DEF q
<1> HIDE DEF pre
<1>6. T = U
  <2>1. \A u : FoundBy(p, u) <=> Reached("scan", u)
                                /\ ~ (conf.Backend = "lsm" /\ pre = <<>>)
    BY <1>5 DEF FoundBy
  <2> QED
    BY <1>3, <2>1 DEF ScanPrefix
<1>7. T \subseteq DOMAIN termToID
  BY <1>6
<1> HIDE DEF T, U
<1>8. Dict!IdsOf(T) = {termToID[t] : t \in T}
  BY <1>7 DEF Dict!IdsOf
<1>9. PostingsOf(Dict!IdsOf(T)) = UNION {PostingsRead[termToID[t]] : t \in T}
  BY <1>8 DEF PostingsOf
<1> QED
  BY <1>4, <1>6, <1>9 DEF U

\* The ids that are found under every gram of a pattern.
UnderGrams(p, f) ==
    \A g \in ExtractFromPattern(ToLower(p)) : Reached("gram", <<g, f>>)

LEMMA WildcardSearch ==
    ASSUME TextInv, NEW p \in Wildcards, ~ StarAtEnd(p)
    PROVE  LET F == {g \in DOMAIN termByID :
                        Matches(termByID[g], ToLower(p)) /\ UnderGrams(p, g)}
           IN  /\ SearchPattern(p) \subseteq UNION {PostingsRead[f] : f \in F}
               /\ HasGram(p) =>
                     SearchPattern(p) = UNION {PostingsRead[f] : f \in F}
<1> DEFINE l == ToLower(p)
           E == {g \in DOMAIN termByID : Matches(termByID[g], l)}
           F == {g \in DOMAIN termByID : Matches(termByID[g], l) /\ UnderGrams(p, g)}
           K == {f \in KgramSearch(l) : UnderGrams(p, f)}
<1>1. l \in Patterns
  BY WildcardTypes, LowerTypes
<1>2. SearchPattern(p) = UNION {PostingsRead[f] : f \in K}
  BY DEF SearchPattern, SearchWildcard, PostingsOf, UnderGrams
<1>3. KgramInv /\ \A f \in DOMAIN termByID : termByID[f] \in Terms
  BY DEF TextInv, KgramInv, KgramTypeOK
<1> HIDE DEF l
<1>4. \A f \in DOMAIN termByID : MatchPattern(termByID[f], l) <=> Matches(termByID[f], l)
  BY <1>1, <1>3, MatchFinds
<1>5. KgramSearch(l) \subseteq E
  BY <1>4 DEF KgramSearch, Candidates
<1>6. ExtractFromPattern(l) # {} => KgramSearch(l) = E
  <2>1. E \subseteq Candidates(l)
    BY <1>1, <1>3, CandidatesHave DEF CandidatesComplete
  <2> QED
    BY <1>4, <2>1 DEF KgramSearch, Candidates
<1>7. HasGram(p) => ExtractFromPattern(l) # {}
  BY DEF HasGram, l
<1>8. F = {f \in E : UnderGrams(p, f)}
  OBVIOUS
<1> HIDE DEF E
<1>9. K \subseteq F /\ (HasGram(p) => K = F)
  BY <1>5, <1>6, <1>7, <1>8
<1> HIDE DEF F, K
<1>10. /\ SearchPattern(p) \subseteq UNION {PostingsRead[f] : f \in F}
       /\ HasGram(p) => SearchPattern(p) = UNION {PostingsRead[f] : f \in F}
  BY <1>2, <1>9
<1> QED
  BY <1>10 DEF F, l

\* The postings of the terms that own the ids found.
LEMMA PatternFinds ==
    ASSUME TextInv, Running, stage # "terms", NEW p \in Wildcards
    PROVE  /\ SearchPattern(p) \subseteq Matched(p)
           /\ losses = 0 /\ HasGram(p) => SearchPattern(p) = Led(p)
<1>0. DateInv /\ StageInv /\ IDsInv /\ PostingsInv /\ KgramInv
  BY DEF TextInv
<1>1. CASE StarAtEnd(p)
  <2> DEFINE T == {u \in DOMAIN termToID : Matches(u, ToLower(p)) /\ FoundBy(p, u)}
  <2>1. SearchPattern(p) = UNION {PostingsRead[termToID[t]] : t \in T}
    BY <1>1, PrefixSearch
  <2>2. \A t \in T :
           /\ t \in DOMAIN termToID /\ Matches(t, ToLower(p)) /\ FoundBy(p, t)
           /\ PostingsRead[termToID[t]] \subseteq {d \in DocIDs : t \in DocTerms[d]}
           /\ losses = 0 =>
                 PostingsRead[termToID[t]] =
                    {d \in DocIDs : t \in DocTerms[d] /\ Leads(t, d)}
    BY PostingsAre
  <2>3. ASSUME losses = 0, NEW d \in DocIDs, NEW t \in DocTerms[d],
               Matches(t, ToLower(p)), FoundBy(p, t)
        PROVE  t \in T
    BY <1>0, <2>3 DEF PostingsInv
  <2> HIDE DEF T
  <2>4. SearchPattern(p) \subseteq Matched(p)
    BY <2>1, <2>2 DEF Matched
  <2>5. losses = 0 => Led(p) \subseteq SearchPattern(p)
    <3> SUFFICES ASSUME losses = 0, NEW d \in Led(p) PROVE d \in SearchPattern(p)
      OBVIOUS
    <3>1. PICK t \in DocTerms[d] : Matches(t, ToLower(p)) /\ Leads(t, d) /\ FoundBy(p, t)
      BY DEF Led
    <3>2. d \in DocIDs
      BY DEF Led
    <3>3. t \in T /\ d \in PostingsRead[termToID[t]]
      BY <2>2, <2>3, <3>1, <3>2
    <3> QED
      BY <2>1, <3>3
  <2>6. losses = 0 => SearchPattern(p) \subseteq Led(p)
    <3> SUFFICES ASSUME losses = 0, NEW d \in SearchPattern(p) PROVE d \in Led(p)
      OBVIOUS
    <3>1. PICK t \in T : d \in PostingsRead[termToID[t]]
      BY <2>1
    <3> QED
      BY <2>2, <3>1 DEF Led
  <2> QED
    BY <2>4, <2>5, <2>6
<1>2. CASE ~ StarAtEnd(p)
  <2> DEFINE F == {g \in DOMAIN termByID :
                      Matches(termByID[g], ToLower(p)) /\ UnderGrams(p, g)}
  <2>1. /\ SearchPattern(p) \subseteq UNION {PostingsRead[f] : f \in F}
        /\ HasGram(p) => SearchPattern(p) = UNION {PostingsRead[f] : f \in F}
    BY <1>2, WildcardSearch
  <2>2. DOMAIN termByID \subseteq FeatureIDs
    BY <1>0 DEF KgramInv, KgramTypeOK
  <2>3. \A f \in DOMAIN termByID : <<f, termByID[f]>> \in Owners
    BY DEF Owners
  <2>4. \A f \in DOMAIN termByID :
           /\ PostingsRead[f] = {d \in postings[f] : Reached("posting", <<f, d>>)}
           /\ \A d \in PostingsRead[f] : d \in DocIDs /\ termByID[f] \in DocTerms[d]
    <3>1. \A f \in FeatureIDs : postings[f] \subseteq DocIDs
      BY <1>0 DEF PostingsInv
    <3>2. \A f \in DOMAIN termByID :
             PostingsRead[f] = {d \in postings[f] : Reached("posting", <<f, d>>)}
      BY <2>2 DEF PostingsRead
    <3>3. ASSUME NEW f \in DOMAIN termByID, NEW d \in PostingsRead[f]
          PROVE  d \in DocIDs /\ termByID[f] \in DocTerms[d]
      <4>1. f \in FeatureIDs /\ d \in postings[f] /\ <<f, termByID[f]>> \in Owners
        BY <2>2, <2>3, <3>2
      <4> QED
        BY <1>0, <3>1, <4>1 DEF PostingsInv
    <3> QED
      BY <3>2, <3>3
  <2>5. UNION {PostingsRead[f] : f \in F} \subseteq Matched(p)
    BY <2>4 DEF Matched
  <2>6. ASSUME losses = 0, NEW f \in F, NEW d \in PostingsRead[f] PROVE d \in Led(p)
    <3> DEFINE t == termByID[f]
    <3>1. t \in DOMAIN termToID /\ termToID[t] = f
      BY <1>0, <2>3, <2>6 DEF IDsInv
    <3>2. t \in DocTerms[d] /\ d \in DocIDs /\ Reached("posting", <<f, d>>)
          /\ Matches(t, ToLower(p)) /\ UnderGrams(p, f)
      BY <2>4, <2>6
    <3> HIDE DEF t
    <3>3. Leads(t, d) /\ FoundBy(p, t)
      BY <1>2, <3>1, <3>2 DEF Leads, FoundBy, UnderGrams
    <3> QED
      BY <3>2, <3>3 DEF Led
  <2>7. ASSUME losses = 0, NEW d \in Led(p)
        PROVE  \E f \in F : d \in PostingsRead[f]
    <3>0. PICK t \in DocTerms[d] : Matches(t, ToLower(p)) /\ Leads(t, d) /\ FoundBy(p, t)
      BY <2>7 DEF Led
    <3>1. d \in DocIDs /\ t \in DOMAIN termToID /\ d \in postings[termToID[t]]
      BY <1>0, <2>7 DEF PostingsInv, Led
    <3>2. <<termToID[t], t>> \in Owners
      BY <1>0, <3>1 DEF IDsInv
    <3>3. todo = <<>>
      BY <1>0 DEF IDsInv
    <3>4. ToSet(todo) = {}
      <4>1. DOMAIN <<>> = {}
        BY EmptySeq
      <4> QED
        BY <3>3, <4>1 DEF ToSet
    <3>5. PICK f \in DOMAIN termByID : <<termToID[t], t>> = <<f, termByID[f]>>
      BY <3>2, <3>4 DEF Owners
    <3>6. termToID[t] = f /\ t = termByID[f]
      BY <3>5
    <3>7. UnderGrams(p, f) /\ Reached("posting", <<f, d>>)
      BY <1>2, <3>0, <3>6 DEF FoundBy, UnderGrams, Leads
    <3> QED
      BY <2>4, <3>0, <3>1, <3>6, <3>7
  <2> HIDE DEF F
  <2>8. losses = 0 => UNION {PostingsRead[f] : f \in F} = Led(p)
    BY <2>6, <2>7
  <2> QED
    BY <2>1, <2>5, <2>8
<1> QED
  BY <1>1, <1>2

\* A search for a pattern with a k-gram, or for a prefix, finds the documents
\* with a term that matches it (engine.go:361, engine.go:378): the k-gram index
\* has gone through the same terms as the dictionary, under the same ids.  With
\* the LSM backend those documents are left out to which every way is missed,
\* and the pattern * finds nothing (lsm_dict.go:114).
THEOREM PatternSearches == EngineSpec => []WildcardExact
<1>1. ASSUME TextInv PROVE WildcardExact
  <2> SUFFICES ASSUME stage = "files", losses = 0, NEW p \in Wildcards, HasGram(p)
               PROVE  SearchPattern(p) = ExpectedOf(p)
    BY DEF WildcardExact, Between
  <2>1. ExpectedOf(p) = Led(p) /\ Running
    BY <1>1, ExpectedIs DEF TextInv, Running
  <2> QED
    BY <1>1, <2>1, PatternFinds
<1> QED
  BY <1>1, TextInvInit, TextInvNext, PTL DEF EngineSpec

\* Whatever the LSM backend loses or misses, in whatever order, no search for a word or a
\* pattern returns a document without it: an id stays with the term that it was
\* given to, in the postings and in the k-gram index, although the dictionary
\* forgets the term and numbers it anew (lsm_dict.go:52).
THEOREM NothingFalse == EngineSpec => []NoFalseResult
<1>1. ASSUME TextInv, stage = "files", NEW w \in Words
      PROVE  Search(<<<<w>>>>) \subseteq {d \in DocIDs : Base(w) \in BasesOf(d)}
  <2> DEFINE q == <<<<w>>>>
             t == TermOf(conf.Query, w)
  <2>0. DateInv /\ StageInv /\ Running
    BY <1>1 DEF TextInv, Running
  <2>1. <<w>> \in Seq(Words) /\ ToSet(<<w>>) = {w}
    BY DEF ToSet
  <2>2. q \in Seq(Seq(Words)) /\ DOMAIN q = {1} /\ q[1] = <<w>>
    BY <2>1
  <2>3. WordsOf(q) = {w}
    BY <2>1, <2>2 DEF WordsOf
  <2>4. Known(q) \subseteq {t} /\ (Known(q) # {} => Passes(conf.Query, w))
    BY <2>3 DEF Known, QueryTerms
  <2> SUFFICES ASSUME NEW d \in Search(q)
               PROVE  d \in DocIDs /\ Base(w) \in BasesOf(d)
    OBVIOUS
  <2> HIDE DEF q
  <2>5. Known(q) # {} /\ \A u \in Known(q) : d \in PostingsRead[termToID[u]]
    <3>1. Search(q) = IF Known(q) = {} THEN {}
                      ELSE {e \in 0 .. MaxDocs - 1 :
                               \A u \in Known(q) : e \in PostingsRead[termToID[u]]}
      BY <2>0, <2>2, SearchIs
    <3> QED
      BY <3>1
  <2>6. t \in Known(q) /\ t \in DOMAIN termToID
    BY <2>4, <2>5 DEF Known, KnownTerms
  <2>7. d \in DocIDs /\ t \in DocTerms[d]
    BY <1>1, <2>5, <2>6, PostingsAre
  <2>8. Base(w) = <<t>>
    BY <2>0, <2>4, <2>5, BaseIs
  <2> QED
    BY <2>0, <2>7, <2>8, BasesOfDoc DEF Tuple1
<1>2. ASSUME TextInv, stage = "files", NEW p \in Wildcards
      PROVE  SearchPattern(p) \subseteq DocsMatching(p)
  <2>1. DocsMatching(p) = Matched(p) /\ Running
    BY <1>2, ExpectedIs DEF TextInv, Running
  <2> QED
    BY <1>2, <2>1, PatternFinds
<1>3. TextInv => NoFalseResult
  BY <1>1, <1>2 DEF NoFalseResult, Between
<1> QED
  BY <1>3, TextInvInit, TextInvNext, PTL DEF EngineSpec
=============================================================================
