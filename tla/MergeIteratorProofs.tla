------------------------ MODULE MergeIteratorProofs ------------------------
(***************************************************************************)
(* Proofs about MergeIterator: for every level, every number of SSTs and   *)
(* every cut into blocks, the output is the sorted union of the SSTs up to *)
(* its last key, and all of it when the merge ends without an error.       *)
(***************************************************************************)
EXTENDS MergeIterator, TLAPS, WellFoundedInduction

\* An entry of the input: entry e of block b of SST i.
Place(i, b, e) ==
    i \in DOMAIN input /\ b \in DOMAIN input[i] /\ e \in DOMAIN input[i][b]

KeyAt(i, b, e) == input[i][b][e].key
ValAt(i, b, e) == input[i][b][e].value

\* Iterator i stands at the entry, or has gone past it.
Current(i, b, e) == b = iters[i].block /\ e = iters[i].kv
Read(i, b, e) ==
    b < iters[i].block \/ (b = iters[i].block /\ e <= iters[i].kv)

\* An entry of SST i is in the heap: the one where its iterator stands.
Waits(i) == \E x \in h : x.idx = i

\* What Next has popped, and what it has still to pop.
Consumed(i, b, e) ==
    Place(i, b, e) /\ Read(i, b, e) /\ ~(Waits(i) /\ Current(i, b, e))
Left(i, b, e) == Place(i, b, e) /\ ~Consumed(i, b, e)

PositionOK(i) ==
    /\ iters[i].block \in 0 .. Len(input[i])
    /\ iters[i].kv \in 0 .. BlockLen(i, iters[i].block)
    /\ iters[i].block # 0 => iters[i].kv # 0

\* The heap holds the current entry of every iterator that init has called and
\* that is not at its end.
HeapInv ==
    /\ iters \in [DOMAIN input -> [block : Nat, kv : Nat]]
    /\ \A i \in DOMAIN input : PositionOK(i)
    /\ \A x \in h :
          /\ x.idx \in DOMAIN input /\ iters[x.idx].block # 0
          /\ x = Item(x.idx, iters[x.idx].block, iters[x.idx].kv)
    /\ \A i \in DOMAIN input :
          /\ i >= toInit => iters[i].block = 0
          /\ i < toInit /\ ~Waits(i) =>
                /\ iters[i].block = Len(input[i])
                /\ iters[i].kv = BlockLen(i, iters[i].block)

-----------------------------------------------------------------------------
(* The input.                                                              *)

LEMMA InputFacts ==
    ASSUME input \in Inputs
    PROVE  /\ Len(input) \in Nat \ {0} /\ DOMAIN input = 1 .. Len(input)
           /\ \A i \in DOMAIN input :
                 /\ Len(input[i]) \in Nat \ {0}
                 /\ DOMAIN input[i] = 1 .. Len(input[i])
                 /\ \A b \in DOMAIN input[i] :
                       /\ Len(input[i][b]) \in Nat \ {0}
                       /\ DOMAIN input[i][b] = 1 .. Len(input[i][b])
                       /\ \A e \in DOMAIN input[i][b] : input[i][b][e] \in Entry
<1>1. /\ input \in Seq(Seq(Seq(Entry) \ {<<>>}) \ {<<>>})
      /\ input # <<>>
  BY MergeAssumption
<1>2. Len(input) \in Nat \ {0} /\ DOMAIN input = 1 .. Len(input)
  BY <1>1
<1>3. ASSUME NEW i \in DOMAIN input
      PROVE  input[i] \in Seq(Seq(Entry) \ {<<>>}) /\ input[i] # <<>>
  BY <1>1
<1>4. ASSUME NEW i \in DOMAIN input
      PROVE  Len(input[i]) \in Nat \ {0} /\ DOMAIN input[i] = 1 .. Len(input[i])
  BY <1>3
<1>5. ASSUME NEW i \in DOMAIN input, NEW b \in DOMAIN input[i]
      PROVE  input[i][b] \in Seq(Entry) /\ input[i][b] # <<>>
  <2> DEFINE s == input[i]
  <2>1. s \in Seq(Seq(Entry) \ {<<>>}) /\ b \in DOMAIN s
    BY <1>3
  <2> HIDE DEF s
  <2>2. s[b] \in Seq(Entry) \ {<<>>}
    BY <2>1
  <2> QED
    BY <2>2 DEF s
<1>6. ASSUME NEW i \in DOMAIN input, NEW b \in DOMAIN input[i]
      PROVE  /\ Len(input[i][b]) \in Nat \ {0}
             /\ DOMAIN input[i][b] = 1 .. Len(input[i][b])
             /\ \A e \in DOMAIN input[i][b] : input[i][b][e] \in Entry
  <2> DEFINE s == input[i][b]
  <2>1. s \in Seq(Entry) /\ s # <<>>
    BY <1>5
  <2> HIDE DEF s
  <2>2. /\ Len(s) \in Nat \ {0} /\ DOMAIN s = 1 .. Len(s)
        /\ \A e \in DOMAIN s : s[e] \in Entry
    BY <2>1
  <2> QED
    BY <2>2 DEF s
<1> QED
  BY <1>2, <1>4, <1>6

LEMMA PlaceFacts ==
    ASSUME input \in Inputs, NEW i, NEW b, NEW e, Place(i, b, e)
    PROVE  /\ i \in Nat /\ b \in Nat \ {0} /\ e \in Nat \ {0}
           /\ b <= Len(input[i]) /\ e <= Len(input[i][b])
           /\ BlockLen(i, b) = Len(input[i][b])
           /\ KeyAt(i, b, e) \in Keys /\ KeyAt(i, b, e) \in Nat
           /\ ValAt(i, b, e) \in Vals
           /\ input[i][b][e] = [key |-> KeyAt(i, b, e), value |-> ValAt(i, b, e)]
<1>1. /\ i \in 1 .. Len(input) /\ b \in 1 .. Len(input[i])
      /\ e \in 1 .. Len(input[i][b]) /\ input[i][b][e] \in Entry
      /\ Len(input) \in Nat /\ Len(input[i]) \in Nat /\ Len(input[i][b]) \in Nat
  BY InputFacts DEF Place
<1>2. /\ i \in Nat /\ b \in Nat \ {0} /\ e \in Nat \ {0}
      /\ b <= Len(input[i]) /\ e <= Len(input[i][b])
  BY <1>1
<1>3. Keys \subseteq Nat
  BY MergeAssumption
<1> QED
  BY <1>1, <1>2, <1>3 DEF Entry, KeyAt, ValAt, BlockLen

LEMMA KeyIsNat ==
    ASSUME input \in Inputs, NEW i, NEW b, NEW e, Place(i, b, e)
    PROVE  KeyAt(i, b, e) \in Nat
  BY PlaceFacts

\* The entries of an SST increase.
LEMMA PlacesIncrease ==
    ASSUME input \in Inputs, NEW i, NEW b, NEW e, NEW c, NEW g,
           Place(i, b, e), Place(i, c, g)
    PROVE  /\ (b < c \/ (b = c /\ e < g)) => KeyAt(i, b, e) < KeyAt(i, c, g)
           /\ KeyAt(i, b, e) = KeyAt(i, c, g) => b = c /\ e = g
<1>1. ASSUME NEW b1, NEW e1, NEW c1, NEW g1, Place(i, b1, e1), Place(i, c1, g1),
             b1 < c1 \/ (b1 = c1 /\ e1 < g1)
      PROVE  KeyAt(i, b1, e1) < KeyAt(i, c1, g1)
  <2>1. Increasing(input[i])
    BY MergeAssumption DEF Place
  <2> QED
    BY <1>1, <2>1 DEF Increasing, Place, KeyAt
<1>2. /\ b \in Nat /\ e \in Nat /\ c \in Nat /\ g \in Nat
      /\ KeyAt(i, b, e) \in Nat /\ KeyAt(i, c, g) \in Nat
  BY PlaceFacts
<1>3. \/ b < c \/ (b = c /\ e < g)
      \/ c < b \/ (b = c /\ g < e)
      \/ b = c /\ e = g
  BY <1>2
<1> QED
  BY <1>1, <1>2, <1>3

-----------------------------------------------------------------------------
(* The least item of the heap.                                             *)

\* The relation of the well-founded order of the naturals.
LEMMA LessThan == OpToRel(<, Nat) = {ss \in Nat \X Nat : ss[1] < ss[2]}
  BY DEF OpToRel

\* A set of naturals that is not empty has a least element.
LEMMA NatMin ==
    ASSUME NEW S, S \subseteq Nat, S # {}
    PROVE  \E n \in S : \A j \in S : n <= j
<1> DEFINE R == {ss \in Nat \X Nat : ss[1] < ss[2]}
<1>1. IsWellFoundedOn(R, Nat)
  BY NatLessThanWellFounded, LessThan, Zenon
<1>2. \E x \in S : \A y \in S : ~ (<<y, x>> \in R)
  <2> HIDE DEF R
  <2> QED
    BY <1>1, WFMin
<1>3. PICK n \in S : \A j \in S : <<j, n>> \notin R
  BY <1>2
<1>4. ASSUME NEW j \in S PROVE n <= j
  <2>1. n \in Nat /\ j \in Nat /\ <<j, n>> \notin R
    BY <1>3
  <2>2. ~ (j < n)
    BY <2>1
  <2> QED
    BY <2>1, <2>2
<1> QED
  BY <1>4

\* Of one iterator there is one item at most, the entry where it stands, and
\* that entry is still to be popped.
LEMMA ItemFacts ==
    ASSUME input \in Inputs, HeapInv, NEW x \in h
    PROVE  \E b, e :
              /\ b = iters[x.idx].block /\ e = iters[x.idx].kv
              /\ Place(x.idx, b, e) /\ Left(x.idx, b, e)
              /\ x = Item(x.idx, b, e)
              /\ x.key = KeyAt(x.idx, b, e) /\ x.value = ValAt(x.idx, b, e)
<1> DEFINE b == iters[x.idx].block
           e == iters[x.idx].kv
<1>1. /\ x.idx \in DOMAIN input /\ b # 0 /\ PositionOK(x.idx)
      /\ x = Item(x.idx, b, e)
  BY DEF HeapInv
<1>2. b \in 1 .. Len(input[x.idx]) /\ e \in 1 .. Len(input[x.idx][b])
  BY <1>1, InputFacts DEF PositionOK, BlockLen
<1>3. Place(x.idx, b, e)
  BY <1>1, <1>2, InputFacts DEF Place
<1>4. x.key = KeyAt(x.idx, b, e) /\ x.value = ValAt(x.idx, b, e)
  BY <1>1 DEF Item, KeyAt, ValAt
<1>5. Left(x.idx, b, e)
  BY <1>3 DEF Left, Consumed, Waits, Current
<1> QED
  BY <1>1, <1>3, <1>4, <1>5

LEMMA OneItem ==
    ASSUME HeapInv, NEW x \in h, NEW y \in h, x.idx = y.idx
    PROVE  x = y
  BY DEF HeapInv

LEMMA TopIsLeast ==
    ASSUME input \in Inputs, HeapInv, h # {}
    PROVE  /\ Top \in h
           /\ \A y \in h : /\ Top.key <= y.key
                           /\ y.key = Top.key => y.idx <= Top.idx
<1>1. ASSUME NEW y \in h PROVE y.key \in Nat /\ y.idx \in DOMAIN input
  <2>1. PICK b, e : Place(y.idx, b, e) /\ y.key = KeyAt(y.idx, b, e)
    BY ItemFacts
  <2>2. KeyAt(y.idx, b, e) \in Nat
    BY <2>1, KeyIsNat
  <2> QED
    BY <2>1, <2>2 DEF Place
<1>2. DOMAIN input = 1 .. Len(input) /\ Len(input) \in Nat
  BY InputFacts
<1> DEFINE ks == {y.key : y \in h}
<1>3. PICK k \in ks : \A j \in ks : k <= j
  <2>1. ks \subseteq Nat /\ ks # {}
    BY <1>1
  <2> HIDE DEF ks
  <2> QED
    BY <2>1, NatMin
<1> DEFINE is == {Len(input) - y.idx : y \in {z \in h : z.key = k}}
<1>4. PICK i \in is : \A j \in is : i <= j
  <2>1. is \subseteq Nat /\ is # {}
    BY <1>1, <1>2, <1>3
  <2> HIDE DEF is, ks
  <2> QED
    BY <2>1, NatMin
<1>5. PICK x \in h : x.key = k /\ i = Len(input) - x.idx
  BY <1>4
<1>6. \A y \in h : x.key <= y.key
  BY <1>3, <1>5
<1>7. \A y \in h : y.key = x.key => y.idx <= x.idx
  <2> SUFFICES ASSUME NEW y \in h, y.key = x.key PROVE y.idx <= x.idx
    OBVIOUS
  <2>1. Len(input) - x.idx <= Len(input) - y.idx
    BY <1>4, <1>5
  <2>2. x.idx \in Nat /\ y.idx \in Nat /\ Len(input) \in Nat
    BY <1>1, <1>2
  <2> QED
    BY <2>1, <2>2
<1>8. \A y \in h \ {x} : Less(x, y)
  <2> SUFFICES ASSUME NEW y \in h, y # x PROVE Less(x, y)
    OBVIOUS
  <2>1. y.idx # x.idx
    BY OneItem
  <2>2. /\ x.key \in Nat /\ y.key \in Nat /\ x.idx \in Nat /\ y.idx \in Nat
        /\ x.key <= y.key /\ (y.key = x.key => y.idx <= x.idx)
    BY <1>1, <1>2, <1>6, <1>7
  <2> QED
    BY <2>1, <2>2 DEF Less
<1>9. Top \in h /\ \A y \in h \ {Top} : Less(Top, y)
  <2> HIDE DEF ks, is
  <2> QED
    BY <1>8 DEF Top
<1>10. ASSUME NEW y \in h, y # Top
       PROVE  Top.key <= y.key /\ (y.key = Top.key => y.idx <= Top.idx)
  <2>1. /\ Less(Top, y) /\ Top.key \in Nat /\ y.key \in Nat
        /\ Top.idx \in Nat /\ y.idx \in Nat
    BY <1>1, <1>2, <1>9, <1>10
  <2> QED
    BY <2>1 DEF Less
<1> QED
  BY <1>1, <1>2, <1>9, <1>10

\* Of every SST that has entries left the heap holds the least.
LEMMA LeastWaits ==
    ASSUME input \in Inputs, HeapInv, toInit = Len(input) + 1,
           NEW i, NEW b, NEW e, Left(i, b, e)
    PROVE  \E x \in h :
              /\ x.idx = i /\ x.key <= KeyAt(i, b, e)
              /\ x.key = KeyAt(i, b, e) => x.value = ValAt(i, b, e)
<1>1. /\ Place(i, b, e) /\ i \in DOMAIN input /\ PositionOK(i)
      /\ i \in Nat /\ b \in Nat \ {0} /\ e \in Nat \ {0}
      /\ b <= Len(input[i]) /\ e <= Len(input[i][b])
      /\ BlockLen(i, b) = Len(input[i][b])
  BY PlaceFacts DEF Left, Place, HeapInv
<1>2. iters[i].block \in Nat /\ iters[i].kv \in Nat
  BY <1>1 DEF HeapInv
<1>3. Waits(i)
  <2> SUFFICES ASSUME ~Waits(i) PROVE FALSE
    OBVIOUS
  <2>1. iters[i].block = Len(input[i]) /\ iters[i].kv = BlockLen(i, iters[i].block)
    BY <1>1, InputFacts DEF HeapInv
  <2>2. Read(i, b, e)
    <3>1. Len(input[i]) \in Nat /\ Len(input[i][b]) \in Nat
      BY <1>1, InputFacts DEF Place
    <3> QED
      BY <1>1, <2>1, <3>1 DEF Read
  <2> QED
    BY <1>1, <2>2 DEF Left, Consumed
<1>4. PICK x \in h : x.idx = i
  BY <1>3 DEF Waits
<1>5. PICK c, g : /\ c = iters[i].block /\ g = iters[i].kv
                  /\ Place(i, c, g)
                  /\ x.key = KeyAt(i, c, g) /\ x.value = ValAt(i, c, g)
  BY <1>4, ItemFacts
<1>6. (c = b /\ g = e) \/ c < b \/ (c = b /\ g < e)
  BY <1>1, <1>2, <1>5 DEF Left, Consumed, Read, Current
<1>7. x.key \in Nat /\ KeyAt(i, b, e) \in Nat
  <2>1. KeyAt(i, b, e) \in Nat
    BY <1>1, KeyIsNat
  <2>2. KeyAt(i, c, g) \in Nat
    BY <1>5, KeyIsNat
  <2> QED
    BY <1>5, <2>1, <2>2
<1> QED
  BY <1>1, <1>4, <1>5, <1>6, <1>7, PlacesIncrease

-----------------------------------------------------------------------------
(* A step of an iterator.                                                  *)

\* After its Next an iterator stands at the next entry, which is in the heap, or
\* it has failed, or it is at its end.
LEMMA AdvanceMoves ==
    ASSUME input \in Inputs, HeapInv, NEW i \in DOMAIN input,
           NEW heap, NEW bad, Advance(i, heap, bad)
    PROVE  \/ \E b, e :
                 /\ Place(i, b, e)
                 /\ iters' = [iters EXCEPT ![i] = [block |-> b, kv |-> e]]
                 /\ h' = heap \cup {Item(i, b, e)}
                 /\ \A c, g : Place(i, c, g) =>
                       (Read(i, c, g) <=> c < b \/ (c = b /\ g < e))
           \/ /\ iters' = iters /\ h' = heap
              /\ \/ err'
                 \/ /\ iters[i].block = Len(input[i])
                    /\ iters[i].kv = BlockLen(i, iters[i].block)
<1> DEFINE b0 == iters[i].block
           e0 == iters[i].kv
<1>1. /\ b0 \in 0 .. Len(input[i]) /\ e0 \in 0 .. BlockLen(i, b0)
      /\ iters[i] = [block |-> b0, kv |-> e0] /\ b0 \in Nat /\ e0 \in Nat
      /\ b0 # 0 => e0 # 0
      /\ iters \in [DOMAIN input -> [block : Nat, kv : Nat]]
  BY DEF HeapInv, PositionOK
<1>2. /\ Len(input[i]) \in Nat \ {0} /\ DOMAIN input[i] = 1 .. Len(input[i])
      /\ \A b \in DOMAIN input[i] : /\ Len(input[i][b]) \in Nat \ {0}
                                    /\ DOMAIN input[i][b] = 1 .. Len(input[i][b])
  BY InputFacts
<1>3. BlockLen(i, b0) \in Nat /\ (b0 # 0 => BlockLen(i, b0) = Len(input[i][b0]))
  BY <1>1, <1>2 DEF BlockLen
<1>4. \A c, g : Place(i, c, g) =>
          /\ c \in Nat \ {0} /\ g \in Nat \ {0}
          /\ c <= Len(input[i]) /\ g <= Len(input[i][c])
  BY <1>2 DEF Place
<1>5. CASE ~BlockDone(i)
  <2>1. b0 # 0 /\ e0 < BlockLen(i, b0)
    BY <1>1, <1>3, <1>5 DEF BlockDone, BlockLen
  <2>2. Place(i, b0, e0 + 1)
    BY <1>1, <1>2, <1>3, <2>1 DEF Place
  <2>3. /\ iters' = [iters EXCEPT ![i] = [block |-> b0, kv |-> e0 + 1]]
        /\ h' = heap \cup {Item(i, b0, e0 + 1)}
    BY <1>1, <1>5 DEF Advance
  <2>4. \A c, g : Place(i, c, g) =>
            (Read(i, c, g) <=> c < b0 \/ (c = b0 /\ g < e0 + 1))
    BY <1>1, <1>4 DEF Read
  <2> QED
    BY <2>2, <2>3, <2>4
<1>6. CASE BlockDone(i) /\ b0 < Len(input[i])
  <2>1. Place(i, b0 + 1, 1)
    BY <1>1, <1>2, <1>6 DEF Place
  <2>2. \/ /\ iters' = [iters EXCEPT ![i] = [block |-> b0 + 1, kv |-> 1]]
           /\ h' = heap \cup {Item(i, b0 + 1, 1)}
        \/ iters' = iters /\ h' = heap /\ err'
    BY <1>1, <1>2, <1>6 DEF Advance, ErrAfterRead
  <2>3. \A c, g : Place(i, c, g) =>
            (Read(i, c, g) <=> c < b0 + 1 \/ (c = b0 + 1 /\ g < 1))
    BY <1>1, <1>3, <1>4, <1>6 DEF Read, BlockDone
  <2> QED
    BY <2>1, <2>2, <2>3
<1>7. CASE BlockDone(i) /\ b0 = Len(input[i])
  BY <1>1, <1>2, <1>7 DEF Advance, BlockDone
<1> QED
  BY <1>1, <1>2, <1>5, <1>6, <1>7

\* What the step leaves of the invariant of the heap, and what has been popped
\* after it: the entry where the iterator stood, if it stood at one.
LEMMA AdvanceKeeps ==
    ASSUME input \in Inputs, input' = input, HeapInv, toInit \in Nat,
           NEW i \in DOMAIN input, NEW bad,
           Advance(i, {x \in h : x.idx # i}, bad), ~err',
           \/ Waits(i) /\ toInit' = toInit
           \/ i = toInit /\ toInit' = toInit + 1
    PROVE  /\ HeapInv'
           /\ \A j, b, e : Consumed(j, b, e)' <=>
                 \/ Consumed(j, b, e)
                 \/ j = i /\ Place(j, b, e) /\ Current(j, b, e)
<1> DEFINE heap == {x \in h : x.idx # i}
<1>1. DOMAIN input = 1 .. Len(input) /\ i \in Nat
  BY InputFacts
<1>2. \A j, b, e : Place(j, b, e)' <=> Place(j, b, e)
  BY DEF Place
<1>3. /\ iters \in [DOMAIN input -> [block : Nat, kv : Nat]]
      /\ i < toInit' /\ i <= toInit
  BY <1>1 DEF HeapInv, Waits
<1>4. ASSUME NEW j \in DOMAIN input, j # i, iters'[j] = iters[j],
             Waits(j)' <=> Waits(j)
      PROVE  /\ PositionOK(j)'
             /\ \A b, e : Consumed(j, b, e)' <=> Consumed(j, b, e)
             /\ j >= toInit' => iters'[j].block = 0
             /\ j < toInit' /\ ~Waits(j)' =>
                   /\ iters'[j].block = Len(input'[j])
                   /\ iters'[j].kv = BlockLen(j, iters[j].block)'
  <2>1. PositionOK(j)'
    BY <1>4 DEF HeapInv, PositionOK, BlockLen
  <2>2. \A b, e : Consumed(j, b, e)' <=> Consumed(j, b, e)
    BY <1>2, <1>4 DEF Consumed, Read, Current
  <2>3. j \in Nat /\ (j >= toInit' => j >= toInit)
        /\ (j < toInit' => j < toInit)
    BY <1>1, <1>4
  <2> QED
    BY <1>4, <2>1, <2>2, <2>3 DEF HeapInv, BlockLen
<1>5. CASE \E b, e :
             /\ Place(i, b, e)
             /\ iters' = [iters EXCEPT ![i] = [block |-> b, kv |-> e]]
             /\ h' = heap \cup {Item(i, b, e)}
             /\ \A c, g : Place(i, c, g) =>
                   (Read(i, c, g) <=> c < b \/ (c = b /\ g < e))
  <2>1. PICK b, e :
            /\ Place(i, b, e)
            /\ iters' = [iters EXCEPT ![i] = [block |-> b, kv |-> e]]
            /\ h' = heap \cup {Item(i, b, e)}
            /\ \A c, g : Place(i, c, g) =>
                  (Read(i, c, g) <=> c < b \/ (c = b /\ g < e))
    BY <1>5
  <2>2. /\ b \in Nat \ {0} /\ e \in Nat \ {0}
        /\ b <= Len(input[i]) /\ e <= BlockLen(i, b)
        /\ Len(input[i]) \in Nat /\ BlockLen(i, b) \in Nat
    <3>1. Len(input[i]) \in Nat /\ Len(input[i][b]) \in Nat
      BY <2>1, InputFacts DEF Place
    <3>2. /\ b \in Nat \ {0} /\ e \in Nat \ {0}
          /\ b <= Len(input[i]) /\ e <= Len(input[i][b])
          /\ BlockLen(i, b) = Len(input[i][b])
      BY <2>1, PlaceFacts
    <3> QED
      BY <3>1, <3>2
  <2>3. /\ iters'[i].block = b /\ iters'[i].kv = e
        /\ \A j \in DOMAIN input : j # i => iters'[j] = iters[j]
        /\ iters' \in [DOMAIN input -> [block : Nat, kv : Nat]]
    BY <1>3, <2>1, <2>2
  <2>4. Item(i, b, e).idx = i
    BY DEF Item
  <2>5. /\ Waits(i)'
        /\ \A j : j # i => (Waits(j)' <=> Waits(j))
    BY <2>1, <2>4 DEF Waits
  <2>6. PositionOK(i)'
    BY <2>2, <2>3 DEF PositionOK, BlockLen
  <2>7. ASSUME NEW x \in h'
        PROVE  /\ x.idx \in DOMAIN input' /\ iters'[x.idx].block # 0
               /\ x = Item(x.idx, iters[x.idx].block, iters[x.idx].kv)'
    <3>1. CASE x = Item(i, b, e)
      BY <2>2, <2>3, <2>4, <3>1 DEF Item
    <3>2. CASE x \in h /\ x.idx # i
      BY <2>3, <3>2 DEF HeapInv, Item
    <3> QED
      BY <2>1, <2>7, <3>1, <3>2
  <2>8. HeapInv'
    <3>1. \A j \in DOMAIN input :
              /\ PositionOK(j)'
              /\ j >= toInit' => iters'[j].block = 0
              /\ j < toInit' /\ ~Waits(j)' =>
                    /\ iters'[j].block = Len(input'[j])
                    /\ iters'[j].kv = BlockLen(j, iters[j].block)'
      <4> SUFFICES ASSUME NEW j \in DOMAIN input
                   PROVE  /\ PositionOK(j)'
                          /\ j >= toInit' => iters'[j].block = 0
                          /\ j < toInit' /\ ~Waits(j)' =>
                                /\ iters'[j].block = Len(input'[j])
                                /\ iters'[j].kv = BlockLen(j, iters[j].block)'
        OBVIOUS
      <4>1. CASE j = i
        <5>1. ~(i >= toInit')
          BY <1>1, <1>3
        <5> QED
          BY <2>5, <2>6, <4>1, <5>1
      <4>2. CASE j # i
        BY <1>4, <2>3, <2>5, <4>2
      <4> QED
        BY <4>1, <4>2
    <3> QED
      BY <2>3, <2>7, <3>1 DEF HeapInv
  <2>9. ASSUME NEW c, NEW g
        PROVE  Consumed(i, c, g)' <=>
                  Consumed(i, c, g) \/ (Place(i, c, g) /\ Current(i, c, g))
    <3>1. Place(i, c, g) => c \in Nat /\ g \in Nat
      BY PlaceFacts
    <3>2. Consumed(i, c, g)' <=>
              Place(i, c, g) /\ (c < b \/ (c = b /\ g < e))
      BY <1>2, <2>2, <2>3, <2>5, <3>1 DEF Consumed, Read, Current
    <3>3. Place(i, c, g) /\ Current(i, c, g) => Read(i, c, g)
      BY <3>1 DEF Read, Current
    <3> QED
      BY <2>1, <3>2, <3>3 DEF Consumed
  <2>10. ASSUME NEW j, NEW c, NEW g, j # i
         PROVE  Consumed(j, c, g)' <=> Consumed(j, c, g)
    <3>1. CASE j \in DOMAIN input
      BY <1>4, <2>3, <2>5, <2>10, <3>1
    <3>2. CASE j \notin DOMAIN input
      BY <3>2 DEF Consumed, Place
    <3> QED
      BY <3>1, <3>2
  <2> QED
    BY <2>8, <2>9, <2>10
<1>6. CASE /\ iters' = iters /\ h' = heap
           /\ iters[i].block = Len(input[i])
           /\ iters[i].kv = BlockLen(i, iters[i].block)
  <2>1. /\ ~Waits(i)'
        /\ \A j : j # i => (Waits(j)' <=> Waits(j))
    BY <1>6 DEF Waits
  <2>2. PositionOK(i)'
    BY <1>6 DEF HeapInv, PositionOK, BlockLen
  <2>3. HeapInv'
    <3>1. \A j \in DOMAIN input :
              /\ PositionOK(j)'
              /\ j >= toInit' => iters'[j].block = 0
              /\ j < toInit' /\ ~Waits(j)' =>
                    /\ iters'[j].block = Len(input'[j])
                    /\ iters'[j].kv = BlockLen(j, iters[j].block)'
      <4> SUFFICES ASSUME NEW j \in DOMAIN input
                   PROVE  /\ PositionOK(j)'
                          /\ j >= toInit' => iters'[j].block = 0
                          /\ j < toInit' /\ ~Waits(j)' =>
                                /\ iters'[j].block = Len(input'[j])
                                /\ iters'[j].kv = BlockLen(j, iters[j].block)'
        OBVIOUS
      <4>1. CASE j = i
        <5>1. ~(i >= toInit')
          BY <1>1, <1>3
        <5> QED
          BY <1>6, <2>2, <4>1, <5>1 DEF BlockLen
      <4>2. CASE j # i
        BY <1>4, <1>6, <2>1, <4>2
      <4> QED
        BY <4>1, <4>2
    <3>2. \A x \in h' :
              /\ x.idx \in DOMAIN input' /\ iters'[x.idx].block # 0
              /\ x = Item(x.idx, iters[x.idx].block, iters[x.idx].kv)'
      BY <1>6 DEF HeapInv, Item
    <3> QED
      BY <1>3, <1>6, <3>1, <3>2 DEF HeapInv
  <2>4. ASSUME NEW c, NEW g
        PROVE  Consumed(i, c, g)' <=>
                  Consumed(i, c, g) \/ (Place(i, c, g) /\ Current(i, c, g))
    <3>1. Place(i, c, g) /\ Current(i, c, g) => Read(i, c, g)
      <4>1. Place(i, c, g) => c \in Nat /\ g \in Nat
        BY PlaceFacts
      <4> QED
        BY <4>1 DEF Read, Current
    <3>2. Read(i, c, g)' <=> Read(i, c, g)
      BY <1>6 DEF Read
    <3> QED
      BY <1>2, <2>1, <3>1, <3>2 DEF Consumed
  <2>5. ASSUME NEW j, NEW c, NEW g, j # i
        PROVE  Consumed(j, c, g)' <=> Consumed(j, c, g)
    <3>1. CASE j \in DOMAIN input
      BY <1>4, <1>6, <2>1, <2>5, <3>1
    <3>2. CASE j \notin DOMAIN input
      BY <3>2 DEF Consumed, Place
    <3> QED
      BY <3>1, <3>2
  <2> QED
    BY <2>3, <2>4, <2>5
<1> QED
  BY <1>5, <1>6, AdvanceMoves

LEMMA AdvanceTypes ==
    ASSUME input \in Inputs, HeapInv, TypeOK, NEW i \in DOMAIN input,
           NEW heap, heap \subseteq h, NEW bad \in BOOLEAN, Advance(i, heap, bad)
    PROVE  /\ iters' \in [DOMAIN input -> [block : Nat, kv : Nat]]
           /\ h' \subseteq [key : Keys, value : Vals, idx : DOMAIN input]
           /\ err' \in BOOLEAN
<1>1. /\ iters \in [DOMAIN input -> [block : Nat, kv : Nat]]
      /\ h \subseteq [key : Keys, value : Vals, idx : DOMAIN input]
  BY DEF TypeOK
<1>2. err' \in BOOLEAN
  BY DEF Advance, ErrAfterRead
<1>3. CASE \E b, e :
             /\ Place(i, b, e)
             /\ iters' = [iters EXCEPT ![i] = [block |-> b, kv |-> e]]
             /\ h' = heap \cup {Item(i, b, e)}
  <2>1. PICK b, e : /\ Place(i, b, e)
                    /\ iters' = [iters EXCEPT ![i] = [block |-> b, kv |-> e]]
                    /\ h' = heap \cup {Item(i, b, e)}
    BY <1>3
  <2>2. /\ b \in Nat /\ e \in Nat
        /\ KeyAt(i, b, e) \in Keys /\ ValAt(i, b, e) \in Vals
    BY <2>1, PlaceFacts
  <2>3. Item(i, b, e) \in [key : Keys, value : Vals, idx : DOMAIN input]
    BY <2>2 DEF Item, KeyAt, ValAt
  <2>4. iters' \in [DOMAIN input -> [block : Nat, kv : Nat]]
    BY <1>1, <2>1, <2>2
  <2> QED
    BY <1>1, <1>2, <2>1, <2>3, <2>4
<1>4. CASE iters' = iters /\ h' = heap
  BY <1>1, <1>2, <1>4
<1> QED
  BY <1>3, <1>4, AdvanceMoves

-----------------------------------------------------------------------------
(* The merged value of a key.                                              *)

LEMMA KeysArePlaces ==
    ASSUME NEW k
    PROVE  k \in InputKeys <=> \E i, b, e : Place(i, b, e) /\ KeyAt(i, b, e) = k
  BY DEF InputKeys, EntriesOf, Place, KeyAt

LEMMA ValuesArePlaces ==
    ASSUME input \in Inputs, NEW k, NEW i, NEW v
    PROVE  <<i, v>> \in ValuesOf(k) <=>
              \E b, e : /\ Place(i, b, e)
                        /\ KeyAt(i, b, e) = k /\ ValAt(i, b, e) = v
<1>1. ASSUME <<i, v>> \in ValuesOf(k)
      PROVE  \E b, e : /\ Place(i, b, e)
                       /\ KeyAt(i, b, e) = k /\ ValAt(i, b, e) = v
  <2>1. /\ i \in DOMAIN input
        /\ [key |-> k, value |-> v] \in EntriesOf(i)
    BY <1>1 DEF ValuesOf
  <2>2. PICK b \in DOMAIN input[i] : \E e \in DOMAIN input[i][b] :
             input[i][b][e] = [key |-> k, value |-> v]
    BY <2>1 DEF EntriesOf
  <2> QED
    BY <2>1, <2>2 DEF Place, KeyAt, ValAt
<1>2. ASSUME NEW b, NEW e, Place(i, b, e),
             KeyAt(i, b, e) = k, ValAt(i, b, e) = v
      PROVE  <<i, v>> \in ValuesOf(k)
  <2>1. input[i][b][e] = [key |-> k, value |-> v] /\ v \in Vals
    BY <1>2, PlaceFacts
  <2>2. [key |-> k, value |-> v] \in EntriesOf(i) /\ i \in DOMAIN input
    BY <1>2, <2>1 DEF EntriesOf, Place
  <2> QED
    BY <2>1, <2>2 DEF ValuesOf
<1> QED
  BY <1>1, <1>2

LEMMA ValuesArePairs ==
    ASSUME NEW k, NEW x \in ValuesOf(k)
    PROVE  x = <<x[1], x[2]>>
  BY DEF ValuesOf

LEMMA UnitedBits ==
    ASSUME input \in Inputs, bitmapMode, NEW k, NEW d
    PROVE  d \in MergedValue(k) <=>
              \E i, b, e : /\ Place(i, b, e) /\ KeyAt(i, b, e) = k
                           /\ d \in Bits(ValAt(i, b, e))
<1>1. d \in MergedValue(k) <=> \E x \in ValuesOf(k) : d \in Bits(x[2])
  BY DEF MergedValue
<1>2. ASSUME NEW x \in ValuesOf(k), d \in Bits(x[2])
      PROVE  \E i, b, e : /\ Place(i, b, e) /\ KeyAt(i, b, e) = k
                          /\ d \in Bits(ValAt(i, b, e))
  BY <1>2, ValuesArePairs, ValuesArePlaces
<1>3. ASSUME NEW i, NEW b, NEW e, Place(i, b, e), KeyAt(i, b, e) = k,
             d \in Bits(ValAt(i, b, e))
      PROVE  \E x \in ValuesOf(k) : d \in Bits(x[2])
  <2>1. <<i, ValAt(i, b, e)>> \in ValuesOf(k)
    BY <1>3, ValuesArePlaces
  <2> QED
    BY <1>3, <2>1
<1> QED
  BY <1>1, <1>2, <1>3

LEMMA NewestValue ==
    ASSUME input \in Inputs, ~bitmapMode, NEW i, NEW b, NEW e, Place(i, b, e),
           \A j, c, g : Place(j, c, g) /\ KeyAt(j, c, g) = KeyAt(i, b, e) => j <= i
    PROVE  MergedValue(KeyAt(i, b, e)) = ValAt(i, b, e)
<1> DEFINE k == KeyAt(i, b, e)
           v == ValAt(i, b, e)
<1>1. <<i, v>> \in ValuesOf(k)
  BY ValuesArePlaces
<1>2. ASSUME NEW y \in ValuesOf(k)
      PROVE  y[1] <= i /\ (y[1] = i => y = <<i, v>>)
  <2>1. PICK c, g : /\ Place(y[1], c, g)
                    /\ KeyAt(y[1], c, g) = k /\ ValAt(y[1], c, g) = y[2]
    BY ValuesArePairs, ValuesArePlaces
  <2>2. y[1] = i => c = b /\ g = e
    BY <2>1, PlacesIncrease
  <2> QED
    BY <2>1, <2>2, ValuesArePairs
<1>3. ASSUME NEW x \in ValuesOf(k), \A y \in ValuesOf(k) : y[1] <= x[1]
      PROVE  x = <<i, v>>
  <2>1. x[1] \in Nat /\ i \in Nat
    <3>1. PICK c, g : Place(x[1], c, g)
      BY ValuesArePairs, ValuesArePlaces
    <3> QED
      BY <3>1, PlaceFacts
  <2>2. i <= x[1]
    BY <1>1, <1>3
  <2> QED
    BY <1>2, <2>1, <2>2
<1>4. (CHOOSE x \in ValuesOf(k) : \A y \in ValuesOf(k) : y[1] <= x[1]) = <<i, v>>
  <2> HIDE DEF k, v
  <2> QED
    BY <1>1, <1>2, <1>3
<1>5. MergedValue(k) =
          (CHOOSE x \in ValuesOf(k) : \A y \in ValuesOf(k) : y[1] <= x[1])[2]
  <2> HIDE DEF k
  <2> QED
    BY DEF MergedValue
<1>6. MergedValue(k) = <<i, v>>[2]
  BY <1>4, <1>5, Zenon
<1> QED
  BY <1>6

-----------------------------------------------------------------------------
(* The steps.                                                              *)

InOut(k) == \E n \in DOMAIN out : out[n].key = k

\* Between two calls of Next: the keys of the entries popped are in the output,
\* and the keys of those left are larger than any there.
Between ==
    /\ \A i, b, e : Consumed(i, b, e) => InOut(KeyAt(i, b, e))
    /\ \A i, b, e : Left(i, b, e) =>
          \A n \in DOMAIN out : out[n].key < KeyAt(i, b, e)

\* While Next collects a key: value is what the entries popped make of it, in
\* KV mode the newest of all that the input has.
Within ==
    /\ key \in Keys
    /\ \A i, b, e : Consumed(i, b, e) =>
          InOut(KeyAt(i, b, e)) \/ KeyAt(i, b, e) = key
    /\ \A i, b, e : Left(i, b, e) => key <= KeyAt(i, b, e)
    /\ \A n \in DOMAIN out : out[n].key < key
    /\ \E i, b, e : Consumed(i, b, e) /\ KeyAt(i, b, e) = key
    /\ bitmapMode =>
          \A d : d \in value <=>
              \E i, b, e : /\ Consumed(i, b, e) /\ KeyAt(i, b, e) = key
                           /\ d \in Bits(ValAt(i, b, e))
    /\ ~bitmapMode =>
          \E i, b, e :
              /\ Consumed(i, b, e) /\ KeyAt(i, b, e) = key
              /\ value = ValAt(i, b, e)
              /\ \A j, c, g : Place(j, c, g) /\ KeyAt(j, c, g) = key => j <= i

OutEntry ==
    [key : Keys, value : Vals \cup SUBSET (UNION (Vals \ {Corrupt}))]

MergeInv ==
    /\ TypeOK /\ input \in Inputs /\ out \in Seq(OutEntry)
    /\ pc = "init" => toInit <= Len(input)
    /\ pc \in {"pop", "dups"} => toInit = Len(input) + 1
    /\ pc # "done" => HeapInv /\ ~err
    /\ OutputIsMergedPrefix
    /\ pc \in {"init", "pop"} => Between
    /\ pc = "dups" => Within
    /\ EndMeansComplete

LEMMA SameOutput ==
    ASSUME OutputIsMergedPrefix, TypeOK',
           UNCHANGED <<input, bitmapMode, out>>
    PROVE  OutputIsMergedPrefix'
<1>1. InputKeys' = InputKeys
  BY DEF InputKeys, EntriesOf
<1>2. \A k : MergedValue(k)' = MergedValue(k)
  BY DEF MergedValue, ValuesOf, EntriesOf
<1> QED
  BY <1>1, <1>2 DEF OutputIsMergedPrefix

\* What a step that appends nothing has to show of the types.
LEMMA TypeStep ==
    ASSUME TypeOK, UNCHANGED <<input, bitmapMode, out>>,
           iters' \in [DOMAIN input -> [block : Nat, kv : Nat]],
           h' \subseteq [key : Keys, value : Vals, idx : DOMAIN input],
           err' \in BOOLEAN, key' \in Keys \cup {0},
           toInit' \in 1 .. Len(input) + 1,
           pc' \in {"init", "pop", "dups", "done"}
    PROVE  TypeOK'
<1>1. input' \in Seq(Seq(Seq(Entry))) /\ bitmapMode' \in BitmapModes
  BY DEF TypeOK
<1>2. \A i \in DOMAIN out' :
          /\ out'[i].key \in Keys
          /\ \/ out'[i].value \in Vals
             \/ bitmapMode' /\ out'[i].value \subseteq UNION (Vals \ {Corrupt})
  BY DEF TypeOK
<1>3. /\ iters' \in [DOMAIN input' -> [block : Nat, kv : Nat]]
      /\ h' \subseteq [key : Keys, value : Vals, idx : DOMAIN input']
      /\ toInit' \in 1 .. Len(input') + 1
  OBVIOUS
<1> QED
  BY <1>1, <1>2, <1>3 DEF TypeOK

LEMMA MergeInit == Init => MergeInv
<1> SUFFICES ASSUME Init PROVE MergeInv
  OBVIOUS
<1>1. input \in Inputs /\ input \in Seq(Seq(Seq(Entry) \ {<<>>}) \ {<<>>})
  BY MergeAssumption DEF Init
<1>2. /\ Len(input) \in Nat \ {0} /\ DOMAIN input = 1 .. Len(input)
      /\ \A i \in DOMAIN input : Len(input[i]) \in Nat
  BY <1>1, InputFacts
<1>3. /\ \A i \in DOMAIN input : iters[i].block = 0 /\ iters[i].kv = 0
      /\ iters \in [DOMAIN input -> [block : Nat, kv : Nat]]
  BY DEF Init
<1>4. TypeOK
  <2>1. input \in Seq(Seq(Seq(Entry)))
    <3>1. Seq(Seq(Entry) \ {<<>>}) \ {<<>>} \subseteq Seq(Seq(Entry))
      OBVIOUS
    <3> QED
      BY <1>1, <3>1
  <2>2. toInit \in 1 .. Len(input) + 1
    BY <1>2 DEF Init
  <2>3. DOMAIN out = {}
    BY DEF Init
  <2>4. /\ bitmapMode \in BitmapModes /\ h = {} /\ key = 0 /\ err \in BOOLEAN
        /\ pc = "init"
    BY DEF Init
  <2> QED
    BY <1>3, <2>1, <2>2, <2>3, <2>4 DEF TypeOK
<1>5. HeapInv
  BY <1>2, <1>3 DEF Init, HeapInv, PositionOK, BlockLen
<1>6. ASSUME NEW i, NEW b, NEW e PROVE ~Consumed(i, b, e)
  <2> SUFFICES ASSUME Place(i, b, e), Read(i, b, e) PROVE FALSE
    BY DEF Consumed
  <2>1. b \in Nat \ {0} /\ e \in Nat \ {0} /\ i \in DOMAIN input
    BY <1>1, PlaceFacts DEF Place
  <2> QED
    BY <1>3, <2>1 DEF Read
<1>7. out = <<>> /\ pc = "init" /\ ~err /\ toInit = 1
  BY DEF Init
<1>8. OutputIsMergedPrefix
  BY <1>4, <1>7 DEF OutputIsMergedPrefix
<1> QED
  BY <1>1, <1>2, <1>4, <1>5, <1>6, <1>7, <1>8
     DEF MergeInv, Between, EndMeansComplete

LEMMA InitIteratorMerges ==
    ASSUME MergeInv, InitIterator PROVE MergeInv'
<1>1. /\ pc = "init" /\ HeapInv /\ ~err /\ Between /\ TypeOK /\ input \in Inputs
      /\ toInit <= Len(input) /\ OutputIsMergedPrefix
  BY DEF MergeInv, InitIterator
<1>2. /\ UNCHANGED <<input, bitmapMode, key, value, out>>
      /\ Advance(toInit, h, FALSE) /\ toInit' = toInit + 1
      /\ pc' = IF err' THEN "done" ELSE IF toInit < Len(input) THEN "init" ELSE "pop"
  BY DEF InitIterator
<1>3. toInit \in DOMAIN input /\ toInit \in Nat /\ Len(input) \in Nat
      /\ DOMAIN input = 1 .. Len(input)
  BY <1>1, InputFacts DEF TypeOK
<1>4. h = {x \in h : x.idx # toInit}
  BY <1>1, <1>3 DEF HeapInv
<1>5. TypeOK'
  <2>1. /\ iters' \in [DOMAIN input -> [block : Nat, kv : Nat]]
        /\ h' \subseteq [key : Keys, value : Vals, idx : DOMAIN input]
        /\ err' \in BOOLEAN
    BY <1>1, <1>2, <1>3, AdvanceTypes
  <2>2. toInit' \in 1 .. Len(input) + 1
    BY <1>1, <1>2, <1>3
  <2>3. pc' \in {"init", "pop", "dups", "done"} /\ key' \in Keys \cup {0}
    BY <1>1, <1>2 DEF TypeOK
  <2> QED
    BY <1>1, <1>2, <2>1, <2>2, <2>3, TypeStep
<1>6. OutputIsMergedPrefix'
  BY <1>1, <1>2, <1>5, SameOutput
<1>7. CASE err'
  BY <1>1, <1>2, <1>5, <1>6, <1>7 DEF MergeInv, EndMeansComplete
<1>8. CASE ~err'
  <2>1. /\ HeapInv'
        /\ \A j, b, e : Consumed(j, b, e)' <=>
              \/ Consumed(j, b, e)
              \/ j = toInit /\ Place(j, b, e) /\ Current(j, b, e)
    BY <1>1, <1>2, <1>3, <1>4, <1>8, AdvanceKeeps
  <2>2. ASSUME NEW j, NEW b, NEW e PROVE Consumed(j, b, e)' <=> Consumed(j, b, e)
    <3>1. Place(toInit, b, e) => b # 0
      BY <1>1, PlaceFacts
    <3>2. iters[toInit].block = 0
      BY <1>1, <1>3 DEF HeapInv
    <3> QED
      BY <2>1, <3>1, <3>2 DEF Current
  <2>3. Between'
    <3>1. \A j, b, e : Left(j, b, e)' <=> Left(j, b, e)
      BY <1>2, <2>2 DEF Left, Place
    <3>2. \A j, b, e : KeyAt(j, b, e)' = KeyAt(j, b, e)
      BY <1>2 DEF KeyAt
    <3> QED
      BY <1>1, <1>2, <2>2, <3>1, <3>2 DEF Between, InOut
  <2> QED
    BY <1>1, <1>2, <1>3, <1>5, <1>6, <1>8, <2>1, <2>3
       DEF MergeInv, EndMeansComplete
<1> QED
  BY <1>7, <1>8

\* What a pop and the advance after it do, if nothing fails: exactly the least
\* entry of those left has become one of those popped.
LEMMA PopPops ==
    ASSUME input \in Inputs, HeapInv, h # {}, toInit = Len(input) + 1,
           UNCHANGED <<input, toInit>>, NEW bad,
           Advance(Top.idx, Popped(Top), bad), ~err'
    PROVE  /\ HeapInv'
           /\ \E i, b, e :
                 /\ Place(i, b, e) /\ Left(i, b, e) /\ i = Top.idx
                 /\ Top.key = KeyAt(i, b, e) /\ Top.value = ValAt(i, b, e)
                 /\ \A j, c, g : Consumed(j, c, g)' <=>
                       Consumed(j, c, g) \/ (j = i /\ c = b /\ g = e)
<1>1. Top \in h
  BY TopIsLeast
<1>2. PICK b, e : /\ b = iters[Top.idx].block /\ e = iters[Top.idx].kv
                  /\ Place(Top.idx, b, e) /\ Left(Top.idx, b, e)
                  /\ Top.key = KeyAt(Top.idx, b, e)
                  /\ Top.value = ValAt(Top.idx, b, e)
  <2> HIDE DEF Top
  <2> QED
    BY <1>1, ItemFacts
<1>3. Popped(Top) = {x \in h : x.idx # Top.idx}
  <2> HIDE DEF Top
  <2> QED
    BY <1>1, OneItem DEF Popped
<1>4. toInit \in Nat /\ Top.idx \in DOMAIN input /\ Waits(Top.idx)
  BY <1>1, <1>2, InputFacts DEF Waits, Place
<1>5. /\ HeapInv'
      /\ \A j, c, g : Consumed(j, c, g)' <=>
            \/ Consumed(j, c, g)
            \/ j = Top.idx /\ Place(j, c, g) /\ Current(j, c, g)
  BY <1>3, <1>4, AdvanceKeeps
<1>6. \A j, c, g : j = Top.idx /\ Place(j, c, g) /\ Current(j, c, g) <=>
                   j = Top.idx /\ c = b /\ g = e
  BY <1>2 DEF Current
<1> QED
  BY <1>2, <1>5, <1>6

LEMMA PopTypes ==
    ASSUME input \in Inputs, HeapInv, TypeOK, h # {},
           UNCHANGED <<input, bitmapMode, toInit, out>>,
           key' \in Keys \cup {0}, pc' \in {"dups", "done"}, NEW bad \in BOOLEAN,
           Advance(Top.idx, Popped(Top), bad)
    PROVE  TypeOK'
<1>1. Top \in h /\ Top.idx \in DOMAIN input /\ Popped(Top) \subseteq h
  BY TopIsLeast DEF HeapInv, Popped
<1>2. /\ iters' \in [DOMAIN input -> [block : Nat, kv : Nat]]
      /\ h' \subseteq [key : Keys, value : Vals, idx : DOMAIN input]
      /\ err' \in BOOLEAN
  BY <1>1, AdvanceTypes
<1>3. toInit' \in 1 .. Len(input) + 1
  BY DEF TypeOK
<1> QED
  BY <1>2, <1>3, TypeStep

LEMMA PopTopMerges ==
    ASSUME MergeInv, PopTop PROVE MergeInv'
<1>1. /\ pc = "pop" /\ HeapInv /\ ~err /\ Between /\ TypeOK /\ input \in Inputs
      /\ toInit = Len(input) + 1 /\ OutputIsMergedPrefix /\ h # {}
  BY DEF MergeInv, PopTop
<1>2. /\ UNCHANGED <<input, bitmapMode, toInit, out>>
      /\ Advance(Top.idx, Popped(Top), Undecodable(Top.value))
      /\ key' = Top.key
      /\ value' = IF bitmapMode THEN Bits(Top.value) ELSE Top.value
      /\ pc' = IF err' THEN "done" ELSE "dups"
  BY DEF PopTop
<1>3. /\ Top \in h
      /\ \A y \in h : /\ Top.key <= y.key
                      /\ y.key = Top.key => y.idx <= Top.idx
  BY <1>1, TopIsLeast
<1>4. Top.key \in Keys /\ Top.key \in Nat
  <2>1. Top.key \in Keys
    BY <1>1, <1>3 DEF TypeOK
  <2> QED
    BY <2>1, MergeAssumption
<1>5. bitmapMode \in BOOLEAN /\ Undecodable(Top.value) \in BOOLEAN
  BY <1>1, MergeAssumption DEF TypeOK, Undecodable
<1>6. TypeOK'
  BY <1>1, <1>2, <1>4, <1>5, PopTypes
<1>7. OutputIsMergedPrefix'
  BY <1>1, <1>2, <1>6, SameOutput
<1>8. CASE err'
  BY <1>1, <1>2, <1>6, <1>7, <1>8 DEF MergeInv, EndMeansComplete
<1>9. CASE ~err'
  <2>1. PICK i, b, e :
            /\ Place(i, b, e) /\ Left(i, b, e) /\ i = Top.idx
            /\ Top.key = KeyAt(i, b, e) /\ Top.value = ValAt(i, b, e)
            /\ \A j, c, g : Consumed(j, c, g)' <=>
                  Consumed(j, c, g) \/ (j = i /\ c = b /\ g = e)
    BY <1>1, <1>2, <1>9, PopPops
  <2>2. HeapInv'
    BY <1>1, <1>2, <1>9, PopPops
  <2> HIDE DEF Top
  <2>3. /\ \A j, c, g : Place(j, c, g)' <=> Place(j, c, g)
        /\ \A j, c, g : KeyAt(j, c, g)' = KeyAt(j, c, g)
        /\ \A j, c, g : ValAt(j, c, g)' = ValAt(j, c, g)
        /\ \A k : InOut(k)' <=> InOut(k)
        /\ \A v : Bits(v)' = Bits(v)
    BY <1>2 DEF Place, KeyAt, ValAt, InOut, Bits
  <2>4. \A n \in DOMAIN out : out[n].key < key'
    BY <1>1, <1>2, <2>1 DEF Between
  <2>5. ASSUME NEW j, NEW c, NEW g, Left(j, c, g)
        PROVE  key' <= KeyAt(j, c, g) /\ (KeyAt(j, c, g) = key' => j <= i)
    <3>1. PICK x \in h : x.idx = j /\ x.key <= KeyAt(j, c, g)
      BY <1>1, <2>5, LeastWaits
    <3>2. Top.key <= x.key /\ (x.key = Top.key => j <= i)
      BY <1>3, <2>1, <3>1
    <3>3. x.key \in Nat /\ KeyAt(j, c, g) \in Nat
      <4>1. x.key \in Keys
        BY <1>1 DEF TypeOK
      <4>2. KeyAt(j, c, g) \in Nat
        BY <1>1, <2>5, KeyIsNat DEF Left
      <4> QED
        BY <4>1, <4>2, MergeAssumption
    <3> QED
      BY <1>2, <1>4, <3>1, <3>2, <3>3
  <2>6. ASSUME NEW j, NEW c, NEW g, Consumed(j, c, g)
        PROVE  InOut(KeyAt(j, c, g)) /\ KeyAt(j, c, g) # key'
    <3>1. PICK n \in DOMAIN out : out[n].key = KeyAt(j, c, g)
      BY <1>1, <2>6 DEF Between, InOut
    <3>2. KeyAt(j, c, g) < key'
      BY <2>4, <3>1
    <3>3. KeyAt(j, c, g) \in Nat
      BY <1>1, <2>6, KeyIsNat DEF Consumed
    <3> QED
      BY <1>2, <1>4, <3>1, <3>2, <3>3 DEF InOut
  <2>7. Within'
    <3>1. key' \in Keys
      BY <1>2, <1>4
    <3>2. \A j, c, g : Consumed(j, c, g)' =>
              InOut(KeyAt(j, c, g)) \/ KeyAt(j, c, g) = key'
      BY <1>2, <2>1, <2>6
    <3>3. \A j, c, g : Left(j, c, g)' => key' <= KeyAt(j, c, g)
      BY <2>1, <2>3, <2>5 DEF Left
    <3>4. Consumed(i, b, e)' /\ KeyAt(i, b, e) = key'
      BY <1>2, <2>1
    <3>5. ASSUME bitmapMode, NEW d
          PROVE  d \in value' <=>
                    \E j, c, g : /\ Consumed(j, c, g)' /\ KeyAt(j, c, g) = key'
                                 /\ d \in Bits(ValAt(j, c, g))
      <4>1. value' = Bits(ValAt(i, b, e))
        BY <1>2, <2>1, <3>5
      <4> QED
        BY <2>1, <2>6, <3>4, <4>1
    <3>6. ASSUME ~bitmapMode
          PROVE  /\ value' = ValAt(i, b, e)
                 /\ \A j, c, g : Place(j, c, g) /\ KeyAt(j, c, g) = key' => j <= i
      BY <1>2, <2>1, <2>5, <2>6, <3>6 DEF Left
    <3> QED
      BY <1>2, <2>3, <2>4, <3>1, <3>2, <3>3, <3>4, <3>5, <3>6 DEF Within
  <2> QED
    BY <1>1, <1>2, <1>6, <1>7, <1>9, <2>2, <2>7
       DEF MergeInv, EndMeansComplete
<1> QED
  BY <1>8, <1>9

LEMMA PopDupMerges ==
    ASSUME MergeInv, PopDup PROVE MergeInv'
<1>1. /\ pc = "dups" /\ HeapInv /\ ~err /\ Within /\ TypeOK /\ input \in Inputs
      /\ toInit = Len(input) + 1 /\ OutputIsMergedPrefix
      /\ h # {} /\ Top.key = key
  BY DEF MergeInv, PopDup, HasDup
<1>2. /\ UNCHANGED <<input, bitmapMode, key, toInit, out>>
      /\ Advance(Top.idx, Popped(Top), FALSE)
      /\ value' = Combined(value, Top.value)
      /\ pc' = IF err' THEN "done" ELSE "dups"
  BY DEF PopDup
<1>3. TypeOK'
  <2>1. key' \in Keys \cup {0}
    BY <1>1, <1>2 DEF TypeOK
  <2> QED
    BY <1>1, <1>2, <2>1, PopTypes
<1>4. OutputIsMergedPrefix'
  BY <1>1, <1>2, <1>3, SameOutput
<1>5. CASE err'
  BY <1>1, <1>2, <1>3, <1>4, <1>5 DEF MergeInv, EndMeansComplete
<1>6. CASE ~err'
  <2>0. PICK i, b, e :
            /\ Place(i, b, e) /\ Left(i, b, e) /\ i = Top.idx
            /\ Top.key = KeyAt(i, b, e) /\ Top.value = ValAt(i, b, e)
            /\ \A j, c, g : Consumed(j, c, g)' <=>
                  Consumed(j, c, g) \/ (j = i /\ c = b /\ g = e)
    BY <1>1, <1>2, <1>6, PopPops
  <2>1. /\ Place(i, b, e) /\ Left(i, b, e)
        /\ KeyAt(i, b, e) = key /\ Top.value = ValAt(i, b, e)
        /\ \A j, c, g : Consumed(j, c, g)' <=>
              Consumed(j, c, g) \/ (j = i /\ c = b /\ g = e)
    BY <1>1, <2>0
  <2>2. HeapInv'
    BY <1>1, <1>2, <1>6, PopPops
  <2>3. /\ \A j, c, g : Place(j, c, g)' <=> Place(j, c, g)
        /\ \A j, c, g : KeyAt(j, c, g)' = KeyAt(j, c, g)
        /\ \A j, c, g : ValAt(j, c, g)' = ValAt(j, c, g)
        /\ \A k : InOut(k)' <=> InOut(k)
        /\ \A v : Bits(v)' = Bits(v)
    BY <1>2 DEF Place, KeyAt, ValAt, InOut, Bits
  <2>4. Within'
    <3>1. \A j, c, g : Consumed(j, c, g)' =>
              InOut(KeyAt(j, c, g)) \/ KeyAt(j, c, g) = key
      BY <1>1, <2>1 DEF Within
    <3>2. \A j, c, g : Left(j, c, g)' => key <= KeyAt(j, c, g)
      BY <1>1, <2>1, <2>3 DEF Within, Left
    <3>3. ASSUME bitmapMode, NEW d
          PROVE  d \in value' <=>
                    \E j, c, g : /\ Consumed(j, c, g)' /\ KeyAt(j, c, g) = key
                                 /\ d \in Bits(ValAt(j, c, g))
      <4>1. value' = value \cup Bits(ValAt(i, b, e))
        BY <1>2, <2>1, <3>3 DEF Combined
      <4>2. d \in value <=>
                \E j, c, g : /\ Consumed(j, c, g) /\ KeyAt(j, c, g) = key
                             /\ d \in Bits(ValAt(j, c, g))
        BY <1>1, <3>3 DEF Within
      <4> QED
        BY <2>1, <4>1, <4>2
    <3>4. ASSUME ~bitmapMode
          PROVE  \E j, c, g :
                    /\ Consumed(j, c, g)' /\ KeyAt(j, c, g) = key
                    /\ value' = ValAt(j, c, g)
                    /\ \A m, x, y :
                          Place(m, x, y) /\ KeyAt(m, x, y) = key => m <= j
      <4>1. value' = value
        BY <1>2, <3>4 DEF Combined
      <4> QED
        BY <1>1, <2>1, <3>4, <4>1 DEF Within
    <3>5. \E j, c, g : Consumed(j, c, g)' /\ KeyAt(j, c, g) = key
      BY <2>1
    <3>6. key \in Keys /\ \A n \in DOMAIN out : out[n].key < key
      BY <1>1 DEF Within
    <3> QED
      BY <1>2, <2>3, <3>1, <3>2, <3>3, <3>4, <3>5, <3>6 DEF Within
  <2> QED
    BY <1>1, <1>2, <1>3, <1>4, <1>6, <2>2, <2>4 DEF MergeInv, EndMeansComplete
<1> QED
  BY <1>5, <1>6

LEMMA PopUndecodableDupMerges ==
    ASSUME MergeInv, PopUndecodableDup \/ EmitFails PROVE MergeInv'
<1>1. TypeOK /\ input \in Inputs /\ OutputIsMergedPrefix
  BY DEF MergeInv
<1>2. /\ UNCHANGED <<input, bitmapMode, iters, key, toInit, out>>
      /\ h' \subseteq h /\ err' = TRUE /\ pc' = "done"
  BY DEF PopUndecodableDup, Popped, EmitFails
<1>3. TypeOK'
  BY <1>1, <1>2, TypeStep DEF TypeOK
<1>4. OutputIsMergedPrefix'
  BY <1>1, <1>2, <1>3, SameOutput
<1> QED
  BY <1>1, <1>2, <1>3, <1>4 DEF MergeInv, EndMeansComplete

\* No entry of the key is left when no item of the heap has it.
LEMMA AllCollected ==
    ASSUME input \in Inputs, HeapInv, TypeOK, toInit = Len(input) + 1,
           Within, ~HasDup, NEW i, NEW b, NEW e, Left(i, b, e)
    PROVE  key < KeyAt(i, b, e)
<1>1. PICK x \in h : x.key <= KeyAt(i, b, e)
  BY LeastWaits
<1>2. /\ Top \in h /\ Top.key <= x.key
  BY <1>1, TopIsLeast
<1>3. Top.key # key
  BY <1>1 DEF HasDup
<1>4. key <= Top.key
  <2>1. PICK j, c, g : Left(j, c, g) /\ Top.key = KeyAt(j, c, g)
    <3> HIDE DEF Top
    <3> QED
      BY <1>2, ItemFacts
  <2> QED
    BY <2>1 DEF Within
<1>5. key \in Nat /\ Top.key \in Nat /\ x.key \in Nat /\ KeyAt(i, b, e) \in Nat
  <2>1. key \in Keys /\ Top.key \in Keys /\ x.key \in Keys
    BY <1>1, <1>2 DEF TypeOK, Within
  <2>2. KeyAt(i, b, e) \in Nat
    BY KeyIsNat DEF Left
  <2> QED
    BY <2>1, <2>2, MergeAssumption
<1> QED
  BY <1>1, <1>2, <1>3, <1>4, <1>5

LEMMA EmitMerges ==
    ASSUME MergeInv, Emit PROVE MergeInv'
<1>1. /\ pc = "dups" /\ HeapInv /\ ~err /\ Within /\ TypeOK /\ input \in Inputs
      /\ toInit = Len(input) + 1 /\ OutputIsMergedPrefix /\ ~HasDup
      /\ out \in Seq(OutEntry)
  BY DEF MergeInv, Emit
<1>2. /\ UNCHANGED <<input, bitmapMode, iters, h, key, value, err, toInit>>
      /\ out' = Append(out, [key |-> key, value |-> value]) /\ pc' = "pop"
  BY DEF Emit
<1> DEFINE new == [key |-> key, value |-> value]
<1>3. key \in Keys /\ key \in Nat
  BY <1>1, MergeAssumption DEF Within
<1>4. bitmapMode \in BOOLEAN
  BY <1>1, MergeAssumption DEF TypeOK
<1>5. PICK i0, b0, e0 : Consumed(i0, b0, e0) /\ KeyAt(i0, b0, e0) = key
  BY <1>1 DEF Within
<1>6. key \in InputKeys
  BY <1>5, KeysArePlaces DEF Consumed
<1>7. value = MergedValue(key)
  <2>1. CASE bitmapMode
    <3>1. ASSUME NEW d PROVE d \in value <=> d \in MergedValue(key)
      <4>1. d \in MergedValue(key) <=>
                \E i, b, e : /\ Place(i, b, e) /\ KeyAt(i, b, e) = key
                             /\ d \in Bits(ValAt(i, b, e))
        BY <1>1, <2>1, UnitedBits
      <4>2. d \in value <=>
                \E i, b, e : /\ Consumed(i, b, e) /\ KeyAt(i, b, e) = key
                             /\ d \in Bits(ValAt(i, b, e))
        BY <1>1, <2>1 DEF Within
      <4>3. \A i, b, e : Place(i, b, e) /\ KeyAt(i, b, e) = key =>
                             Consumed(i, b, e)
        <5> SUFFICES ASSUME NEW i, NEW b, NEW e, Left(i, b, e),
                            KeyAt(i, b, e) = key
                     PROVE  FALSE
          BY DEF Left
        <5> QED
          BY <1>1, <1>3, AllCollected
      <4> QED
        BY <4>1, <4>2, <4>3 DEF Consumed
    <3> QED
      BY <3>1
  <2>2. CASE ~bitmapMode
    <3>1. PICK i, b, e :
              /\ Consumed(i, b, e) /\ KeyAt(i, b, e) = key
              /\ value = ValAt(i, b, e)
              /\ \A j, c, g : Place(j, c, g) /\ KeyAt(j, c, g) = key => j <= i
      BY <1>1, <2>2 DEF Within
    <3> QED
      BY <1>1, <2>2, <3>1, NewestValue DEF Consumed
  <2> QED
    BY <1>4, <2>1, <2>2
<1>8. value \in Vals \/ (bitmapMode /\ value \subseteq UNION (Vals \ {Corrupt}))
  <2>1. CASE bitmapMode
    <3>1. ASSUME NEW d \in value PROVE d \in UNION (Vals \ {Corrupt})
      <4>1. PICK i, b, e : Consumed(i, b, e) /\ d \in Bits(ValAt(i, b, e))
        BY <1>1, <2>1 DEF Within
      <4>2. ValAt(i, b, e) \in Vals
        BY <1>1, <4>1, PlaceFacts DEF Consumed
      <4> QED
        BY <4>1, <4>2 DEF Bits
    <3> QED
      BY <2>1, <3>1
  <2>2. CASE ~bitmapMode
    <3>1. PICK i, b, e : Consumed(i, b, e) /\ value = ValAt(i, b, e)
      BY <1>1, <2>2 DEF Within
    <3> QED
      BY <1>1, <3>1, PlaceFacts DEF Consumed
  <2> QED
    BY <1>4, <2>1, <2>2
<1>9. new \in OutEntry
  BY <1>3, <1>8 DEF OutEntry
<1>10. /\ out' \in Seq(OutEntry) /\ Len(out) \in Nat
       /\ DOMAIN out = 1 .. Len(out) /\ DOMAIN out' = 1 .. Len(out) + 1
       /\ \A n \in DOMAIN out : out'[n] = out[n]
       /\ out'[Len(out) + 1] = new
       /\ Len(out') = Len(out) + 1
  <2> HIDE DEF new
  <2> QED
    BY <1>1, <1>2, <1>9 DEF new
<1>11. out'[Len(out) + 1].key = key /\ out'[Len(out) + 1].value = value
  BY <1>10
<1> HIDE DEF new
<1>12. \A n \in DOMAIN out' : n \in DOMAIN out \/ n = Len(out) + 1
  BY <1>10
<1>13. TypeOK'
  <2>1. \A n \in DOMAIN out' :
            /\ out'[n].key \in Keys
            /\ \/ out'[n].value \in Vals
               \/ bitmapMode' /\ out'[n].value \subseteq UNION (Vals \ {Corrupt})
    BY <1>1, <1>2, <1>3, <1>8, <1>10, <1>11, <1>12 DEF TypeOK
  <2>2. /\ input \in Seq(Seq(Seq(Entry))) /\ bitmapMode \in BitmapModes
        /\ iters \in [DOMAIN input -> [block : Nat, kv : Nat]]
        /\ h \subseteq [key : Keys, value : Vals, idx : DOMAIN input]
        /\ key \in Keys \cup {0} /\ err \in BOOLEAN
        /\ toInit \in 1 .. Len(input) + 1
    BY <1>1 DEF TypeOK
  <2> QED
    BY <1>2, <2>1, <2>2 DEF TypeOK
<1>14. InputKeys' = InputKeys /\ \A k : MergedValue(k)' = MergedValue(k)
  BY <1>2 DEF InputKeys, MergedValue, ValuesOf, EntriesOf
<1>15. \A k : InOut(k)' <=> InOut(k) \/ k = key
  BY <1>10, <1>11, <1>12 DEF InOut
<1>16. Consumed(i0, b0, e0)' /\
       \A i, b, e : /\ Consumed(i, b, e)' <=> Consumed(i, b, e)
                    /\ Left(i, b, e)' <=> Left(i, b, e)
                    /\ KeyAt(i, b, e)' = KeyAt(i, b, e)
  BY <1>2, <1>5 DEF Consumed, Left, Place, Read, Waits, Current, KeyAt
<1>17. \A n \in DOMAIN out : out[n].key < key /\ out[n].key \in Nat
  BY <1>1, MergeAssumption DEF Within, TypeOK
<1>18. Between'
  <2>1. \A i, b, e : Consumed(i, b, e) => InOut(KeyAt(i, b, e))'
    BY <1>1, <1>15, <1>16 DEF Within
  <2>2. ASSUME NEW i, NEW b, NEW e, Left(i, b, e), NEW n \in DOMAIN out'
        PROVE  out'[n].key < KeyAt(i, b, e)
    <3>1. key < KeyAt(i, b, e) /\ KeyAt(i, b, e) \in Nat
      BY <1>1, <2>2, AllCollected, KeyIsNat DEF Left
    <3> QED
      BY <1>3, <1>10, <1>11, <1>12, <1>17, <3>1
  <2> QED
    BY <1>16, <2>1, <2>2 DEF Between
<1>19. OutputIsMergedPrefix'
  <2>1. ASSUME NEW i \in DOMAIN out', NEW j \in DOMAIN out', i < j
        PROVE  out'[i].key < out'[j].key
    <3>1. i \in DOMAIN out
      BY <1>10, <1>12, <2>1
    <3>2. CASE j \in DOMAIN out
      BY <1>1, <1>10, <2>1, <3>1, <3>2 DEF OutputIsMergedPrefix
    <3>3. CASE j = Len(out) + 1
      BY <1>10, <1>11, <1>17, <3>1, <3>3
    <3> QED
      BY <1>12, <3>2, <3>3
  <2>2. ASSUME NEW i \in DOMAIN out'
        PROVE  /\ out'[i].key \in InputKeys
               /\ out'[i].value = MergedValue(out'[i].key)
    BY <1>1, <1>6, <1>7, <1>10, <1>11, <1>12 DEF OutputIsMergedPrefix
  <2>3. ASSUME NEW k \in InputKeys, k <= out'[Len(out')].key
        PROVE  \E i \in DOMAIN out' : out'[i].key = k
    <3>1. PICK i, b, e : Place(i, b, e) /\ KeyAt(i, b, e) = k
      BY KeysArePlaces
    <3>2. k \in Nat /\ k <= key
      BY <1>1, <1>10, <1>11, <2>3, <3>1, KeyIsNat
    <3>3. Consumed(i, b, e)
      <4> SUFFICES ASSUME Left(i, b, e) PROVE FALSE
        BY <3>1 DEF Left
      <4> QED
        BY <1>1, <1>3, <3>1, <3>2, AllCollected
    <3>4. InOut(k)'
      BY <1>1, <1>15, <3>1, <3>3 DEF Within
    <3> QED
      BY <3>4 DEF InOut
  <2>4. \A i \in DOMAIN out' : out'[i].value = MergedValue(out[i].key)'
    BY <1>14, <2>2
  <2> QED
    BY <1>13, <1>14, <2>1, <2>2, <2>3, <2>4 DEF OutputIsMergedPrefix
<1>20. HeapInv'
  BY <1>1, <1>2 DEF HeapInv, PositionOK, BlockLen, Item, Waits
<1> QED
  BY <1>1, <1>2, <1>10, <1>13, <1>18, <1>19, <1>20
     DEF MergeInv, EndMeansComplete

LEMMA EndMerges ==
    ASSUME MergeInv, End PROVE MergeInv'
<1>1. /\ pc = "pop" /\ HeapInv /\ ~err /\ Between /\ TypeOK /\ input \in Inputs
      /\ toInit = Len(input) + 1 /\ OutputIsMergedPrefix /\ h = {}
  BY DEF MergeInv, End
<1>2. /\ UNCHANGED <<input, bitmapMode, iters, h, key, value, err, toInit, out>>
      /\ pc' = "done"
  BY DEF End
<1>3. TypeOK'
  BY <1>1, <1>2, TypeStep DEF TypeOK
<1>4. OutputIsMergedPrefix'
  BY <1>1, <1>2, <1>3, SameOutput
<1>5. ASSUME NEW k \in InputKeys PROVE \E n \in DOMAIN out : out[n].key = k
  <2>1. PICK i, b, e : Place(i, b, e) /\ KeyAt(i, b, e) = k
    BY KeysArePlaces
  <2>2. ~Left(i, b, e)
    BY <1>1, LeastWaits
  <2> QED
    BY <1>1, <2>1, <2>2 DEF Left, Between, InOut
<1>6. EndMeansComplete'
  <2>1. InputKeys' = InputKeys
    BY <1>2 DEF InputKeys, EntriesOf
  <2> QED
    BY <1>2, <1>5, <2>1 DEF EndMeansComplete
<1> QED
  BY <1>1, <1>2, <1>3, <1>4, <1>6 DEF MergeInv

LEMMA MergeStutter ==
    ASSUME MergeInv, UNCHANGED vars PROVE MergeInv'
<1>1. UNCHANGED <<input, bitmapMode, iters, h, key, value, err, toInit, pc, out>>
  BY DEF vars
<1>2. TypeOK'
  BY <1>1 DEF MergeInv, TypeOK
<1>3. OutputIsMergedPrefix'
  BY <1>1, <1>2, SameOutput DEF MergeInv
<1>4. HeapInv' <=> HeapInv
  BY <1>1 DEF HeapInv, PositionOK, BlockLen, Item, Waits
<1>5. \A i, b, e : /\ Consumed(i, b, e)' <=> Consumed(i, b, e)
                   /\ Left(i, b, e)' <=> Left(i, b, e)
                   /\ Place(i, b, e)' <=> Place(i, b, e)
                   /\ KeyAt(i, b, e)' = KeyAt(i, b, e)
                   /\ ValAt(i, b, e)' = ValAt(i, b, e)
  BY <1>1 DEF Consumed, Left, Place, Read, Waits, Current, KeyAt, ValAt
<1>6. (\A k : InOut(k)' <=> InOut(k)) /\ (\A v : Bits(v)' = Bits(v))
  BY <1>1 DEF InOut, Bits
<1>7. Between' <=> Between
  BY <1>1, <1>5, <1>6 DEF Between
<1>8. Within' <=> Within
  BY <1>1, <1>5, <1>6 DEF Within
<1>9. EndMeansComplete' <=> EndMeansComplete
  BY <1>1 DEF EndMeansComplete, InputKeys, EntriesOf
<1> QED
  BY <1>1, <1>2, <1>3, <1>4, <1>7, <1>8, <1>9 DEF MergeInv

LEMMA MergeAlways == Spec => []MergeInv
<1>1. MergeInv /\ [Next]_vars => MergeInv'
  BY InitIteratorMerges, PopTopMerges, PopDupMerges, PopUndecodableDupMerges,
     EmitMerges, EndMerges, MergeStutter DEF Next
<1> QED
  BY <1>1, MergeInit, PTL DEF Spec

-----------------------------------------------------------------------------

\* For every level, number of SSTs, cut into blocks and both merge iterators, and
\* whatever read or value is bad: what compactLevel has appended is the sorted
\* union of the SSTs up to its last key, each key once, with the value of the
\* newest SST or the union of the bitmaps (merge_interator.go:81,
\* bitmap_merge_iterator.go:51).
THEOREM MergedPrefix == Spec => []OutputIsMergedPrefix
<1>1. MergeInv => OutputIsMergedPrefix
  BY DEF MergeInv
<1> QED
  BY <1>1, MergeAlways, PTL

\* If Next returns false and Err is nil, no key is missing: on that ground
\* compactLevel gives the inputs up (tree_compact.go:102).
THEOREM MergeComplete == Spec => []EndMeansComplete
<1>1. MergeInv => EndMeansComplete
  BY DEF MergeInv
<1> QED
  BY <1>1, MergeAlways, PTL
=============================================================================
