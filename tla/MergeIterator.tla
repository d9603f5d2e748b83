--------------------------- MODULE MergeIterator ---------------------------
(***************************************************************************)
(* The merge of the SSTs of a level (src/internal/lsm/iterator): one       *)
(* NodeIterator per SST, which loads a block at a time, and a heap of the  *)
(* iterators' current entries.  In KV mode (merge_interator.go) the entry  *)
(* of the newest iterator wins, in bitmap mode (bitmap_merge_iterator.go)  *)
(* the bitmaps of a key are united.                                        *)
(*                                                                         *)
(* A step is what the code does between two calls of an iterator: each     *)
(* call may read a block and fail.  container/heap is external: all the    *)
(* code uses of it is that Pop returns the least item, so the heap is a    *)
(* set.                                                                    *)
(***************************************************************************)
EXTENDS Integers, Sequences

CONSTANTS
    Keys,           \* the keys, numbered in the order of bytes.Compare
    Vals,           \* the values: sets of doc ids, or Corrupt
    Corrupt,        \* a value that is not a serialised bitmap
    Inputs,         \* the levels to merge: one sequence of data blocks per
                    \* SST, oldest first; a block is a sequence of entries
    BitmapModes,    \* TRUE for BitmapMergeIterator, FALSE for MergeIterator
    ReadErrors      \* TRUE if reading a block, or making the bytes of a bitmap,
                    \* can fail

Entry == [key : Keys, value : Vals]

\* The keys of an SST increase: MemTable.All returns them so, and a merge.
Increasing(sst) ==
    \A b, c \in DOMAIN sst : \A e \in DOMAIN sst[b], g \in DOMAIN sst[c] :
        b < c \/ (b = c /\ e < g) => sst[b][e].key < sst[c][g].key

\* An SST has a block, and every block an entry: the writer flushes no empty
\* block, so NodeIterator never has one to skip.
ASSUME MergeAssumption ==
    /\ Keys \subseteq Nat
    /\ \A in \in Inputs :
          /\ in \in Seq(Seq(Seq(Entry) \ {<<>>}) \ {<<>>}) /\ in # <<>>
          /\ \A i \in DOMAIN in : Increasing(in[i])
    /\ BitmapModes \subseteq BOOLEAN /\ ReadErrors \in BOOLEAN

VARIABLES
    input,      \* the level that is merged
    bitmapMode, \* which merge iterator the factory of the configuration makes
    iters,      \* where each NodeIterator is: block 0 before its first call
    h,          \* the heap: entries with the position of their iterator
    key, value, \* the entry that Next is making
    err,        \* Err() is not nil
    toInit,     \* the next iterator that init calls
    pc,         \* where Next is
    out         \* the entries that compactLevel has appended

vars == <<input, bitmapMode, iters, h, key, value, err, toInit, pc, out>>

TypeOK ==
    /\ input \in Seq(Seq(Seq(Entry))) /\ bitmapMode \in BitmapModes
    /\ iters \in [DOMAIN input -> [block : Nat, kv : Nat]]
    /\ h \subseteq [key : Keys, value : Vals, idx : DOMAIN input]
    /\ key \in Keys \cup {0} /\ err \in BOOLEAN
    /\ toInit \in 1 .. Len(input) + 1
    /\ pc \in {"init", "pop", "dups", "done"}
    /\ \A i \in DOMAIN out :
          /\ out[i].key \in Keys
          /\ \/ out[i].value \in Vals
             \/ bitmapMode /\ out[i].value \subseteq UNION (Vals \ {Corrupt})

Init ==
    /\ input \in Inputs /\ bitmapMode \in BitmapModes
    /\ iters = [i \in DOMAIN input |-> [block |-> 0, kv |-> 0]]
    /\ h = {} /\ key = 0 /\ value = {} /\ err = FALSE
    /\ toInit = 1 /\ pc = "init" /\ out = <<>>

-----------------------------------------------------------------------------
(* NodeIterator.Next, and what the merge does with its result.             *)

BlockLen(i, b) == IF b = 0 THEN 0 ELSE Len(input[i][b])

\* The block at hand has no entry left.
BlockDone(i) == iters[i].kv = BlockLen(i, iters[i].block)

Item(i, b, e) ==
    [key |-> input[i][b][e].key, value |-> input[i][b][e].value, idx |-> i]

\* A read error of an iterator is the error of the merge.
ErrAfterRead_OfFirstCallsOnly == pc = "init"
ErrAfterRead == TRUE

\* Iterator i is advanced and its entry, if there is one, joins the heap; bad
\* says that the merge fails in this step even if the read does not.
Advance(i, heap, bad) ==
    LET b == iters[i].block IN
    \/ /\ ~BlockDone(i)
       /\ iters' = [iters EXCEPT ![i].kv = @ + 1]
       /\ h' = heap \cup {Item(i, b, iters[i].kv + 1)}
       /\ err' = bad
    \/ /\ BlockDone(i) /\ b < Len(input[i])
       /\ iters' = [iters EXCEPT ![i] = [block |-> b + 1, kv |-> 1]]
       /\ h' = heap \cup {Item(i, b + 1, 1)}
       /\ err' = bad
    \/ /\ BlockDone(i) /\ b < Len(input[i]) /\ ReadErrors
       /\ err' = ErrAfterRead
       /\ h' = heap
       /\ UNCHANGED iters
    \/ /\ BlockDone(i) /\ b = Len(input[i])
       /\ h' = heap
       /\ err' = bad
       /\ UNCHANGED iters

-----------------------------------------------------------------------------
(* MergeIterator.Next and BitmapMergeIterator.Next.                        *)

\* mergeHeap.Less: by key, and for one key the newer iterator first.
Less_OlderFirst(x, y) == x.key < y.key \/ (x.key = y.key /\ x.idx < y.idx)
Less(x, y) == x.key < y.key \/ (x.key = y.key /\ x.idx > y.idx)

Top == CHOOSE x \in h : \A y \in h \ {x} : Less(x, y)

HasDup == h # {} /\ Top.key = key

Popped_Peeked(x) == h
Popped(x) == h \ {x}

Bits(v) == IF v = Corrupt THEN {} ELSE v

\* The value of a key when entry v of it is met after acc.
Combined(acc, v) == IF bitmapMode THEN acc \cup Bits(v) ELSE acc

Undecodable(v) == bitmapMode /\ v = Corrupt

\* init: the first entry of each iterator.
InitIterator ==
    /\ pc = "init"
    /\ Advance(toInit, h, FALSE)
    /\ toInit' = toInit + 1
    /\ pc' = IF err' THEN "done" ELSE IF toInit < Len(input) THEN "init" ELSE "pop"
    /\ UNCHANGED <<input, bitmapMode, key, value, out>>

\* The least entry is popped, its iterator advanced, and its value decoded.
PopTop ==
    /\ pc = "pop" /\ h # {}
    /\ Advance(Top.idx, Popped(Top), Undecodable(Top.value))
    /\ key' = Top.key
    /\ value' = IF bitmapMode THEN Bits(Top.value) ELSE Top.value
    /\ pc' = IF err' THEN "done" ELSE "dups"
    /\ UNCHANGED <<input, bitmapMode, toInit, out>>

\* An older entry of the same key is popped and its iterator advanced.
PopDup ==
    /\ pc = "dups" /\ HasDup /\ ~Undecodable(Top.value)
    /\ Advance(Top.idx, Popped(Top), FALSE)
    /\ value' = Combined(value, Top.value)
    /\ pc' = IF err' THEN "done" ELSE "dups"
    /\ UNCHANGED <<input, bitmapMode, key, toInit, out>>

\* The older entry cannot be decoded: its iterator is not advanced any more.
PopUndecodableDup ==
    /\ pc = "dups" /\ HasDup /\ Undecodable(Top.value)
    /\ h' = Popped(Top)
    /\ err' = TRUE
    /\ pc' = "done"
    /\ UNCHANGED <<input, bitmapMode, iters, key, value, toInit, out>>

\* Next returns true and compactLevel appends the entry.
Emit ==
    /\ pc = "dups" /\ ~HasDup
    /\ out' = Append(out, [key |-> key, value |-> value])
    /\ pc' = "pop"
    /\ UNCHANGED <<input, bitmapMode, iters, h, key, value, err, toInit>>

\* The united bitmap cannot be made into bytes.
EmitFails ==
    /\ pc = "dups" /\ ~HasDup /\ bitmapMode /\ ReadErrors
    /\ err' = TRUE
    /\ pc' = "done"
    /\ UNCHANGED <<input, bitmapMode, iters, h, key, value, toInit, out>>

\* Next returns false at the end of the data.
End ==
    /\ pc = "pop" /\ h = {}
    /\ pc' = "done"
    /\ UNCHANGED <<input, bitmapMode, iters, h, key, value, err, toInit, out>>

Next ==
    \/ InitIterator \/ PopTop \/ PopDup \/ PopUndecodableDup
    \/ Emit \/ EmitFails \/ End

Spec == Init /\ [][Next]_vars

\* compactLevel calls Next until it returns false.
FairSpec == Spec /\ WF_vars(Next)

-----------------------------------------------------------------------------
(* What the merge promises.                                                *)

EntriesOf(i) ==
    UNION {{input[i][b][e] : e \in DOMAIN input[i][b]} : b \in DOMAIN input[i]}

InputKeys == {e.key : e \in UNION {EntriesOf(i) : i \in DOMAIN input}}

\* The values of k, each with the position of its SST.
ValuesOf(k) ==
    {x \in (DOMAIN input) \X Vals : [key |-> k, value |-> x[2]] \in EntriesOf(x[1])}

\* The value of the newest SST that has the key, or the union of the bitmaps.
MergedValue(k) ==
    IF bitmapMode
    THEN UNION {Bits(x[2]) : x \in ValuesOf(k)}
    ELSE (CHOOSE x \in ValuesOf(k) : \A y \in ValuesOf(k) : y[1] <= x[1])[2]

\* At every moment the output holds each key up to its last one, once, in
\* order, with its merged value: entries of a key spread over several SSTs and
\* over the ends of blocks are neither missed nor emitted twice.
OutputIsMergedPrefix ==
    /\ TypeOK
    /\ \A i, j \in DOMAIN out : i < j => out[i].key < out[j].key
    /\ \A i \in DOMAIN out :
          /\ out[i].key \in InputKeys
          /\ out[i].value = MergedValue(out[i].key)
    /\ \A k \in InputKeys :
          out # <<>> /\ k <= out[Len(out)].key =>
              \E i \in DOMAIN out : out[i].key = k

\* The merge never stops short without saying so: when Next returns false and
\* Err is nil every key has been emitted.  compactLevel deletes its inputs on
\* that ground (tree_compact.go:102).
EndMeansComplete ==
    pc = "done" /\ ~err =>
        \A k \in InputKeys : \E i \in DOMAIN out : out[i].key = k

\* The merge of finite SSTs ends.
Terminates == <>(pc = "done")
=============================================================================
