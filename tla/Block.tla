------------------------------- MODULE Block -------------------------------
(***************************************************************************)
(* The records of a block (src/internal/lsm/block/block.go) and how they   *)
(* are read back (ReadBlockData and ReadRecord of sst_reader.go).  A       *)
(* record drops the bytes its key shares with the key before it in the     *)
(* block.  The lengths that precede each record are abstracted: a record   *)
(* says itself where it ends.  Values are left out: they are copied.       *)
(***************************************************************************)
EXTENDS Integers, SequencesExt

SharedPrefixLen(a, b) == Len(LongestCommonPrefix({a, b}))

\* The record that Append writes for a key when prevKey came before it.
EncodeRecord(prevKey, key) ==
    LET shared == SharedPrefixLen(prevKey, key)
    IN  [shared |-> shared, suffix |-> SubSeq(key, shared + 1, Len(key))]

\* clear: the last key of a block is not the prevKey of the next one.
ClearedKey_Kept(prevKey) == prevKey
ClearedKey(prevKey) == <<>>

\* The reader slices the key before as far as the record says; beyond the end
\* of that key there is no byte of it.
ReadRecord(before, record) ==
    SubSeq(before, 1, IF record.shared <= Len(before) THEN record.shared
                                                      ELSE Len(before))
        \o record.suffix

\* The keys of a block: each is the prevKey of the next one.
ReadBlockData(records) ==
    LET read[i \in DOMAIN records] ==
            ReadRecord(IF i = 1 THEN <<>> ELSE read[i - 1], records[i])
    IN  read
=============================================================================
