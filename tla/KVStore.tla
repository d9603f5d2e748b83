------------------------------ MODULE KVStore ------------------------------
(***************************************************************************)
(* What tree.LSMTree (src/internal/lsm/tree/interface.go) promises to a    *)
(* client that does not distinguish a deleted key from a key that holds    *)
(* nothing: one value per key, and a Put or a Delete changes that key and  *)
(* no other.  Flushes and compactions are not mentioned: they must be      *)
(* invisible.  LSMTree is shown to implement this module.                  *)
(***************************************************************************)
CONSTANTS
    Keys,       \* the keys
    Vals,       \* the values a key can hold, apart from holding nothing
    Absent      \* what a Get finds at a key that holds nothing: not in Vals

VARIABLE store  \* the value of every key

TypeOK == store \in [Keys -> Vals \cup {Absent}]

Init == store = [k \in Keys |-> Absent]

Put(k, v) == store' = [store EXCEPT ![k] = v]

Delete(k) == store' = [store EXCEPT ![k] = Absent]

Next == \E k \in Keys : Delete(k) \/ \E v \in Vals : Put(k, v)

Spec == Init /\ [][Next]_store
=============================================================================
