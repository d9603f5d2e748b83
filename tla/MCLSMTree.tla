----------------------------- MODULE MCLSMTree -----------------------------
(* Instances of LSMTree for TLC.                                           *)
EXTENDS LSMTree

CONSTANT v1

MCKeys2 == 1 .. 2
MCKeys3 == 1 .. 3
MCKeyLen2 == [k \in MCKeys2 |-> 1]
MCKeyLen3 == [k \in MCKeys3 |-> 1]
MCVals1 == {v1}
MCValLen1 == [v \in MCVals1 |-> 1]
=============================================================================
