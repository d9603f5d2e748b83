----------------------------- MODULE MCLSMIndex -----------------------------
(* Instances of LSMIndex for TLC: two features, and documents of which the  *)
(* last is in a block of its own.                                           *)
EXTENDS LSMIndex

MCDocs == 0 .. 2
MCFeatures == {0, 1}
MCFeatureLists == {<<1>>, <<0, 1>>}
MCKeys == 0 .. 3
MCVals == {D \cup {} : D \in SUBSET MCDocs}   \* enumerated: Nil can be sought in it
MCKeyLen == [k \in MCKeys |-> 1]
MCValLen == [v \in MCVals |-> 1]
=============================================================================
