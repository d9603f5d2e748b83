--------------------------- MODULE MCLSMDictionary ---------------------------
(* Instances of LSMDictionary for TLC: three terms, of which 2 and 3 share  *)
(* a prefix, and ids for terms that are added again after entries were lost. *)
EXTENDS LSMDictionary

MCKeys == 1 .. 3
MCKeyLen == [t \in MCKeys |-> 1]
MCVals == 0 .. 7
MCValLen == [v \in MCVals |-> 4]
MCBatches == {<<1>>, <<2>>, <<3, 1>>, <<2, 2>>}
MCEmptyPrefix == <<0, 4>>
MCPrefixes == {MCEmptyPrefix, <<1, 2>>, <<2, 3>>, <<2, 4>>}
=============================================================================
