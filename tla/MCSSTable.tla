----------------------------- MODULE MCSSTable -----------------------------
(* Instances of SSTable for TLC: keys of up to three bytes that share       *)
(* prefixes, words of four bits, and hash functions of which some map all   *)
(* keys to one word.                                                        *)
EXTENDS SSTable

MCBytes ==
    [k \in 0 .. MaxKey |->
        <<<<>>, <<1>>, <<1, 1>>, <<1, 1, 2>>, <<1, 2>>, <<2>>, <<2, 1>>>>[k + 1]]
MCHashFunctions ==
    {[k \in 0 .. MaxKey |-> (a * k + b) % (High * Low)] : a \in {0, 1, 3}, b \in {0, 7}}
MCRecordSizes == {1, 2}
=============================================================================
