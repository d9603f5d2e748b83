-------------------------- MODULE MCMergeIterator --------------------------
(* Instances of MergeIterator for TLC: every way to spread up to three keys *)
(* over the SSTs of a level, in blocks of one or of two entries.  The value *)
(* in SST i is {i}, or Corrupt, so that values tell SSTs apart.             *)
EXTENDS MergeIterator, FiniteSets

CONSTANTS SSTs

MCKeys == 1 .. 3
MCVals == {{i} : i \in 1 .. SSTs} \cup {Corrupt}

Sorted(S) ==
    [i \in 1 .. Cardinality(S) |->
        CHOOSE k \in S : Cardinality({j \in S : j <= k}) = i]

\* The keys of S with the value v, in blocks of n.
Blocks(S, v, n) ==
    LET keys == Sorted(S)
        last(b) == IF b * n < Len(keys) THEN b * n ELSE Len(keys)
    IN  [b \in 1 .. (Len(keys) + n - 1) \div n |->
            [e \in 1 .. last(b) - (b - 1) * n |->
                [key |-> keys[(b - 1) * n + e], value |-> v]]]

Tables == SUBSET MCKeys \ {{}}

\* The SSTs of a level have blocks of one length; the value of one SST may be
\* corrupt.
Level(sets, n, bad) ==
    [i \in 1 .. SSTs |-> Blocks(sets[i], IF i = bad THEN Corrupt ELSE {i}, n)]

MCInputs == {Level(sets, n, 0) : sets \in [1 .. SSTs -> Tables], n \in 1 .. 2}

MCInputsCorrupt ==
    MCInputs \cup
    {Level(sets, 2, bad) : sets \in [1 .. SSTs -> Tables], bad \in 1 .. SSTs}
=============================================================================
