------------------------------ MODULE MCQuery -------------------------------
(* Instances of Query for TLC: the configurations of a few words, the dates *)
(* of documents, and the lines about three documents.                       *)
EXTENDS Query

\* Runes: Latin a, b, s, a capital and a letter with an accent, Cyrillic r, t.
MCRunes == {"a", "b", "s", "A", "a'", "r", "t"}
MCCyrillic == {"r", "t"}
MCLower == [x \in MCRunes |-> IF x = "A" THEN "a" ELSE x]

ab == <<"a", "b">>
abs == <<"a", "b", "s">>                    \* another form of ab
Ab == <<"A", "b">>
accented == <<"a'", "b">>
b == <<"b">>                                \* a stop word, and short
bab == <<"b", "a", "b">>
rt == <<"r", "t">>                          \* a Russian form of r
r == <<"r">>
MCWords == {ab, abs, Ab, accented, b, bab, rt, r}
MCNormalForms == MCWords

MCNormalized ==
    [strip \in BOOLEAN |->
        [w \in MCWords |-> IF w = Ab \/ (w = accented /\ strip) THEN ab ELSE w]]
MCStopWordsOf == [l \in Langs |-> IF l = "english" THEN {b} ELSE {}]
MCStemmed ==
    [l \in Langs |-> [w \in MCWords |->
        IF l = "english" /\ w = abs THEN ab
        ELSE IF l = "russian" /\ w = rt THEN r ELSE w]]
MCSomeTerms == MCWords
MCFeatureIDs == 0 .. 8

Pipeline(stop, stem, strip, norm, min) ==
    [StopWords |-> stop, Stemming |-> stem, StripAccents |-> strip,
     Normalize |-> norm, MinTermLen |-> min]
MCDefaultSizes == [BlockSize |-> 4, MaxLevel |-> 3]
Conf(lang, backend, index, query) ==
    [Dir |-> "documents", Language |-> lang, Backend |-> backend,
     Sizes |-> [BlockSize |-> 0, MaxLevel |-> 2],
     Index |-> index, Query |-> query]
\* Stop words are left out of the index and not of queries.
DefaultConf(backend) ==
    Conf("auto", backend, Pipeline(TRUE, TRUE, FALSE, TRUE, 1),
                          Pipeline(FALSE, TRUE, FALSE, TRUE, 1))
TextConfs == {
    DefaultConf("memory"),
    Conf("english", "", Pipeline(FALSE, TRUE, TRUE, TRUE, 1),
                        Pipeline(TRUE, TRUE, TRUE, TRUE, 2)),
    Conf("russian", "memory", Pipeline(TRUE, FALSE, FALSE, FALSE, 1),
                              Pipeline(FALSE, FALSE, FALSE, FALSE, 1)),
    \* refused
    Conf("auto", "memory", Pipeline(FALSE, TRUE, FALSE, TRUE, 1),
                           Pipeline(FALSE, FALSE, FALSE, TRUE, 1)),
    Conf("auto", "memory", Pipeline(FALSE, FALSE, TRUE, TRUE, 1),
                           Pipeline(FALSE, FALSE, FALSE, TRUE, 1)),
    Conf("auto", "memory", Pipeline(FALSE, FALSE, FALSE, TRUE, 1),
                           Pipeline(FALSE, FALSE, FALSE, FALSE, 1)),
    Conf("auto", "disk", Pipeline(FALSE, FALSE, FALSE, TRUE, 1),
                         Pipeline(FALSE, FALSE, FALSE, TRUE, 1))}

MCTimes == {-2, 0, 3, 4}
MCQueryDays == -2 .. 3
Entry(date, start, end) == [Date |-> date, StartDate |-> start, EndDate |-> end]
Undated == Entry(NoTime, NoTime, NoTime)
TextFile(text) == [text |-> text, entry |-> Undated]
Texts == {<<abs, rt, b>>, <<Ab, accented>>, <<bab, ab>>, <<rt, bab, r>>, <<b>>}
\* A document has a date, or an interval of validity, or neither.
Instants == MCTimes \cup {NoTime}
DatedFiles ==
    {[text |-> <<>>, entry |-> e] :
        e \in {Entry(d, NoTime, NoTime) : d \in Instants \cup {BadDate}} \cup
              {Entry(NoTime, s, e) : s \in Instants, e \in Instants \cup {BadDate}}}

AskedFiles == <<
    [text |-> <<ab, rt>>, entry |-> Entry(0, NoTime, NoTime)],
    [text |-> <<bab>>, entry |-> Entry(NoTime, 0, 3)],
    [text |-> <<abs, bab>>, entry |-> Entry(4, NoTime, NoTime)]>>
AskedDocs(n) == [i \in 1 .. n |-> [text |-> AskedFiles[i].text,
                                   meta |-> AskedFiles[i].entry]]

Setup(c, files, maxDocs, maxLosses, maxMissed) ==
    [conf |-> c, files |-> files, maxDocs |-> maxDocs, maxLosses |-> maxLosses,
     maxMissed |-> maxMissed]
MCSetups ==
    {Setup(c, {TextFile(t) : t \in Texts}, 3, 0, 0) : c \in TextConfs} \cup
    {Setup(DefaultConf("lsm"),
           {TextFile(t) : t \in {<<abs, rt, b>>, <<bab, ab>>}}, 3, 2, 0),
     Setup(DefaultConf("memory"), DatedFiles, 3, 0, 0),
     Setup(DefaultConf("memory"), {AskedFiles[i] : i \in 1 .. 3}, 3, 0, 0),
     Setup(DefaultConf("lsm"), {AskedFiles[i] : i \in 1 .. 2}, 2, 0, 2)}

MCTextQueries ==
    {<<<<w>>>> : w \in MCWords} \cup
    {<<>>, <<<<>>>>, <<<<ab, b>>>>, <<<<ab>>, <<bab>>>>, <<<<abs, rt>>>>,
     <<<<Ab>>, <<rt, bab>>>>}
\* With no star, one, and more; with grams of each end, of the middle, and none.
MCWildcards ==
    {<<"*">>, <<"a", "*">>, <<"A", "b", "*">>, <<"b", "a", "*">>, <<"r", "*">>,
     <<"*", "b">>, <<"*", "a", "b">>, <<"a", "*", "s">>, <<"b", "*", "b">>,
     <<"a", "*", "b">>, <<"*", "A", "*">>, <<"*", "a", "b", "*">>,
     <<"*", "*">>, <<"*", "*", "b", "a", "*">>, <<"r", "*", "*", "t">>}

\* The matching of the code is the matching of the reference, for the terms of
\* up to three runes and the patterns of up to four over two runes.
ASSUME MatchingAgrees ==
    \A s \in UNION {[1 .. n -> {"a", "b"}] : n \in 0 .. 3},
       p \in UNION {[1 .. n -> {"a", "b", "*"}] : n \in 0 .. 4} :
          MatchPattern(s, p) = Matches(s, p)

Tok(kind) == [kind |-> kind]
Term(w) == [kind |-> "term", text |-> <<w>>]
Leaves == {Term(ab), Term(bab),
           [kind |-> "pattern", runes |-> <<"b", "*", "b">>],
           [kind |-> "date", field |-> "DATE", from |-> 0, to |-> 1]}
BadLeaf == [kind |-> "date", field |-> "VALID", from |-> 0, to |-> BadDate]
Binary == {<<Tok("AND")>>, <<Tok("OR")>>, <<Tok("AND"), Tok("NOT")>>}
ShortTokens == {Tok("("), Tok(")"), Tok("AND"), Tok("OR"), Tok("NOT"),
           Term(ab), BadLeaf}
\* Every line of up to five tokens, and the expressions of three or four
\* leaves, no two the same in a row, with two or three of them in parentheses.
In(x) == <<Tok("(")>> \o x \o <<Tok(")")>>
Two(x, o, y) == <<x>> \o o \o <<y>>
LongLine(shape, l, o) ==
    CASE shape = "flat"  -> Two(l[1], o[1], l[2]) \o o[2] \o Two(l[3], o[3], l[4])
      [] shape = "left"  -> In(Two(l[1], o[1], l[2])) \o o[2] \o Two(l[3], o[3], l[4])
      [] shape = "inner" -> <<l[1]>> \o o[1] \o In(Two(l[2], o[2], l[3])) \o o[3] \o <<l[4]>>
      [] shape = "right" -> <<l[1]>> \o o[1] \o In(Two(l[2], o[2], l[3]) \o o[3] \o <<l[4]>>)
LongLines ==
    {LongLine(shape, l, o) : shape \in {"flat", "left", "inner", "right"},
                             l \in {x \in [1 .. 4 -> Leaves] :
                                      \A i \in 1 .. 3 : x[i] # x[i + 1]},
                             o \in [1 .. 3 -> Binary]}
Lines == LongLines \cup UNION {[1 .. n -> ShortTokens] : n \in 1 .. 5}

\* About two documents, which trees hold, of which some things are missed.
Any == [kind |-> "pattern", runes |-> <<"*">>]
Starts_a == [kind |-> "pattern", runes |-> <<"a", "*">>]
MissingLines ==
    {<<Any>>, <<Starts_a>>, <<Term(ab)>>,
     <<[kind |-> "term", text |-> <<ab, rt>>]>>,
     Two(Any, <<Tok("AND"), Tok("NOT")>>, Term(ab)),
     Two(Term(bab), <<Tok("OR")>>,
         [kind |-> "pattern", runes |-> <<"*", "a", "b", "*">>])}
MCLinesAbout ==
    [indexed \in {AskedDocs(2), AskedDocs(3)} |->
        IF indexed = AskedDocs(3) THEN Lines ELSE MissingLines]
=============================================================================
