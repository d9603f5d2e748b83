---------------------------- MODULE TextPipeline ----------------------------
(***************************************************************************)
(* The text pipeline (src/internal/invertedindex/textproc): tokens,        *)
(* normalization, stop words, stemming, unique terms.  A word is a token   *)
(* as the tokenizer cuts it, a sequence of runes.  The Unicode tables, the *)
(* lists of stop words and the Snowball stemmer are constants.             *)
(***************************************************************************)
EXTENDS Integers, Sequences, FiniteSets

CONSTANTS
    Words,          \* the words of texts and queries
    NormalForms,    \* terms after normalization, which stemmers are given
    Cyrillic,       \* the Cyrillic runes; the others here are Latin
    Normalized,     \* a word in NFC and lower case, by whether accents go
    StopWordsOf,    \* language -> its stop words, the custom ones included
    Stemmed         \* language -> the stem of each form, <<>> if none is left

Langs == {"english", "russian"}

ASSUME TextPipelineAssumption ==
    /\ Normalized \in [BOOLEAN -> [Words -> NormalForms]]
    /\ Words \subseteq NormalForms          \* normalization can be off
    /\ DOMAIN StopWordsOf = Langs
    /\ Stemmed \in [Langs -> [NormalForms -> NormalForms]]

\* PipelineConfig
PipelineConfig ==
    [StopWords : BOOLEAN, Stemming : BOOLEAN, StripAccents : BOOLEAN,
     Normalize : BOOLEAN, MinTermLen : Nat]

\* DetectLang counts the letters of either script: more than a fifth of each
\* makes a text mixed, and more than half Cyrillic makes it Russian.
DetectLang(text) ==
    LET letters == UNION {{<<i, j>> : j \in DOMAIN text[i]} : i \in DOMAIN text}
        total == Cardinality(letters)
        cyrillic == Cardinality({x \in letters : text[x[1]][x[2]] \in Cyrillic})
    IN  IF total = 0 THEN "unknown"
        ELSE IF 5 * cyrillic > total /\ 5 * (total - cyrillic) > total THEN "mixed"
        ELSE IF 2 * cyrillic > total THEN "russian"
        ELSE "english"

DetectTokenLang(term) ==
    IF \E i \in DOMAIN term : term[i] \in Cyrillic THEN "russian" ELSE "english"

\* The loops of the stages, which append what passes: the tokens at the
\* positions i of keep[i].
Select(tokens, keep) ==
    LET kept[n \in 0 .. Len(tokens)] ==
            IF n = 0 THEN <<>>
            ELSE kept[n - 1] \o (IF keep[n] THEN <<tokens[n]>> ELSE <<>>)
    IN  kept[Len(tokens)]

\* The forms of words that are left after normalization.
Normalize(pc, text) ==
    LET forms == [i \in DOMAIN text |-> Normalized[pc.StripAccents][text[i]]]
    IN  IF ~pc.Normalize THEN text
        ELSE Select(forms, [i \in DOMAIN forms |->
                               /\ forms[i] # <<>>
                               /\ Len(forms[i]) >= pc.MinTermLen])

\* The filter and the stemmer are given the language of the text, and decide by
\* that of each token.
Filter(pc, tokens, lang) ==
    IF ~pc.StopWords THEN tokens
    ELSE Select(tokens, [i \in DOMAIN tokens |->
                            tokens[i] \notin StopWordsOf[DetectTokenLang(tokens[i])]])

StemTokens_TextLang(pc, tokens, lang) ==
    LET stems == [i \in DOMAIN tokens |->
                     IF lang \in Langs THEN Stemmed[lang][tokens[i]]
                                       ELSE tokens[i]]
    IN  IF ~pc.Stemming THEN tokens
        ELSE Select(stems, [i \in DOMAIN stems |-> stems[i] # <<>>])
StemTokens(pc, tokens, lang) ==
    LET stems == [i \in DOMAIN tokens |->
                     Stemmed[DetectTokenLang(tokens[i])][tokens[i]]]
    IN  IF ~pc.Stemming THEN tokens
        ELSE Select(stems, [i \in DOMAIN stems |-> stems[i] # <<>>])

UniqueTerms(tokens) ==
    Select(tokens, [i \in DOMAIN tokens |->
                       \A j \in 1 .. i - 1 : tokens[j] # tokens[i]])

\* Process: language is the one forced by the configuration, or "auto".
Process(pc, language, text) ==
    LET detected == IF language = "auto" THEN DetectLang(text) ELSE language
        lang == IF detected = "unknown" THEN "english" ELSE detected
    IN  UniqueTerms(StemTokens(pc, Filter(pc, Normalize(pc, text), lang), lang))
=============================================================================
