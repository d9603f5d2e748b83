------------------------------- MODULE Kgram -------------------------------
(***************************************************************************)
(* Wildcard patterns and k-grams (src/internal/invertedindex/kgram/        *)
(* kgram.go): the grams of a term, the grams that a pattern asks for, and  *)
(* the matching of a term with a pattern.                                  *)
(***************************************************************************)
EXTENDS Integers, Sequences

CONSTANTS
    Runes,      \* the runes of terms: letters and digits
    Star,       \* the rune '*'
    Marker,     \* the rune '$' that marks the ends of a term
    k           \* runes in a gram; the engine passes 2

ASSUME KgramAssumption ==
    /\ Star \notin Runes /\ Marker \notin Runes /\ Star # Marker
    /\ k \in Nat /\ k >= 2

Terms == Seq(Runes)
Patterns == Seq(Runes \cup {Star})

Padded(s) == <<Marker>> \o s \o <<Marker>>

\* The positions at which a gram of s starts.
Starts(s) == 1 .. Len(s) - k + 1
Window(s, i) == SubSeq(s, i, i + k - 1)

\* Generate, in the order of the grams.
Generate(term) ==
    LET padded == Padded(term)
    IN  IF Len(padded) < k THEN <<padded>>
        ELSE [i \in Starts(padded) |-> Window(padded, i)]

Grams(term) == {Generate(term)[i] : i \in DOMAIN Generate(term)}

\* ExtractFromPattern, as a set.  The code splits the pattern at its stars and
\* puts a marker at the true start and end of the pattern, if there is a part
\* there: the grams are the windows of the padded pattern without a star.  No
\* window of two runes or more is made of markers only but for the empty
\* pattern, which has no part.
ExtractFromPattern_EachPartPadded(p) ==
    IF p = <<>> THEN {}
    ELSE Grams([i \in DOMAIN p |-> IF p[i] = Star THEN Marker ELSE p[i]])
ExtractFromPattern(p) ==
    IF p = <<>> THEN {}
    ELSE {g \in {Window(Padded(p), i) : i \in Starts(Padded(p))} :
             \A j \in 1 .. k : g[j] # Star}

\* MatchPattern: matchWildcard from rune i of the term and rune j of the
\* pattern.  Stars in a row are skipped together.
MatchPattern(s, p) ==
    LET AfterStars(j) ==
            CHOOSE m \in j .. Len(p) + 1 :
                /\ m = Len(p) + 1 \/ p[m] # Star
                /\ \A n \in j .. m - 1 : p[n] = Star
        match[r \in (1 .. Len(s) + 1) \X (1 .. Len(p) + 1)] ==
            LET i == r[1]  j == r[2]
            IN  IF j > Len(p) THEN i > Len(s)
                ELSE IF p[j] = Star
                THEN \E m \in i .. Len(s) + 1 : match[<<m, AfterStars(j)>>]
                ELSE i <= Len(s) /\ s[i] = p[j] /\ match[<<i + 1, j + 1>>]
    IN  match[<<1, 1>>]

-----------------------------------------------------------------------------
(* What it means to match: the term can be cut so that every rune of the   *)
(* pattern stands for itself and every star for any piece; cut[j] is where *)
(* in the term rune j of the pattern begins.                               *)

Fits(cut, s, p) ==
    /\ cut[1] = 1 /\ cut[Len(p) + 1] = Len(s) + 1
    /\ \A j \in 1 .. Len(p) :
          IF p[j] = Star THEN cut[j] <= cut[j + 1]
          ELSE cut[j] <= Len(s) /\ s[cut[j]] = p[j] /\ cut[j + 1] = cut[j] + 1

Matches(s, p) ==
    \E cut \in [1 .. Len(p) + 1 -> 1 .. Len(s) + 1] : Fits(cut, s, p)
=============================================================================
