----------------------------- MODULE QueryProofs -----------------------------
(***************************************************************************)
(* Proofs about Query, for every line of tokens: the parser takes exactly  *)
(* the lines that have a meaning, and answers them by it.                  *)
(***************************************************************************)
EXTENDS Query, EngineProofs, FiniteSetTheorems

-----------------------------------------------------------------------------
(* The loops of the parser.                                                *)

\* The values that the variable of a loop takes.
Turns(turn, first, n, h) ==
    [i \in 0 .. n |-> IF i = 0 THEN first ELSE turn[h[i - 1]]]

IsRun(h, turn, first, n) ==
    h[0] = first /\ \A i \in 1 .. n : h[i] = turn[h[i - 1]]

LEMMA TurnsExist ==
    ASSUME NEW turn, NEW first, NEW n \in Nat
    PROVE  \E h : h = Turns(turn, first, n, h)
<1> DEFINE Upto(z, h) == \A i \in 0 .. n : i <= z => h[i] = Turns(turn, first, n, h)[i]
           G == {z \in 0 .. n : \E h : Upto(z, h)}
<1>1. 0 \in G
  <2> DEFINE h == [i \in 0 .. n |-> first]
  <2>1. h[0] = first /\ Turns(turn, first, n, h)[0] = first
    BY DEF Turns
  <2>2. \A i \in 0 .. n : i <= 0 => i = 0
    OBVIOUS
  <2> HIDE DEF h
  <2> QED
    BY <2>1, <2>2
<1>2. ASSUME NEW z \in 0 .. n, z \in G, z < n PROVE z + 1 \in G
  <2>1. PICK h : Upto(z, h)
    BY <1>2
  <2> DEFINE g == Turns(turn, first, n, h)
  <2>2. ASSUME NEW i \in 0 .. n, i <= z + 1
        PROVE  g[i] = Turns(turn, first, n, g)[i]
    <3>1. CASE i = 0
      BY <3>1 DEF Turns
    <3>2. CASE i # 0
      <4>1. i - 1 \in 0 .. n /\ i - 1 <= z
        BY <2>2, <3>2
      <4>2. h[i - 1] = g[i - 1]
        BY <2>1, <4>1
      <4>3. g[i] = turn[h[i - 1]]
        BY <3>2 DEF Turns
      <4> HIDE DEF g
      <4>4. Turns(turn, first, n, g)[i] = turn[g[i - 1]]
        BY <3>2 DEF Turns
      <4> QED
        BY <4>2, <4>3, <4>4
    <3> QED
      BY <3>1, <3>2
  <2> HIDE DEF g
  <2>3. Upto(z + 1, g)
    BY <2>2
  <2> QED
    BY <1>2, <2>3
<1>3. n \in G
  <2>1. n \in 0 .. n
    OBVIOUS
  <2> HIDE DEF G
  <2> QED
    BY <1>1, <1>2, <2>1, FromZero
<1>4. PICK h : Upto(n, h)
  BY <1>3
<1> DEFINE g == Turns(turn, first, n, h)
<1>5. \A i \in 0 .. n : g[i] = h[i]
  BY <1>4
<1>6. g = [i \in 0 .. n |-> IF i = 0 THEN first ELSE turn[h[i - 1]]]
  BY DEF Turns
<1> HIDE DEF g
<1>7. ASSUME NEW i \in 0 .. n
      PROVE  (IF i = 0 THEN first ELSE turn[h[i - 1]]) =
                IF i = 0 THEN first ELSE turn[g[i - 1]]
  <2>1. i # 0 => i - 1 \in 0 .. n
    OBVIOUS
  <2> QED
    BY <1>5, <2>1
<1>8. g = Turns(turn, first, n, g)
  BY <1>6, <1>7 DEF Turns
<1> QED
  BY <1>8

LEMMA LoopRuns ==
    ASSUME NEW turn, NEW first, NEW n \in Nat
    PROVE  \E h : IsRun(h, turn, first, n) /\ Loop(turn, first, n) = h[n]
<1> DEFINE h == CHOOSE h : h = Turns(turn, first, n, h)
<1>1. Loop(turn, first, n) = h[n]
  BY DEF Loop, Turns
<1>2. h = Turns(turn, first, n, h)
  BY TurnsExist, Zenon
<1> HIDE DEF h
<1>3. \A i \in 0 .. n : h[i] = IF i = 0 THEN first ELSE turn[h[i - 1]]
  BY <1>2 DEF Turns
<1>4. IsRun(h, turn, first, n)
  BY <1>3 DEF IsRun
<1> QED
  BY <1>1, <1>4

\* A loop that has ended has the value with which it ended.
Stays(h, turn, n) == \A z \in 0 .. n : turn[h[z]] = h[z] => h[n] = h[z]

LEMMA LoopStays ==
    ASSUME NEW turn, NEW first, NEW n \in Nat, NEW h,
           IsRun(h, turn, first, n)
    PROVE  Stays(h, turn, n)
<1> SUFFICES ASSUME NEW z \in 0 .. n, turn[h[z]] = h[z] PROVE h[n] = h[z]
  BY DEF Stays
<1> DEFINE G == {i \in 0 .. n : i <= z \/ h[i] = h[z]}
<1>1. 0 \in G
  OBVIOUS
<1>2. ASSUME NEW i \in 0 .. n, i \in G, i < n PROVE i + 1 \in G
  <2>1. i + 1 \in 1 .. n /\ i + 1 \in 0 .. n /\ i + 1 - 1 = i
    BY <1>2
  <2>2. h[i + 1] = turn[h[i]]
    BY <2>1 DEF IsRun
  <2>3. CASE i + 1 <= z
    BY <2>1, <2>3
  <2>4. CASE ~ (i + 1 <= z)
    <3>1. h[i] = h[z]
      <4>1. i = z \/ ~ (i <= z)
        BY <2>4
      <4> QED
        BY <1>2, <4>1
    <3> QED
      BY <2>1, <2>2, <3>1
  <2> QED
    BY <2>3, <2>4
<1>3. n \in G
  <2>1. n \in 0 .. n
    OBVIOUS
  <2> HIDE DEF G
  <2> QED
    BY <1>1, <1>2, <2>1, FromZero
<1> QED
  BY <1>3

LEMMA LoopTypes ==
    ASSUME NEW R, NEW turn \in [R -> R], NEW first \in R, NEW n \in Nat, NEW h,
           IsRun(h, turn, first, n)
    PROVE  \A i \in 0 .. n : h[i] \in R
<1> DEFINE G == {i \in 0 .. n : h[i] \in R}
<1>1. 0 \in G
  BY DEF IsRun
<1>2. ASSUME NEW i \in 0 .. n, i \in G, i < n PROVE i + 1 \in G
  <2>1. i + 1 \in 1 .. n /\ i + 1 \in 0 .. n /\ i + 1 - 1 = i
    BY <1>2
  <2>2. h[i + 1] = turn[h[i]] /\ h[i] \in R
    BY <1>2, <2>1 DEF IsRun
  <2> QED
    BY <2>1, <2>2
<1> HIDE DEF G
<1>3. \A i \in 0 .. n : i \in G
  BY <1>1, <1>2, FromZero
<1> QED
  BY <1>3 DEF G

-----------------------------------------------------------------------------
(* The levels of the parser.                                               *)

Level(ts, p, d) ==
    [pos \in Positions |-> IF d = 0 THEN Failed ELSE ParseOr(ts, p[d - 1], pos)]

Levels(ts, p) == [d \in 0 .. Len(ts) |-> Level(ts, p, d)]

LEMMA LevelsExist ==
    ASSUME NEW ts, Len(ts) \in Nat
    PROVE  \E p : p = Levels(ts, p)
<1> DEFINE n == Len(ts)
           Upto(z, p) == \A d \in 0 .. n : d <= z => p[d] = Level(ts, p, d)
           G == {z \in 0 .. n : \E p : Upto(z, p)}
<1>1. ASSUME NEW p, NEW q, NEW d \in 0 .. n, d # 0 => p[d - 1] = q[d - 1]
      PROVE  Level(ts, p, d) = Level(ts, q, d)
  BY <1>1 DEF Level
<1>2. 0 \in G
  <2> DEFINE p == [d \in 0 .. n |-> Level(ts, <<>>, 0)]
  <2>1. p[0] = Level(ts, <<>>, 0)
    OBVIOUS
  <2> HIDE DEF p
  <2>2. Level(ts, <<>>, 0) = Level(ts, p, 0)
    BY DEF Level
  <2>3. \A d \in 0 .. n : d <= 0 => d = 0
    OBVIOUS
  <2> QED
    BY <2>1, <2>2, <2>3
<1>3. ASSUME NEW z \in 0 .. n, z \in G, z < n PROVE z + 1 \in G
  <2>1. PICK p : Upto(z, p)
    BY <1>3
  <2> DEFINE q == Levels(ts, p)
  <2>2. \A d \in 0 .. n : q[d] = Level(ts, p, d)
    BY DEF Levels
  <2> HIDE DEF q
  <2>3. ASSUME NEW d \in 0 .. n, d <= z + 1
        PROVE  q[d] = Level(ts, q, d)
    <3>1. d # 0 => d - 1 \in 0 .. n /\ d - 1 <= z
      BY <2>3
    <3>2. d # 0 => p[d - 1] = q[d - 1]
      BY <2>1, <2>2, <3>1
    <3> QED
      BY <1>1, <2>2, <3>2
  <2>4. Upto(z + 1, q)
    BY <2>3
  <2> QED
    BY <1>3, <2>4
<1>4. n \in G
  <2>1. n \in 0 .. n
    OBVIOUS
  <2> HIDE DEF G
  <2> QED
    BY <1>2, <1>3, <2>1, FromZero
<1>5. PICK p : Upto(n, p)
  BY <1>4
<1> DEFINE q == Levels(ts, p)
<1>6. \A d \in 0 .. n : q[d] = Level(ts, p, d) /\ q[d] = p[d]
  BY <1>5 DEF Levels
<1>7. q = [d \in 0 .. n |-> Level(ts, p, d)]
  BY DEF Levels
<1> HIDE DEF q
<1>8. ASSUME NEW d \in 0 .. n PROVE Level(ts, p, d) = Level(ts, q, d)
  <2>1. d # 0 => d - 1 \in 0 .. n
    OBVIOUS
  <2> QED
    BY <1>1, <1>6, <2>1
<1>9. q = Levels(ts, q)
  BY <1>7, <1>8 DEF Levels
<1> QED
  BY <1>9

LEMMA ParserIs ==
    ASSUME NEW ts, Len(ts) \in Nat
    PROVE  \E p : /\ Parser(ts) = p[Len(ts)]
                  /\ \A d \in 0 .. Len(ts) : p[d] = Level(ts, p, d)
<1> DEFINE p == CHOOSE p : p = Levels(ts, p)
<1>1. Parser(ts) = p[Len(ts)]
  BY DEF Parser, Levels, Level
<1>2. p = Levels(ts, p)
  BY LevelsExist, Zenon
<1> HIDE DEF p
<1>3. \A d \in 0 .. Len(ts) : p[d] = Level(ts, p, d)
  BY <1>2 DEF Levels
<1> QED
  BY <1>1, <1>3

-----------------------------------------------------------------------------
(* The types of what the parser returns.                                   *)

\* The tokens that stand for a search, and the search.
Simple(tok) ==
    \/ tok.kind \in {"term", "pattern"}
    \/ tok.kind = "date" /\ BadDate \notin {tok.from, tok.to}

Searched(tok) ==
    IF tok.kind = "term" THEN Search(<<tok.text>>)
    ELSE IF tok.kind = "pattern" THEN SearchPattern(tok.runes)
    ELSE DateSearch(tok.field, tok.from, tok.to)

LeafTypes(ts) ==
    \A i \in 1 .. Len(ts) : Simple(ts[i]) => Searched(ts[i]) \subseteq Nat

Kinds == {"(", ")", "term", "pattern", "date"} \cup Operators

LEMMA TokenKinds ==
    ASSUME NEW ts \in Seq(Token), NEW i \in DOMAIN ts
    PROVE  ts[i].kind \in Kinds
<1>1. ts[i] \in Token
  OBVIOUS
<1>2. \A tok \in Token : tok.kind \in Kinds
  BY DEF Token, Kinds, Operators
<1> QED
  BY <1>1, <1>2

Peeked(ts, pos) ==
    \/ pos \in 1 .. Len(ts) /\ Peek(ts, pos) = ts[pos].kind /\ ts[pos].kind \in Kinds
    \/ pos > Len(ts) /\ Peek(ts, pos) = ""

LEMMA PeekIs ==
    ASSUME NEW ts \in Seq(Token), NEW pos \in Positions
    PROVE  Peeked(ts, pos)
<1>1. Len(ts) \in Nat /\ DOMAIN ts = 1 .. Len(ts)
  OBVIOUS
<1>2. CASE pos > Len(ts)
  BY <1>2 DEF Peek, Peeked
<1>3. CASE ~ (pos > Len(ts))
  <2>1. pos \in 1 .. Len(ts)
    BY <1>1, <1>3 DEF Positions
  <2> QED
    BY <1>1, <1>3, <2>1, TokenKinds DEF Peek, Peeked
<1> QED
  BY <1>2, <1>3

LEMMA ValueTypes ==
    ASSUME NEW D, D \subseteq Nat, NEW pos \in Nat
    PROVE  Value(D, pos) \in Results /\ Failed \in Results
  BY DEF Value, Failed, Results

\* What parsePrimary returns.
Grouped(ts, result) ==
    IF result.ok /\ Peek(ts, result.pos) = ")"
    THEN Value(result.docs, result.pos + 1) ELSE Failed

PrimaryAt(ts, inner, pos) ==
    \/ /\ pos \in 1 .. Len(ts) /\ ts[pos].kind = "("
       /\ ParsePrimary(ts, inner, pos) = Grouped(ts, inner[pos + 1])
    \/ /\ pos \in 1 .. Len(ts) /\ Simple(ts[pos])
       /\ ParsePrimary(ts, inner, pos) = Value(Searched(ts[pos]), pos + 1)
    \/ /\ ParsePrimary(ts, inner, pos) = Failed
       /\ pos \in 1 .. Len(ts) => ts[pos].kind # "(" /\ ~ Simple(ts[pos])

LEMMA PrimaryIs ==
    ASSUME NEW ts \in Seq(Token), NEW inner, NEW pos \in Positions
    PROVE  PrimaryAt(ts, inner, pos)
<1> DEFINE tok == ts[pos]
           kind == Peek(ts, pos)
           prim == ParsePrimary(ts, inner, pos)
<1>1. Peeked(ts, pos)
  BY PeekIs, Zenon
<1>2. kind = "" \/ (pos \in 1 .. Len(ts) /\ kind = tok.kind /\ kind \in Kinds)
  BY <1>1 DEF Peeked
<1>3. CASE kind = "("
  <2>1. prim = Grouped(ts, inner[pos + 1])
    BY <1>3 DEF ParsePrimary, Operators, Grouped
  <2>2. pos \in 1 .. Len(ts) /\ kind = tok.kind
    BY <1>2, <1>3
  <2> HIDE DEF prim
  <2> QED
    BY <1>3, <2>1, <2>2 DEF PrimaryAt, prim
<1>4. CASE kind \in {"", ")"} \cup Operators
  <2>1. prim = Failed
    BY <1>4 DEF ParsePrimary, Operators
  <2>2. kind # "(" /\ kind \notin {"term", "pattern", "date"}
    BY <1>4 DEF Operators
  <2>3. pos \in 1 .. Len(ts) => kind = tok.kind
    <3>1. ASSUME pos \in 1 .. Len(ts) PROVE ~ (pos > Len(ts))
      BY <3>1
    <3> QED
      BY <1>1, <3>1 DEF Peeked
  <2> HIDE DEF prim
  <2> QED
    BY <2>1, <2>2, <2>3 DEF PrimaryAt, prim, Simple
<1>5. CASE kind \in {"term", "pattern", "date"}
  <2>1. pos \in 1 .. Len(ts) /\ kind = tok.kind
    BY <1>2, <1>5
  <2>2. CASE kind = "term"
    <3>1. prim = Value(Search(<<tok.text>>), pos + 1)
      BY <2>2 DEF ParsePrimary, Operators
    <3> HIDE DEF prim
    <3> QED
      BY <2>1, <2>2, <3>1 DEF PrimaryAt, prim, Simple, Searched
  <2>3. CASE kind = "pattern"
    <3>1. prim = Value(SearchPattern(tok.runes), pos + 1)
      BY <2>3 DEF ParsePrimary, Operators
    <3> HIDE DEF prim
    <3> QED
      BY <2>1, <2>3, <3>1 DEF PrimaryAt, prim, Simple, Searched
  <2>4. CASE kind = "date"
    <3>1. prim = ParseDateExpr(tok, pos + 1)
      BY <2>4 DEF ParsePrimary, Operators
    <3>2. CASE BadDate \in {tok.from, tok.to}
      <4>1. prim = Failed
        BY <3>1, <3>2 DEF ParseDateExpr
      <4>2. tok.kind # "(" /\ ~ Simple(tok)
        BY <2>1, <2>4, <3>2 DEF Simple
      <4> QED
        BY <4>1, <4>2 DEF PrimaryAt
    <3>3. CASE BadDate \notin {tok.from, tok.to}
      <4>1. prim = Value(DateSearch(tok.field, tok.from, tok.to), pos + 1)
        BY <3>1, <3>3 DEF ParseDateExpr
      <4>2. Simple(tok) /\ Searched(tok) = DateSearch(tok.field, tok.from, tok.to)
        BY <2>1, <2>4, <3>3 DEF Simple, Searched
      <4> QED
        BY <2>1, <4>1, <4>2 DEF PrimaryAt
    <3> QED
      BY <3>2, <3>3
  <2> QED
    BY <1>5, <2>2, <2>3, <2>4
<1> QED
  BY <1>2, <1>3, <1>4, <1>5 DEF Kinds

LEMMA PrimaryTypes ==
    ASSUME NEW ts \in Seq(Token), LeafTypes(ts),
           NEW inner \in [Positions -> Results], NEW pos \in Positions
    PROVE  ParsePrimary(ts, inner, pos) \in Results
<1>1. pos + 1 \in Positions /\ pos + 1 \in Nat
  BY DEF Positions
<1>2. Grouped(ts, inner[pos + 1]) \in Results
  <2>1. inner[pos + 1] \in Results
    BY <1>1
  <2>2. inner[pos + 1].docs \subseteq Nat /\ inner[pos + 1].pos + 1 \in Nat
    BY <2>1 DEF Results
  <2> QED
    BY <2>2, ValueTypes DEF Grouped
<1>3. pos \in 1 .. Len(ts) /\ Simple(ts[pos]) => Value(Searched(ts[pos]), pos + 1) \in Results
  BY <1>1, ValueTypes DEF LeafTypes
<1>4. Failed \in Results
  BY DEF Failed, Results
<1>5. PrimaryAt(ts, inner, pos)
  BY PrimaryIs, Zenon
<1> QED
  BY <1>2, <1>3, <1>4, <1>5 DEF PrimaryAt

\* What a turn of the loop of parseAnd makes of left.
AndRight(ts, inner, left) ==
    ParsePrimary(ts, inner,
        left.pos + (IF Peek(ts, left.pos + 1) = "NOT" THEN 2 ELSE 1))
AndFound(ts, left, right) ==
    IF Peek(ts, left.pos + 1) = "NOT" THEN NotResult(left.docs, right.docs)
                                      ELSE AndResult(left.docs, right.docs)

AndTurned(ts, inner, left) ==
    IF ~left.ok \/ Peek(ts, left.pos) # "AND" THEN left
    ELSE IF AndRight(ts, inner, left).ok
    THEN Value(AndFound(ts, left, AndRight(ts, inner, left)),
               AndRight(ts, inner, left).pos)
    ELSE Failed

OrTurned(ts, inner, left) ==
    IF ~left.ok \/ Peek(ts, left.pos) # "OR" THEN left
    ELSE IF ParseAnd(ts, inner, left.pos + 1).ok
    THEN Value(OrResult(left.docs, ParseAnd(ts, inner, left.pos + 1).docs),
               ParseAnd(ts, inner, left.pos + 1).pos)
    ELSE Failed

LEMMA AndTurnIs ==
    ASSUME NEW ts, NEW inner
    PROVE  AndTurn(ts, inner) = [left \in Results |-> AndTurned(ts, inner, left)]
  BY DEF AndTurn, AndTurned, AndRight, AndFound, Join

LEMMA OrTurnIs ==
    ASSUME NEW ts, NEW inner
    PROVE  OrTurn(ts, inner) = [left \in Results |-> OrTurned(ts, inner, left)]
  BY DEF OrTurn, OrTurned, Join

LEMMA AndRightTypes ==
    ASSUME NEW ts \in Seq(Token), LeafTypes(ts),
           NEW inner \in [Positions -> Results], NEW left \in Results
    PROVE  AndRight(ts, inner, left) \in Results
<1>1. left.pos \in Nat
  BY DEF Results
<1>2. left.pos + 1 \in Positions /\ left.pos + 2 \in Positions
  BY <1>1 DEF Positions
<1> QED
  BY <1>2, PrimaryTypes DEF AndRight

LEMMA AndTurnTypes ==
    ASSUME NEW ts \in Seq(Token), LeafTypes(ts),
           NEW inner \in [Positions -> Results]
    PROVE  AndTurn(ts, inner) \in [Results -> Results]
<1>1. ASSUME NEW left \in Results PROVE AndTurned(ts, inner, left) \in Results
  <2> DEFINE right == AndRight(ts, inner, left)
  <2>1. right \in Results
    BY AndRightTypes
  <2>2. left.docs \subseteq Nat /\ right.docs \subseteq Nat /\ right.pos \in Nat
    BY <2>1 DEF Results
  <2> HIDE DEF right
  <2>3. AndFound(ts, left, right) \subseteq Nat
    BY <2>2 DEF AndFound, NotResult, AndResult
  <2>4. Value(AndFound(ts, left, right), right.pos) \in Results /\ Failed \in Results
    BY <2>2, <2>3, ValueTypes
  <2> QED
    BY <2>4 DEF AndTurned, right
<1> QED
  BY <1>1, AndTurnIs

LEMMA AndTypes ==
    ASSUME NEW ts \in Seq(Token), LeafTypes(ts),
           NEW inner \in [Positions -> Results], NEW pos \in Positions
    PROVE  ParseAnd(ts, inner, pos) \in Results
<1> DEFINE turn == AndTurn(ts, inner)
           first == ParsePrimary(ts, inner, pos)
           n == Len(ts)
<1>1. turn \in [Results -> Results] /\ first \in Results /\ n \in Nat /\ n \in 0 .. n
  BY AndTurnTypes, PrimaryTypes
<1>2. ParseAnd(ts, inner, pos) = Loop(turn, first, n)
  BY DEF ParseAnd
<1> HIDE DEF turn, first, n
<1>3. PICK h : IsRun(h, turn, first, n) /\ Loop(turn, first, n) = h[n]
  BY <1>1, LoopRuns
<1>4. h[n] \in Results
  BY <1>1, <1>3, LoopTypes
<1> QED
  BY <1>2, <1>3, <1>4

LEMMA OrTurnTypes ==
    ASSUME NEW ts \in Seq(Token), LeafTypes(ts),
           NEW inner \in [Positions -> Results]
    PROVE  OrTurn(ts, inner) \in [Results -> Results]
<1>1. ASSUME NEW left \in Results PROVE OrTurned(ts, inner, left) \in Results
  <2> DEFINE right == ParseAnd(ts, inner, left.pos + 1)
  <2>1. left.docs \subseteq Nat /\ left.pos + 1 \in Positions
    BY DEF Results, Positions
  <2>2. right \in Results
    BY <2>1, AndTypes
  <2>3. right.docs \subseteq Nat /\ right.pos \in Nat
    BY <2>2 DEF Results
  <2> HIDE DEF right
  <2>4. OrResult(left.docs, right.docs) \subseteq Nat
    BY <2>1, <2>3 DEF OrResult
  <2>5. Value(OrResult(left.docs, right.docs), right.pos) \in Results /\ Failed \in Results
    BY <2>3, <2>4, ValueTypes
  <2> QED
    BY <2>5 DEF OrTurned, right
<1> QED
  BY <1>1, OrTurnIs

LEMMA OrTypes ==
    ASSUME NEW ts \in Seq(Token), LeafTypes(ts),
           NEW inner \in [Positions -> Results], NEW pos \in Positions
    PROVE  ParseOr(ts, inner, pos) \in Results
<1> DEFINE turn == OrTurn(ts, inner)
           first == ParseAnd(ts, inner, pos)
           n == Len(ts)
<1>1. turn \in [Results -> Results] /\ first \in Results /\ n \in Nat /\ n \in 0 .. n
  BY OrTurnTypes, AndTypes
<1>2. ParseOr(ts, inner, pos) = Loop(turn, first, n)
  BY DEF ParseOr
<1> HIDE DEF turn, first, n
<1>3. PICK h : IsRun(h, turn, first, n) /\ Loop(turn, first, n) = h[n]
  BY <1>1, LoopRuns
<1>4. h[n] \in Results
  BY <1>1, <1>3, LoopTypes
<1> QED
  BY <1>2, <1>3, <1>4

\* The levels of the parser of ts.
AreLevels(ts, p) == \A d \in 0 .. Len(ts) : p[d] = Level(ts, p, d)

LEMMA LevelTypes ==
    ASSUME NEW ts \in Seq(Token), LeafTypes(ts), NEW p, AreLevels(ts, p)
    PROVE  \A d \in 0 .. Len(ts) : p[d] \in [Positions -> Results]
<1> DEFINE n == Len(ts)
           G == {d \in 0 .. n : p[d] \in [Positions -> Results]}
<1>1. n \in Nat
  OBVIOUS
<1>2. 0 \in G
  <2>1. 0 \in 0 .. n
    OBVIOUS
  <2>2. p[0] = Level(ts, p, 0)
    BY <2>1 DEF AreLevels
  <2>3. Failed \in Results
    BY DEF Failed, Results
  <2> QED
    BY <2>1, <2>2, <2>3 DEF Level
<1>3. ASSUME NEW d \in 0 .. n, d \in G, d < n PROVE d + 1 \in G
  <2>1. d + 1 \in 0 .. n /\ d + 1 # 0 /\ d + 1 - 1 = d
    BY <1>3
  <2>2. p[d + 1] = Level(ts, p, d + 1)
    BY <2>1 DEF AreLevels
  <2>3. p[d + 1] = [pos \in Positions |-> ParseOr(ts, p[d], pos)]
    BY <2>1, <2>2 DEF Level
  <2>4. \A pos \in Positions : ParseOr(ts, p[d], pos) \in Results
    BY <1>3, OrTypes
  <2> QED
    BY <2>1, <2>3, <2>4
<1> HIDE DEF G
<1>4. \A d \in 0 .. n : d \in G
  BY <1>1, <1>2, <1>3, FromZero
<1> QED
  BY <1>4 DEF G

-----------------------------------------------------------------------------
(* The depth of the parentheses.                                           *)

LEMMA CountStep ==
    ASSUME NEW ts, NEW c \in Nat, NEW kind
    PROVE  /\ Count(ts, c, kind) \in Nat
           /\ Count(ts, c + 1, kind) =
                 Count(ts, c, kind) + (IF ts[c + 1].kind = kind THEN 1 ELSE 0)
<1> DEFINE S == {i \in 1 .. c : ts[i].kind = kind}
           T == {i \in 1 .. c + 1 : ts[i].kind = kind}
<1>1. IsFiniteSet(1 .. c)
  BY FS_Interval
<1>2. IsFiniteSet(S) /\ S \subseteq 1 .. c
  BY <1>1, FS_Subset
<1>3. 1 .. c + 1 = (1 .. c) \cup {c + 1} /\ c + 1 \notin 1 .. c
  OBVIOUS
<1>4. T = IF ts[c + 1].kind = kind THEN S \cup {c + 1} ELSE S
  BY <1>3
<1>5. c + 1 \notin S
  BY <1>3
<1>6. Count(ts, c, kind) = Cardinality(S) /\ Count(ts, c + 1, kind) = Cardinality(T)
  BY DEF Count
<1> HIDE DEF S, T
<1>7. Cardinality(S) \in Nat
  BY <1>2, FS_CardinalityType
<1>8. Cardinality(S \cup {c + 1}) = Cardinality(S) + 1
  BY <1>2, <1>5, FS_AddElement
<1> QED
  BY <1>4, <1>6, <1>7, <1>8

DepthStep(ts, c) ==
    /\ Depth(ts, c) \in Int /\ Depth(ts, c - 1) \in Int
    /\ ts[c].kind = "(" => Depth(ts, c) = Depth(ts, c - 1) + 1
    /\ ts[c].kind = ")" => Depth(ts, c) = Depth(ts, c - 1) - 1
    /\ ts[c].kind \notin {"(", ")"} => Depth(ts, c) = Depth(ts, c - 1)

LEMMA DepthSteps ==
    ASSUME NEW ts, NEW c \in Nat, c > 0
    PROVE  DepthStep(ts, c)
<1> DEFINE b == c - 1
           in == Count(ts, b, "(")
           out == Count(ts, b, ")")
<1>1. b \in Nat /\ b + 1 = c
  OBVIOUS
<1>2. in \in Nat /\ out \in Nat
  BY <1>1, CountStep
<1>3. Count(ts, c, "(") = in + (IF ts[c].kind = "(" THEN 1 ELSE 0)
  BY <1>1, CountStep
<1>4. Count(ts, c, ")") = out + (IF ts[c].kind = ")" THEN 1 ELSE 0)
  BY <1>1, CountStep
<1>5. Depth(ts, c - 1) = in - out
  BY DEF Depth
<1>6. Depth(ts, c) = Count(ts, c, "(") - Count(ts, c, ")")
  BY DEF Depth
<1> HIDE DEF in, out, b
<1>7. CASE ts[c].kind = "("
  BY <1>2, <1>3, <1>4, <1>5, <1>6, <1>7 DEF DepthStep
<1>8. CASE ts[c].kind = ")"
  BY <1>2, <1>3, <1>4, <1>5, <1>6, <1>8 DEF DepthStep
<1>9. CASE ts[c].kind \notin {"(", ")"}
  BY <1>2, <1>3, <1>4, <1>5, <1>6, <1>9 DEF DepthStep
<1> QED
  BY <1>7, <1>8, <1>9

-----------------------------------------------------------------------------
(* The meanings of the parts of a line.                                    *)

Parts(ts) == (1 .. Len(ts) + 1) \X (0 .. Len(ts))

\* The last cut of a part.
LastCut(ts, i, j, op, c) ==
    /\ c \in i .. j /\ ts[c].kind = op /\ Depth(ts, c) = Depth(ts, i - 1)
    /\ LastOf(Cuts(ts, i, j, op)) = c
    /\ \A d \in Cuts(ts, i, j, op) : d <= c

LEMMA LastCutIs ==
    ASSUME NEW ts, NEW i \in Nat, NEW j \in Nat, NEW op, Cuts(ts, i, j, op) # {}
    PROVE  \E c : LastCut(ts, i, j, op, c)
<1> DEFINE S == Cuts(ts, i, j, op)
           D == {j - c : c \in S}
<1>1. S \subseteq i .. j
  BY DEF Cuts
<1>2. D \subseteq Nat /\ D # {}
  <2>1. \A c \in S : j - c \in Nat
    BY <1>1
  <2>2. S # {}
    OBVIOUS
  <2> HIDE DEF S
  <2> QED
    BY <2>1, <2>2
<1>3. PICK x \in D : \A y \in D : x <= y
  <2> HIDE DEF D
  <2> QED
    BY <1>2, NatMin
<1>4. PICK c \in S : x = j - c
  OBVIOUS
<1>5. \A d \in S : d <= c
  <2> SUFFICES ASSUME NEW d \in S PROVE d <= c
    OBVIOUS
  <2>1. j - d \in D
    OBVIOUS
  <2>2. c \in Int /\ d \in Int
    BY <1>1
  <2> HIDE DEF S, D
  <2>3. j - c <= j - d
    BY <1>3, <1>4, <2>1
  <2> QED
    BY <2>2, <2>3
<1> DEFINE l == LastOf(S)
<1>6. l \in S /\ \A d \in S : d <= l
  <2> HIDE DEF S
  <2> QED
    BY <1>5 DEF LastOf
<1>7. l = c
  <2>1. l <= c /\ c <= l /\ l \in Int /\ c \in Int
    BY <1>1, <1>5, <1>6
  <2> HIDE DEF l
  <2> QED
    BY <2>1
<1> QED
  BY <1>4, <1>5, <1>7 DEF LastCut, Cuts

\* The four ways in which a part of a line has its meaning.
Cut(ts, m, i, j) ==
    \/ \E c : /\ LastCut(ts, i, j, "OR", c)
              /\ m[<<i, j>>] = Both(m[<<i, c - 1>>], m[<<c + 1, j>>], OrResult)
    \/ /\ Cuts(ts, i, j, "OR") = {}
       /\ \E c : /\ LastCut(ts, i, j, "AND", c)
                 /\ c < j /\ ts[c + 1].kind = "NOT"
                 /\ m[<<i, j>>] = Both(m[<<i, c - 1>>], m[<<c + 2, j>>], NotResult)
    \/ /\ Cuts(ts, i, j, "OR") = {}
       /\ \E c : /\ LastCut(ts, i, j, "AND", c)
                 /\ c < j => ts[c + 1].kind # "NOT"
                 /\ m[<<i, j>>] = Both(m[<<i, c - 1>>], m[<<c + 1, j>>], AndResult)

Whole(ts, leaf, m, i, j) ==
    /\ Cuts(ts, i, j, "OR") = {} /\ Cuts(ts, i, j, "AND") = {}
    /\ m[<<i, j>>] = IF i < j /\ ts[i].kind = "(" /\ ts[j].kind = ")"
                     THEN m[<<i + 1, j - 1>>]
                     ELSE IF i = j THEN leaf[i] ELSE NoMeaning

LEMMA MeaningCases ==
    ASSUME NEW ts, NEW leaf, NEW m, NEW i \in Nat, NEW j \in Nat,
           m[<<i, j>>] = MeaningOf(ts, leaf, m, i, j)
    PROVE  Cut(ts, m, i, j) \/ Whole(ts, leaf, m, i, j)
<1> DEFINE ors == Cuts(ts, i, j, "OR")
           ands == Cuts(ts, i, j, "AND")
           and == LastOf(ands)
           or == LastOf(ors)
           v == MeaningOf(ts, leaf, m, i, j)
<1>1. CASE ors # {}
  <2>1. PICK c : LastCut(ts, i, j, "OR", c)
    BY <1>1, LastCutIs
  <2>2. or = c
    BY <2>1 DEF LastCut
  <2>3. v = Both(m[<<i, or - 1>>], m[<<or + 1, j>>], OrResult)
    BY <1>1, Zenon DEF MeaningOf
  <2> QED
    BY <2>1, <2>2, <2>3 DEF Cut
<1>2. CASE ors = {} /\ ands # {}
  <2>1. PICK c : LastCut(ts, i, j, "AND", c)
    BY <1>2, LastCutIs
  <2>2. and = c
    BY <2>1 DEF LastCut
  <2>3. CASE and < j /\ ts[and + 1].kind = "NOT"
    <3>1. v = Both(m[<<i, and - 1>>], m[<<and + 2, j>>], NotResult)
      BY <1>2, <2>3, Zenon DEF MeaningOf
    <3> QED
      BY <1>2, <2>1, <2>2, <2>3, <3>1 DEF Cut
  <2>4. CASE ~ (and < j /\ ts[and + 1].kind = "NOT")
    <3>1. v = Both(m[<<i, and - 1>>], m[<<and + 1, j>>], AndResult)
      BY <1>2, <2>4, Zenon DEF MeaningOf
    <3> QED
      BY <1>2, <2>1, <2>2, <2>4, <3>1 DEF Cut
  <2> QED
    BY <2>3, <2>4
<1>3. CASE ors = {} /\ ands = {}
  <2>1. v = IF i < j /\ ts[i].kind = "(" /\ ts[j].kind = ")"
            THEN m[<<i + 1, j - 1>>]
            ELSE IF i = j THEN leaf[i] ELSE NoMeaning
    BY <1>3, Zenon DEF MeaningOf
  <2> QED
    BY <1>3, <2>1, Zenon DEF Whole
<1> QED
  BY <1>1, <1>2, <1>3

\* Shorter parts are all that the meaning of a part depends on.
Alike(ts, f, g, z) ==
    \A a \in 1 .. Len(ts) + 1, b \in 0 .. Len(ts) :
        b - a < z => f[<<a, b>>] = g[<<a, b>>]

LEMMA MeaningLocal ==
    ASSUME NEW ts, NEW leaf, NEW f, NEW g, Len(ts) \in Nat,
           NEW i \in 1 .. Len(ts) + 1, NEW j \in 0 .. Len(ts),
           Alike(ts, f, g, j - i)
    PROVE  MeaningOf(ts, leaf, f, i, j) = MeaningOf(ts, leaf, g, i, j)
<1> DEFINE n == Len(ts)
           ors == Cuts(ts, i, j, "OR")
           ands == Cuts(ts, i, j, "AND")
           and == LastOf(ands)
           or == LastOf(ors)
           V(m) == MeaningOf(ts, leaf, m, i, j)
<1>1. ASSUME NEW c \in i .. j
      PROVE  /\ f[<<i, c - 1>>] = g[<<i, c - 1>>]
             /\ f[<<c + 1, j>>] = g[<<c + 1, j>>]
             /\ c < j => f[<<c + 2, j>>] = g[<<c + 2, j>>]
  <2>1. c - 1 \in 0 .. n /\ c - 1 - i < j - i /\ c + 1 \in 1 .. n + 1 /\ j - (c + 1) < j - i
    OBVIOUS
  <2>2. c < j => c + 2 \in 1 .. n + 1 /\ j - (c + 2) < j - i
    OBVIOUS
  <2> QED
    BY <2>1, <2>2 DEF Alike
<1>2. i < j => f[<<i + 1, j - 1>>] = g[<<i + 1, j - 1>>]
  <2>1. i < j => i + 1 \in 1 .. n + 1 /\ j - 1 \in 0 .. n /\ j - 1 - (i + 1) < j - i
    OBVIOUS
  <2> QED
    BY <2>1 DEF Alike
<1>3. i \in Nat /\ j \in Nat
  OBVIOUS
<1>4. CASE ors # {}
  <2>1. or \in i .. j
    <3>1. PICK c : LastCut(ts, i, j, "OR", c)
      BY <1>3, <1>4, LastCutIs
    <3> QED
      BY <3>1 DEF LastCut
  <2>2. \A m : V(m) = Both(m[<<i, or - 1>>], m[<<or + 1, j>>], OrResult)
    BY <1>4, Zenon DEF MeaningOf
  <2> HIDE DEF or, V
  <2> QED
    BY <1>1, <2>1, <2>2 DEF V
<1>5. CASE ors = {} /\ ands # {}
  <2>1. and \in i .. j
    <3>1. PICK c : LastCut(ts, i, j, "AND", c)
      BY <1>3, <1>5, LastCutIs
    <3> QED
      BY <3>1 DEF LastCut
  <2>2. CASE and < j /\ ts[and + 1].kind = "NOT"
    <3>1. \A m : V(m) = Both(m[<<i, and - 1>>], m[<<and + 2, j>>], NotResult)
      BY <1>5, <2>2, Zenon DEF MeaningOf
    <3> HIDE DEF and, V
    <3> QED
      BY <1>1, <2>1, <2>2, <3>1 DEF V
  <2>3. CASE ~ (and < j /\ ts[and + 1].kind = "NOT")
    <3>1. \A m : V(m) = Both(m[<<i, and - 1>>], m[<<and + 1, j>>], AndResult)
      BY <1>5, <2>3, Zenon DEF MeaningOf
    <3> HIDE DEF and, V
    <3> QED
      BY <1>1, <2>1, <3>1 DEF V
  <2> QED
    BY <2>2, <2>3
<1>6. CASE ors = {} /\ ands = {}
  <2>1. \A m : V(m) = IF i < j /\ ts[i].kind = "(" /\ ts[j].kind = ")"
                      THEN m[<<i + 1, j - 1>>]
                      ELSE IF i = j THEN leaf[i] ELSE NoMeaning
    BY <1>6, Zenon DEF MeaningOf
  <2>2. V(f) = V(g)
    <3> HIDE DEF V
    <3>1. CASE i < j
      BY <1>2, <2>1, <3>1
    <3>2. CASE ~ (i < j)
      BY <2>1, <3>2
    <3> QED
      BY <3>1, <3>2
  <2> QED
    BY <2>2
<1> QED
  BY <1>4, <1>5, <1>6

MeaningsStep(ts, leaf, m) ==
    [r \in Parts(ts) |-> MeaningOf(ts, leaf, m, r[1], r[2])]

LEMMA MeaningsStepAt ==
    ASSUME NEW ts, NEW leaf, NEW m, NEW i \in 1 .. Len(ts) + 1, NEW j \in 0 .. Len(ts)
    PROVE  MeaningsStep(ts, leaf, m)[<<i, j>>] = MeaningOf(ts, leaf, m, i, j)
<1>1. <<i, j>> \in Parts(ts) /\ <<i, j>>[1] = i /\ <<i, j>>[2] = j
  BY DEF Parts
<1> QED
  BY <1>1, Zenon DEF MeaningsStep

LEMMA MeaningsExist ==
    ASSUME NEW ts, NEW leaf, Len(ts) \in Nat
    PROVE  \E m : m = MeaningsStep(ts, leaf, m)
<1> DEFINE n == Len(ts)
           S(m) == MeaningsStep(ts, leaf, m)
           Upto(z, m) == Alike(ts, m, S(m), z - (n + 1))
           top == n + n + 1
           G == {z \in 0 .. top : \E m : Upto(z, m)}
<1>1. n \in Nat /\ top \in Nat
  OBVIOUS
<1>2. 0 \in G
  <2>1. \A a \in 1 .. n + 1, b \in 0 .. n : ~ (b - a < 0 - (n + 1))
    OBVIOUS
  <2>2. Upto(0, <<>>)
    BY <2>1 DEF Alike
  <2> HIDE DEF Upto
  <2> QED
    BY <1>1, <2>2
<1>3. ASSUME NEW z \in 0 .. top, z \in G, z < top PROVE z + 1 \in G
  <2>1. PICK m : Upto(z, m)
    BY <1>3
  <2> DEFINE g == S(m)
  <2>2. ASSUME NEW a \in 1 .. n + 1, NEW b \in 0 .. n, b - a < z + 1 - (n + 1)
        PROVE  g[<<a, b>>] = S(g)[<<a, b>>]
    <3>1. Alike(ts, m, g, b - a)
      <4>1. \A x : x < b - a /\ x \in Int => x < z - (n + 1)
        BY <2>2
      <4> QED
        BY <2>1, <4>1 DEF Alike
    <3>2. MeaningOf(ts, leaf, m, a, b) = MeaningOf(ts, leaf, g, a, b)
      <4> HIDE DEF g
      <4> QED
        BY <1>1, <3>1, MeaningLocal
    <3>3. g[<<a, b>>] = MeaningOf(ts, leaf, m, a, b)
      BY MeaningsStepAt
    <3> HIDE DEF g
    <3>4. S(g)[<<a, b>>] = MeaningOf(ts, leaf, g, a, b)
      BY MeaningsStepAt
    <3> QED
      BY <3>2, <3>3, <3>4
  <2> HIDE DEF g
  <2>3. Upto(z + 1, g)
    BY <2>2 DEF Alike
  <2> HIDE DEF Upto
  <2>4. z + 1 \in 0 .. top
    BY <1>3
  <2> QED
    BY <2>3, <2>4
<1>4. top \in G
  <2>1. top \in 0 .. top
    BY <1>1
  <2> HIDE DEF G, top
  <2> QED
    BY <1>1, <1>2, <1>3, <2>1, FromZero
<1>5. PICK m : Upto(top, m)
  BY <1>4
<1> DEFINE g == S(m)
<1>6. ASSUME NEW a \in 1 .. n + 1, NEW b \in 0 .. n
      PROVE  m[<<a, b>>] = g[<<a, b>>]
  <2>1. b - a < top - (n + 1)
    OBVIOUS
  <2> QED
    BY <1>5, <2>1 DEF Alike
<1>7. ASSUME NEW a \in 1 .. n + 1, NEW b \in 0 .. n
      PROVE  MeaningOf(ts, leaf, m, a, b) = MeaningOf(ts, leaf, g, a, b)
  <2> HIDE DEF g
  <2>1. Alike(ts, m, g, b - a)
    BY <1>6 DEF Alike
  <2> QED
    BY <1>1, <2>1, MeaningLocal
<1>8. g = [r \in Parts(ts) |-> MeaningOf(ts, leaf, m, r[1], r[2])]
  BY DEF MeaningsStep
<1> HIDE DEF g
<1>9. \A r \in Parts(ts) :
         MeaningOf(ts, leaf, m, r[1], r[2]) = MeaningOf(ts, leaf, g, r[1], r[2])
  <2>1. \A r \in Parts(ts) : r[1] \in 1 .. n + 1 /\ r[2] \in 0 .. n
    BY DEF Parts
  <2> QED
    BY <1>7, <2>1
<1>10. g = S(g)
  BY <1>8, <1>9, Zenon DEF MeaningsStep
<1> QED
  BY <1>10

\* Each part has the meaning that the meanings of its parts give it.
AreMeanings(ts, leaf, m) ==
    \A i \in 1 .. Len(ts) + 1, j \in 0 .. Len(ts) :
        Cut(ts, m, i, j) \/ Whole(ts, leaf, m, i, j)

LEMMA MeaningsAre ==
    ASSUME NEW ts, NEW leaf, Len(ts) \in Nat
    PROVE  AreMeanings(ts, leaf, Meanings(ts, leaf))
<1> DEFINE m == CHOOSE m : m = MeaningsStep(ts, leaf, m)
<1>1. Meanings(ts, leaf) = m
  BY DEF Meanings, MeaningsStep, Parts
<1>2. m = MeaningsStep(ts, leaf, m)
  BY MeaningsExist, Zenon
<1> HIDE DEF m
<1>3. ASSUME NEW i \in 1 .. Len(ts) + 1, NEW j \in 0 .. Len(ts)
      PROVE  Cut(ts, m, i, j) \/ Whole(ts, leaf, m, i, j)
  <2>1. m[<<i, j>>] = MeaningOf(ts, leaf, m, i, j)
    BY <1>2, MeaningsStepAt
  <2>2. i \in Nat /\ j \in Nat
    OBVIOUS
  <2> QED
    BY <2>1, <2>2, MeaningCases
<1> QED
  BY <1>1, <1>3 DEF AreMeanings

-----------------------------------------------------------------------------
(* In a part with a meaning the parentheses are balanced.                  *)

Balanced(ts, i, j) ==
    /\ Depth(ts, j) = Depth(ts, i - 1)
    /\ \A c \in i .. j : Depth(ts, i - 1) <= Depth(ts, c)

Well(ts, m, i, j) ==
    /\ m[<<i, j>>].ok \in BOOLEAN
    /\ m[<<i, j>>].ok => i <= j /\ Balanced(ts, i, j)

LeavesOf(ts, leaf) ==
    \A i \in 1 .. Len(ts) :
        leaf[i].ok \in BOOLEAN /\ (leaf[i].ok <=> Simple(ts[i]))

LEMMA DepthTypes ==
    ASSUME NEW ts, NEW c \in Nat
    PROVE  Depth(ts, c) \in Int
<1>1. Count(ts, c, "(") \in Nat
  BY CountStep
<1>2. Count(ts, c, ")") \in Nat
  BY CountStep
<1> QED
  BY <1>1, <1>2 DEF Depth

\* An operator, or two, between two parts that are balanced.
LEMMA BalancedJoin ==
    ASSUME NEW ts, NEW i \in Nat, NEW c \in Nat, NEW e \in Nat, NEW j \in Nat,
           i > 0, i < c, c < e, e <= j,
           Balanced(ts, i, c - 1), Balanced(ts, e, j),
           \A x \in c .. e - 1 : Depth(ts, x) = Depth(ts, i - 1)
    PROVE  Balanced(ts, i, j)
<1> DEFINE d == Depth(ts, i - 1)
<1>1. Depth(ts, e - 1) = d
  BY DEF Balanced
<1>2. Depth(ts, j) = d
  BY <1>1 DEF Balanced
<1>3. d \in Int
  BY DepthTypes
<1>4. ASSUME NEW x \in i .. j PROVE d <= Depth(ts, x)
  <2>1. x \in i .. c - 1 \/ x \in c .. e - 1 \/ x \in e .. j
    OBVIOUS
  <2>2. x \in i .. c - 1 => d <= Depth(ts, x)
    BY DEF Balanced
  <2>3. x \in c .. e - 1 => d <= Depth(ts, x)
    BY <1>3
  <2>4. x \in e .. j => d <= Depth(ts, x)
    BY <1>1 DEF Balanced
  <2> QED
    BY <2>1, <2>2, <2>3, <2>4
<1> QED
  BY <1>2, <1>4 DEF Balanced

LEMMA WellStep ==
    ASSUME NEW ts \in Seq(Token), NEW leaf, NEW m, LeavesOf(ts, leaf),
           AreMeanings(ts, leaf, m),
           NEW i \in 1 .. Len(ts) + 1, NEW j \in 0 .. Len(ts),
           \A a \in 1 .. Len(ts) + 1, b \in 0 .. Len(ts) :
               b - a < j - i => Well(ts, m, a, b)
    PROVE  Well(ts, m, i, j)
<1> DEFINE n == Len(ts)
<1>1. n \in Nat
  OBVIOUS
<1>2. Cut(ts, m, i, j) \/ Whole(ts, leaf, m, i, j)
  BY DEF AreMeanings
<1>3. ASSUME NEW c, NEW op, LastCut(ts, i, j, op, c), op \in {"AND", "OR"}
      PROVE  /\ c \in i .. j /\ c - 1 \in 0 .. n /\ c + 1 \in 1 .. n + 1
             /\ Depth(ts, c) = Depth(ts, i - 1)
             /\ Well(ts, m, i, c - 1) /\ Well(ts, m, c + 1, j)
             /\ c < j => c + 2 \in 1 .. n + 1 /\ Well(ts, m, c + 2, j)
  <2>1. c \in i .. j /\ Depth(ts, c) = Depth(ts, i - 1)
    BY <1>3 DEF LastCut
  <2>2. /\ c - 1 \in 0 .. n /\ c - 1 - i < j - i
        /\ c + 1 \in 1 .. n + 1 /\ j - (c + 1) < j - i
        /\ c < j => c + 2 \in 1 .. n + 1 /\ j - (c + 2) < j - i
    BY <2>1
  <2> QED
    BY <2>1, <2>2
<1>4. ASSUME NEW c, NEW op, LastCut(ts, i, j, op, c), op \in {"AND", "OR"},
             m[<<i, c - 1>>].ok, m[<<c + 1, j>>].ok
      PROVE  i <= j /\ Balanced(ts, i, j)
  <2>1. /\ c \in i .. j /\ i <= c - 1 /\ c + 1 <= j
        /\ Balanced(ts, i, c - 1) /\ Balanced(ts, c + 1, j)
        /\ Depth(ts, c) = Depth(ts, i - 1)
    BY <1>3, <1>4 DEF Well
  <2>2. i < c /\ c < c + 1 /\ \A x \in c .. c + 1 - 1 : x = c
    BY <2>1
  <2> QED
    BY <2>1, <2>2, BalancedJoin
<1>5. CASE Cut(ts, m, i, j)
  <2>1. ASSUME NEW c, LastCut(ts, i, j, "OR", c),
               m[<<i, j>>] = Both(m[<<i, c - 1>>], m[<<c + 1, j>>], OrResult)
        PROVE  Well(ts, m, i, j)
    <3>1. m[<<i, j>>].ok = (m[<<i, c - 1>>].ok /\ m[<<c + 1, j>>].ok)
      BY <2>1 DEF Both
    <3> QED
      BY <1>4, <2>1, <3>1 DEF Well
  <2>2. ASSUME NEW c, LastCut(ts, i, j, "AND", c),
               m[<<i, j>>] = Both(m[<<i, c - 1>>], m[<<c + 1, j>>], AndResult)
        PROVE  Well(ts, m, i, j)
    <3>1. m[<<i, j>>].ok = (m[<<i, c - 1>>].ok /\ m[<<c + 1, j>>].ok)
      BY <2>2 DEF Both
    <3> QED
      BY <1>4, <2>2, <3>1 DEF Well
  <2>3. ASSUME NEW c, LastCut(ts, i, j, "AND", c), c < j, ts[c + 1].kind = "NOT",
               m[<<i, j>>] = Both(m[<<i, c - 1>>], m[<<c + 2, j>>], NotResult)
        PROVE  Well(ts, m, i, j)
    <3>1. m[<<i, j>>].ok = (m[<<i, c - 1>>].ok /\ m[<<c + 2, j>>].ok)
      BY <2>3 DEF Both
    <3>2. ASSUME m[<<i, c - 1>>].ok, m[<<c + 2, j>>].ok
          PROVE  i <= j /\ Balanced(ts, i, j)
      <4>1. /\ c \in i .. j /\ i <= c - 1 /\ c + 2 <= j
            /\ Balanced(ts, i, c - 1) /\ Balanced(ts, c + 2, j)
            /\ Depth(ts, c) = Depth(ts, i - 1)
        BY <1>3, <2>3, <3>2 DEF Well
      <4>2. c + 1 \in Nat /\ c + 1 > 0 /\ (c + 1) - 1 = c
        BY <4>1
      <4>3. DepthStep(ts, c + 1)
        BY <4>2, DepthSteps
      <4>4. Depth(ts, c + 1) = Depth(ts, c)
        <5>1. ts[c + 1].kind \notin {"(", ")"}
          BY <2>3
        <5>2. Depth(ts, c + 1) = Depth(ts, (c + 1) - 1)
          BY <4>3, <5>1, Zenon DEF DepthStep
        <5> QED
          BY <4>2, <5>2, Zenon
      <4>5. i < c /\ c < c + 2 /\ \A x \in c .. c + 2 - 1 : x = c \/ x = c + 1
        BY <4>1
      <4> QED
        BY <4>1, <4>4, <4>5, BalancedJoin
    <3> QED
      BY <3>1, <3>2 DEF Well
  <2> QED
    BY <1>5, <2>1, <2>2, <2>3 DEF Cut
<1>6. CASE Whole(ts, leaf, m, i, j)
  <2>1. CASE i < j /\ ts[i].kind = "(" /\ ts[j].kind = ")"
    <3>1. m[<<i, j>>] = m[<<i + 1, j - 1>>]
      BY <1>6, <2>1 DEF Whole
    <3>2. i + 1 \in 1 .. n + 1 /\ j - 1 \in 0 .. n /\ j - 1 - (i + 1) < j - i
      BY <2>1
    <3>3. Well(ts, m, i + 1, j - 1)
      BY <3>2
    <3>4. ASSUME m[<<i + 1, j - 1>>].ok PROVE i <= j /\ Balanced(ts, i, j)
      <4>1. Balanced(ts, i + 1, j - 1)
        BY <3>3, <3>4 DEF Well
      <4>2. DepthStep(ts, i) /\ DepthStep(ts, j)
        BY <2>1, DepthSteps
      <4>3. Depth(ts, i) = Depth(ts, i - 1) + 1 /\ Depth(ts, i - 1) \in Int
            /\ Depth(ts, j) = Depth(ts, j - 1) - 1
        BY <2>1, <4>2 DEF DepthStep
      <4>4. Depth(ts, j - 1) = Depth(ts, i)
            /\ \A c \in i + 1 .. j - 1 : Depth(ts, i) <= Depth(ts, c)
        BY <4>1 DEF Balanced
      <4>5. Depth(ts, j) = Depth(ts, i - 1)
        BY <4>3, <4>4
      <4>6. ASSUME NEW c \in i .. j PROVE Depth(ts, i - 1) <= Depth(ts, c)
        <5>1. c \in i + 1 .. j - 1 \/ c = i \/ c = j
          OBVIOUS
        <5>2. c \in i + 1 .. j - 1 => Depth(ts, c) \in Int
          BY DepthTypes
        <5> QED
          BY <4>3, <4>4, <4>5, <5>1, <5>2
      <4> QED
        BY <2>1, <4>5, <4>6 DEF Balanced
    <3> QED
      BY <3>1, <3>3, <3>4 DEF Well
  <2>2. CASE i = j
    <3>1. m[<<i, j>>] = leaf[i]
      BY <1>6, <2>2 DEF Whole
    <3>2. i \in 1 .. n
      BY <2>2
    <3>3. ASSUME leaf[i].ok PROVE Balanced(ts, i, j)
      <4>1. ts[i].kind \notin {"(", ")"}
        BY <3>2, <3>3 DEF LeavesOf, Simple
      <4>2. DepthStep(ts, i)
        BY <3>2, DepthSteps
      <4>3. Depth(ts, i) = Depth(ts, i - 1) /\ Depth(ts, i) \in Int
        BY <4>1, <4>2 DEF DepthStep
      <4> QED
        BY <2>2, <4>3 DEF Balanced
    <3> QED
      BY <2>2, <3>1, <3>2, <3>3 DEF Well, LeavesOf
  <2>3. CASE ~ (i < j /\ ts[i].kind = "(" /\ ts[j].kind = ")") /\ i # j
    <3>1. m[<<i, j>>] = NoMeaning
      BY <1>6, <2>3 DEF Whole
    <3> QED
      BY <3>1 DEF Well, NoMeaning
  <2> QED
    BY <2>1, <2>2, <2>3
<1> QED
  BY <1>2, <1>5, <1>6

LEMMA AllWell ==
    ASSUME NEW ts \in Seq(Token), NEW leaf, NEW m, LeavesOf(ts, leaf),
           AreMeanings(ts, leaf, m)
    PROVE  \A i \in 1 .. Len(ts) + 1, j \in 0 .. Len(ts) : Well(ts, m, i, j)
<1> DEFINE n == Len(ts)
           top == n + n + 1
           G == {z \in 0 .. top : \A a \in 1 .. n + 1, b \in 0 .. n :
                                     b - a < z - (n + 1) => Well(ts, m, a, b)}
<1>1. n \in Nat /\ top \in Nat
  OBVIOUS
<1>2. 0 \in G
  <2>1. \A a \in 1 .. n + 1, b \in 0 .. n : ~ (b - a < 0 - (n + 1))
    OBVIOUS
  <2> QED
    BY <1>1, <2>1
<1>3. ASSUME NEW z \in 0 .. top, z \in G, z < top PROVE z + 1 \in G
  <2>1. ASSUME NEW i \in 1 .. n + 1, NEW j \in 0 .. n, j - i < z + 1 - (n + 1)
        PROVE  Well(ts, m, i, j)
    <3>1. \A a \in 1 .. n + 1, b \in 0 .. n :
             b - a < j - i => b - a < z - (n + 1)
      BY <2>1
    <3>2. \A a \in 1 .. n + 1, b \in 0 .. n : b - a < j - i => Well(ts, m, a, b)
      BY <1>3, <3>1
    <3> QED
      BY <3>2, WellStep
  <2>2. z + 1 \in 0 .. top
    BY <1>3
  <2> QED
    BY <2>1, <2>2
<1>4. top \in G
  <2>1. top \in 0 .. top
    BY <1>1
  <2> HIDE DEF G, top
  <2> QED
    BY <1>1, <1>2, <1>3, <2>1, FromZero
<1>5. \A a \in 1 .. n + 1, b \in 0 .. n : b - a < top - (n + 1)
  OBVIOUS
<1> QED
  BY <1>4, <1>5

-----------------------------------------------------------------------------
(* What has a meaning is parsed.                                           *)

\* A call, or a turn of a loop, has taken the tokens up to position q.
ReadTo(r, q) == r.ok /\ r.pos = q

LEMMA CutsWithin ==
    ASSUME NEW ts, NEW i, NEW j, NEW a, NEW b, NEW op,
           Depth(ts, a - 1) = Depth(ts, i - 1), a .. b \subseteq i .. j
    PROVE  Cuts(ts, a, b, op) \subseteq Cuts(ts, i, j, op)
  BY DEF Cuts

LEMMA LastCutIn ==
    ASSUME NEW ts, NEW i, NEW j, NEW op, NEW c, LastCut(ts, i, j, op, c)
    PROVE  c \in Cuts(ts, i, j, op)
  BY DEF LastCut, Cuts

\* The loops come by the end of the part.
AndReaches(ts, inner, i, j) ==
    \A h : IsRun(h, AndTurn(ts, inner), ParsePrimary(ts, inner, i), Len(ts)) =>
        \E x \in 0 .. Len(ts) : x <= j - i /\ ReadTo(h[x], j + 1)
OrReaches(ts, inner, i, j) ==
    \A h : IsRun(h, OrTurn(ts, inner), ParseAnd(ts, inner, i), Len(ts)) =>
        \E x \in 0 .. Len(ts) : x <= j - i /\ ReadTo(h[x], j + 1)

LEMMA AndEnds ==
    ASSUME NEW ts \in Seq(Token), LeafTypes(ts),
           NEW inner \in [Positions -> Results], NEW i \in Positions,
           NEW j \in Nat, AndReaches(ts, inner, i, j), Peek(ts, j + 1) # "AND"
    PROVE  ReadTo(ParseAnd(ts, inner, i), j + 1)
<1> DEFINE turn == AndTurn(ts, inner)
           first == ParsePrimary(ts, inner, i)
           n == Len(ts)
<1>1. turn \in [Results -> Results] /\ first \in Results /\ n \in Nat
  BY AndTurnTypes, PrimaryTypes
<1>2. ParseAnd(ts, inner, i) = Loop(turn, first, n)
  BY DEF ParseAnd
<1>3. PICK h : IsRun(h, turn, first, n) /\ Loop(turn, first, n) = h[n]
  <2> HIDE DEF turn, first, n
  <2> QED
    BY <1>1, LoopRuns
<1>4. PICK x \in 0 .. n : ReadTo(h[x], j + 1)
  BY <1>3 DEF AndReaches
<1>5. h[x] \in Results
  <2> HIDE DEF turn, first, n
  <2> QED
    BY <1>1, <1>3, LoopTypes
<1>6. turn[h[x]] = h[x]
  BY <1>4, <1>5, AndTurnIs DEF AndTurned, ReadTo
<1>7. h[n] = h[x]
  <2>1. x \in 0 .. n
    OBVIOUS
  <2> HIDE DEF turn, first, n
  <2> QED
    <3>1. Stays(h, turn, n)
      BY <1>1, <1>3, LoopStays
    <3> QED
      BY <1>6, <2>1, <3>1, Zenon DEF Stays
<1> QED
  BY <1>2, <1>3, <1>4, <1>7

LEMMA OrEnds ==
    ASSUME NEW ts \in Seq(Token), LeafTypes(ts),
           NEW inner \in [Positions -> Results], NEW i \in Positions,
           NEW j \in Nat, OrReaches(ts, inner, i, j), Peek(ts, j + 1) # "OR"
    PROVE  ReadTo(ParseOr(ts, inner, i), j + 1)
<1> DEFINE turn == OrTurn(ts, inner)
           first == ParseAnd(ts, inner, i)
           n == Len(ts)
<1>1. turn \in [Results -> Results] /\ first \in Results /\ n \in Nat
  BY OrTurnTypes, AndTypes
<1>2. ParseOr(ts, inner, i) = Loop(turn, first, n)
  BY DEF ParseOr
<1>3. PICK h : IsRun(h, turn, first, n) /\ Loop(turn, first, n) = h[n]
  <2> HIDE DEF turn, first, n
  <2> QED
    BY <1>1, LoopRuns
<1>4. PICK x \in 0 .. n : ReadTo(h[x], j + 1)
  BY <1>3 DEF OrReaches
<1>5. h[x] \in Results
  <2> HIDE DEF turn, first, n
  <2> QED
    BY <1>1, <1>3, LoopTypes
<1>6. turn[h[x]] = h[x]
  BY <1>4, <1>5, OrTurnIs DEF OrTurned, ReadTo
<1>7. h[n] = h[x]
  <2>1. x \in 0 .. n
    OBVIOUS
  <2> HIDE DEF turn, first, n
  <2> QED
    <3>1. Stays(h, turn, n)
      BY <1>1, <1>3, LoopStays
    <3> QED
      BY <1>6, <2>1, <3>1, Zenon DEF Stays
<1> QED
  BY <1>2, <1>3, <1>4, <1>7

\* A part with a meaning and no cut is what parsePrimary takes.
PrimaryOf(ts, inner, m, i, j) ==
    m[<<i, j>>].ok /\ Cuts(ts, i, j, "OR") = {} /\ Cuts(ts, i, j, "AND") = {}
    => ReadTo(ParsePrimary(ts, inner, i), j + 1)
AndOf(ts, inner, m, i, j) ==
    m[<<i, j>>].ok /\ Cuts(ts, i, j, "OR") = {} => AndReaches(ts, inner, i, j)
OrOf(ts, inner, m, i, j) ==
    m[<<i, j>>].ok /\ Peek(ts, j + 1) # "AND" => OrReaches(ts, inner, i, j)

Parsed(ts, p, m, i, j) ==
    \A d \in 1 .. Len(ts) : j - i < d =>
        /\ PrimaryOf(ts, p[d - 1], m, i, j)
        /\ AndOf(ts, p[d - 1], m, i, j)
        /\ OrOf(ts, p[d - 1], m, i, j)

ShorterParsed(ts, p, m, i, j) ==
    \A a \in 1 .. Len(ts) + 1, b \in 0 .. Len(ts) :
        b - a < j - i => Parsed(ts, p, m, a, b)

\* What is given of a line, its parser and its meanings.
Line(ts, leaf, p, m) ==
    /\ ts \in Seq(Token) /\ LeafTypes(ts) /\ AreLevels(ts, p)
    /\ LeavesOf(ts, leaf) /\ AreMeanings(ts, leaf, m)

LEMMA ParsedPrimary ==
    ASSUME NEW ts, NEW leaf, NEW p, NEW m, Line(ts, leaf, p, m),
           NEW i \in 1 .. Len(ts) + 1, NEW j \in 0 .. Len(ts),
           NEW d \in 1 .. Len(ts), j - i < d, ShorterParsed(ts, p, m, i, j)
    PROVE  PrimaryOf(ts, p[d - 1], m, i, j)
<1> DEFINE n == Len(ts)
           inner == p[d - 1]
<1>1. n \in Nat /\ ts \in Seq(Token) /\ DOMAIN ts = 1 .. n
  BY DEF Line
<1> SUFFICES ASSUME m[<<i, j>>].ok, Cuts(ts, i, j, "OR") = {}, Cuts(ts, i, j, "AND") = {}
             PROVE  ReadTo(ParsePrimary(ts, inner, i), j + 1)
  BY DEF PrimaryOf
<1>2. Whole(ts, leaf, m, i, j)
  BY LastCutIn DEF Line, AreMeanings, Cut
<1>3. i \in Positions
  BY <1>1 DEF Positions
<1>4. PrimaryAt(ts, inner, i)
  BY <1>1, <1>3, PrimaryIs, Zenon
<1>5. CASE i < j /\ ts[i].kind = "(" /\ ts[j].kind = ")"
  <2> DEFINE e == d - 1
  <2>1. m[<<i + 1, j - 1>>].ok
    BY <1>2, <1>5 DEF Whole
  <2>2. /\ i + 1 \in 1 .. n + 1 /\ j - 1 \in 0 .. n /\ j - 1 - (i + 1) < j - i
        /\ e \in 1 .. n /\ e \in 0 .. n /\ e - 1 \in 0 .. n /\ j - 1 - (i + 1) < e
        /\ i \in 1 .. n /\ j - 1 + 1 = j
    BY <1>1, <1>5
  <2>3. OrOf(ts, p[e - 1], m, i + 1, j - 1)
    <3> HIDE DEF e
    <3> QED
      BY <2>2 DEF ShorterParsed, Parsed
  <2>4. Peek(ts, j) = ")"
    BY <1>5 DEF Peek
  <2>5. OrReaches(ts, p[e - 1], i + 1, j - 1)
    <3>1. (j - 1) + 1 = j
      BY <2>2
    <3>2. Peek(ts, (j - 1) + 1) # "AND"
      BY <2>4, <3>1
    <3> HIDE DEF e
    <3> QED
      BY <2>1, <2>3, <3>2 DEF OrOf
  <2>6. ReadTo(ParseOr(ts, p[e - 1], i + 1), j)
    <3>1. (j - 1) + 1 = j /\ j - 1 \in Nat /\ i + 1 \in Positions
      BY <2>2 DEF Positions
    <3>2. Peek(ts, (j - 1) + 1) # "OR"
      BY <2>4, <3>1
    <3>3. p[e - 1] \in [Positions -> Results] /\ LeafTypes(ts)
      BY <1>1, <2>2, LevelTypes DEF Line
    <3> HIDE DEF e
    <3>4. ReadTo(ParseOr(ts, p[e - 1], i + 1), (j - 1) + 1)
      BY <1>1, <2>5, <3>1, <3>2, <3>3, OrEnds
    <3> QED
      BY <3>1, <3>4
  <2>7. inner[i + 1] = ParseOr(ts, p[e - 1], i + 1)
    <3>1. p[e] = Level(ts, p, e)
      BY <2>2 DEF Line, AreLevels
    <3>2. i + 1 \in Positions /\ e # 0
      BY <2>2 DEF Positions
    <3> HIDE DEF e
    <3>3. p[e][i + 1] = ParseOr(ts, p[e - 1], i + 1)
      BY <3>1, <3>2 DEF Level
    <3> QED
      BY <3>3 DEF e
  <2>8. ParsePrimary(ts, inner, i) = Grouped(ts, inner[i + 1])
    BY <1>4, <1>5, <2>2 DEF PrimaryAt, Simple
  <2> HIDE DEF inner, e
  <2> QED
    BY <2>4, <2>6, <2>7, <2>8 DEF ReadTo, Grouped, Value
<1>6. CASE i = j
  <2>1. i \in 1 .. n /\ ~ (i < j)
    BY <1>6
  <2>2. leaf[i].ok
    BY <1>2, <1>6, <2>1 DEF Whole
  <2>3. Simple(ts[i])
    BY <2>1, <2>2 DEF Line, LeavesOf
  <2>4. ParsePrimary(ts, inner, i) = Value(Searched(ts[i]), i + 1)
    BY <1>4, <2>1, <2>3 DEF PrimaryAt, Simple
  <2> QED
    BY <1>6, <2>4 DEF ReadTo, Value
<1>7. CASE ~ (i < j /\ ts[i].kind = "(" /\ ts[j].kind = ")") /\ i # j
  BY <1>2, <1>7 DEF Whole, NoMeaning
<1> QED
  BY <1>5, <1>6, <1>7

\* The part after the last AND has no cut; the parts before and after it have
\* no OR if the whole has none.
LEMMA AfterLast ==
    ASSUME NEW ts, NEW i \in Nat, NEW j \in Nat, NEW op, NEW c \in i .. j,
           \A d \in Cuts(ts, i, j, op) : d <= c, NEW e \in Nat, c < e,
           Depth(ts, e - 1) = Depth(ts, i - 1)
    PROVE  Cuts(ts, e, j, op) = {}
<1>1. Cuts(ts, e, j, op) \subseteq Cuts(ts, i, j, op)
  <2>1. e .. j \subseteq i .. j
    OBVIOUS
  <2> QED
    BY <2>1, CutsWithin
<1>2. \A d \in Cuts(ts, e, j, op) : d \in e .. j
  BY DEF Cuts
<1>3. \A d \in Cuts(ts, e, j, op) : d <= c /\ e <= d /\ d \in Int
  BY <1>1, <1>2
<1> QED
  BY <1>3

BothFound(left, right, v) ==
    \/ v = Both(left, right, OrResult) \/ v = Both(left, right, AndResult)
    \/ v = Both(left, right, NotResult)

LEMMA BothOk ==
    ASSUME NEW left, NEW right, NEW v, BothFound(left, right, v)
    PROVE  v.ok <=> left.ok /\ right.ok
<1>1. v.ok = (left.ok /\ right.ok)
  BY DEF Both, BothFound
<1> QED
  BY <1>1, Zenon

\* A turn of the loop of parseAnd, from the end of a part to the end of the next.
LEMMA AndTurnReaches ==
    ASSUME NEW ts \in Seq(Token), NEW inner, NEW left \in Results, NEW c \in Nat,
           NEW q, ReadTo(left, c), Peek(ts, c) = "AND",
           ReadTo(ParsePrimary(ts, inner,
                       c + (IF Peek(ts, c + 1) = "NOT" THEN 2 ELSE 1)), q)
    PROVE  ReadTo(AndTurn(ts, inner)[left], q)
<1>1. AndTurn(ts, inner)[left] = AndTurned(ts, inner, left)
  BY AndTurnIs
<1>2. left.pos = c /\ left.ok
  BY DEF ReadTo
<1>3. AndRight(ts, inner, left) =
         ParsePrimary(ts, inner, c + (IF Peek(ts, c + 1) = "NOT" THEN 2 ELSE 1))
  BY <1>2, Zenon DEF AndRight
<1>4. ReadTo(AndRight(ts, inner, left), q)
  BY <1>3, Zenon
<1> QED
  BY <1>1, <1>2, <1>4 DEF AndTurned, ReadTo, Value

LEMMA ParsedAnd ==
    ASSUME NEW ts, NEW leaf, NEW p, NEW m, Line(ts, leaf, p, m),
           NEW i \in 1 .. Len(ts) + 1, NEW j \in 0 .. Len(ts),
           NEW d \in 1 .. Len(ts), j - i < d, ShorterParsed(ts, p, m, i, j),
           PrimaryOf(ts, p[d - 1], m, i, j)
    PROVE  AndOf(ts, p[d - 1], m, i, j)
<1> DEFINE n == Len(ts)
           inner == p[d - 1]
           turn == AndTurn(ts, inner)
           first == ParsePrimary(ts, inner, i)
<1>1. /\ n \in Nat /\ ts \in Seq(Token) /\ DOMAIN ts = 1 .. n /\ LeafTypes(ts)
      /\ \A a \in 1 .. n + 1, b \in 0 .. n : Well(ts, m, a, b)
  BY AllWell DEF Line
<1> SUFFICES ASSUME m[<<i, j>>].ok, Cuts(ts, i, j, "OR") = {},
                    NEW h, IsRun(h, turn, first, n)
             PROVE  \E x \in 0 .. n : x <= j - i /\ ReadTo(h[x], j + 1)
  BY DEF AndOf, AndReaches
<1>2. i <= j /\ i \in 1 .. n /\ i \in Nat /\ j \in Nat
  BY <1>1 DEF Well
<1>3. inner \in [Positions -> Results]
  <2>1. d - 1 \in 0 .. n
    OBVIOUS
  <2> QED
    BY <2>1, LevelTypes DEF Line
<1>4. \A x \in 0 .. n : h[x] \in Results
  <2>1. turn \in [Results -> Results]
    BY <1>1, <1>3, AndTurnTypes
  <2>2. first \in Results
    <3>1. i \in Positions
      BY <1>2 DEF Positions
    <3> QED
      BY <1>1, <1>3, <3>1, PrimaryTypes
  <2> HIDE DEF turn, first
  <2> QED
    BY <1>1, <2>1, <2>2, LoopTypes
<1>5. CASE Cuts(ts, i, j, "AND") = {}
  <2>1. ReadTo(first, j + 1)
    BY <1>5 DEF PrimaryOf
  <2>2. h[0] = first
    BY DEF IsRun
  <2>3. 0 \in 0 .. n /\ 0 <= j - i
    BY <1>1, <1>2
  <2> HIDE DEF first
  <2> QED
    BY <2>1, <2>2, <2>3
<1>6. ASSUME NEW c, LastCut(ts, i, j, "AND", c), NEW e \in Nat, c < e, e <= c + 2,
             m[<<i, c - 1>>].ok, m[<<e, j>>].ok, Depth(ts, e - 1) = Depth(ts, i - 1),
             e = c + (IF Peek(ts, c + 1) = "NOT" THEN 2 ELSE 1)
      PROVE  \E x \in 0 .. n : x <= j - i /\ ReadTo(h[x], j + 1)
  <2>1. c \in i .. j /\ ts[c].kind = "AND" /\ Depth(ts, c) = Depth(ts, i - 1)
        /\ \A y \in Cuts(ts, i, j, "AND") : y <= c
    BY <1>6 DEF LastCut
  <2>2. /\ c - 1 \in 0 .. n /\ c \in 1 .. n /\ c - 1 - i < j - i /\ c \in Nat
        /\ (c - 1) + 1 = c /\ c - 1 - i < d
    BY <1>1, <1>2, <2>1
  <2>3. e <= j /\ e \in 1 .. n + 1 /\ j - e < j - i /\ j - e < d
    <3>1. e \in 1 .. n + 1
      <4>1. CASE c = n
        <5>1. c + 1 > Len(ts)
          BY <1>1, <4>1
        <5>2. Peek(ts, c + 1) = ""
          BY <5>1 DEF Peek
        <5>3. e = c + 1
          BY <1>6, <5>2
        <5> QED
          BY <1>1, <4>1, <5>3
      <4>2. CASE c # n
        <5>1. n \in Nat /\ c \in 1 .. n /\ c \in Nat
          BY <1>1, <2>2
        <5>2. e \in Nat /\ c < e /\ e <= c + 2
          BY <1>6
        <5> HIDE DEF n
        <5> QED
          BY <4>2, <5>1, <5>2
      <4> QED
        BY <4>1, <4>2
    <3>2. e <= j
      BY <1>1, <1>6, <3>1 DEF Well
    <3> QED
      BY <1>1, <1>2, <1>6, <2>1, <3>1, <3>2
  <2>4. Peek(ts, c) = "AND"
    BY <1>1, <2>1, <2>2 DEF Peek
  <2>5. AndReaches(ts, inner, i, c - 1)
    <3>1. Cuts(ts, i, c - 1, "OR") = {}
      <4>1. i .. c - 1 \subseteq i .. j
        BY <1>2, <2>1
      <4> QED
        BY <4>1, CutsWithin
    <3>2. AndOf(ts, inner, m, i, c - 1)
      BY <2>2 DEF ShorterParsed, Parsed
    <3> QED
      BY <1>6, <3>1, <3>2 DEF AndOf
  <2>6. PICK x \in 0 .. n : x <= c - 1 - i /\ ReadTo(h[x], c)
    <3>1. \E x \in 0 .. n : x <= (c - 1) - i /\ ReadTo(h[x], (c - 1) + 1)
      BY <2>5 DEF AndReaches
    <3> QED
      BY <2>2, <3>1
  <2>7. ReadTo(ParsePrimary(ts, inner, e), j + 1)
    <3>1. Cuts(ts, e, j, "AND") = {}
      BY <1>2, <1>6, <2>1, AfterLast
    <3>2. Cuts(ts, e, j, "OR") = {}
      <4>1. c < e /\ e \in Nat
        BY <1>6
      <4>2. i <= c /\ i \in Nat /\ c \in Nat /\ j \in Nat
        BY <1>2, <2>1
      <4>3. e .. j \subseteq i .. j
        BY <4>1, <4>2
      <4> QED
        BY <1>6, <4>3, CutsWithin
    <3>3. PrimaryOf(ts, inner, m, e, j)
      BY <2>3 DEF ShorterParsed, Parsed
    <3> QED
      BY <1>6, <3>1, <3>2, <3>3 DEF PrimaryOf
  <2>8. ReadTo(turn[h[x]], j + 1)
    <3>1. h[x] \in Results
      BY <1>4
    <3>2. ReadTo(ParsePrimary(ts, inner,
                      c + (IF Peek(ts, c + 1) = "NOT" THEN 2 ELSE 1)), j + 1)
      BY <1>6, <2>7, Zenon
    <3> HIDE DEF inner
    <3> QED
      BY <1>1, <2>2, <2>4, <2>6, <3>1, <3>2, AndTurnReaches
  <2>9. x + 1 \in 1 .. n /\ x + 1 <= j - i /\ (x + 1) - 1 = x /\ x + 1 \in 0 .. n
    <3>1. n \in Nat /\ i \in Nat /\ j \in 0 .. n /\ c \in i .. j
      BY <1>1, <1>2, <2>1
    <3>2. x \in 0 .. n /\ x <= c - 1 - i
      BY <2>6
    <3> HIDE DEF n
    <3> QED
      BY <3>1, <3>2
  <2>10. h[x + 1] = turn[h[x]]
    <3> HIDE DEF turn, first
    <3>1. h[x + 1] = turn[h[(x + 1) - 1]]
      BY <2>9 DEF IsRun
    <3> QED
      BY <2>9, <3>1
  <2> QED
    BY <2>8, <2>9, <2>10
<1>7. CASE Cut(ts, m, i, j)
  <2>1. ASSUME NEW c, LastCut(ts, i, j, "OR", c) PROVE FALSE
    BY <2>1, LastCutIn
  <2>2. ASSUME NEW c, LastCut(ts, i, j, "AND", c), c < j, ts[c + 1].kind = "NOT",
               m[<<i, j>>] = Both(m[<<i, c - 1>>], m[<<c + 2, j>>], NotResult)
        PROVE  \E x \in 0 .. n : x <= j - i /\ ReadTo(h[x], j + 1)
    <3>1. m[<<i, c - 1>>].ok /\ m[<<c + 2, j>>].ok
      <4>1. BothFound(m[<<i, c - 1>>], m[<<c + 2, j>>], m[<<i, j>>])
        BY <2>2, Zenon DEF BothFound
      <4> QED
        BY <4>1, BothOk, Zenon
    <3>2. c \in i .. j /\ Depth(ts, c) = Depth(ts, i - 1) /\ c \in Nat
      BY <1>2, <2>2 DEF LastCut
    <3>3. Peek(ts, c + 1) = "NOT"
      <4>1. ~ (c + 1 > n)
        BY <2>2, <3>2
      <4> QED
        BY <2>2, <4>1 DEF Peek
    <3>4. DepthStep(ts, c + 1)
      BY <3>2, DepthSteps
    <3>5. Depth(ts, c + 1) = Depth(ts, i - 1)
      <4>1. ts[c + 1].kind \notin {"(", ")"}
        BY <2>2
      <4>2. Depth(ts, c + 1) = Depth(ts, (c + 1) - 1)
        BY <3>4, <4>1, Zenon DEF DepthStep
      <4>3. (c + 1) - 1 = c
        BY <3>2
      <4> QED
        BY <3>2, <4>2, <4>3
    <3> DEFINE e == c + 2
    <3>6. e \in Nat /\ c < e /\ e <= c + 2 /\ e - 1 = c + 1
          /\ e = c + (IF Peek(ts, c + 1) = "NOT" THEN 2 ELSE 1)
      BY <3>2, <3>3
    <3>7. Depth(ts, e - 1) = Depth(ts, i - 1) /\ m[<<e, j>>].ok
      BY <3>1, <3>5, <3>6
    <3> HIDE DEF e
    <3> QED
      BY <1>6, <2>2, <3>1, <3>6, <3>7
  <2>3. ASSUME NEW c, LastCut(ts, i, j, "AND", c), c < j => ts[c + 1].kind # "NOT",
               m[<<i, j>>] = Both(m[<<i, c - 1>>], m[<<c + 1, j>>], AndResult)
        PROVE  \E x \in 0 .. n : x <= j - i /\ ReadTo(h[x], j + 1)
    <3>1. m[<<i, c - 1>>].ok /\ m[<<c + 1, j>>].ok
      <4>1. BothFound(m[<<i, c - 1>>], m[<<c + 1, j>>], m[<<i, j>>])
        BY <2>3, Zenon DEF BothFound
      <4> QED
        BY <4>1, BothOk, Zenon
    <3>2. c \in i .. j /\ Depth(ts, c) = Depth(ts, i - 1) /\ c \in Nat
      BY <1>2, <2>3 DEF LastCut
    <3>3. c + 1 \in 1 .. n + 1 /\ c + 1 <= j
      <4>1. c + 1 \in 1 .. n + 1
        BY <1>1, <3>2
      <4> QED
        BY <1>1, <3>1, <4>1 DEF Well
    <3>4. Peek(ts, c + 1) # "NOT"
      <4>1. ~ (c + 1 > n) /\ c < j
        BY <3>2, <3>3
      <4> QED
        BY <2>3, <4>1 DEF Peek
    <3> DEFINE e == c + 1
    <3>5. e \in Nat /\ c < e /\ e <= c + 2 /\ e - 1 = c
          /\ e = c + (IF Peek(ts, c + 1) = "NOT" THEN 2 ELSE 1)
      BY <3>2, <3>4
    <3>6. Depth(ts, e - 1) = Depth(ts, i - 1) /\ m[<<e, j>>].ok
      BY <3>1, <3>2, <3>5
    <3> HIDE DEF e
    <3> QED
      BY <1>6, <2>3, <3>1, <3>5, <3>6
  <2> QED
    BY <1>7, <2>1, <2>2, <2>3 DEF Cut
<1>8. CASE Whole(ts, leaf, m, i, j)
  BY <1>5, <1>8 DEF Whole
<1> QED
  BY <1>7, <1>8 DEF Line, AreMeanings

LEMMA OrTurnReaches ==
    ASSUME NEW ts \in Seq(Token), NEW inner, NEW left \in Results, NEW c \in Nat,
           NEW q, ReadTo(left, c), Peek(ts, c) = "OR",
           ReadTo(ParseAnd(ts, inner, c + 1), q)
    PROVE  ReadTo(OrTurn(ts, inner)[left], q)
<1>1. OrTurn(ts, inner)[left] = OrTurned(ts, inner, left)
  BY OrTurnIs
<1>2. left.pos = c /\ left.ok
  BY DEF ReadTo
<1> QED
  BY <1>1, <1>2 DEF OrTurned, ReadTo, Value

LEMMA ParsedOr ==
    ASSUME NEW ts, NEW leaf, NEW p, NEW m, Line(ts, leaf, p, m),
           NEW i \in 1 .. Len(ts) + 1, NEW j \in 0 .. Len(ts),
           NEW d \in 1 .. Len(ts), j - i < d, ShorterParsed(ts, p, m, i, j),
           AndOf(ts, p[d - 1], m, i, j)
    PROVE  OrOf(ts, p[d - 1], m, i, j)
<1> DEFINE n == Len(ts)
           inner == p[d - 1]
           turn == OrTurn(ts, inner)
           first == ParseAnd(ts, inner, i)
<1>1. /\ n \in Nat /\ ts \in Seq(Token) /\ DOMAIN ts = 1 .. n /\ LeafTypes(ts)
      /\ \A a \in 1 .. n + 1, b \in 0 .. n : Well(ts, m, a, b)
  BY AllWell DEF Line
<1> SUFFICES ASSUME m[<<i, j>>].ok, Peek(ts, j + 1) # "AND",
                    NEW h, IsRun(h, turn, first, n)
             PROVE  \E x \in 0 .. n : x <= j - i /\ ReadTo(h[x], j + 1)
  BY DEF OrOf, OrReaches
<1>2. i <= j /\ i \in 1 .. n /\ i \in Nat /\ j \in Nat /\ i \in Positions
  BY <1>1 DEF Well, Positions
<1>3. inner \in [Positions -> Results]
  <2>1. d - 1 \in 0 .. n
    OBVIOUS
  <2> QED
    BY <2>1, LevelTypes DEF Line
<1>4. \A x \in 0 .. n : h[x] \in Results
  <2>1. turn \in [Results -> Results]
    BY <1>1, <1>3, OrTurnTypes
  <2>2. first \in Results
    BY <1>1, <1>2, <1>3, AndTypes
  <2> HIDE DEF turn, first
  <2> QED
    BY <1>1, <2>1, <2>2, LoopTypes
<1>5. CASE Cuts(ts, i, j, "OR") = {}
  <2>1. AndReaches(ts, inner, i, j)
    BY <1>5 DEF AndOf
  <2>2. ReadTo(first, j + 1)
    <3> HIDE DEF inner
    <3> QED
      BY <1>1, <1>2, <1>3, <2>1, AndEnds
  <2>3. h[0] = first
    BY DEF IsRun
  <2>4. 0 \in 0 .. n /\ 0 <= j - i
    BY <1>1, <1>2
  <2> HIDE DEF first
  <2> QED
    BY <2>2, <2>3, <2>4
<1>6. ASSUME NEW c, LastCut(ts, i, j, "OR", c),
             m[<<i, j>>] = Both(m[<<i, c - 1>>], m[<<c + 1, j>>], OrResult)
      PROVE  \E x \in 0 .. n : x <= j - i /\ ReadTo(h[x], j + 1)
  <2>1. c \in i .. j /\ ts[c].kind = "OR" /\ Depth(ts, c) = Depth(ts, i - 1)
        /\ \A y \in Cuts(ts, i, j, "OR") : y <= c
    BY <1>6 DEF LastCut
  <2>2. /\ c - 1 \in 0 .. n /\ c \in 1 .. n /\ c - 1 - i < j - i /\ c \in Nat
        /\ (c - 1) + 1 = c /\ c - 1 - i < d /\ c + 1 \in 1 .. n + 1
        /\ c + 1 \in Positions /\ c + 1 \in Nat /\ c < c + 1 /\ (c + 1) - 1 = c
    BY <1>1, <1>2, <2>1 DEF Positions
  <2>3. m[<<i, c - 1>>].ok /\ m[<<c + 1, j>>].ok
    <3>1. BothFound(m[<<i, c - 1>>], m[<<c + 1, j>>], m[<<i, j>>])
      BY <1>6, Zenon DEF BothFound
    <3> QED
      BY <3>1, BothOk, Zenon
  <2>4. j - (c + 1) < j - i /\ j - (c + 1) < d
    BY <1>1, <1>2, <2>1
  <2>5. Peek(ts, c) = "OR"
    BY <1>1, <2>1, <2>2 DEF Peek
  <2>6. OrReaches(ts, inner, i, c - 1)
    <3>1. OrOf(ts, inner, m, i, c - 1)
      BY <2>2 DEF ShorterParsed, Parsed
    <3>2. Peek(ts, (c - 1) + 1) # "AND"
      BY <2>2, <2>5
    <3> QED
      BY <2>3, <3>1, <3>2 DEF OrOf
  <2>7. PICK x \in 0 .. n : x <= c - 1 - i /\ ReadTo(h[x], c)
    <3>1. \E x \in 0 .. n : x <= (c - 1) - i /\ ReadTo(h[x], (c - 1) + 1)
      BY <2>6 DEF OrReaches
    <3> QED
      BY <2>2, <3>1
  <2>8. ReadTo(ParseAnd(ts, inner, c + 1), j + 1)
    <3>1. Cuts(ts, c + 1, j, "OR") = {}
      <4> DEFINE e == c + 1
      <4>1. e \in Nat /\ c < e /\ Depth(ts, e - 1) = Depth(ts, i - 1)
        BY <2>1, <2>2
      <4> HIDE DEF e
      <4>2. Cuts(ts, e, j, "OR") = {}
        BY <1>2, <2>1, <4>1, AfterLast
      <4> QED
        BY <4>2 DEF e
    <3>2. AndOf(ts, inner, m, c + 1, j)
      BY <2>2, <2>4 DEF ShorterParsed, Parsed
    <3>3. AndReaches(ts, inner, c + 1, j)
      BY <2>3, <3>1, <3>2 DEF AndOf
    <3> HIDE DEF inner
    <3> QED
      BY <1>1, <1>2, <1>3, <2>2, <3>3, AndEnds
  <2>9. ReadTo(turn[h[x]], j + 1)
    <3>1. h[x] \in Results
      BY <1>4
    <3> HIDE DEF inner
    <3> QED
      BY <1>1, <2>2, <2>5, <2>7, <2>8, <3>1, OrTurnReaches
  <2>10. x + 1 \in 1 .. n /\ x + 1 <= j - i /\ (x + 1) - 1 = x /\ x + 1 \in 0 .. n
    <3>1. n \in Nat /\ i \in Nat /\ j \in 0 .. n /\ c \in i .. j
      BY <1>1, <1>2, <2>1
    <3>2. x \in 0 .. n /\ x <= c - 1 - i
      BY <2>7
    <3> HIDE DEF n
    <3> QED
      BY <3>1, <3>2
  <2>11. h[x + 1] = turn[h[x]]
    <3> HIDE DEF turn, first
    <3>1. h[x + 1] = turn[h[(x + 1) - 1]]
      BY <2>10 DEF IsRun
    <3> QED
      BY <2>10, <3>1
  <2> QED
    BY <2>9, <2>10, <2>11
<1>7. Cuts(ts, i, j, "OR") # {} =>
          \E c : /\ LastCut(ts, i, j, "OR", c)
                 /\ m[<<i, j>>] = Both(m[<<i, c - 1>>], m[<<c + 1, j>>], OrResult)
  BY DEF Line, AreMeanings, Cut, Whole
<1> QED
  BY <1>5, <1>6, <1>7

LEMMA ParsedStep ==
    ASSUME NEW ts, NEW leaf, NEW p, NEW m, Line(ts, leaf, p, m),
           NEW i \in 1 .. Len(ts) + 1, NEW j \in 0 .. Len(ts),
           ShorterParsed(ts, p, m, i, j)
    PROVE  Parsed(ts, p, m, i, j)
<1> SUFFICES ASSUME NEW d \in 1 .. Len(ts), j - i < d
             PROVE  /\ PrimaryOf(ts, p[d - 1], m, i, j)
                    /\ AndOf(ts, p[d - 1], m, i, j)
                    /\ OrOf(ts, p[d - 1], m, i, j)
  BY DEF Parsed
<1>1. PrimaryOf(ts, p[d - 1], m, i, j)
  BY ParsedPrimary
<1>2. AndOf(ts, p[d - 1], m, i, j)
  BY <1>1, ParsedAnd
<1>3. OrOf(ts, p[d - 1], m, i, j)
  BY <1>2, ParsedOr
<1> QED
  BY <1>1, <1>2, <1>3

LEMMA AllParsed ==
    ASSUME NEW ts, NEW leaf, NEW p, NEW m, Line(ts, leaf, p, m)
    PROVE  \A i \in 1 .. Len(ts) + 1, j \in 0 .. Len(ts) : Parsed(ts, p, m, i, j)
<1> DEFINE n == Len(ts)
           top == n + n + 1
           G == {z \in 0 .. top : \A a \in 1 .. n + 1, b \in 0 .. n :
                                     b - a < z - (n + 1) => Parsed(ts, p, m, a, b)}
<1>1. n \in Nat /\ top \in Nat
  BY DEF Line
<1>2. 0 \in G
  <2>1. \A a \in 1 .. n + 1, b \in 0 .. n : ~ (b - a < 0 - (n + 1))
    BY <1>1
  <2> QED
    BY <1>1, <2>1
<1>3. ASSUME NEW z \in 0 .. top, z \in G, z < top PROVE z + 1 \in G
  <2>1. ASSUME NEW i \in 1 .. n + 1, NEW j \in 0 .. n, j - i < z + 1 - (n + 1)
        PROVE  Parsed(ts, p, m, i, j)
    <3>1. \A a \in 1 .. n + 1, b \in 0 .. n :
             b - a < j - i => b - a < z - (n + 1)
      BY <1>1, <2>1
    <3>2. ShorterParsed(ts, p, m, i, j)
      BY <1>3, <3>1 DEF ShorterParsed
    <3> QED
      BY <3>2, ParsedStep
  <2>2. z + 1 \in 0 .. top
    BY <1>1, <1>3
  <2> QED
    BY <2>1, <2>2
<1>4. top \in G
  <2>1. top \in 0 .. top
    BY <1>1
  <2> HIDE DEF G, top
  <2> QED
    BY <1>1, <1>2, <1>3, <2>1, FromZero
<1>5. \A a \in 1 .. n + 1, b \in 0 .. n : b - a < top - (n + 1)
  BY <1>1
<1> QED
  BY <1>4, <1>5

LEMMA LineParsed ==
    ASSUME NEW ts, NEW leaf, NEW p, NEW m, Line(ts, leaf, p, m), ts # <<>>,
           m[<<1, Len(ts)>>].ok
    PROVE  ReadTo(p[Len(ts)][1], Len(ts) + 1)
<1> DEFINE n == Len(ts)
           inner == p[n - 1]
<1>1. /\ n \in Nat /\ n > 0 /\ 1 \in 1 .. n + 1 /\ n \in 0 .. n /\ n \in 1 .. n
      /\ n - 1 \in 0 .. n /\ n - 1 < n /\ 1 \in Positions /\ ts \in Seq(Token)
      /\ LeafTypes(ts)
  BY DEF Line, Positions
<1>2. p[n][1] = ParseOr(ts, inner, 1)
  <2>1. p[n] = Level(ts, p, n)
    BY <1>1 DEF Line, AreLevels
  <2>2. n # 0
    BY <1>1
  <2> QED
    BY <1>1, <2>1, <2>2 DEF Level
<1>3. Peek(ts, n + 1) = ""
  <2>1. n + 1 > Len(ts)
    BY <1>1
  <2> QED
    BY <2>1 DEF Peek
<1>4. OrReaches(ts, inner, 1, n)
  <2>1. Parsed(ts, p, m, 1, n)
    BY <1>1, AllParsed
  <2>2. OrOf(ts, inner, m, 1, n)
    BY <1>1, <2>1 DEF Parsed
  <2> QED
    BY <1>3, <2>2 DEF OrOf
<1>5. inner \in [Positions -> Results]
  BY <1>1, LevelTypes DEF Line
<1> HIDE DEF inner
<1> QED
  BY <1>1, <1>2, <1>3, <1>4, <1>5, OrEnds

-----------------------------------------------------------------------------
(* What is parsed is what the tokens that are taken mean.                  *)

\* The documents of the tokens that stand alone are those that are searched.
Agrees(ts, leaf, D) ==
    \A i \in 1 .. Len(ts) :
        leaf[i].ok => leaf[i].docs = Searched(ts[i]) /\ leaf[i].docs \subseteq D

Takes(ts, leaf, m, D, i, r) ==
    r.ok => /\ r.pos \in i + 1 .. Len(ts) + 1
            /\ m[<<i, r.pos - 1>>].ok
            /\ Agrees(ts, leaf, D) =>
                  r.docs = m[<<i, r.pos - 1>>].docs /\ r.docs \subseteq D

AllTake(ts, leaf, m, D, inner) ==
    \A i \in 1 .. Len(ts) + 1 : Takes(ts, leaf, m, D, i, inner[i])

Uncut(ts, i, r, op) == r.ok => Cuts(ts, i, r.pos - 1, op) = {}

LEMMA NotCut ==
    ASSUME NEW ts, NEW leaf, NEW m, AreMeanings(ts, leaf, m),
           NEW i \in 1 .. Len(ts) + 1, NEW j \in 0 .. Len(ts),
           Cuts(ts, i, j, "OR") = {}, Cuts(ts, i, j, "AND") = {}
    PROVE  Whole(ts, leaf, m, i, j)
  BY LastCutIn DEF AreMeanings, Cut

LEMMA LeafTakes ==
    ASSUME NEW ts, NEW leaf, NEW p, NEW m, Line(ts, leaf, p, m), NEW D,
           NEW i \in 1 .. Len(ts), Simple(ts[i]), NEW r,
           r = Value(Searched(ts[i]), i + 1)
    PROVE  /\ Takes(ts, leaf, m, D, i, r)
           /\ Uncut(ts, i, r, "OR") /\ Uncut(ts, i, r, "AND")
<1> DEFINE n == Len(ts)
<1>1. n \in Nat /\ i \in Nat /\ i \in 1 .. n + 1 /\ i \in 0 .. n
  BY DEF Line
<1>2. \A op \in {"OR", "AND"} : Cuts(ts, i, i, op) = {}
  <2>1. ts[i].kind \notin {"OR", "AND"}
    BY DEF Simple
  <2>2. i .. i = {i}
    BY <1>1
  <2> QED
    BY <2>1, <2>2 DEF Cuts
<1>3. m[<<i, i>>] = leaf[i]
  <2>1. Whole(ts, leaf, m, i, i)
    BY <1>1, <1>2, NotCut DEF Line
  <2> QED
    BY <1>1, <2>1 DEF Whole
<1>4. leaf[i].ok
  BY DEF Line, LeavesOf
<1>5. r.ok /\ r.pos = i + 1 /\ r.docs = Searched(ts[i]) /\ (i + 1) - 1 = i
  BY <1>1 DEF Value
<1>6. Agrees(ts, leaf, D) => r.docs = leaf[i].docs /\ r.docs \subseteq D
  BY <1>4, <1>5 DEF Agrees
<1>7. i + 1 \in i + 1 .. n + 1
  BY <1>1
<1> QED
  BY <1>2, <1>3, <1>4, <1>5, <1>6, <1>7 DEF Takes, Uncut

LEMMA GroupTakes ==
    ASSUME NEW ts, NEW leaf, NEW p, NEW m, Line(ts, leaf, p, m), NEW D,
           NEW inner, AllTake(ts, leaf, m, D, inner),
           NEW i \in 1 .. Len(ts), ts[i].kind = "(", NEW r,
           r = Grouped(ts, inner[i + 1])
    PROVE  /\ Takes(ts, leaf, m, D, i, r)
           /\ Uncut(ts, i, r, "OR") /\ Uncut(ts, i, r, "AND")
<1> DEFINE n == Len(ts)
           a == i + 1
           result == inner[a]
           q == result.pos
<1>1. /\ n \in Nat /\ i \in Nat /\ a \in 1 .. n + 1 /\ i \in 1 .. n + 1
      /\ ts \in Seq(Token)
      /\ \A x \in 1 .. n + 1, y \in 0 .. n : Well(ts, m, x, y)
  BY AllWell DEF Line
<1>2. CASE ~ (result.ok /\ Peek(ts, q) = ")")
  BY <1>2 DEF Grouped, Failed, Takes, Uncut
<1>3. CASE result.ok /\ Peek(ts, q) = ")"
  <2>1. Takes(ts, leaf, m, D, a, result)
    BY <1>1 DEF AllTake
  <2>2. /\ q \in a + 1 .. n + 1 /\ m[<<a, q - 1>>].ok
        /\ Agrees(ts, leaf, D) =>
              result.docs = m[<<a, q - 1>>].docs /\ result.docs \subseteq D
    BY <1>3, <2>1 DEF Takes
  <2>3. r.ok /\ r.pos = q + 1 /\ r.docs = result.docs
    BY <1>3 DEF Grouped, Value
  <2>4. q \in 1 .. n /\ ts[q].kind = ")"
    <3>1. q \in Positions
      BY <1>1, <2>2 DEF Positions
    <3>2. Peeked(ts, q)
      BY <1>1, <3>1, PeekIs
    <3> QED
      BY <1>3, <3>2 DEF Peeked
  <2>a. n \in Nat /\ i \in Nat
    BY <1>1
  <2>b. q \in 1 .. n /\ q \in a + 1 .. n + 1
    BY <2>2, <2>4
  <2> HIDE DEF result, n, q
  <2>5. /\ q \in Nat /\ i < q /\ q \in 0 .. n /\ q - 1 \in 0 .. n /\ a = i + 1
        /\ (q + 1) - 1 = q /\ q + 1 \in i + 1 .. n + 1 /\ a - 1 = i
    BY <2>a, <2>b
  <2>6. Balanced(ts, a, q - 1)
    BY <1>1, <2>2, <2>5 DEF Well
  <2>7. Depth(ts, i) = Depth(ts, i - 1) + 1 /\ Depth(ts, i - 1) \in Int
    <3>1. DepthStep(ts, i)
      BY <1>1, DepthSteps
    <3> QED
      BY <3>1 DEF DepthStep
  <2>8. ASSUME NEW op \in {"OR", "AND"} PROVE Cuts(ts, i, q, op) = {}
    <3>1. ASSUME NEW x \in Cuts(ts, i, q, op) PROVE FALSE
      <4>1. x \in i .. q /\ ts[x].kind = op /\ Depth(ts, x) = Depth(ts, i - 1)
        BY <3>1 DEF Cuts
      <4>2. x # i /\ x # q
        BY <2>4, <4>1
      <4>3. x \in a .. q - 1
        BY <1>1, <2>5, <4>1, <4>2
      <4>4. Depth(ts, a - 1) <= Depth(ts, x)
        BY <2>6, <4>3 DEF Balanced
      <4> QED
        BY <2>5, <2>7, <4>1, <4>4
    <3> QED
      BY <3>1
  <2>9. m[<<i, q>>] = m[<<a, q - 1>>]
    <3>1. Whole(ts, leaf, m, i, q)
      BY <1>1, <2>5, <2>8, NotCut DEF Line, n
    <3> QED
      BY <2>4, <2>5, <3>1 DEF Whole
  <2>10. Uncut(ts, i, r, "OR") /\ Uncut(ts, i, r, "AND")
    BY <2>3, <2>5, <2>8 DEF Uncut
  <2>11. r.pos \in i + 1 .. n + 1 /\ r.pos - 1 = q
    BY <2>3, <2>5
  <2> QED
    BY <2>2, <2>3, <2>9, <2>10, <2>11 DEF Takes, n
<1> QED
  BY <1>2, <1>3

LEMMA PrimaryTakes ==
    ASSUME NEW ts, NEW leaf, NEW p, NEW m, Line(ts, leaf, p, m), NEW D,
           NEW inner, AllTake(ts, leaf, m, D, inner), NEW i \in 1 .. Len(ts) + 1
    PROVE  /\ Takes(ts, leaf, m, D, i, ParsePrimary(ts, inner, i))
           /\ Uncut(ts, i, ParsePrimary(ts, inner, i), "OR")
           /\ Uncut(ts, i, ParsePrimary(ts, inner, i), "AND")
<1> DEFINE r == ParsePrimary(ts, inner, i)
<1>1. PrimaryAt(ts, inner, i)
  <2>1. i \in Positions /\ ts \in Seq(Token)
    BY DEF Line, Positions
  <2> QED
    BY <2>1, PrimaryIs
<1>2. CASE r = Failed
  BY <1>2 DEF Failed, Takes, Uncut
<1>3. CASE i \in 1 .. Len(ts) /\ ts[i].kind = "(" /\ r = Grouped(ts, inner[i + 1])
  BY <1>3, GroupTakes
<1>4. CASE i \in 1 .. Len(ts) /\ Simple(ts[i]) /\ r = Value(Searched(ts[i]), i + 1)
  BY <1>4, LeafTakes
<1> QED
  BY <1>1, <1>2, <1>3, <1>4 DEF PrimaryAt

\* The cuts of a part lie in what is before or behind one of its tokens.
SplitAt(ts, i, j, c, e, op) ==
    \A x \in Cuts(ts, i, j, op) :
        x \in i .. j /\ x < e /\ (Cuts(ts, i, c - 1, op) = {} => c <= x)

LEMMA CutsSplit ==
    ASSUME NEW ts, NEW i \in Nat, NEW j \in Nat, NEW c \in i .. j,
           NEW e \in Nat, c < e, NEW op, Depth(ts, e - 1) = Depth(ts, i - 1),
           Cuts(ts, e, j, op) = {}
    PROVE  SplitAt(ts, i, j, c, e, op)
<1> SUFFICES ASSUME NEW x \in Cuts(ts, i, j, op)
             PROVE  x \in i .. j /\ x < e
                    /\ (Cuts(ts, i, c - 1, op) = {} => c <= x)
  BY DEF SplitAt
<1>1. x \in i .. j /\ ts[x].kind = op /\ Depth(ts, x) = Depth(ts, i - 1)
  BY DEF Cuts
<1>2. x < e
  <2>1. x \in e .. j => x \in Cuts(ts, e, j, op)
    BY <1>1 DEF Cuts
  <2> QED
    BY <1>1, <2>1
<1>3. Cuts(ts, i, c - 1, op) = {} => c <= x
  <2>1. x \in i .. c - 1 => x \in Cuts(ts, i, c - 1, op)
    BY <1>1 DEF Cuts
  <2> QED
    BY <1>1, <2>1
<1> QED
  BY <1>1, <1>2, <1>3

\* One turn of the loop of parseAnd: what is taken so far, from i to before c,
\* the operator, and a part from e to before q.
AndMeans(ts, m, i, c, e, q) ==
    /\ Cuts(ts, i, q - 1, "OR") = {}
    /\ IF Peek(ts, c + 1) = "NOT"
       THEN m[<<i, q - 1>>] = Both(m[<<i, c - 1>>], m[<<e, q - 1>>], NotResult)
       ELSE m[<<i, q - 1>>] = Both(m[<<i, c - 1>>], m[<<e, q - 1>>], AndResult)

LEMMA AndTurnMeans ==
    ASSUME NEW ts, NEW leaf, NEW p, NEW m, Line(ts, leaf, p, m),
           NEW i \in 1 .. Len(ts) + 1, NEW c \in i + 1 .. Len(ts) + 1,
           m[<<i, c - 1>>].ok, Cuts(ts, i, c - 1, "OR") = {},
           Peek(ts, c) = "AND", NEW e,
           e = c + (IF Peek(ts, c + 1) = "NOT" THEN 2 ELSE 1),
           NEW q \in e + 1 .. Len(ts) + 1, m[<<e, q - 1>>].ok,
           Cuts(ts, e, q - 1, "OR") = {}, Cuts(ts, e, q - 1, "AND") = {}
    PROVE  AndMeans(ts, m, i, c, e, q)
<1> DEFINE n == Len(ts)
           j == q - 1
           D == Depth(ts, i - 1)
<1>1. /\ n \in Nat /\ i \in Nat /\ c \in Nat /\ e \in {c + 1, c + 2} /\ ts \in Seq(Token)
      /\ \A x \in 1 .. n + 1, y \in 0 .. n : Well(ts, m, x, y)
  BY AllWell DEF Line
<1>2. c \in 1 .. n /\ ts[c].kind = "AND"
  <2>1. c \in Positions
    BY <1>1 DEF Positions
  <2>2. Peeked(ts, c)
    BY <1>1, <2>1, PeekIs
  <2> QED
    BY <2>2 DEF Peeked
<1>3. Peek(ts, c + 1) = "NOT" => c + 1 \in 1 .. n /\ ts[c + 1].kind = "NOT"
  <2>1. c + 1 \in Positions
    BY <1>1 DEF Positions
  <2>2. Peeked(ts, c + 1)
    BY <1>1, <2>1, PeekIs
  <2> QED
    BY <2>2 DEF Peeked
<1>4. /\ e \in Nat /\ q \in Nat /\ j \in 0 .. n /\ j \in Nat /\ e <= j /\ c < e
      /\ c \in i .. j /\ c - 1 \in 0 .. n /\ c <= j /\ c > 0 /\ c + 1 > 0
  <2>1. e \in Nat /\ c < e
    BY <1>1
  <2>2. q \in e + 1 .. n + 1
    OBVIOUS
  <2> HIDE DEF n
  <2> QED
    BY <1>1, <2>1, <2>2
<1>5. e = c + 1 \/ (e = c + 2 /\ ts[c + 1].kind = "NOT")
  BY <1>3
<1>6. Depth(ts, c) = D
  <2>1. Balanced(ts, i, c - 1)
    BY <1>1, <1>4 DEF Well
  <2>2. DepthStep(ts, c)
    BY <1>1, <1>4, DepthSteps
  <2> QED
    BY <1>2, <2>1, <2>2 DEF DepthStep, Balanced
<1>7. Depth(ts, e - 1) = D
  <2>1. CASE e = c + 1
    <3>1. e - 1 = c
      BY <1>1, <2>1
    <3> QED
      BY <1>6, <3>1
  <2>2. CASE e = c + 2 /\ ts[c + 1].kind = "NOT"
    <3>1. e - 1 = c + 1 /\ (c + 1) - 1 = c
      BY <1>1, <2>2
    <3>2. DepthStep(ts, c + 1)
      BY <1>1, <1>4, DepthSteps
    <3>3. Depth(ts, c + 1) = Depth(ts, (c + 1) - 1)
      BY <2>2, <3>2 DEF DepthStep
    <3> QED
      BY <1>6, <3>1, <3>3
  <2> QED
    BY <1>5, <2>1, <2>2
<1>8. Cuts(ts, e, j, "OR") = {} /\ Cuts(ts, e, j, "AND") = {}
  OBVIOUS
<1> HIDE DEF j, n
<1>9. \A x \in Cuts(ts, i, j, "OR") : c <= x /\ x < e /\ x \in i .. j
  <2>1. SplitAt(ts, i, j, c, e, "OR")
    BY <1>1, <1>4, <1>7, <1>8, CutsSplit, Zenon
  <2> QED
    BY <2>1 DEF SplitAt
<1>10. Cuts(ts, i, j, "OR") = {}
  <2>1. ASSUME NEW x \in Cuts(ts, i, j, "OR") PROVE FALSE
    <3>1. ts[x].kind = "OR"
      BY DEF Cuts
    <3>2. x = c \/ (x = c + 1 /\ e = c + 2)
      BY <1>1, <1>4, <1>9
    <3> QED
      BY <1>2, <1>5, <3>1, <3>2, <1>1
  <2> QED
    BY <2>1
<1>11. c \in Cuts(ts, i, j, "AND")
  BY <1>2, <1>4, <1>6 DEF Cuts
<1>12. \A x \in Cuts(ts, i, j, "AND") : x <= c /\ x \in i .. j
  <2>1. ASSUME NEW x \in Cuts(ts, i, j, "AND") PROVE x <= c /\ x \in i .. j
    <3>1. ts[x].kind = "AND"
      BY DEF Cuts
    <3>2. x < e /\ x \in i .. j
      <4>1. SplitAt(ts, i, j, c, e, "AND")
        BY <1>1, <1>4, <1>7, <1>8, CutsSplit, Zenon
      <4> QED
        BY <4>1 DEF SplitAt
    <3>3. x # c + 1 \/ e = c + 1
      BY <1>5, <3>1
    <3> QED
      BY <1>1, <1>4, <3>2, <3>3
  <2> QED
    BY <2>1
<1>13. ASSUME NEW x, LastCut(ts, i, j, "AND", x) PROVE x = c
  <2>1. x \in Cuts(ts, i, j, "AND") /\ c <= x
    BY <1>11, <1>13, LastCutIn DEF LastCut
  <2>2. x <= c /\ x \in i .. j
    BY <1>12, <2>1
  <2> QED
    BY <1>1, <1>4, <2>1, <2>2
<1>14. Cut(ts, m, i, j) /\ ~ \E x : LastCut(ts, i, j, "OR", x)
  <2>1. Cut(ts, m, i, j) \/ Whole(ts, leaf, m, i, j)
    BY <1>4 DEF Line, AreMeanings, n
  <2> QED
    BY <1>10, <1>11, <2>1, LastCutIn DEF Whole
<1>15. CASE Peek(ts, c + 1) = "NOT"
  <2>1. e = c + 2 /\ c < j /\ ts[c + 1].kind = "NOT"
    BY <1>1, <1>3, <1>4, <1>15
  <2>2. m[<<i, j>>] = Both(m[<<i, c - 1>>], m[<<c + 2, j>>], NotResult)
    BY <1>13, <1>14, <2>1 DEF Cut
  <2> QED
    BY <1>10, <1>15, <2>1, <2>2, Zenon DEF j, AndMeans
<1>16. CASE Peek(ts, c + 1) # "NOT"
  <2>1. e = c + 1 /\ c < j
    BY <1>1, <1>4, <1>16
  <2>2. ts[c + 1].kind # "NOT"
    <3>1. ~ (c + 1 > Len(ts))
      BY <1>1, <1>4, <2>1 DEF n
    <3> QED
      BY <1>16, <3>1 DEF Peek
  <2>3. m[<<i, j>>] = Both(m[<<i, c - 1>>], m[<<c + 1, j>>], AndResult)
    BY <1>13, <1>14, <2>1, <2>2 DEF Cut
  <2> QED
    BY <1>10, <1>16, <2>1, <2>3, Zenon DEF j, AndMeans
<1> QED
  BY <1>15, <1>16

\* What a loop has at hand of the tokens from i on.
AndTakes(ts, leaf, m, D, i, left) ==
    left \in Results /\ Takes(ts, leaf, m, D, i, left) /\ Uncut(ts, i, left, "OR")
OrTakes(ts, leaf, m, D, i, left) ==
    left \in Results /\ Takes(ts, leaf, m, D, i, left)

LEMMA AndTurnTakes ==
    ASSUME NEW ts, NEW leaf, NEW p, NEW m, Line(ts, leaf, p, m), NEW D,
           NEW inner \in [Positions -> Results], AllTake(ts, leaf, m, D, inner),
           NEW i \in 1 .. Len(ts) + 1, NEW left, AndTakes(ts, leaf, m, D, i, left)
    PROVE  AndTakes(ts, leaf, m, D, i, AndTurn(ts, inner)[left])
<1> DEFINE n == Len(ts)
           c == left.pos
           right == AndRight(ts, inner, left)
           e == c + (IF Peek(ts, c + 1) = "NOT" THEN 2 ELSE 1)
           q == right.pos
           r == AndTurn(ts, inner)[left]
<1>1. left \in Results /\ n \in Nat /\ ts \in Seq(Token) /\ LeafTypes(ts)
  BY DEF AndTakes, Line
<1>2. r = AndTurned(ts, inner, left) /\ r \in Results
  BY <1>1, AndTurnIs, AndTurnTypes
<1>3. CASE r = left
  BY <1>3
<1>4. CASE r = Failed
  BY <1>2, <1>4 DEF AndTakes, Takes, Uncut, Failed
<1>5. CASE left.ok /\ Peek(ts, c) = "AND" /\ right.ok
           /\ r = Value(AndFound(ts, left, right), q)
  <2>1. /\ c \in i + 1 .. n + 1 /\ m[<<i, c - 1>>].ok
        /\ Cuts(ts, i, c - 1, "OR") = {}
        /\ Agrees(ts, leaf, D) =>
              left.docs = m[<<i, c - 1>>].docs /\ left.docs \subseteq D
    BY <1>5 DEF AndTakes, Takes, Uncut
  <2>2. e \in 1 .. n + 1 /\ i <= e /\ i \in Nat
    <3>1. c \in Positions /\ c + 1 \in Positions
      BY <1>1, <2>1 DEF Positions
    <3>2. Peeked(ts, c) /\ Peeked(ts, c + 1)
      BY <1>1, <3>1, PeekIs
    <3>3. c \in 1 .. n
      BY <1>5, <3>2 DEF Peeked
    <3>4. Peek(ts, c + 1) = "NOT" => c + 1 \in 1 .. n
      BY <3>2 DEF Peeked
    <3>5. n \in Nat /\ i \in Nat /\ i <= c
      BY <1>1, <2>1
    <3> HIDE DEF c, n
    <3> QED
      BY <3>3, <3>4, <3>5
  <2>3. right = ParsePrimary(ts, inner, e)
    BY DEF AndRight
  <2>4. /\ Takes(ts, leaf, m, D, e, right)
        /\ Uncut(ts, e, right, "OR") /\ Uncut(ts, e, right, "AND")
    <3> HIDE DEF e, right
    <3> QED
      BY <2>2, <2>3, PrimaryTakes
  <2>5. /\ q \in e + 1 .. n + 1 /\ m[<<e, q - 1>>].ok
        /\ Cuts(ts, e, q - 1, "OR") = {} /\ Cuts(ts, e, q - 1, "AND") = {}
        /\ Agrees(ts, leaf, D) =>
              right.docs = m[<<e, q - 1>>].docs /\ right.docs \subseteq D
    BY <1>5, <2>4 DEF Takes, Uncut
  <2>6. e = c + (IF Peek(ts, c + 1) = "NOT" THEN 2 ELSE 1)
    OBVIOUS
  <2> HIDE DEF right, q, e, c
  <2>7. AndMeans(ts, m, i, c, e, q)
    BY <1>5, <2>1, <2>5, <2>6, AndTurnMeans, Zenon
  <2>8. m[<<i, q - 1>>].ok
    <3>1. BothFound(m[<<i, c - 1>>], m[<<e, q - 1>>], m[<<i, q - 1>>])
      BY <2>7 DEF BothFound, AndMeans
    <3> QED
      BY <2>1, <2>5, <3>1, BothOk
  <2>9. ASSUME Agrees(ts, leaf, D)
        PROVE  /\ AndFound(ts, left, right) = m[<<i, q - 1>>].docs
               /\ AndFound(ts, left, right) \subseteq D
    <3>1. left.docs = m[<<i, c - 1>>].docs /\ left.docs \subseteq D
      BY <2>1, <2>9
    <3>2. right.docs = m[<<e, q - 1>>].docs /\ right.docs \subseteq D
      BY <2>5, <2>9
    <3>3. CASE Peek(ts, c + 1) = "NOT"
      <4>1. AndFound(ts, left, right) = NotResult(left.docs, right.docs)
        BY <3>3, Zenon DEF AndFound, c
      <4>2. m[<<i, q - 1>>] = Both(m[<<i, c - 1>>], m[<<e, q - 1>>], NotResult)
        BY <2>7, <3>3, Zenon DEF AndMeans
      <4>3. m[<<i, q - 1>>].docs =
               NotResult(m[<<i, c - 1>>].docs, m[<<e, q - 1>>].docs)
        BY <4>2 DEF Both
      <4>4. m[<<i, q - 1>>].docs = NotResult(left.docs, right.docs)
        BY <3>1, <3>2, <4>3, Zenon
      <4>5. NotResult(left.docs, right.docs) \subseteq D
        BY <3>1, <3>2 DEF NotResult
      <4> QED
        BY <4>1, <4>4, <4>5
    <3>4. CASE Peek(ts, c + 1) # "NOT"
      <4>1. AndFound(ts, left, right) = AndResult(left.docs, right.docs)
        BY <3>4, Zenon DEF AndFound, c
      <4>2. m[<<i, q - 1>>] = Both(m[<<i, c - 1>>], m[<<e, q - 1>>], AndResult)
        BY <2>7, <3>4, Zenon DEF AndMeans
      <4>3. m[<<i, q - 1>>].docs =
               AndResult(m[<<i, c - 1>>].docs, m[<<e, q - 1>>].docs)
        BY <4>2 DEF Both
      <4>4. m[<<i, q - 1>>].docs = AndResult(left.docs, right.docs)
        BY <3>1, <3>2, <4>3, Zenon
      <4>5. AndResult(left.docs, right.docs) \subseteq D
        BY <3>1, <3>2 DEF AndResult
      <4> QED
        BY <4>1, <4>4, <4>5
    <3> QED
      BY <3>3, <3>4
  <2>10. r.ok /\ r.pos = q /\ r.docs = AndFound(ts, left, right)
    BY <1>5 DEF Value
  <2>11. q \in i + 1 .. n + 1
    <3>1. n \in Nat /\ q \in e + 1 .. n + 1
      BY <1>1, <2>5
    <3> HIDE DEF n
    <3> QED
      BY <2>2, <3>1
  <2>12. r \in Results
    BY <1>2
  <2> HIDE DEF r
  <2>13. Takes(ts, leaf, m, D, i, r)
    BY <2>8, <2>9, <2>10, <2>11 DEF Takes
  <2>14. Uncut(ts, i, r, "OR")
    BY <2>7, <2>10 DEF Uncut, AndMeans
  <2>15. AndTakes(ts, leaf, m, D, i, r)
    BY <2>12, <2>13, <2>14 DEF AndTakes
  <2> QED
    BY <2>15 DEF r
<1> QED
  BY <1>2, <1>3, <1>4, <1>5 DEF AndTurned

LEMMA AndsTake ==
    ASSUME NEW ts, NEW leaf, NEW p, NEW m, Line(ts, leaf, p, m), NEW D,
           NEW inner \in [Positions -> Results], AllTake(ts, leaf, m, D, inner),
           NEW i \in 1 .. Len(ts) + 1
    PROVE  AndTakes(ts, leaf, m, D, i, ParseAnd(ts, inner, i))
<1> DEFINE turn == AndTurn(ts, inner)
           first == ParsePrimary(ts, inner, i)
           n == Len(ts)
<1>1. n \in Nat /\ ts \in Seq(Token) /\ LeafTypes(ts) /\ i \in Positions
  BY DEF Line, Positions
<1>2. ParseAnd(ts, inner, i) = Loop(turn, first, n)
  BY DEF ParseAnd
<1>3. PICK h : IsRun(h, turn, first, n) /\ Loop(turn, first, n) = h[n]
  <2> HIDE DEF turn, first
  <2> QED
    BY <1>1, LoopRuns
<1>4. AndTakes(ts, leaf, m, D, i, first)
  BY <1>1, PrimaryTakes, PrimaryTypes DEF AndTakes
<1> DEFINE G == {x \in 0 .. n : AndTakes(ts, leaf, m, D, i, h[x])}
<1>5. 0 \in G
  <2>1. h[0] = first
    BY <1>3 DEF IsRun
  <2> HIDE DEF first
  <2> QED
    BY <1>1, <1>4, <2>1
<1>6. ASSUME NEW x \in 0 .. n, x \in G, x < n PROVE x + 1 \in G
  <2>1. x + 1 \in 1 .. n /\ x + 1 \in 0 .. n /\ (x + 1) - 1 = x
    BY <1>1, <1>6
  <2>2. h[x + 1] = turn[h[x]]
    <3> HIDE DEF turn, first
    <3>1. h[x + 1] = turn[h[(x + 1) - 1]]
      BY <1>3, <2>1 DEF IsRun
    <3> QED
      BY <2>1, <3>1
  <2>3. AndTakes(ts, leaf, m, D, i, turn[h[x]])
    BY <1>6, AndTurnTakes
  <2> HIDE DEF turn
  <2> QED
    BY <2>1, <2>2, <2>3
<1>7. n \in G
  <2>1. n \in 0 .. n
    BY <1>1
  <2> HIDE DEF G, n
  <2> QED
    BY <1>1, <1>5, <1>6, <2>1, FromZero
<1> QED
  BY <1>2, <1>3, <1>7

\* One turn of the loop of parseOr.
OrMeans(ts, m, i, c, q) ==
    m[<<i, q - 1>>] = Both(m[<<i, c - 1>>], m[<<c + 1, q - 1>>], OrResult)

LEMMA OrTurnMeans ==
    ASSUME NEW ts, NEW leaf, NEW p, NEW m, Line(ts, leaf, p, m),
           NEW i \in 1 .. Len(ts) + 1, NEW c \in i + 1 .. Len(ts) + 1,
           m[<<i, c - 1>>].ok, Peek(ts, c) = "OR",
           NEW q \in c + 2 .. Len(ts) + 1,
           Cuts(ts, c + 1, q - 1, "OR") = {}
    PROVE  OrMeans(ts, m, i, c, q)
<1> DEFINE n == Len(ts)
           j == q - 1
           e == c + 1
           D == Depth(ts, i - 1)
<1>1. /\ n \in Nat /\ i \in Nat /\ c \in Nat /\ ts \in Seq(Token)
      /\ \A x \in 1 .. n + 1, y \in 0 .. n : Well(ts, m, x, y)
  BY AllWell DEF Line
<1>2. c \in 1 .. n /\ ts[c].kind = "OR"
  <2>1. c \in Positions
    BY <1>1 DEF Positions
  <2>2. Peeked(ts, c)
    BY <1>1, <2>1, PeekIs
  <2> QED
    BY <2>2 DEF Peeked
<1>3. /\ e \in Nat /\ q \in Nat /\ j \in 0 .. n /\ j \in Nat /\ e <= j /\ c < e
      /\ c \in i .. j /\ c - 1 \in 0 .. n /\ c <= j /\ c > 0 /\ e - 1 = c
  <2>1. q \in c + 2 .. n + 1
    OBVIOUS
  <2> HIDE DEF n
  <2> QED
    BY <1>1, <2>1
<1>4. Depth(ts, c) = D
  <2>1. Balanced(ts, i, c - 1)
    BY <1>1, <1>3 DEF Well
  <2>2. DepthStep(ts, c)
    BY <1>1, <1>3, DepthSteps
  <2> QED
    BY <1>2, <2>1, <2>2 DEF DepthStep, Balanced
<1>5. Depth(ts, e - 1) = D /\ Cuts(ts, e, j, "OR") = {}
  BY <1>3, <1>4
<1> HIDE DEF j, n, e
<1>6. SplitAt(ts, i, j, c, e, "OR")
  BY <1>1, <1>3, <1>5, CutsSplit, Zenon
<1>7. c \in Cuts(ts, i, j, "OR")
  BY <1>2, <1>3, <1>4 DEF Cuts
<1>8. ASSUME NEW x, LastCut(ts, i, j, "OR", x) PROVE x = c
  <2>1. x \in Cuts(ts, i, j, "OR") /\ c <= x
    BY <1>7, <1>8, LastCutIn DEF LastCut
  <2>2. x < e /\ x \in i .. j
    BY <1>6, <2>1 DEF SplitAt
  <2> QED
    BY <1>1, <1>3, <2>1, <2>2
<1>9. \E x : /\ LastCut(ts, i, j, "OR", x)
             /\ m[<<i, j>>] = Both(m[<<i, x - 1>>], m[<<x + 1, j>>], OrResult)
  <2>1. Cut(ts, m, i, j) \/ Whole(ts, leaf, m, i, j)
    BY <1>3 DEF Line, AreMeanings, n
  <2> QED
    BY <1>7, <2>1 DEF Whole, Cut
<1> QED
  BY <1>8, <1>9, Zenon DEF j, OrMeans

LEMMA OrTurnTakes ==
    ASSUME NEW ts, NEW leaf, NEW p, NEW m, Line(ts, leaf, p, m), NEW D,
           NEW inner \in [Positions -> Results], AllTake(ts, leaf, m, D, inner),
           NEW i \in 1 .. Len(ts) + 1, NEW left, OrTakes(ts, leaf, m, D, i, left)
    PROVE  OrTakes(ts, leaf, m, D, i, OrTurn(ts, inner)[left])
<1> DEFINE n == Len(ts)
           c == left.pos
           right == ParseAnd(ts, inner, c + 1)
           q == right.pos
           r == OrTurn(ts, inner)[left]
<1>1. left \in Results /\ n \in Nat /\ ts \in Seq(Token) /\ LeafTypes(ts)
  BY DEF OrTakes, Line
<1>2. r = OrTurned(ts, inner, left) /\ r \in Results
  BY <1>1, OrTurnIs, OrTurnTypes
<1>3. CASE r = left
  BY <1>3
<1>4. CASE r = Failed
  BY <1>2, <1>4 DEF OrTakes, Takes, Failed
<1>5. CASE left.ok /\ Peek(ts, c) = "OR" /\ right.ok
           /\ r = Value(OrResult(left.docs, right.docs), q)
  <2>1. /\ c \in i + 1 .. n + 1 /\ m[<<i, c - 1>>].ok
        /\ Agrees(ts, leaf, D) =>
              left.docs = m[<<i, c - 1>>].docs /\ left.docs \subseteq D
    BY <1>5 DEF OrTakes, Takes
  <2>2. c + 1 \in 1 .. n + 1 /\ i <= c /\ i \in Nat /\ c \in Nat
    <3>1. c \in Positions
      BY <1>1, <2>1 DEF Positions
    <3>2. Peeked(ts, c)
      BY <1>1, <3>1, PeekIs
    <3>3. c \in 1 .. n
      BY <1>5, <3>2 DEF Peeked
    <3>4. n \in Nat /\ i \in Nat /\ i <= c
      BY <1>1, <2>1
    <3> HIDE DEF c, n
    <3> QED
      BY <3>3, <3>4
  <2>3. AndTakes(ts, leaf, m, D, c + 1, right)
    BY <2>2, AndsTake
  <2>4. /\ q \in (c + 1) + 1 .. n + 1 /\ m[<<c + 1, q - 1>>].ok
        /\ Cuts(ts, c + 1, q - 1, "OR") = {}
        /\ Agrees(ts, leaf, D) =>
              right.docs = m[<<c + 1, q - 1>>].docs /\ right.docs \subseteq D
    BY <1>5, <2>3 DEF AndTakes, Takes, Uncut
  <2> HIDE DEF right, q, c
  <2>5. q \in c + 2 .. n + 1 /\ q \in i + 1 .. n + 1
    <3>1. n \in Nat /\ q \in (c + 1) + 1 .. n + 1
      BY <1>1, <2>4
    <3> HIDE DEF n
    <3> QED
      BY <2>2, <3>1
  <2>6. m[<<i, q - 1>>] = Both(m[<<i, c - 1>>], m[<<c + 1, q - 1>>], OrResult)
    <3>1. OrMeans(ts, m, i, c, q)
      BY <1>5, <2>1, <2>4, <2>5, OrTurnMeans, Zenon
    <3> QED
      BY <3>1, Zenon DEF OrMeans
  <2>7. m[<<i, q - 1>>].ok
    <3>1. BothFound(m[<<i, c - 1>>], m[<<c + 1, q - 1>>], m[<<i, q - 1>>])
      BY <2>6, Zenon DEF BothFound
    <3> QED
      BY <2>1, <2>4, <3>1, BothOk
  <2>8. ASSUME Agrees(ts, leaf, D)
        PROVE  /\ OrResult(left.docs, right.docs) = m[<<i, q - 1>>].docs
               /\ OrResult(left.docs, right.docs) \subseteq D
    <3>1. left.docs = m[<<i, c - 1>>].docs /\ left.docs \subseteq D
      BY <2>1, <2>8
    <3>2. right.docs = m[<<c + 1, q - 1>>].docs /\ right.docs \subseteq D
      BY <2>4, <2>8
    <3>3. m[<<i, q - 1>>].docs =
             OrResult(m[<<i, c - 1>>].docs, m[<<c + 1, q - 1>>].docs)
      BY <2>6 DEF Both
    <3>4. m[<<i, q - 1>>].docs = OrResult(left.docs, right.docs)
      BY <3>1, <3>2, <3>3, Zenon
    <3>5. OrResult(left.docs, right.docs) \subseteq D
      BY <3>1, <3>2 DEF OrResult
    <3> QED
      BY <3>4, <3>5
  <2>9. r.ok /\ r.pos = q /\ r.docs = OrResult(left.docs, right.docs)
    BY <1>5 DEF Value
  <2>10. r \in Results
    BY <1>2
  <2> HIDE DEF r
  <2>11. OrTakes(ts, leaf, m, D, i, r)
    BY <2>5, <2>7, <2>8, <2>9, <2>10 DEF OrTakes, Takes
  <2> QED
    BY <2>11 DEF r
<1> QED
  BY <1>2, <1>3, <1>4, <1>5 DEF OrTurned

LEMMA OrsTake ==
    ASSUME NEW ts, NEW leaf, NEW p, NEW m, Line(ts, leaf, p, m), NEW D,
           NEW inner \in [Positions -> Results], AllTake(ts, leaf, m, D, inner),
           NEW i \in 1 .. Len(ts) + 1
    PROVE  OrTakes(ts, leaf, m, D, i, ParseOr(ts, inner, i))
<1> DEFINE turn == OrTurn(ts, inner)
           first == ParseAnd(ts, inner, i)
           n == Len(ts)
<1>1. n \in Nat /\ ts \in Seq(Token) /\ LeafTypes(ts) /\ i \in Positions
  BY DEF Line, Positions
<1>2. ParseOr(ts, inner, i) = Loop(turn, first, n)
  BY DEF ParseOr
<1>3. PICK h : IsRun(h, turn, first, n) /\ Loop(turn, first, n) = h[n]
  <2> HIDE DEF turn, first
  <2> QED
    BY <1>1, LoopRuns
<1>4. OrTakes(ts, leaf, m, D, i, first)
  <2>1. AndTakes(ts, leaf, m, D, i, first)
    BY AndsTake
  <2> QED
    BY <2>1 DEF AndTakes, OrTakes
<1> DEFINE G == {x \in 0 .. n : OrTakes(ts, leaf, m, D, i, h[x])}
<1>5. 0 \in G
  <2>1. h[0] = first
    BY <1>3 DEF IsRun
  <2> HIDE DEF first
  <2> QED
    BY <1>1, <1>4, <2>1
<1>6. ASSUME NEW x \in 0 .. n, x \in G, x < n PROVE x + 1 \in G
  <2>1. x + 1 \in 1 .. n /\ x + 1 \in 0 .. n /\ (x + 1) - 1 = x
    BY <1>1, <1>6
  <2>2. h[x + 1] = turn[h[x]]
    <3> HIDE DEF turn, first
    <3>1. h[x + 1] = turn[h[(x + 1) - 1]]
      BY <1>3, <2>1 DEF IsRun
    <3> QED
      BY <2>1, <3>1
  <2>3. OrTakes(ts, leaf, m, D, i, turn[h[x]])
    BY <1>6, OrTurnTakes
  <2> HIDE DEF turn
  <2> QED
    BY <2>1, <2>2, <2>3
<1>7. n \in G
  <2>1. n \in 0 .. n
    BY <1>1
  <2> HIDE DEF G, n
  <2> QED
    BY <1>1, <1>5, <1>6, <2>1, FromZero
<1> QED
  BY <1>2, <1>3, <1>7

LEMMA LevelsTake ==
    ASSUME NEW ts, NEW leaf, NEW p, NEW m, Line(ts, leaf, p, m), NEW D
    PROVE  \A d \in 0 .. Len(ts) : AllTake(ts, leaf, m, D, p[d])
<1> DEFINE n == Len(ts)
           G == {d \in 0 .. n : AllTake(ts, leaf, m, D, p[d])}
<1>1. n \in Nat /\ \A i \in 1 .. n + 1 : i \in Positions
  BY DEF Line, Positions
<1>2. 0 \in G
  <2>1. p[0] = Level(ts, p, 0) /\ 0 \in 0 .. n
    BY <1>1 DEF Line, AreLevels
  <2>2. \A i \in 1 .. n + 1 : p[0][i] = Failed
    BY <1>1, <2>1 DEF Level
  <2>3. AllTake(ts, leaf, m, D, p[0])
    BY <2>2 DEF AllTake, Takes, Failed
  <2> QED
    BY <2>1, <2>3
<1>3. ASSUME NEW d \in 0 .. n, d \in G, d < n PROVE d + 1 \in G
  <2>1. d + 1 \in 0 .. n /\ d + 1 # 0 /\ (d + 1) - 1 = d
    BY <1>1, <1>3
  <2>2. p[d + 1] = Level(ts, p, d + 1)
    BY <2>1 DEF Line, AreLevels
  <2>3. \A i \in 1 .. n + 1 : p[d + 1][i] = ParseOr(ts, p[d], i)
    BY <1>1, <2>1, <2>2 DEF Level
  <2>4. p[d] \in [Positions -> Results]
    BY LevelTypes DEF Line
  <2>5. AllTake(ts, leaf, m, D, p[d])
    BY <1>3
  <2>6. ASSUME NEW i \in 1 .. n + 1
        PROVE  Takes(ts, leaf, m, D, i, p[d + 1][i])
    <3>1. OrTakes(ts, leaf, m, D, i, ParseOr(ts, p[d], i))
      BY <2>4, <2>5, OrsTake
    <3> QED
      BY <2>3, <3>1 DEF OrTakes
  <2>7. AllTake(ts, leaf, m, D, p[d + 1])
    BY <2>6 DEF AllTake
  <2> QED
    BY <2>1, <2>7
<1> HIDE DEF G, n
<1>4. \A d \in 0 .. n : d \in G
  BY <1>1, <1>2, <1>3, FromZero
<1> QED
  BY <1>4 DEF G, n

-----------------------------------------------------------------------------
(* A line is answered by its meaning.                                      *)

Answers(ts, leaf, D, r) ==
    LET meaning == Meanings(ts, leaf)[<<1, Len(ts)>>]
    IN  /\ r \in Results
        /\ r.ok = meaning.ok
        /\ r.ok /\ Agrees(ts, leaf, D) => r.docs = meaning.docs /\ r.docs \subseteq D

LEMMA LineAnswers ==
    ASSUME NEW ts \in Seq(Token), NEW leaf, LeafTypes(ts), LeavesOf(ts, leaf), NEW D
    PROVE  Answers(ts, leaf, D, ExecuteLine(ts))
<1> DEFINE n == Len(ts)
           m == Meanings(ts, leaf)
           meaning == m[<<1, n>>]
           r == ExecuteLine(ts)
<1>1. n \in Nat /\ 1 \in 1 .. n + 1 /\ n \in 0 .. n /\ 1 \in Positions
  BY DEF Positions
<1>2. AreMeanings(ts, leaf, m)
  BY MeaningsAre
<1>3. Well(ts, m, 1, n)
  <2> HIDE DEF m
  <2> QED
    BY <1>1, <1>2, AllWell
<1>4. meaning.ok \in BOOLEAN
  BY <1>3 DEF Well
<1>5. CASE ts = <<>>
  <2>1. r = Failed
    BY <1>5 DEF ExecuteLine, Failed
  <2>2. meaning.ok = FALSE
    <3>1. n = 0
      BY <1>5
    <3> HIDE DEF m
    <3> QED
      BY <1>3, <1>4, <3>1 DEF Well
  <2> HIDE DEF meaning, r
  <2>3. r \in Results /\ r.ok = meaning.ok
    BY <2>1, <2>2 DEF Failed, Results
  <2>4. ~ r.ok
    BY <2>1 DEF Failed
  <2> QED
    BY <2>3, <2>4 DEF Answers, meaning, r
<1>6. CASE ts # <<>>
  <2>1. PICK p : Parser(ts) = p[n] /\ AreLevels(ts, p)
    BY <1>1, ParserIs DEF AreLevels
  <2>2. Line(ts, leaf, p, m)
    BY <1>2, <2>1 DEF Line
  <2> DEFINE x == p[n][1]
  <2>3. x \in Results
    BY <1>1, <2>1, LevelTypes
  <2>4. Takes(ts, leaf, m, D, 1, x)
    <3>1. AllTake(ts, leaf, m, D, p[n])
      BY <1>1, <2>2, LevelsTake
    <3> QED
      BY <1>1, <3>1 DEF AllTake
  <2>5. r = IF x.pos > n THEN x ELSE Failed
    BY <1>6, <2>1 DEF ExecuteLine
  <2>6. meaning.ok => ReadTo(x, n + 1)
    <3> HIDE DEF m
    <3> QED
      BY <1>6, <2>2, LineParsed
  <2> HIDE DEF m, x, r
  <2>7. x.ok /\ x.pos > n => /\ meaning.ok
                             /\ Agrees(ts, leaf, D) =>
                                   x.docs = meaning.docs /\ x.docs \subseteq D
    <3> SUFFICES ASSUME x.ok, x.pos > n
                 PROVE  /\ meaning.ok
                        /\ Agrees(ts, leaf, D) =>
                              x.docs = meaning.docs /\ x.docs \subseteq D
      OBVIOUS
    <3>1. x.pos \in 1 + 1 .. n + 1
      BY <2>4 DEF Takes
    <3>2. x.pos - 1 = n
      <4> HIDE DEF n
      <4> QED
        BY <1>1, <3>1
    <3> QED
      BY <2>4, <3>2 DEF Takes
  <2>8. r \in Results
    BY <2>3, <2>5 DEF Failed, Results
  <2>9. r.ok => x.ok /\ x.pos > n /\ r = x
    BY <2>5 DEF Failed
  <2>10. meaning.ok => r.ok
    BY <1>1, <2>5, <2>6 DEF ReadTo
  <2>11. r.ok \in BOOLEAN
    BY <2>8 DEF Results
  <2>12. r.ok = meaning.ok
    BY <1>4, <2>7, <2>9, <2>10, <2>11
  <2> HIDE DEF meaning
  <2>13. r.ok /\ Agrees(ts, leaf, D) => r.docs = meaning.docs /\ r.docs \subseteq D
    BY <2>7, <2>9
  <2> QED
    BY <2>8, <2>12, <2>13 DEF Answers, meaning, m, r, n
<1> QED
  BY <1>5, <1>6

-----------------------------------------------------------------------------
(* The tokens that stand alone.                                            *)

LeafOf(ts) == [i \in DOMAIN ts |-> MeaningOfToken(ts[i])]

LEMMA TokenFields ==
    ASSUME NEW tok \in Token
    PROVE  /\ tok.kind = "term" => tok.text \in Seq(Words)
           /\ tok.kind = "pattern" => tok.runes \in Wildcards
           /\ tok.kind = "date" =>
                 tok.field \in Fields /\ {tok.from, tok.to} \subseteq QueryDays \cup {BadDate}
  BY DEF Token, Operators

LEMMA MeaningOfTokenIs ==
    ASSUME NEW tok
    PROVE  /\ MeaningOfToken(tok).ok \in BOOLEAN
           /\ MeaningOfToken(tok).ok <=> Simple(tok)
           /\ tok.kind = "term" => MeaningOfToken(tok).docs = Expected(<<tok.text>>)
           /\ tok.kind = "pattern" => MeaningOfToken(tok).docs = ExpectedOf(tok.runes)
           /\ tok.kind = "date" /\ Simple(tok) =>
                 MeaningOfToken(tok).docs = DateSearch(tok.field, tok.from, tok.to)
<1>1. CASE tok.kind = "term"
  <2>1. MeaningOfToken(tok) = [ok |-> TRUE, docs |-> Expected(<<tok.text>>)]
    BY <1>1 DEF MeaningOfToken
  <2> QED
    BY <1>1, <2>1 DEF Simple
<1>2. CASE tok.kind = "pattern"
  <2>1. MeaningOfToken(tok) = [ok |-> TRUE, docs |-> ExpectedOf(tok.runes)]
    BY <1>2 DEF MeaningOfToken
  <2> QED
    BY <1>2, <2>1 DEF Simple
<1>3. CASE tok.kind = "date" /\ BadDate \notin {tok.from, tok.to}
  <2>1. MeaningOfToken(tok) =
           [ok |-> TRUE, docs |-> DateSearch(tok.field, tok.from, tok.to)]
    BY <1>3 DEF MeaningOfToken
  <2> QED
    BY <1>3, <2>1 DEF Simple
<1>4. CASE ~ Simple(tok)
  <2>1. MeaningOfToken(tok) = NoMeaning
    BY <1>4 DEF MeaningOfToken, Simple
  <2> QED
    BY <1>4, <2>1 DEF NoMeaning, Simple
<1> QED
  BY <1>1, <1>2, <1>3, <1>4 DEF Simple

LEMMA TokensMean ==
    ASSUME NEW ts \in Seq(Token)
    PROVE  LeavesOf(ts, LeafOf(ts))
<1>1. \A i \in 1 .. Len(ts) : LeafOf(ts)[i] = MeaningOfToken(ts[i])
  BY DEF LeafOf
<1>2. \A i \in 1 .. Len(ts) : MeaningOfToken(ts[i]).ok \in BOOLEAN
                             /\ (MeaningOfToken(ts[i]).ok <=> Simple(ts[i]))
  BY MeaningOfTokenIs
<1> QED
  BY <1>1, <1>2 DEF LeavesOf

LEMMA ListedDocs ==
    ASSUME NEW entries, NEW times, Indexes(entries, times), NEW from \in Int, NEW to \in Int
    PROVE  /\ DayRange(entries, from, to) \subseteq DOMAIN times
           /\ LeBitmap(entries, to) \subseteq DOMAIN times
<1>1. DayRange(entries, from, to) = DocsOf(entries, from, to)
  BY DayRangeIs DEF Indexes
<1>2. LeBitmap(entries, to) =
         {e.docID : e \in {e \in Listed(entries) : e.day <= to}}
  BY LeBitmapIs DEF Indexes
<1>3. \A e \in Listed(entries) : e.docID \in DOMAIN times
  BY EntryOfDoc
<1> QED
  BY <1>1, <1>2, <1>3 DEF DocsOf

LEMMA DateSearchWithin ==
    ASSUME DateInv, stage # "terms", NEW field \in Fields,
           NEW from \in QueryDays, NEW to \in QueryDays
    PROVE  DateSearch(field, from, to) \subseteq DocIDs
<1>1. from \in Int /\ to \in Int
  BY EngineAssumption
<1>2. 0 .. Dated - 1 = DocIDs
  BY DEF Dated, DocIDs
<1>3. /\ Indexes(dateIdx, Dates) /\ Indexes(startDateIdx, StartDates)
      /\ DOMAIN Dates = DocIDs /\ DOMAIN StartDates = DocIDs
  BY <1>2 DEF DateInv, Dates, StartDates
<1>4. SearchDateRange(from, to) \subseteq DocIDs
  BY <1>1, <1>3, ListedDocs DEF SearchDateRange
<1>5. SearchAppearedInRange(from, to) \subseteq DocIDs
  BY <1>1, <1>3, ListedDocs DEF SearchAppearedInRange
<1>6. SearchValidInRange(from, to) \subseteq DocIDs
  BY <1>1, <1>3, ListedDocs DEF SearchValidInRange
<1> QED
  BY <1>4, <1>5, <1>6 DEF DateSearch, Fields

\* A search at the prompt is for what its token means.
LEMMA TokenSearched ==
    ASSUME TextInv, Running, stage # "terms", NEW tok \in Token, Simple(tok)
    PROVE  /\ Searched(tok) \subseteq Nat
           /\ losses = 0 /\ (tok.kind = "pattern" => HasGram(tok.runes)) =>
                 /\ MeaningOfToken(tok).docs = Searched(tok)
                 /\ MeaningOfToken(tok).docs \subseteq DocIDs
<1>1. DateInv /\ StageInv /\ DocIDs \subseteq Nat
  BY DEF TextInv, DocIDs, DateInv
<1>2. CASE tok.kind = "term"
  <2> DEFINE q == <<tok.text>>
  <2>1. tok.text \in Seq(Words)
    BY <1>2, TokenFields
  <2>2. q \in Seq(Seq(Words))
    BY <2>1
  <2>3. Searched(tok) = Search(q) /\ MeaningOfToken(tok).docs = Expected(q)
    BY <1>2, MeaningOfTokenIs DEF Searched
  <2> HIDE DEF q
  <2>4. Search(q) \subseteq 0 .. MaxDocs - 1
    BY <1>1, <2>2, SearchIs
  <2>5. 0 .. MaxDocs - 1 \subseteq Nat
    BY EngineAssumption
  <2>6. losses = 0 => Search(q) = Expected(q)
    BY <2>2, SearchFindsWords
  <2>7. Expected(q) \subseteq DocIDs
    BY DEF Expected
  <2> QED
    BY <2>3, <2>4, <2>5, <2>6, <2>7
<1>3. CASE tok.kind = "pattern"
  <2> DEFINE p == tok.runes
  <2>1. p \in Wildcards
    BY <1>3, TokenFields
  <2>2. Searched(tok) = SearchPattern(p) /\ MeaningOfToken(tok).docs = ExpectedOf(p)
    BY <1>3, MeaningOfTokenIs DEF Searched
  <2> HIDE DEF p
  <2>3. ExpectedOf(p) = Led(p) /\ Led(p) \subseteq DocIDs /\ Matched(p) \subseteq DocIDs
    BY <1>1, <2>1, ExpectedIs DEF Matched, Led
  <2>4. /\ SearchPattern(p) \subseteq Matched(p)
        /\ losses = 0 /\ HasGram(p) => SearchPattern(p) = Led(p)
    BY <2>1, PatternFinds
  <2> QED
    BY <1>1, <1>3, <2>2, <2>3, <2>4 DEF p
<1>4. CASE tok.kind = "date"
  <2>1. tok.field \in Fields /\ tok.from \in QueryDays /\ tok.to \in QueryDays
    BY <1>4, TokenFields DEF Simple
  <2>2. Searched(tok) = DateSearch(tok.field, tok.from, tok.to)
    BY <1>4 DEF Searched
  <2>3. MeaningOfToken(tok).docs = DateSearch(tok.field, tok.from, tok.to)
    BY <1>4, MeaningOfTokenIs
  <2>4. DateSearch(tok.field, tok.from, tok.to) \subseteq DocIDs
    BY <1>1, <2>1, DateSearchWithin
  <2> QED
    BY <1>1, <2>2, <2>3, <2>4
<1> QED
  BY <1>2, <1>3, <1>4 DEF Simple

LEMMA TokensSearched ==
    ASSUME TextInv, Running, stage # "terms", NEW ts \in Seq(Token)
    PROVE  /\ LeafTypes(ts)
           /\ losses = 0
              /\ (\A i \in DOMAIN ts : ts[i].kind = "pattern" => HasGram(ts[i].runes))
              => Agrees(ts, LeafOf(ts), DocIDs)
<1>1. DOMAIN ts = 1 .. Len(ts) /\ \A i \in 1 .. Len(ts) : ts[i] \in Token
  OBVIOUS
<1>2. LeafTypes(ts)
  BY <1>1, TokenSearched DEF LeafTypes
<1>3. ASSUME losses = 0,
             \A i \in DOMAIN ts : ts[i].kind = "pattern" => HasGram(ts[i].runes)
      PROVE  Agrees(ts, LeafOf(ts), DocIDs)
  <2>1. ASSUME NEW i \in 1 .. Len(ts), LeafOf(ts)[i].ok
        PROVE  /\ LeafOf(ts)[i].docs = Searched(ts[i])
               /\ LeafOf(ts)[i].docs \subseteq DocIDs
    <3>1. LeafOf(ts)[i] = MeaningOfToken(ts[i]) /\ ts[i] \in Token
      BY <1>1 DEF LeafOf
    <3>2. Simple(ts[i])
      BY <2>1, <3>1, MeaningOfTokenIs
    <3> QED
      BY <1>1, <1>3, <3>1, <3>2, TokenSearched
  <2> QED
    BY <2>1 DEF Agrees
<1> QED
  BY <1>2, <1>3

-----------------------------------------------------------------------------
(* The prompt.                                                             *)

\* What is printed is the answer to a line.
AnswerIs(ts) ==
    /\ answer.ok = Meaning(ts).ok
    /\ answer.ok /\ losses = 0
       /\ (\A i \in DOMAIN ts : ts[i].kind = "pattern" => HasGram(ts[i].runes))
       => answer.docs = Meaning(ts).docs

Lines == UNION {LinesAbout[indexed] : indexed \in DOMAIN LinesAbout}
AnswerInv == stage = "answered" => \E ts \in Lines : line = ts /\ AnswerIs(ts)

\* What the meaning of a line depends on.
meaningVars == <<docs, conf, termToID, missed, dateVars>>

LEMMA MeaningSame ==
    ASSUME UNCHANGED meaningVars, NEW tok
    PROVE  MeaningOfToken(tok)' = MeaningOfToken(tok)
<1>1. UNCHANGED <<dateIdx, startDateIdx, endDateIdx, openEndDocs, docs, conf,
                  termToID, missed>>
  BY DEF meaningVars, dateVars
<1>2. DocIDs' = DocIDs
  BY <1>1 DEF DocIDs
<1>3. \A d : BasesOf(d)' = BasesOf(d)
  BY <1>1 DEF BasesOf, Base, Keeps
<1>7. \A t, d : Leads(t, d)' = Leads(t, d)
  BY <1>1 DEF Leads, Reached
<1>8. \A p, t : FoundBy(p, t)' = FoundBy(p, t)
  BY <1>1 DEF FoundBy, Reached
<1>4. ASSUME NEW q PROVE Expected(q)' = Expected(q)
  <2> DEFINE asked == {Base(w) : w \in {v \in WordsOf(q) : Keeps(conf.Query, v)}}
             known == {b \in asked \cap UNION {BasesOf(d) : d \in DocIDs} :
                          Reached("get", b[1])}
             Found(d) == {b \in BasesOf(d) : Leads(b[1], d)}
  <2>1. asked' = asked
    BY <1>1 DEF Base, Keeps, WordsOf
  <2>2. (UNION {BasesOf(d) : d \in DocIDs})' = UNION {BasesOf(d) : d \in DocIDs}
    BY <1>2, <1>3
  <2> HIDE DEF asked
  <2>3. known' = known
    BY <1>1, <2>1, <2>2 DEF Reached
  <2>4. Expected(q) = IF known = {} THEN {} ELSE {d \in DocIDs : known \subseteq Found(d)}
    BY DEF Expected, asked, WordsOf
  <2>5. Expected(q)' = IF known' = {} THEN {}
                       ELSE {d \in DocIDs' : known' \subseteq Found(d)'}
    BY DEF Expected, asked, WordsOf
  <2>6. \A d : Found(d)' = Found(d)
    BY <1>3, <1>7
  <2> HIDE DEF known, Found
  <2> QED
    BY <1>2, <2>3, <2>4, <2>5, <2>6
<1>5. \A p : ExpectedOf(p)' = ExpectedOf(p)
  <2> TAKE p
  <2> DEFINE InDoc(b, d) ==
                <<b[1], p>> \in Matching /\ Leads(b[1], d) /\ FoundBy(p, b[1])
  <2>1. \A b, d : InDoc(b, d)' = InDoc(b, d)
    BY <1>7, <1>8 DEF Matching, Matches, Fits, ToLower
  <2>2. /\ ExpectedOf(p) = {d \in DocIDs : \E b \in BasesOf(d) : InDoc(b, d)}
        /\ ExpectedOf(p)' = {d \in DocIDs' : \E b \in BasesOf(d)' : InDoc(b, d)'}
    BY DEF ExpectedOf
  <2> HIDE DEF InDoc
  <2> QED
    BY <1>2, <1>3, <2>1, <2>2
<1>6. \A field, from, to : DateSearch(field, from, to)' = DateSearch(field, from, to)
  BY <1>1 DEF DateSearch, SearchDateRange, SearchValidInRange, SearchAppearedInRange
<1> QED
  BY <1>4, <1>5, <1>6 DEF MeaningOfToken

LEMMA MeaningOfLineSame ==
    ASSUME UNCHANGED meaningVars, NEW ts
    PROVE  Meaning(ts)' = Meaning(ts)
<1>1. \A tok : MeaningOfToken(tok)' = MeaningOfToken(tok)
  BY MeaningSame
<1>2. LeafOf(ts)' = LeafOf(ts)
  BY <1>1 DEF LeafOf
<1> DEFINE M(leaf) == Meanings(ts, leaf)[<<1, Len(ts)>>]
<1>3. Meaning(ts) = M(LeafOf(ts)) /\ Meaning(ts)' = M(LeafOf(ts)')
  BY DEF Meaning, LeafOf
<1> QED
  BY <1>2, <1>3

LEMMA HasGramSame ==
    ASSUME NEW p
    PROVE  HasGram(p)' = HasGram(p)
  BY DEF HasGram

LEMMA AnswerStays ==
    ASSUME UNCHANGED <<meaningVars, losses, answer>>, NEW ts, AnswerIs(ts)
    PROVE  AnswerIs(ts)'
<1>1. Meaning(ts)' = Meaning(ts)
  BY MeaningOfLineSame
<1>2. \A p : HasGram(p)' = HasGram(p)
  BY HasGramSame
<1> QED
  BY <1>1, <1>2 DEF AnswerIs

\* The line that is asked is answered by its meaning.
LEMMA LineIsAnswered ==
    ASSUME TextInv, Running, stage # "terms", NEW ts \in Seq(Token),
           NEW r, r = ExecuteLine(ts)
    PROVE  /\ r.ok = Meaning(ts).ok
           /\ r.ok /\ losses = 0
              /\ (\A i \in DOMAIN ts : ts[i].kind = "pattern" => HasGram(ts[i].runes))
              => r.docs \cap DocIDs = Meaning(ts).docs
<1>1. LeafTypes(ts) /\ LeavesOf(ts, LeafOf(ts))
  BY TokensSearched, TokensMean
<1>2. Answers(ts, LeafOf(ts), DocIDs, r)
  BY <1>1, LineAnswers
<1>3. Meanings(ts, LeafOf(ts))[<<1, Len(ts)>>] = Meaning(ts)
  BY DEF Meaning, LeafOf
<1>4. r.ok = Meaning(ts).ok
      /\ (r.ok /\ Agrees(ts, LeafOf(ts), DocIDs) =>
             r.docs = Meaning(ts).docs /\ r.docs \subseteq DocIDs)
  BY <1>2, <1>3 DEF Answers
<1> QED
  BY <1>4, TokensSearched

LEMMA LinesAreTokens == \A ts \in Lines : ts \in Seq(Token)
  BY QueryAssumption DEF Lines

LEMMA AnswerInvNext ==
    ASSUME TextInv, AnswerInv, [Next]_allVars
    PROVE  AnswerInv'
<1>1. CASE Ask
  <2>1. PICK ts \in Lines : /\ answer' = [ExecuteLine(ts) EXCEPT !.docs = @ \cap DocIDs]
                            /\ line' = ts
    BY <1>1 DEF Ask, Lines
  <2>2. stage = "prompt" /\ UNCHANGED <<meaningVars, losses>>
    BY <1>1 DEF Ask, AnswerLine, meaningVars, dictVars
  <2> DEFINE r == ExecuteLine(ts)
  <2>3. r \in Results
    <3>1. LeafTypes(ts) /\ LeavesOf(ts, LeafOf(ts))
      BY <2>2, LinesAreTokens, TokensSearched, TokensMean DEF Running
    <3> QED
      BY <3>1, LinesAreTokens, LineAnswers DEF Answers
  <2>4. /\ r.ok = Meaning(ts).ok
        /\ r.ok /\ losses = 0
           /\ (\A i \in DOMAIN ts : ts[i].kind = "pattern" => HasGram(ts[i].runes))
           => r.docs \cap DocIDs = Meaning(ts).docs
    BY <2>2, LinesAreTokens, LineIsAnswered DEF Running
  <2> HIDE DEF r
  <2>5. answer'.ok = r.ok /\ answer'.docs = r.docs \cap DocIDs
    BY <2>1, <2>3 DEF r, Results
  <2>6. Meaning(ts)' = Meaning(ts) /\ \A p : HasGram(p)' = HasGram(p)
    BY <2>2, MeaningOfLineSame, HasGramSame
  <2>7. AnswerIs(ts)'
    BY <2>2, <2>4, <2>5, <2>6 DEF AnswerIs
  <2> QED
    BY <2>1, <2>7 DEF AnswerInv
<1>2. CASE NextPrompt \/ (MainNext /\ UNCHANGED <<line, answer>>)
  <2>1. stage' # "answered"
    BY <1>2 DEF NextPrompt, AwaitLine, MainNext, NewEngine, IndexFile, EnterTerm,
                EnterDates, IndexDone, Lose, Miss, FoundAgain, Close
  <2> QED
    BY <2>1 DEF AnswerInv
<1>3. CASE UNCHANGED allVars
  <2>1. UNCHANGED <<stage, meaningVars, losses, line, answer>>
    BY <1>3 DEF allVars, engineVars, meaningVars, dictVars
  <2>2. ASSUME stage = "answered"
        PROVE  \E ts \in Lines : line' = ts /\ AnswerIs(ts)'
    <3>1. PICK ts \in Lines : line = ts /\ AnswerIs(ts)
      BY <2>2 DEF AnswerInv
    <3>2. AnswerIs(ts)'
      BY <2>1, <3>1, AnswerStays
    <3> QED
      BY <2>1, <3>1, <3>2
  <2> QED
    BY <2>1, <2>2 DEF AnswerInv
<1> QED
  BY <1>1, <1>2, <1>3 DEF Next

LEMMA EngineSteps ==
    ASSUME [Next]_allVars
    PROVE  [EngineNext]_engineVars
  BY DEF Next, allVars, Ask, NextPrompt, EngineNext

\* Every line, of any length and with any nesting of parentheses, is answered
\* by what it means in terms of the texts and dates of the documents, and is an
\* error exactly where it means nothing (parser.go:18, parser.go:66): the descent
\* that evaluates as it goes cuts a line where the operator that binds least is.
THEOREM LinesAnswered == Spec => []ExecuteExact
<1>1. Init => TextInv /\ AnswerInv
  BY TextInvInit DEF Init, EngineInit, AnswerInv
<1>2. TextInv /\ AnswerInv /\ [Next]_allVars => TextInv' /\ AnswerInv'
  BY AnswerInvNext, EngineSteps, TextInvNext
<1>3. AnswerInv => ExecuteExact
  <2> SUFFICES ASSUME AnswerInv, stage = "answered" PROVE ExecuteExact
    BY DEF ExecuteExact
  <2>1. PICK ts \in Lines : line = ts /\ AnswerIs(ts)
    BY DEF AnswerInv
  <2> QED
    BY <2>1 DEF ExecuteExact, AnswerIs
<1> QED
  BY <1>1, <1>2, <1>3, PTL DEF Spec
=============================================================================
