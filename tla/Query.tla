------------------------------- MODULE Query --------------------------------
(***************************************************************************)
(* The prompt of the program (src/cmd/invertedindex/main.go) and its       *)
(* boolean queries (src/internal/invertedindex/parser/parser.go): a        *)
(* recursive descent over tokens that evaluates as it goes.  A line is a   *)
(* sequence of tokens, as tokenize makes them, each with its kind.         *)
(***************************************************************************)
EXTENDS Engine

CONSTANTS
    LinesAbout      \* the lines that are typed, by the documents that there are

Operators == {"AND", "OR", "NOT"}
Fields == {"DATE", "VALID", "APPEARED"}
Token ==
    [kind : {"(", ")"} \cup Operators]
    \cup [kind : {"term"}, text : Seq(Words)]
    \cup [kind : {"pattern"}, runes : Wildcards]
    \cup [kind : {"date"}, field : Fields, from : QueryDays \cup {BadDate},
                                           to : QueryDays \cup {BadDate}]

ASSUME QueryAssumption ==
    \A indexed \in DOMAIN LinesAbout : LinesAbout[indexed] \subseteq Seq(Token)

VARIABLES
    line,           \* the line that was typed last
    answer          \* what is printed for it

allVars == <<engineVars, line, answer>>

\* What a function of the parser returns, and where it leaves the position.
Positions == Nat \ {0}
Results == [ok : BOOLEAN, docs : SUBSET Nat, pos : Nat]
Failed == [ok |-> FALSE, docs |-> {}, pos |-> 0]
Value(D, pos) == [ok |-> TRUE, docs |-> D, pos |-> pos]

Peek(ts, pos) == IF pos > Len(ts) THEN "" ELSE ts[pos].kind

DateSearch(field, from, to) ==
    CASE field = "DATE" -> SearchDateRange(from, to)
      [] field = "VALID" -> SearchValidInRange(from, to)
      [] field = "APPEARED" -> SearchAppearedInRange(from, to)

\* A date of the query that is malformed is BadDate.
ParseDateExpr(tok, pos) ==
    IF BadDate \in {tok.from, tok.to} THEN Failed
    ELSE Value(DateSearch(tok.field, tok.from, tok.to), pos)

AndResult(left, right) == left \cap right
OrResult(left, right) == left \cup right
NotResult(left, right) == left \ right

\* inner: parseOr, as it is called inside one more parenthesis.
ParsePrimary(ts, inner, pos) ==
    LET tok == ts[pos]
        result == inner[pos + 1]
    IN  CASE Peek(ts, pos) = "(" ->
                 IF result.ok /\ Peek(ts, result.pos) = ")"
                 THEN Value(result.docs, result.pos + 1) ELSE Failed
          [] Peek(ts, pos) \in {"", ")"} \cup Operators -> Failed
          [] Peek(ts, pos) = "date" -> ParseDateExpr(tok, pos + 1)
          [] Peek(ts, pos) = "pattern" ->
                 Value(SearchPattern(tok.runes), pos + 1)
          [] Peek(ts, pos) = "term" -> Value(Search(<<tok.text>>), pos + 1)

\* The variable of a loop after n turns, which are more than it makes: a turn
\* takes an operator, and the one that ends the loop changes nothing any more.
Loop(turn, first, n) ==
    LET left[i \in 0 .. n] == IF i = 0 THEN first ELSE turn[left[i - 1]]
    IN  left[n]

\* What a turn makes of what is there and of what follows the operator.
Join(left, right, op(_, _)) ==
    IF right.ok THEN Value(op(left.docs, right.docs), right.pos) ELSE Failed

AndTurn(ts, inner) ==
    [left \in Results |->
        IF ~left.ok \/ Peek(ts, left.pos) # "AND" THEN left
        ELSE IF Peek(ts, left.pos + 1) = "NOT"
        THEN Join(left, ParsePrimary(ts, inner, left.pos + 2), NotResult)
        ELSE Join(left, ParsePrimary(ts, inner, left.pos + 1), AndResult)]

ParseAnd(ts, inner, pos) ==
    Loop(AndTurn(ts, inner), ParsePrimary(ts, inner, pos), Len(ts))

OrTurn(ts, inner) ==
    [left \in Results |->
        IF ~left.ok \/ Peek(ts, left.pos) # "OR" THEN left
        ELSE Join(left, ParseAnd(ts, inner, left.pos + 1), OrResult)]

ParseOr(ts, inner, pos) ==
    Loop(OrTurn(ts, inner), ParseAnd(ts, inner, pos), Len(ts))

\* parseOr, by position: parser[d] for a call inside of which parentheses nest
\* less than d deep, as they do in any line of d tokens.
Parser(ts) ==
    LET parser[d \in 0 .. Len(ts)] ==
            [pos \in Positions |->
                IF d = 0 THEN Failed ELSE ParseOr(ts, parser[d - 1], pos)]
    IN  parser[Len(ts)]

\* The whole line has to be one expression.
ExecuteLine_RestIgnored(ts) ==
    IF ts = <<>> THEN Failed ELSE Parser(ts)[1]
ExecuteLine(ts) ==
    LET result == IF ts = <<>> THEN Failed ELSE Parser(ts)[1]
    IN  IF result.pos > Len(ts) THEN result ELSE Failed

-----------------------------------------------------------------------------
Init == EngineInit /\ line = <<>> /\ answer = Failed

\* A line is read and its answer printed, with the documents behind the ids.
Ask ==
    /\ AnswerLine
    /\ docs \in DOMAIN LinesAbout
    /\ \E ts \in LinesAbout[docs] :
          LET result == ExecuteLine(ts)
          IN  /\ answer' = [result EXCEPT !.docs = @ \cap DocIDs]
              /\ line' = ts

NextPrompt == AwaitLine /\ line' = <<>> /\ answer' = Failed

Next ==
    \/ MainNext /\ UNCHANGED <<line, answer>>
    \/ Ask \/ NextPrompt

Spec == Init /\ [][Next]_allVars

-----------------------------------------------------------------------------
(* What a line means: it is cut at the operator that binds least, outside  *)
(* parentheses, the last one if there are several.                         *)

\* How many parentheses are open after the first n tokens.
Count(ts, n, kind) == Cardinality({i \in 1 .. n : ts[i].kind = kind})
Depth(ts, n) == Count(ts, n, "(") - Count(ts, n, ")")

Cuts(ts, i, j, op) ==
    {c \in i .. j : ts[c].kind = op /\ Depth(ts, c) = Depth(ts, i - 1)}
LastOf(S) == CHOOSE c \in S : \A d \in S : d <= c

NoMeaning == [ok |-> FALSE, docs |-> {}]
Both(left, right, op(_, _)) ==
    [ok |-> left.ok /\ right.ok, docs |-> op(left.docs, right.docs)]

MeaningOfToken(tok) ==
    CASE tok.kind = "term" -> [ok |-> TRUE, docs |-> Expected(<<tok.text>>)]
      [] tok.kind = "pattern" -> [ok |-> TRUE, docs |-> ExpectedOf(tok.runes)]
      [] tok.kind = "date" /\ BadDate \notin {tok.from, tok.to} ->
             [ok |-> TRUE, docs |-> DateSearch(tok.field, tok.from, tok.to)]
      [] OTHER -> NoMeaning

\* The tokens from i to j, given what each token means and, as m[<<a, b>>],
\* what the shorter parts of the line mean.
MeaningOf(ts, leaf, m, i, j) ==
    LET ors == Cuts(ts, i, j, "OR")
        ands == Cuts(ts, i, j, "AND")
        or == LastOf(ors)
        and == LastOf(ands)
    IN  IF ors # {} THEN Both(m[<<i, or - 1>>], m[<<or + 1, j>>], OrResult)
        ELSE IF ands # {}
        THEN IF and < j /\ ts[and + 1].kind = "NOT"
             THEN Both(m[<<i, and - 1>>], m[<<and + 2, j>>], NotResult)
             ELSE Both(m[<<i, and - 1>>], m[<<and + 1, j>>], AndResult)
        ELSE IF i < j /\ ts[i].kind = "(" /\ ts[j].kind = ")"
        THEN m[<<i + 1, j - 1>>]
        ELSE IF i = j THEN leaf[i]
        ELSE NoMeaning

Meanings(ts, leaf) ==
    LET m[r \in (1 .. Len(ts) + 1) \X (0 .. Len(ts))] ==
            MeaningOf(ts, leaf, m, r[1], r[2])
    IN  m

Meaning(ts) ==
    Meanings(ts, [i \in DOMAIN ts |-> MeaningOfToken(ts[i])])[<<1, Len(ts)>>]

\* The answer to a line is its meaning in terms of the texts and dates of the
\* documents: AND binds more than OR, AND NOT takes away from what is left of
\* it, parentheses group, and a line that is not an expression is an error.
\* The documents are exact where those of the patterns are; what the searches of
\* the line miss (Expected, ExpectedOf) goes through the operators.
ExecuteExact ==
    stage = "answered" =>
        LET meaning == Meaning(line)
        IN  /\ answer.ok = meaning.ok
            /\ answer.ok /\ losses = 0
               /\ (\A i \in DOMAIN line :
                      line[i].kind = "pattern" => HasGram(line[i].runes))
               => answer.docs = meaning.docs
=============================================================================
