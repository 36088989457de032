------------------------------- MODULE Parser -------------------------------
(***************************************************************************)
(* The recursive-descent parser (src/parser/parser.go) over the tokens of  *)
(* its lexer (src/parser/lexer.go).  A token is its keyword, operator,     *)
(* name or literal; one that the lexer rejects is "?".  The behaviours     *)
(* grow a text token by token, as long as it can still become a            *)
(* statement, or start from the text of a given statement.                 *)
(*                                                                         *)
(* A syntax tree is a node with an operator and arguments.  A parsing      *)
(* function takes what was parsed so far: the nodes built, and the tokens  *)
(* yet to come, the current token first.  It returns the same, or gives up *)
(* at the current token.                                                   *)
(***************************************************************************)
EXTENDS Integers, Sequences, SequencesExt, FiniteSets

CONSTANTS Ident,     \* names
          Literal,   \* literals that have a value
          Huge,      \* an integer literal that ParseInt refuses
          Openings,  \* texts to start from
          MaxMore,   \* bound: tokens added to an opening
          Operands,  \* leaves of the given expressions
          MaxDepth   \* bound: depth of the given expressions

Keyword == {"SELECT", "FROM", "WHERE", "CREATE", "TABLE", "INSERT", "INTO", "VALUES", "ANALYZE",
            "EXPLAIN", "AND", "OR", "INT", "DELETE", "UPDATE", "SET", "JOIN", "ON", "INDEX",
            "BEGIN", "COMMIT", "ROLLBACK", "TRANSACTION", "START", "END"}
Symbol == {"(", ")", ",", "*", "=", "<", ".", "+", "-"}
Token == Keyword \cup Symbol \cup Ident \cup Literal \cup {Huge, "?"}

VARIABLES toks,   \* the tokens of the text
          start,  \* how many of them were given
          given   \* the statement whose text it is, or NoTree

pvars == <<toks, start, given>>

(***************************************************************************)
(* Results                                                                 *)
(***************************************************************************)

Node(op, args) == [op |-> op, args |-> args]
LeafOf(tok) == Node(tok, <<>>)
NoTree == LeafOf("none")

Ok(rest, out) == [ok |-> TRUE, rest |-> rest, out |-> out]
Bad(rest) == [ok |-> FALSE, rest |-> rest, out |-> <<>>]

\* The current token, and the one after it.
currTok(r) == IF r.rest = <<>> THEN "EOF" ELSE Head(r.rest)
peekTok(r) == IF Len(r.rest) < 2 THEN "EOF" ELSE r.rest[2]

\* r's tokens, with no nodes yet; and r without its current token.
Fresh(r) == [r EXCEPT !.out = <<>>]
nextToken(r) == [r EXCEPT !.rest = Tail(@)]

\* The keyword kw, which leaves no node.
Skip(r, kw) == IF ~r.ok THEN r ELSE IF currTok(r) = kw THEN nextToken(r) ELSE Bad(r.rest)

\* A token of S, which becomes a leaf.
Take(r, S) ==
  IF ~r.ok THEN r
  ELSE IF currTok(r) \in S THEN Ok(Tail(r.rest), Append(r.out, LeafOf(currTok(r)))) ELSE Bad(r.rest)

\* The nodes of q, which started where r ended, become one node of r.
Group(r, op, q) ==
  IF r.ok /\ q.ok THEN Ok(q.rest, Append(r.out, Node(op, q.out))) ELSE IF r.ok THEN q ELSE r

(***************************************************************************)
(* Expressions                                                             *)
(***************************************************************************)

\* The operators of parseOr, parseAnd, parseComparison and parseAdditive.
Level == <<{"OR"}, {"AND"}, {"=", "<"}, {"+", "-"}>>

\* A column, a qualified column or a literal.
parsePrimaryExpr(r) ==
  IF r.ok /\ currTok(r) \in Ident /\ peekTok(r) = "."
  THEN Group(r, ".", Take(Skip(Take(Fresh(r), Ident), "."), Ident))
  ELSE Take(r, Ident \cup Literal)

RECURSIVE parseLevel(_, _), parseMore(_, _)

\* Mutant: an operator takes all that follows as its right operand.
moreRight(n, left) ==
  IF left.ok /\ currTok(left) \in Level[n]
  THEN Group(Fresh(left), currTok(left), parseLevel(n, nextToken(left)))
  ELSE left

\* Mutant: an `if` for the `for`: one operator of each level.
moreOnce(n, left) ==
  IF left.ok /\ currTok(left) \in Level[n]
  THEN Group(Fresh(left), currTok(left), parseLevel(n + 1, nextToken(left)))
  ELSE left

\* The loop of level n: operators of this level, each with an operand of the
\* next level on its right.  A comparison takes one operator at most.
parseMore(n, left) ==
  IF left.ok /\ currTok(left) \in Level[n]
  THEN LET node == Group(Fresh(left), currTok(left), parseLevel(n + 1, nextToken(left)))
       IN  IF n = 3 THEN node ELSE parseMore(n, node)
  ELSE left

\* An expression of level n becomes a node of r.
parseLevel(n, r) ==
  IF ~r.ok THEN r
  ELSE IF n > Len(Level) THEN parsePrimaryExpr(r)
  ELSE LET e == parseMore(n, parseLevel(n + 1, Fresh(r)))
       IN  IF e.ok THEN [e EXCEPT !.out = r.out \o @] ELSE e

parseExpression(r) == parseLevel(1, r)

(***************************************************************************)
(* Statements                                                              *)
(***************************************************************************)

\* One element of a comma-separated list.  A value of INSERT is parsed as a
\* primary expression and then must be a literal.
parseElement(kind, r) ==
  CASE ~r.ok           -> r
    [] kind = "expr"   -> parseExpression(r)
    [] kind = "value"  -> IF currTok(r) \in Ident THEN Bad(r.rest) ELSE parsePrimaryExpr(r)
    [] kind = "column" -> Group(r, "column", Take(Take(Fresh(r), Ident), {"INT"}))
    [] kind = "assign" -> Group(r, "assign", parseExpression(Skip(Take(Fresh(r), Ident), "=")))

RECURSIVE parseList(_, _)
parseList(kind, r) ==
  LET one == parseElement(kind, r)
  IN  IF one.ok /\ currTok(one) = "," THEN parseList(kind, nextToken(one)) ELSE one

\* A list as one node of r.
List(kind, r) == Group(r, "list", parseList(kind, Fresh(r)))

parseWhere(r) ==
  Group(r, "where", IF currTok(r) = "WHERE" THEN parseExpression(nextToken(Fresh(r))) ELSE Fresh(r))

parseAlias(r) ==
  Group(r, "alias", IF currTok(r) \in Ident THEN Take(Fresh(r), Ident) ELSE Fresh(r))

RECURSIVE parseJoins(_)
parseJoins(r) ==
  IF r.ok /\ currTok(r) = "JOIN"
  THEN parseJoins(Group(r, "join",
         parseExpression(Skip(parseAlias(Take(nextToken(Fresh(r)), Ident)), "ON"))))
  ELSE r

\* Mutant: what follows a complete statement is not looked at.
EndAnywhere(op, r) == IF r.ok THEN Ok(<<>>, <<Node(op, r.out)>>) ELSE r

\* The statement must end the text.
End(op, r) ==
  IF ~r.ok THEN r ELSE IF currTok(r) = "EOF" THEN Ok(<<>>, <<Node(op, r.out)>>) ELSE Bad(r.rest)

parseCreateTable(r) ==
  End("CREATE TABLE", Skip(List("column", Skip(Take(Skip(Skip(r, "CREATE"), "TABLE"), Ident), "(")), ")"))

\* CREATE INDEX [name] ON table(column); the name comes first in the tree.
parseCreateIndex(r) ==
  LET name == parseAlias(Skip(Skip(r, "CREATE"), "INDEX"))
  IN  End("CREATE INDEX", Skip(Take(Skip(Take(Skip(name, "ON"), Ident), "("), Ident), ")"))

parseInsert(r) ==
  End("INSERT", Skip(List("value",
    Skip(Skip(Take(Skip(Skip(r, "INSERT"), "INTO"), Ident), "VALUES"), "(")), ")"))

parseSelectExpressions(r) ==
  IF r.ok /\ currTok(r) = "*" THEN Group(r, "list", Take(Fresh(r), {"*"})) ELSE List("expr", r)

parseSelect(r) ==
  LET from == parseAlias(Take(Skip(parseSelectExpressions(Skip(r, "SELECT")), "FROM"), Ident))
  IN  End("SELECT", parseWhere(Group(from, "joins", parseJoins(Fresh(from)))))

parseDelete(r) == End("DELETE", parseWhere(Take(Skip(Skip(r, "DELETE"), "FROM"), Ident)))

parseUpdate(r) ==
  End("UPDATE", parseWhere(List("assign", Skip(Take(Skip(r, "UPDATE"), Ident), "SET"))))

parseAnalyze(r) ==
  LET kw == Skip(r, "ANALYZE")
  IN  End("ANALYZE", Take(IF currTok(kw) = "TABLE" THEN nextToken(kw) ELSE kw, Ident))

\* BEGIN, COMMIT and ROLLBACK, each with an optional TRANSACTION.
parseControl(op, r) ==
  LET kw == nextToken(r)
  IN  End(op, IF currTok(kw) = "TRANSACTION" THEN nextToken(kw) ELSE kw)

RECURSIVE parseStatement(_)
parseStatement(r) ==
  LET tok == currTok(r)
  IN  CASE tok = "CREATE" -> IF peekTok(r) = "INDEX" THEN parseCreateIndex(r) ELSE parseCreateTable(r)
        [] tok = "INSERT"             -> parseInsert(r)
        [] tok = "SELECT"             -> parseSelect(r)
        [] tok = "DELETE"             -> parseDelete(r)
        [] tok = "UPDATE"             -> parseUpdate(r)
        [] tok \in {"BEGIN", "START"} -> parseControl("BEGIN", r)
        [] tok \in {"COMMIT", "END"}  -> parseControl("COMMIT", r)
        [] tok = "ROLLBACK"           -> parseControl("ROLLBACK", r)
        [] tok = "EXPLAIN"            -> Group(r, "EXPLAIN", parseStatement(nextToken(r)))
        [] tok = "ANALYZE"            -> parseAnalyze(r)
        [] OTHER                      -> Bad(r.rest)

Parse(text) == parseStatement(Ok(text, <<>>))

(***************************************************************************)
(* Texts                                                                   *)
(***************************************************************************)

Infix == UNION {Level[n] : n \in DOMAIN Level} \cup {"."}

RECURSIVE Text(_)

\* The texts of the nodes in a sequence, with a separator between them.
Texts(nodes, sep) ==
  LET join[n \in 0 .. Len(nodes)] ==
        IF n = 0 THEN <<>>
        ELSE join[n - 1] \o (IF n = 1 THEN <<>> ELSE sep) \o Text(nodes[n])
  IN  join[Len(nodes)]

\* The tokens of a tree, in the shortest form of its statement.
Text(node) ==
  LET op == node.op
      arg(n) == Text(node.args[n])
  IN  CASE op \in {"alias", "joins", "column"} -> Texts(node.args, <<>>)
        [] op = "list"         -> Texts(node.args, <<",">>)
        [] op = "assign"       -> Texts(node.args, <<"=">>)
        [] op \in Infix        -> Texts(node.args, <<op>>)
        [] op = "where"        -> IF node.args = <<>> THEN <<>> ELSE <<"WHERE">> \o arg(1)
        [] op = "join"         -> <<"JOIN">> \o arg(1) \o arg(2) \o <<"ON">> \o arg(3)
        [] op = "CREATE TABLE" -> <<"CREATE", "TABLE">> \o arg(1) \o <<"(">> \o arg(2) \o <<")">>
        [] op = "CREATE INDEX" -> <<"CREATE", "INDEX">> \o arg(1) \o <<"ON">> \o arg(2)
                                    \o <<"(">> \o arg(3) \o <<")">>
        [] op = "INSERT"       -> <<"INSERT", "INTO">> \o arg(1) \o <<"VALUES", "(">> \o arg(2) \o <<")">>
        [] op = "SELECT"       -> <<"SELECT">> \o arg(1) \o <<"FROM">> \o arg(2) \o arg(3) \o arg(4) \o arg(5)
        [] op = "DELETE"       -> <<"DELETE", "FROM">> \o arg(1) \o arg(2)
        [] op = "UPDATE"       -> <<"UPDATE">> \o arg(1) \o <<"SET">> \o arg(2) \o arg(3)
        [] op \in {"ANALYZE", "EXPLAIN"} -> <<op>> \o arg(1)
        [] OTHER               -> <<op>>

\* The text without its optional words, and synonyms replaced.
Canonical ==
  LET kept == SelectSeq([i \in DOMAIN toks |-> i],
                LAMBDA i : /\ toks[i] # "TRANSACTION"
                           /\ ~(toks[i] = "TABLE" /\ i > 1 /\ toks[i - 1] = "ANALYZE"))
      same(tok) == IF tok = "START" THEN "BEGIN" ELSE IF tok = "END" THEN "COMMIT" ELSE tok
  IN  [j \in DOMAIN kept |-> same(toks[kept[j]])]

\* How tightly a node binds: 1 for OR, up to 5 for a primary expression.
Tightness(node) ==
  IF \E n \in DOMAIN Level : node.op \in Level[n] /\ node.args # <<>>
  THEN CHOOSE n \in DOMAIN Level : node.op \in Level[n] ELSE 5

\* A binary node stands over operands that need no parentheses: operators of its
\* level group from the left, and comparisons do not group.
Grouped(node) ==
  LET n == Tightness(node)
  IN  n < 5 => /\ Tightness(node.args[2]) > n
               /\ Tightness(node.args[1]) >= (IF n = 3 THEN n + 1 ELSE n)

RECURSIVE AllGrouped(_)
AllGrouped(node) == Grouped(node) /\ \A i \in DOMAIN node.args : AllGrouped(node.args[i])

RECURSIVE Exprs(_)
Exprs(depth) ==
  IF depth = 0 THEN Operands
  ELSE LET less == Exprs(depth - 1)
       IN  less \cup {e \in {Node(op, <<l, x>>) : op \in Infix \ {"."}, l \in less, x \in less} : Grouped(e)}

\* Statements of every kind.
Statements ==
  LET name     == {LeafOf(x) : x \in Ident}
      wheres   == {Node("where", <<>>)} \cup {Node("where", <<e>>) : e \in Exprs(1)}
      aliases  == {Node("alias", <<>>)} \cup {Node("alias", <<x>>) : x \in name}
      lists(S) == {Node("list", <<x>>) : x \in S} \cup {Node("list", <<x, y>>) : x \in S, y \in S}
      joins    == {Node("join", <<x, al, e>>) : x \in name, al \in aliases, e \in Exprs(0)}
      columns  == {Node("column", <<x, LeafOf("INT")>>) : x \in name}
      values   == {LeafOf(x) : x \in Literal}
      assigns  == {Node("assign", <<x, e>>) : x \in name, e \in Exprs(0)}
      tab      == CHOOSE x \in name : TRUE
      plain    ==
        {Node("DELETE", <<tab, Node("where", <<e>>)>>) : e \in Exprs(MaxDepth)}
        \cup {Node("UPDATE", <<tab, l, w>>) : l \in lists(assigns), w \in wheres}
        \cup {Node("SELECT", <<l, tab, al, Node("joins", js), Node("where", <<>>)>>) :
                 l \in lists(Exprs(0)) \cup {Node("list", <<LeafOf("*")>>)}, al \in aliases,
                 js \in {<<>>} \cup {<<j>> : j \in joins} \cup {<<j, k>> : j \in joins, k \in joins}}
        \cup {Node("INSERT", <<tab, l>>) : l \in lists(values)}
        \cup {Node("CREATE TABLE", <<tab, l>>) : l \in lists(columns)}
        \cup {Node("CREATE INDEX", <<al, tab, x>>) : al \in aliases, x \in name}
        \cup {Node("ANALYZE", <<x>>) : x \in name}
        \cup {LeafOf(op) : op \in {"BEGIN", "COMMIT", "ROLLBACK"}}
  IN  plain \cup {Node("EXPLAIN", <<st>>) : st \in {x \in plain : x.op # "SELECT"}}

(***************************************************************************)
(* Behaviours                                                              *)
(***************************************************************************)

\* The text is a statement or the beginning of one: the parser has met no token
\* that it does not accept.
Viable(text) == Parse(text).ok \/ Parse(text).rest = <<>>

Init ==
  \/ toks \in Openings /\ start = Len(toks) /\ given = NoTree
  \/ given \in Statements /\ toks = Text(given) /\ start = Len(toks)

\* One more token that the parser accepts.
Extend(tok) ==
  /\ given = NoTree
  /\ Len(toks) < start + MaxMore
  /\ Viable(Append(toks, tok))
  /\ toks' = Append(toks, tok)
  /\ UNCHANGED <<start, given>>

\* The text is left as it is once it is a statement, or long enough.
Stop ==
  /\ Parse(toks).ok \/ Len(toks) = start + MaxMore
  /\ UNCHANGED pvars

Next == (\E tok \in Token : Extend(tok)) \/ Stop

Spec == Init /\ [][Next]_pvars

(***************************************************************************)
(* Properties                                                              *)
(***************************************************************************)

\* An accepted text says what its tree says, token for token: nothing that was
\* written is dropped, duplicated, reordered or ignored at the end.
NothingIgnored == Parse(toks).ok => Text(Parse(toks).out[1]) = Canonical

\* Every tree groups operators by precedence (OR, AND, comparison, addition) and
\* from the left, and no comparison stands under a comparison.  With
\* NothingIgnored this determines the tree of a text.
TreesGrouped == Parse(toks).ok => AllGrouped(Parse(toks).out[1])

\* Every statement of every kind is accepted in its shortest text and parsed to
\* itself.
RoundTrip == given # NoTree => Parse(toks) = Ok(<<>>, <<given>>)
=============================================================================
