------------------------------ MODULE SQLParser ------------------------------
(***************************************************************************)
(* SQLParser::parse (parser/sql_parser.cpp), the recursive-descent parser  *)
(* of OrangeSQL, over the tokens Lexer::nextToken produces.                *)
(*                                                                         *)
(* A token is written as its text; TokenType gives the type the lexer      *)
(* attaches to it.  A parse function takes the token sequence s and the    *)
(* position p of current_token_, and returns                               *)
(*   - st "ok", the position after the construct and its AST node,         *)
(*   - st "error" and the position at which error() threw, or              *)
(*   - st "hang" when a loop of the parser never ends.                     *)
(* An AST node is a tuple whose first element is its kind; <<>> stands for *)
(* a null pointer.                                                         *)
(*                                                                         *)
(* The one action submits a query: the last one extended by a token, if it *)
(* was accepted or failed at its end.  A query that fails earlier fails    *)
(* in the same way whatever follows, so the reachable queries are all the  *)
(* prefixes the grammar can reach, each with every possible next token.    *)
(***************************************************************************)
EXTENDS Naturals, Sequences, SequencesExt

CONSTANTS
  Identifiers,    \* texts the lexer types IDENTIFIER
  Integers,       \* texts of INTEGER tokens
  Literals,       \* texts of FLOAT, STRING and BOOLEAN tokens
  Vocabulary(_),  \* the tokens a client may add to a query
  Seeds           \* the first queries, and a bound: the tokens added to each

VARIABLES query, result, more

parserVars == <<query, result, more>>

(* Token::type: a keyword, an operator or a punctuation mark is its own    *)
(* type.  IF and TO are not keywords of the lexer: both are identifiers.   *)
TokenType(t) ==
  CASE t \in Identifiers -> "IDENTIFIER"
    [] t \in Integers    -> "INTEGER"
    [] t \in Literals    -> "LITERAL"
    [] OTHER             -> t

At(s, p) == IF p <= Len(s) THEN TokenType(s[p]) ELSE "END_OF_FILE"

Done(p, n) == [st |-> "ok", pos |-> p, node |-> n]
error(p) == [st |-> "error", pos |-> p, node |-> <<>>]
Hang(p) == [st |-> "hang", pos |-> p, node |-> <<>>]

(* The rest of a parse function runs only if the call before it returned. *)
Then(r, F(_, _)) == IF r.st = "ok" THEN F(r.pos, r.node) ELSE r

(* expect(type); nextToken();                                              *)
consume(s, p, type) == IF At(s, p) = type THEN Done(p + 1, s[p]) ELSE error(p)

(* The tokens `types`, each by expect and nextToken. *)
RECURSIVE consumeAll(_, _, _)
consumeAll(s, p, types) ==
  IF types = <<>> THEN Done(p, <<>>)
  ELSE Then(consume(s, p, Head(types)), LAMBDA q, t : consumeAll(s, q, Tail(types)))

(* The parse functions call one another through ParseItem, which names     *)
(* each of them by what it reads.                                          *)
RECURSIVE ParseItem(_, _, _), parseList(_, _, _, _), parseParts(_, _, _, _), parseJoins(_, _, _),
          LeftChain(_, _, _), columnConstraints(_, _, _)

parseExpression(s, p) == ParseItem("or", s, p)

(* do { item } while (match(COMMA)), the loop of every list of the grammar *)
parseList(kind, s, p, acc) ==
  Then(ParseItem(kind, s, p), LAMBDA q, n :
    IF At(s, q) = "COMMA" THEN parseList(kind, s, q + 1, Append(acc, n))
    ELSE Done(q, Append(acc, n)))

(* The parts of a clause or statement in their order, each read by ParseItem *)
parseParts(kinds, s, p, acc) ==
  IF kinds = <<>> THEN Done(p, acc)
  ELSE Then(ParseItem(Head(kinds), s, p), LAMBDA q, n :
         parseParts(Tail(kinds), s, q, Append(acc, n)))

parseIdentifierList(s, p) == parseList("identifier", s, p, <<>>)

parseExpressionList(s, p) == parseList("expression", s, p, <<>>)

parseSelectList(s, p) == parseList("select item", s, p, <<>>)

parseValuesList(s, p) == parseList("row", s, p, <<>>)

optionalAliasNamed(s, p) ==
  CASE At(s, p) = "AS"         -> Then(consume(s, p + 1, "IDENTIFIER"), LAMBDA q, a : Done(q, <<a>>))
    [] At(s, p) = "IDENTIFIER" -> Done(p + 1, <<s[p]>>)
    [] OTHER                   -> Done(p, <<s[p - 1]>>)

(* [ AS ] alias                                                            *)
optionalAlias(s, p) ==
  CASE At(s, p) = "AS"         -> Then(consume(s, p + 1, "IDENTIFIER"), LAMBDA q, a : Done(q, <<a>>))
    [] At(s, p) = "IDENTIFIER" -> Done(p + 1, <<s[p]>>)
    [] OTHER                   -> Done(p, <<>>)

(* "(" identifiers ")" *)
parenthesised(s, p) ==
  Then(consume(s, p, "LPAREN"), LAMBDA q, t :
    Then(parseIdentifierList(s, q), LAMBDA r, ids :
      Then(consume(s, r, "RPAREN"), LAMBDA e, t2 : Done(e, ids))))

(* An alias in the select list is read and forgotten. *)
parseSelectItem(s, p) ==
  IF At(s, p) = "STAR" THEN Done(p + 1, <<"literal", "STAR">>)
  ELSE Then(parseExpression(s, p), LAMBDA q, e :
         Then(optionalAlias(s, q), LAMBDA r, a : Done(r, e)))

parseTableRef(s, p) ==
  LET source == IF At(s, p) = "LPAREN"
                THEN Then(ParseItem("select", s, p + 1), LAMBDA q, n :
                       Then(consume(s, q, "RPAREN"), LAMBDA r, t : Done(r, n)))
                ELSE Then(consume(s, p, "IDENTIFIER"), LAMBDA q, t : Done(q, <<"table", t>>))
  IN Then(source, LAMBDA q, n :
       Then(optionalAlias(s, q), LAMBDA r, a : Done(r, <<"ref", n, a>>)))

(***************************************************************************)
(* Expressions                                                             *)
(***************************************************************************)
ChainOps == [ or             |-> {"OR"},
              and            |-> {"AND"},
              equality       |-> {"EQ", "NE"},
              relational     |-> {"LT", "LE", "GT", "GE", "LIKE", "NOT"},
              additive       |-> {"PLUS", "MINUS", "CONCAT"},
              multiplicative |-> {"STAR", "SLASH", "PERCENT"} ]

(* The operands of a level are the expressions of the next one. *)
Tighter == [ or             |-> "and",
             and            |-> "equality",
             equality       |-> "relational",
             relational     |-> "additive",
             additive       |-> "multiplicative",
             multiplicative |-> "unary" ]

Operand(level, s, p) == ParseItem(Tighter[level], s, p)

(* In parseRelational NOT must be followed by LIKE, whatever comes next. *)
ChainOp(s, p) ==
  IF At(s, p) # "NOT" THEN Done(p + 1, s[p])
  ELSE Then(consume(s, p + 1, "LIKE"), LAMBDA q, t : Done(q, "NOT LIKE"))

LeftChainRight(level, s, left) ==
  IF left.st = "ok" /\ At(s, left.pos) \in ChainOps[level]
  THEN Then(ChainOp(s, left.pos), LAMBDA p, op :
         Then(LeftChain(level, s, Operand(level, s, p)), LAMBDA q, right :
           Done(q, <<"binary", op, left.node, right>>)))
  ELSE left

(* while (match(op)) left = BinaryExprNode(op, left, operand) *)
LeftChain(level, s, left) ==
  IF left.st = "ok" /\ At(s, left.pos) \in ChainOps[level]
  THEN Then(ChainOp(s, left.pos), LAMBDA p, op :
         Then(Operand(level, s, p), LAMBDA q, right :
           LeftChain(level, s, Done(q, <<"binary", op, left.node, right>>))))
  ELSE left

parseLogicalOr(s, p) == LeftChain("or", s, Operand("or", s, p))

parseLogicalAnd(s, p) == LeftChain("and", s, Operand("and", s, p))

parseRelational(s, p) == LeftChain("relational", s, Operand("relational", s, p))

parseAdditive(s, p) == LeftChain("additive", s, Operand("additive", s, p))

parseMultiplicative(s, p) == LeftChain("multiplicative", s, Operand("multiplicative", s, p))

(* IS [NOT] NULL *)
isNull(s, p, left) ==
  IF At(s, p) # "IS" THEN Done(p, left)
  ELSE LET negated == At(s, p + 1) = "NOT"
       IN Then(consume(s, IF negated THEN p + 2 ELSE p + 1, "NULL"), LAMBDA q, t :
            Done(q, <<"unary", IF negated THEN "IS NOT NULL" ELSE "IS NULL", left>>))

(* Is the operator at p `op`, or NOT followed by it (match and peekToken)? *)
Negatable(s, p, op) == At(s, p) = op \/ (At(s, p) = "NOT" /\ At(s, p + 1) = op)

After(s, p) == IF At(s, p) = "NOT" THEN p + 2 ELSE p + 1

(* [NOT] IN: a subquery, or a list whose elements are never read. *)
inList(s, p, left) ==
  IF ~Negatable(s, p, "IN") THEN Done(p, left)
  ELSE LET op == IF At(s, p) = "NOT" THEN "NOT IN" ELSE "IN"
       IN Then(consume(s, After(s, p), "LPAREN"), LAMBDA q, t :
            Then(IF At(s, q) = "SELECT" THEN ParseItem("select", s, q) ELSE Done(q, <<"list">>), LAMBDA r, n :
              Then(consume(s, r, "RPAREN"), LAMBDA e, t2 : Done(e, <<"binary", op, left, n>>))))

(* [NOT] BETWEEN: both bounds are whole expressions, and are not kept. *)
between(s, p, left) ==
  IF ~Negatable(s, p, "BETWEEN") THEN Done(p, left)
  ELSE LET op == IF At(s, p) = "NOT" THEN "NOT BETWEEN" ELSE "BETWEEN"
       IN Then(parseExpression(s, After(s, p)), LAMBDA q, lower :
            Then(consume(s, q, "AND"), LAMBDA r, t :
              Then(parseExpression(s, r), LAMBDA e, upper : Done(e, <<"binary", op, left, <<>> >>))))

parseEquality(s, p) ==
  Then(LeftChain("equality", s, Operand("equality", s, p)), LAMBDA q, n :
    Then(isNull(s, q, n), LAMBDA r, n2 :
      Then(inList(s, r, n2), LAMBDA e, n3 : between(s, e, n3))))

caseExpressionLate(s, p) ==
  LET ends == { i \in p + 2 .. Len(s) : At(s, i) = "END" }
  IN IF ends = {} THEN Hang(Len(s) + 1) ELSE error(1 + CHOOSE i \in ends : \A j \in ends : i <= j)

(* A CASE expression is skipped up to END, with no test for the end of the *)
(* input, and is then an error.                                            *)
caseExpression(s, p) ==
  LET ends == { i \in p + 1 .. Len(s) : At(s, i) = "END" }
  IN IF ends = {} THEN Hang(Len(s) + 1) ELSE error(1 + CHOOSE i \in ends : \A j \in ends : i <= j)

(* The branch for a function call comes after the one for a column and is  *)
(* never taken.                                                            *)
parsePrimary(s, p) ==
  CASE At(s, p) \in {"INTEGER", "LITERAL", "NULL"} -> Done(p + 1, <<"literal", s[p]>>)
    [] At(s, p) = "IDENTIFIER" ->
         IF At(s, p + 1) = "DOT"
         THEN Then(consume(s, p + 2, "IDENTIFIER"), LAMBDA q, c : Done(q, <<"column", s[p], c>>))
         ELSE Done(p + 1, <<"column", s[p]>>)
    [] At(s, p) = "LPAREN" ->
         Then(IF At(s, p + 1) = "SELECT" THEN ParseItem("select", s, p + 1) ELSE parseExpression(s, p + 1),
              LAMBDA q, n : Then(consume(s, q, "RPAREN"), LAMBDA r, t : Done(r, n)))
    [] At(s, p) = "CASE" -> caseExpression(s, p)
    [] OTHER -> error(p)

parseUnary(s, p) ==
  IF At(s, p) \in {"PLUS", "MINUS", "NOT"}
  THEN Then(ParseItem("unary", s, p + 1), LAMBDA q, n : Done(q, <<"unary", s[p], n>>))
  ELSE parsePrimary(s, p)

(***************************************************************************)
(* Clauses of a SELECT                                                     *)
(***************************************************************************)
Optional(s, p, keyword, F(_)) == IF At(s, p) = keyword THEN F(p + 1) ELSE Done(p, <<>>)

parseWhere(s, p) == parseExpression(s, p)

(* GROUP and ORDER: BY and a list *)
byList(kind, s, p) ==
  Then(consume(s, p, "BY"), LAMBDA q, t : parseList(kind, s, q, <<>>))

parseGroupBy(s, p) == byList("expression", s, p)

parseOrderBy(s, p) == byList("order item", s, p)

parseOrderItem(s, p) ==
  Then(parseExpression(s, p), LAMBDA q, e :
    Done(IF At(s, q) \in {"ASC", "DESC"} THEN q + 1 ELSE q, <<"order", e, At(s, q) # "DESC">>))

(* An INTEGER, if there is one, else the value the field already has. *)
integerOr(s, p, old) == IF At(s, p) = "INTEGER" THEN Done(p + 1, s[p]) ELSE Done(p, old)

(* LIMIT [n] [OFFSET [m]] or LIMIT [m] , [n]: limit is -1 and offset 0     *)
(* unless they are set, and after the comma the limit moves to the offset. *)
parseLimit(s, p) ==
  Then(integerOr(s, p, "-1"), LAMBDA q, n :
    CASE At(s, q) = "OFFSET" -> Then(integerOr(s, q + 1, "0"), LAMBDA r, m : Done(r, <<"limit", n, m>>))
      [] At(s, q) = "COMMA"  -> Then(integerOr(s, q + 1, n), LAMBDA r, m : Done(r, <<"limit", m, n>>))
      [] OTHER               -> Done(q, <<"limit", n, "0">>))

JoinTypes == {"INNER", "LEFT", "RIGHT", "FULL", "CROSS"}

(* ON condition, USING (columns), or neither *)
joinCondition(s, p) ==
  CASE At(s, p) = "ON"    -> Then(parseExpression(s, p + 1), LAMBDA q, e : Done(q, <<"on", e>>))
    [] At(s, p) = "USING" -> Then(parenthesised(s, p + 1), LAMBDA q, ids : Done(q, <<"using", ids>>))
    [] OTHER              -> Done(p, <<>>)

parseJoin(s, p) ==
  LET type == IF At(s, p) \in JoinTypes THEN s[p] ELSE "INNER"
      q == IF At(s, p) \in JoinTypes THEN p + 1 ELSE p
      outer == At(s, p) \in {"LEFT", "RIGHT", "FULL"} /\ At(s, q) = "OUTER"
  IN Then(consume(s, IF outer THEN q + 1 ELSE q, "JOIN"), LAMBDA r, t :
       Then(consume(s, r, "IDENTIFIER"), LAMBDA u, table :
         Then(optionalAlias(s, u), LAMBDA v, alias :
           Then(joinCondition(s, v), LAMBDA e, cond : Done(e, <<"join", type, table, alias, cond>>)))))

parseJoins(s, p, acc) ==
  IF At(s, p) \in JoinTypes \cup {"JOIN"}
  THEN Then(parseJoin(s, p), LAMBDA q, n : parseJoins(s, q, Append(acc, n)))
  ELSE Done(p, acc)

(* UNION [ALL], INTERSECT [ALL], EXCEPT [ALL]: only UNION keeps the ALL. *)
setOperation(s, p) ==
  IF At(s, p) \notin {"UNION", "INTERSECT", "EXCEPT"} THEN Done(p, <<>>)
  ELSE LET all == At(s, p + 1) = "ALL"
           op == IF all /\ s[p] = "UNION" THEN "UNION ALL" ELSE s[p]
       IN Then(ParseItem("select", s, IF all THEN p + 2 ELSE p + 1), LAMBDA q, n : Done(q, <<op, n>>))

fromClause(s, p) ==
  Then(consume(s, p, "FROM"), LAMBDA q, t : parseList("table ref", s, q, <<>>))

SelectParts == <<"distinct", "select list", "from", "joins", "where", "group by", "having", "order by",
                 "limit", "set operation">>

parseSelect(s, p) ==
  Then(consume(s, p, "SELECT"), LAMBDA q, t : parseParts(SelectParts, s, q, <<"select">>))

(***************************************************************************)
(* Statements                                                              *)
(***************************************************************************)
(* VALUES rows, or a SELECT *)
insertSource(s, p) ==
  CASE At(s, p) = "VALUES" -> Then(parseValuesList(s, p + 1), LAMBDA q, rows : Done(q, <<"values", rows>>))
    [] At(s, p) = "SELECT" -> ParseItem("select", s, p)
    [] OTHER               -> error(p)

parseInsert(s, p) ==
  Then(consumeAll(s, p, <<"INSERT", "INTO">>), LAMBDA q, t :
    parseParts(<<"identifier", "columns", "source">>, s, q, <<"insert">>))

(* The SET keyword of an UPDATE and its assignments *)
assignments(s, p) ==
  Then(consume(s, p, "SET"), LAMBDA q, t : parseList("assignment", s, q, <<>>))

assignment(s, p) ==
  Then(consume(s, p, "IDENTIFIER"), LAMBDA q, column :
    Then(consume(s, q, "ASSIGN"), LAMBDA r, t :
      Then(parseExpression(s, r), LAMBDA e, value : Done(e, <<"assign", column, value>>))))

parseUpdate(s, p) ==
  Then(consume(s, p, "UPDATE"), LAMBDA q, t :
    parseParts(<<"identifier", "assignments", "where">>, s, q, <<"update">>))

parseDelete(s, p) ==
  Then(consumeAll(s, p, <<"DELETE", "FROM">>), LAMBDA q, t :
    parseParts(<<"identifier", "where">>, s, q, <<"delete">>))

TypeNames == [ INT |-> "INTEGER", INTEGER |-> "INTEGER", BIGINT |-> "BIGINT", VARCHAR |-> "VARCHAR",
               STRING |-> "VARCHAR", BOOLEAN |-> "BOOLEAN", BOOL |-> "BOOLEAN", DATE |-> "DATE",
               DECIMAL |-> "DECIMAL", NUMERIC |-> "DECIMAL" ]

(* The length of a VARCHAR is read and forgotten. *)
parseDataType(s, p) ==
  IF At(s, p) # "IDENTIFIER" THEN error(p)
  ELSE IF s[p] \notin DOMAIN TypeNames THEN error(p + 1)
  ELSE IF TypeNames[s[p]] = "VARCHAR" /\ At(s, p + 1) = "LPAREN"
  THEN Then(consume(s, IF At(s, p + 2) = "INTEGER" THEN p + 3 ELSE p + 2, "RPAREN"), LAMBDA q, t :
         Done(q, "VARCHAR"))
  ELSE Done(p + 1, TypeNames[s[p]])

(* DEFAULT and one token, whatever it is *)
afterDefault(s, p) == IF p < Len(s) THEN p + 2 ELSE p + 1

(* NOT NULL, NULL, PRIMARY KEY, UNIQUE and DEFAULT in any order *)
columnConstraints(s, p, flags) ==
  CASE At(s, p) = "NOT" /\ At(s, p + 1) = "NULL" -> columnConstraints(s, p + 2, flags \cup {"NOT NULL"})
    [] At(s, p) = "NULL" -> columnConstraints(s, p + 1, flags \ {"NOT NULL"})
    [] At(s, p) = "PRIMARY" ->
         Then(consume(s, p + 1, "KEY"), LAMBDA q, t : columnConstraints(s, q, flags \cup {"PRIMARY KEY"}))
    [] At(s, p) = "UNIQUE" -> columnConstraints(s, p + 1, flags \cup {"UNIQUE"})
    [] At(s, p) = "DEFAULT" -> columnConstraints(s, afterDefault(s, p), flags)
    [] OTHER -> Done(p, flags)

columnDefinition(s, p) ==
  Then(consume(s, p, "IDENTIFIER"), LAMBDA q, name :
    Then(parseDataType(s, q), LAMBDA r, type :
      Then(columnConstraints(s, r, {}), LAMBDA e, flags : Done(e, <<"column def", name, type, flags>>))))

(* A table constraint; the expression of a CHECK must be empty. *)
tableConstraint(s, p) ==
  CASE At(s, p) = "PRIMARY" ->
         Then(consume(s, p + 1, "KEY"), LAMBDA q, t :
           Then(parenthesised(s, q), LAMBDA r, ids : Done(r, <<"PRIMARY KEY", ids>>)))
    [] At(s, p) = "FOREIGN" ->
         Then(consume(s, p + 1, "KEY"), LAMBDA q, t :
           Then(parenthesised(s, q), LAMBDA r, ids :
             Then(consumeAll(s, r, <<"REFERENCES", "IDENTIFIER">>), LAMBDA u, t2 :
               Then(parenthesised(s, u), LAMBDA e, refs : Done(e, <<"FOREIGN KEY", ids, s[u - 1], refs>>)))))
    [] At(s, p) = "UNIQUE" -> Then(parenthesised(s, p + 1), LAMBDA q, ids : Done(q, <<"UNIQUE", ids>>))
    [] At(s, p) = "CHECK" ->
         Then(consumeAll(s, p + 1, <<"LPAREN", "RPAREN">>), LAMBDA q, t : Done(q, <<"CHECK">>))

tableDefinition(s, p) ==
  IF At(s, p) \in {"PRIMARY", "FOREIGN", "UNIQUE", "CHECK"} THEN tableConstraint(s, p) ELSE columnDefinition(s, p)

(* The columns and constraints of the node are kept here in one list. *)
parseCreateTable(s, p) ==
  Then(consumeAll(s, p, <<"TABLE", "IDENTIFIER", "LPAREN">>), LAMBDA q, t :
    Then(parseList("definition", s, q, <<>>), LAMBDA r, defs :
      Then(consume(s, r, "RPAREN"), LAMBDA e, t2 : Done(e, <<"create table", s[p + 1], defs>>))))

parseCreateIndex(s, p) ==
  LET unique == At(s, p + 1) = "UNIQUE"
      i == IF unique THEN p + 2 ELSE p + 1
  IN Then(consumeAll(s, i, <<"IDENTIFIER", "ON", "IDENTIFIER">>), LAMBDA q, t :
       Then(parenthesised(s, q), LAMBDA r, ids :
         Done(r, <<"create index", s[i], s[i + 2], ids, unique>>)))

(* IF is not a token type: the IF EXISTS branch is never taken. *)
parseDropTable(s, p) ==
  LET guarded == At(s, p + 1) = "IF"
      i == IF guarded THEN p + 3 ELSE p + 1
  IN IF guarded /\ At(s, p + 2) # "EXISTS" THEN error(p + 2)
     ELSE Then(consume(s, i, "IDENTIFIER"), LAMBDA q, t : Done(q, <<"drop table", t, guarded>>))

(* BEGIN, COMMIT or ROLLBACK, [TRANSACTION], [name].  TO is not a token    *)
(* type either: the branch ROLLBACK TO SAVEPOINT is never taken.           *)
transactionStatement(kind, s, p) ==
  LET q == IF At(s, p + 1) = "TRANSACTION" THEN p + 2 ELSE p + 1
  IN IF kind = "rollback" /\ At(s, q) = "TO"
     THEN Then(consumeAll(s, q + 1, <<"SAVEPOINT", "IDENTIFIER">>), LAMBDA r, t : Done(r, <<kind, <<s[r - 1]>> >>))
     ELSE IF At(s, q) = "IDENTIFIER" THEN Done(q + 1, <<kind, <<s[q]>> >>) ELSE Done(q, <<kind, <<>> >>)

parseBegin(s, p) == transactionStatement("begin", s, p)

parseCommit(s, p) == transactionStatement("commit", s, p)

parseRollback(s, p) == transactionStatement("rollback", s, p)

ParseItem(kind, s, p) ==
  CASE kind = "identifier"    -> consume(s, p, "IDENTIFIER")
    [] kind = "expression"    -> parseExpression(s, p)
    [] kind = "or"            -> parseLogicalOr(s, p)
    [] kind = "and"           -> parseLogicalAnd(s, p)
    [] kind = "equality"      -> parseEquality(s, p)
    [] kind = "relational"    -> parseRelational(s, p)
    [] kind = "additive"      -> parseAdditive(s, p)
    [] kind = "multiplicative" -> parseMultiplicative(s, p)
    [] kind = "unary"         -> parseUnary(s, p)
    [] kind = "select"        -> parseSelect(s, p)
    [] kind = "select item"   -> parseSelectItem(s, p)
    [] kind = "table ref"     -> parseTableRef(s, p)
    [] kind = "order item"    -> parseOrderItem(s, p)
    [] kind = "assignment"    -> assignment(s, p)
    [] kind = "definition"    -> tableDefinition(s, p)
    [] kind = "row"           -> Then(consume(s, p, "LPAREN"), LAMBDA q, t :
                                   Then(parseExpressionList(s, q), LAMBDA r, row :
                                     Then(consume(s, r, "RPAREN"), LAMBDA e, t2 : Done(e, row))))
    [] kind = "distinct"      -> Done(IF At(s, p) \in {"DISTINCT", "ALL"} THEN p + 1 ELSE p, At(s, p) = "DISTINCT")
    [] kind = "select list"   -> parseSelectList(s, p)
    [] kind = "from"          -> fromClause(s, p)
    [] kind = "joins"         -> parseJoins(s, p, <<>>)
    [] kind = "where"         -> Optional(s, p, "WHERE", LAMBDA q : parseWhere(s, q))
    [] kind = "group by"      -> Optional(s, p, "GROUP", LAMBDA q : parseGroupBy(s, q))
    [] kind = "having"        -> Optional(s, p, "HAVING", LAMBDA q : parseExpression(s, q))
    [] kind = "order by"      -> Optional(s, p, "ORDER", LAMBDA q : parseOrderBy(s, q))
    [] kind = "limit"         -> Optional(s, p, "LIMIT", LAMBDA q : parseLimit(s, q))
    [] kind = "set operation" -> setOperation(s, p)
    [] kind = "columns"       -> IF At(s, p) = "LPAREN" THEN parenthesised(s, p) ELSE Done(p, <<>>)
    [] kind = "source"        -> insertSource(s, p)
    [] kind = "assignments"   -> assignments(s, p)

parseStatement(s, p) ==
  CASE At(s, p) = "SELECT"   -> parseSelect(s, p)
    [] At(s, p) = "INSERT"   -> parseInsert(s, p)
    [] At(s, p) = "UPDATE"   -> parseUpdate(s, p)
    [] At(s, p) = "DELETE"   -> parseDelete(s, p)
    [] At(s, p) = "BEGIN"    -> parseBegin(s, p)
    [] At(s, p) = "COMMIT"   -> parseCommit(s, p)
    [] At(s, p) = "ROLLBACK" -> parseRollback(s, p)
    [] At(s, p) = "DROP"     -> IF At(s, p + 1) = "TABLE" THEN parseDropTable(s, p + 1) ELSE error(p + 1)
    [] At(s, p) = "CREATE"   -> CASE At(s, p + 1) = "TABLE" -> parseCreateTable(s, p + 1)
                                  [] At(s, p + 1) = "INDEX" -> parseCreateIndex(s, p + 1)
                                  [] OTHER                  -> error(p + 1)
    [] OTHER -> error(p)

(* A statement must be followed by the end of the input. *)
parse(s) ==
  Then(parseStatement(s, 1), LAMBDA p, n : IF At(s, p) = "END_OF_FILE" THEN Done(p, n) ELSE error(p))

ParserInit ==
  /\ query \in DOMAIN Seeds
  /\ result = parse(query)
  /\ more = Seeds[query]

(* A client submits the next query.  A failure at the last token may be    *)
(* due to the lookahead of one token, so it may be continued as well.      *)
Submit(t) ==
  /\ more > 0
  /\ result.pos >= Len(query)
  /\ query' = Append(query, t)
  /\ result' = parse(query')
  /\ more' = more - 1

ParserNext == \E t \in Vocabulary(query) : Submit(t)

ParserSpec == ParserInit /\ [][ParserNext]_parserVars

(***************************************************************************)
(* The reference: how an AST is written                                    *)
(***************************************************************************)
Precedence(op) ==
  CASE op = "OR"  -> 1
    [] op = "AND" -> 2
    [] op \in {"IN", "NOT IN"} -> 3
    [] op \in {"IS NULL", "IS NOT NULL"} -> 4
    [] op \in {"EQ", "NE"} -> 5
    [] op \in {"LT", "LE", "GT", "GE", "LIKE", "NOT LIKE"} -> 6
    [] op \in {"PLUS", "MINUS", "CONCAT"} -> 7
    [] op \in {"STAR", "SLASH", "PERCENT"} -> 8

Prefix == {"PLUS", "MINUS", "NOT"}

Binding(n) ==
  IF n[1] = "unary" /\ n[2] \in Prefix THEN 9
  ELSE IF n[1] \in {"unary", "binary"} THEN Precedence(n[2])
  ELSE 10

OperatorText(op) ==
  CASE op = "NOT LIKE"    -> <<"NOT", "LIKE">>
    [] op = "NOT IN"      -> <<"NOT", "IN">>
    [] op = "IS NULL"     -> <<"IS", "NULL">>
    [] op = "IS NOT NULL" -> <<"IS", "NOT", "NULL">>
    [] OTHER              -> <<op>>

Separated(parts) ==
  IF parts = <<>> THEN <<>>
  ELSE FoldLeft(LAMBDA acc, part : acc \o <<"COMMA">> \o part, Head(parts), Tail(parts))

Named(names) == Separated([i \in DOMAIN names |-> <<names[i]>>])

RECURSIVE Write(_), WriteSelect(_), WriteAt(_, _)

WriteAt(n, least) == IF Binding(n) < least THEN <<"LPAREN">> \o Write(n) \o <<"RPAREN">> ELSE Write(n)

(* Operators of one level are left associative; what follows IN and IS     *)
(* cannot be compared again without parentheses.                           *)
Write(n) ==
  CASE n[1] = "literal" -> <<n[2]>>
    [] n[1] = "column"  -> IF Len(n) = 2 THEN <<n[2]>> ELSE <<n[2], "DOT", n[3]>>
    [] n[1] = "select"  -> <<"LPAREN">> \o WriteSelect(n) \o <<"RPAREN">>
    [] n[1] = "list"    -> <<"LPAREN", "RPAREN">>
    [] n[1] = "unary" /\ n[2] \in Prefix    -> <<n[2]>> \o WriteAt(n[3], 9)
    [] n[1] = "unary" /\ n[2] \notin Prefix -> WriteAt(n[3], 5) \o OperatorText(n[2])
    [] n[1] = "binary"  ->
         LET level == Precedence(n[2])
         IN WriteAt(n[3], IF level = 3 THEN 4 ELSE level) \o OperatorText(n[2]) \o WriteAt(n[4], level + 1)

WriteExpressions(list) == Separated([i \in DOMAIN list |-> Write(list[i])])

WriteOptional(keywords, n) == IF n = <<>> THEN <<>> ELSE keywords \o Write(n)

WriteRef(n) == (IF n[2][1] = "table" THEN <<n[2][2]>> ELSE Write(n[2])) \o n[3]

WriteJoin(n) ==
  <<n[2], "JOIN", n[3]>> \o n[4]
    \o ( CASE n[5] = <<>>        -> <<>>
           [] n[5] # <<>> /\ n[5][1] = "on"    -> <<"ON">> \o Write(n[5][2])
           [] n[5] # <<>> /\ n[5][1] = "using" -> <<"USING", "LPAREN">> \o Named(n[5][2]) \o <<"RPAREN">> )

WriteOrder(n) == Write(n[2]) \o (IF n[3] THEN <<>> ELSE <<"DESC">>)

WriteLimit(n) ==
  LET number(v) == IF v = "-1" THEN <<>> ELSE <<v>>
  IN IF n[3] = "-1" THEN <<"LIMIT", "COMMA">> \o number(n[2])
     ELSE <<"LIMIT">> \o number(n[2]) \o (IF n[3] = "0" THEN <<>> ELSE <<"OFFSET", n[3]>>)

WriteSelect(n) ==
  <<"SELECT">> \o (IF n[2] THEN <<"DISTINCT">> ELSE <<>>) \o WriteExpressions(n[3])
    \o <<"FROM">> \o Separated([i \in DOMAIN n[4] |-> WriteRef(n[4][i])])
    \o FlattenSeq([i \in DOMAIN n[5] |-> WriteJoin(n[5][i])])
    \o WriteOptional(<<"WHERE">>, n[6])
    \o (IF n[7] = <<>> THEN <<>> ELSE <<"GROUP", "BY">> \o WriteExpressions(n[7]))
    \o WriteOptional(<<"HAVING">>, n[8])
    \o (IF n[9] = <<>> THEN <<>> ELSE <<"ORDER", "BY">> \o Separated([i \in DOMAIN n[9] |-> WriteOrder(n[9][i])]))
    \o (IF n[10] = <<>> THEN <<>> ELSE WriteLimit(n[10]))
    \o (IF n[11] = <<>> THEN <<>>
        ELSE (IF n[11][1] = "UNION ALL" THEN <<"UNION", "ALL">> ELSE <<n[11][1]>>) \o WriteSelect(n[11][2]))

InParentheses(tokens) == <<"LPAREN">> \o tokens \o <<"RPAREN">>

WriteType(type) == IF type = "INTEGER" THEN <<"INT">> ELSE <<type>>

WriteDefinition(n) ==
  CASE n[1] = "column def"  -> <<n[2]>> \o WriteType(n[3])
                                 \o (IF "NOT NULL" \in n[4] THEN <<"NOT", "NULL">> ELSE <<>>)
                                 \o (IF "PRIMARY KEY" \in n[4] THEN <<"PRIMARY", "KEY">> ELSE <<>>)
                                 \o (IF "UNIQUE" \in n[4] THEN <<"UNIQUE">> ELSE <<>>)
    [] n[1] = "PRIMARY KEY" -> <<"PRIMARY", "KEY">> \o InParentheses(Named(n[2]))
    [] n[1] = "FOREIGN KEY" -> <<"FOREIGN", "KEY">> \o InParentheses(Named(n[2])) \o <<"REFERENCES", n[3]>>
                                 \o InParentheses(Named(n[4]))
    [] n[1] = "UNIQUE"      -> <<"UNIQUE">> \o InParentheses(Named(n[2]))
    [] n[1] = "CHECK"       -> <<"CHECK", "LPAREN", "RPAREN">>

WriteAssignment(n) == <<n[2], "ASSIGN">> \o Write(n[3])

WriteStatement(n) ==
  CASE n[1] = "select" -> WriteSelect(n)
    [] n[1] = "insert" ->
         <<"INSERT", "INTO", n[2]>> \o (IF n[3] = <<>> THEN <<>> ELSE InParentheses(Named(n[3])))
           \o ( IF n[4][1] = "select" THEN WriteSelect(n[4])
                ELSE <<"VALUES">> \o Separated([i \in DOMAIN n[4][2] |-> InParentheses(WriteExpressions(n[4][2][i]))]) )
    [] n[1] = "update" ->
         <<"UPDATE", n[2], "SET">> \o Separated([i \in DOMAIN n[3] |-> WriteAssignment(n[3][i])])
           \o WriteOptional(<<"WHERE">>, n[4])
    [] n[1] = "delete" -> <<"DELETE", "FROM", n[2]>> \o WriteOptional(<<"WHERE">>, n[3])
    [] n[1] = "create table" ->
         <<"CREATE", "TABLE", n[2]>> \o InParentheses(Separated([i \in DOMAIN n[3] |-> WriteDefinition(n[3][i])]))
    [] n[1] = "create index" ->
         <<"CREATE", "INDEX">> \o (IF n[5] THEN <<"UNIQUE">> ELSE <<>>) \o <<n[2], "ON", n[3]>>
           \o InParentheses(Named(n[4]))
    [] n[1] = "drop table" -> <<"DROP", "TABLE", n[2]>>
    [] n[1] = "begin"    -> <<"BEGIN">> \o n[2]
    [] n[1] = "commit"   -> <<"COMMIT">> \o n[2]
    [] n[1] = "rollback" -> <<"ROLLBACK">> \o n[2]

(***************************************************************************)
(* Properties                                                              *)
(***************************************************************************)
Accepted == result.st = "ok"

(* result is an answer of parse at a position of the query. *)
ParserTypeOK ==
  /\ result.st \in {"ok", "error", "hang"}
  /\ result.pos \in 1 .. Len(query) + 1
  /\ more \in Nat

(* The tree of an accepted query, written with the precedence and left     *)
(* associativity of SQL and only the parentheses these require, is parsed  *)
(* into the same tree: the chain of parseLogicalOr ... parsePrimary gives  *)
(* every operator its operands, parentheses group, and every clause and    *)
(* list of a statement ends up in its own place of the node.               *)
RoundTrip ==
  Accepted => LET again == parse(WriteStatement(result.node))
              IN again.st = "ok" /\ again.node = result.node

Texts(s) == SelectSeq(s, LAMBDA t : t \in Identifiers \cup Integers \cup Literals)

RECURSIVE Within(_, _)
Within(s, t) ==
  IF s = <<>> THEN TRUE
  ELSE IF t = <<>> THEN FALSE
  ELSE IF Head(s) = Head(t) THEN Within(Tail(s), Tail(t))
  ELSE Within(s, Tail(t))

(* The names and literals of the tree of an accepted query are names and   *)
(* literals of the query, in its order: no clause takes what belongs to    *)
(* another.  (LIMIT m, n swaps its numbers.)                               *)
NamesInOrder ==
  Accepted /\ "LIMIT" \notin ToSet(query)
    => LET written == WriteStatement(result.node)
       IN Within(Texts(SelectSeq(written, LAMBDA t : t # "INT")), Texts(query))

(* parse returns or throws unless the query has a CASE with no END after   *)
(* it: every other loop of the parser reads a token or stops.              *)
HangsOnlyInCase ==
  /\ ParserTypeOK
  /\ result.st = "hang" =>
       \E i \in DOMAIN query : /\ query[i] = "CASE"
                               /\ \A j \in i + 1 .. Len(query) : query[j] # "END"

(* Refuted: parse always comes to an end. *)
AlwaysReturns == result.st # "hang"

(* Refuted: a statement may end with the semicolon that the console waits  *)
(* for and the usage text shows.                                           *)
SemicolonEnds ==
  \A i \in DOMAIN query :
    i = Len(query) /\ query[i] = "SEMICOLON" /\ parse(SubSeq(query, 1, i - 1)).st = "ok" => Accepted
=============================================================================
