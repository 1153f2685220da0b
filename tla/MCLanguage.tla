----------------------------- MODULE MCLanguage -----------------------------
(***************************************************************************)
(* The SQL front end: the lexer on every short text, and the parser on     *)
(* every query its grammar reaches from a few seeds.  The two run on their *)
(* own inputs; a behaviour is one of the lexer or one of the parser.       *)
(***************************************************************************)
EXTENDS SQLParser, Lexer

Where == <<"DELETE", "FROM", "X", "WHERE">>
Table == <<"CREATE", "TABLE", "X", "LPAREN">>
Select == <<"SELECT", "X", "FROM", "X">>
Join == Select \o <<"LEFT", "JOIN", "X">>
Union == Select \o <<"UNION", "SELECT", "X", "FROM">>

MCSeeds ==
  [ q \in { <<>>, Where, Where \o <<"LPAREN", "X">>, Where \o <<"LPAREN", "X", "MINUS", "X">>,
            Where \o <<"X", "IS", "NULL">>, Where \o <<"X", "NOT">>,
            <<"SELECT", "STAR">>, Select, Join, Join \o <<"USING", "LPAREN", "X">>, Select \o <<"LIMIT">>, Union,
            <<"INSERT", "INTO", "X">>, <<"INSERT", "INTO", "X", "VALUES", "LPAREN", "X">>,
            <<"UPDATE", "X", "SET", "X">>, Table, Table \o <<"X", "INT">>,
            Table \o <<"FOREIGN", "KEY", "LPAREN", "X", "RPAREN", "REFERENCES", "X", "LPAREN", "X">>,
            Table \o <<"PRIMARY", "KEY", "LPAREN", "X">>, Table \o <<"UNIQUE", "LPAREN", "X">>,
            Table \o <<"CHECK", "LPAREN">>, <<"CREATE", "INDEX", "X">> } |->
      CASE q \in { Where, <<"CREATE", "INDEX", "X">> } -> 5
        [] q \in { Where \o <<"LPAREN", "X">>, <<"UPDATE", "X", "SET", "X">>, <<>> } -> 4
        [] q \in { Join, Join \o <<"USING", "LPAREN", "X">>, Union } -> 2
        [] OTHER -> 3 ]

ExpressionWords == { "X", "OR", "AND", "EQ", "LT", "MINUS", "STAR", "NOT", "LIKE", "LPAREN", "RPAREN", "IS", "NULL", "IN",
                     "BETWEEN", "CASE", "END", "DOT" }

ClauseWords == { "X", "INT", "1", "INSERT", "UPDATE", "DELETE", "SELECT", "CREATE", "DROP", "TABLE", "INDEX", "FROM", "WHERE",
                 "JOIN", "LEFT", "OUTER", "ON", "USING", "ORDER", "BY", "GROUP", "HAVING", "LIMIT", "OFFSET", "UNION", "EXCEPT",
                 "ALL", "DISTINCT", "AS", "DESC", "INTO", "VALUES", "SET", "PRIMARY", "FOREIGN", "KEY", "REFERENCES", "DEFAULT",
                 "UNIQUE", "CHECK", "NOT", "NULL", "BEGIN", "COMMIT", "ROLLBACK", "TRANSACTION", "TO", "IF", "EXISTS", "VARCHAR",
                 "STAR", "EQ", "ASSIGN", "LPAREN", "RPAREN", "COMMA", "SEMICOLON" }

MCVocabulary(q) == IF Len(q) >= 4 /\ SubSeq(q, 1, 4) = Where THEN ExpressionWords ELSE ClauseWords

MCIdentifiers == { "X", "INT", "VARCHAR", "IF", "TO" }

MCAlphabet == { "a", "S", "e", "1", ".", "'", "\\", "-", "/", "*", "=", "!", " ", "\n" }

MCKeywords == { <<"A", "S">> }

LexerIdle == input = <<>> /\ pos = 1 /\ tokens = <<[type |-> "END_OF_FILE", text |-> <<>>]>>
ParserIdle == query = <<>> /\ result = error(1) /\ more = 0

Init == (ParserInit /\ LexerIdle) \/ (ParserIdle /\ LexerInit)

Next == (ParserNext /\ UNCHANGED lexerVars) \/ (LexerNext /\ UNCHANGED parserVars)

Spec == Init /\ [][Next]_<<parserVars, lexerVars>>
=============================================================================
