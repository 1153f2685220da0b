-------------------------------- MODULE Lexer --------------------------------
(***************************************************************************)
(* Lexer (parser/lexer.cpp): the tokens of a query, one nextToken at a     *)
(* time.  The input is a sequence of characters; pos is pos_ + 1.  Line    *)
(* and column numbers, which only error messages show, are left out.       *)
(***************************************************************************)
EXTENDS Naturals, Sequences, SequencesExt

CONSTANTS
  Alphabet,    \* the characters of a query
  Keywords,    \* keywords_: texts that are keywords
  MaxText      \* bound: length of a query

VARIABLES input, pos, tokens

lexerVars == <<input, pos, tokens>>

Upper == [ a |-> "A", e |-> "E", s |-> "S" ]

toupper(c) == IF c \in DOMAIN Upper THEN Upper[c] ELSE c

Space == {" ", "\n"}
Digit == {"0", "1"}
Letter == {"A", "E", "S"}
Quote == {"'", "\""}

peek(s, p) == IF p <= Len(s) THEN s[p] ELSE "\\0"

(* The first position from p on that holds no character of C *)
SkipWhile(s, p, C) ==
  LET stops == { i \in p .. Len(s) : s[i] \notin C }
  IN IF stops = {} THEN Len(s) + 1 ELSE CHOOSE i \in stops : \A j \in stops : i <= j

skipWhitespace(s, p) == IF p > Len(s) THEN p ELSE SkipWhile(s, p, Space)

LineComment(s, p) == p < Len(s) /\ s[p] = s[p + 1] /\ s[p] \in {"-", "/"}
BlockComment(s, p) == p < Len(s) /\ s[p] = "/" /\ s[p + 1] = "*"

(* One comment at p is skipped.  The loop over a block comment that has no *)
(* end stops at the last character, which is left.                         *)
skipComment(s, p) ==
  IF LineComment(s, p)
  THEN SkipWhile(s, p, (Alphabet \cup Letter) \ {"\n"})
  ELSE IF BlockComment(s, p)
  THEN LET ends == { i \in p + 2 .. Len(s) - 1 : s[i] = "*" /\ s[i + 1] = "/" }
       IN IF ends # {} THEN 2 + CHOOSE i \in ends : \A j \in ends : i <= j
          ELSE IF p + 2 <= Len(s) THEN Len(s) ELSE p + 2
  ELSE p

Token(type, s, from, to) == [type |-> type, text |-> SubSeq(s, from, to - 1), pos |-> to]

readIdentifier(s, p) ==
  LET end == SkipWhile(s, p, Letter \cup Digit \cup {"_", "$"})
      text == SubSeq(s, p, end - 1)
  IN Token(IF text \in Keywords THEN "KEYWORD" ELSE "IDENTIFIER", s, p, end)

(* digits, then "." and digits, then E, a sign and digits, each optional *)
readNumber(s, p) ==
  LET whole == SkipWhile(s, p, Digit)
      fraction == IF peek(s, whole) = "." THEN SkipWhile(s, whole + 1, Digit) ELSE whole
      sign == IF peek(s, fraction + 1) \in {"+", "-"} THEN fraction + 2 ELSE fraction + 1
      end == IF peek(s, fraction) = "E" THEN SkipWhile(s, sign, Digit) ELSE fraction
  IN Token(IF end > whole THEN "FLOAT" ELSE "INTEGER", s, p, end)

RECURSIVE StringFrom(_, _, _, _)

StringNoEscape(s, p, quote, text) ==
  IF p > Len(s) THEN [type |-> "STRING", text |-> text, pos |-> p]
  ELSE IF s[p] = quote THEN [type |-> "STRING", text |-> text, pos |-> p + 1]
  ELSE StringFrom(s, p + 1, quote, Append(text, s[p]))

(* The characters up to the closing quote or the end of the input; a       *)
(* backslash stands for the character after it.                            *)
StringFrom(s, p, quote, text) ==
  IF p > Len(s) THEN [type |-> "STRING", text |-> text, pos |-> p]
  ELSE IF s[p] = quote THEN [type |-> "STRING", text |-> text, pos |-> p + 1]
  ELSE IF s[p] = "\\"
       THEN IF p = Len(s) THEN StringFrom(s, p + 1, quote, text)
            ELSE StringFrom(s, p + 2, quote, Append(text, s[p + 1]))
  ELSE StringFrom(s, p + 1, quote, Append(text, s[p]))

readString(s, p) == StringFrom(s, p + 1, s[p], <<>>)

TwoCharacters == { <<"=", "=">>, <<"!", "=">>, <<"<", "=">>, <<">", "=">>, <<"|", "|">>, <<":", "=">> }
OneCharacter == {"+", "-", "*", "/", "%", "=", "<", ">", "(", ")", ",", ".", ";"}

(* Any other character is a token of its own, of type UNKNOWN. *)
readOperator(s, p) ==
  IF <<s[p], peek(s, p + 1)>> \in TwoCharacters THEN Token("OPERATOR", s, p, p + 2)
  ELSE Token(IF s[p] \in OneCharacter THEN "OPERATOR" ELSE "UNKNOWN", s, p, p + 1)

(* Blanks are skipped once, then at most one comment, then a token is read *)
readToken(s, from) ==
  LET p == skipComment(s, skipWhitespace(s, from))
  IN CASE p > Len(s)                  -> [type |-> "END_OF_FILE", text |-> <<>>, pos |-> p]
       [] peek(s, p) \in Letter \cup {"_"} -> readIdentifier(s, p)
       [] peek(s, p) \in Digit        -> readNumber(s, p)
       [] peek(s, p) \in Quote        -> readString(s, p)
       [] OTHER                       -> readOperator(s, p)

(* The constructor turns the whole input to upper case. *)
LexerInit ==
  /\ input \in { [i \in DOMAIN q |-> toupper(q[i])] : q \in BoundedSeq(Alphabet, MaxText) }
  /\ pos = 1
  /\ tokens = <<>>

Ended == tokens # <<>> /\ Last(tokens).type = "END_OF_FILE"

(* The parser asks for tokens until it is given END_OF_FILE. *)
nextToken ==
  /\ ~Ended
  /\ LET t == readToken(input, pos)
     IN /\ tokens' = Append(tokens, [type |-> t.type, text |-> t.text])
        /\ pos' = t.pos
  /\ UNCHANGED input

LexerNext == nextToken

LexerSpec == LexerInit /\ [][LexerNext]_lexerVars

(***************************************************************************)
(* Properties                                                              *)
(***************************************************************************)
RECURSIVE Lex(_, _)
Lex(s, p) ==
  LET t == readToken(s, p)
      token == [type |-> t.type, text |-> t.text]
  IN IF t.type = "END_OF_FILE" THEN <<token>> ELSE <<token>> \o Lex(s, t.pos)

Escaped(text) ==
  FlattenSeq([i \in DOMAIN text |-> IF text[i] \in {"'", "\\"} THEN <<"\\", text[i]>> ELSE <<text[i]>>])

Written(t) == IF t.type = "STRING" THEN <<"'">> \o Escaped(t.text) \o <<"'">> ELSE t.text

Render(ts) == FlattenSeq([i \in DOMAIN ts |-> Written(ts[i]) \o <<" ">>])

(* A blank that follows a comment *)
StrayBlank(t) == t.type = "UNKNOWN" /\ t.text[1] \in Space

LexerTypeOK ==
  /\ input \in Seq(Alphabet \cup Letter)
  /\ pos \in Nat
  /\ \A i \in DOMAIN tokens : (tokens[i].type = "END_OF_FILE") => i = Len(tokens)

(* The tokens read from a query, written one after the other with a blank  *)
(* between them and the strings quoted and escaped, are read again as the  *)
(* same tokens: nextToken puts every character in the right token, and     *)
(* gives a token the type its own text has.  (A blank right after a        *)
(* comment is read as an UNKNOWN token.)                                   *)
RelexSame ==
  /\ LexerTypeOK
  /\ Ended => LET kept == SelectSeq(tokens, LAMBDA t : ~StrayBlank(t))
              IN Lex(Render(SubSeq(kept, 1, Len(kept) - 1)), 1) = kept

(* Refuted: a comment separates tokens like a blank and leaves nothing. *)
CommentsAreBlank == \A i \in DOMAIN tokens : ~StrayBlank(tokens[i])
=============================================================================
