---------------------------- MODULE LexerProofs ----------------------------
(***************************************************************************)
(* The invariants of the tokenizer, for every set of sources, alphabet and *)
(* keyword table; and that its tokens are the lexemes of the source.       *)
(***************************************************************************)
EXTENDS LexerReference, FiniteSetTheorems, Induction, TLAPS

\* The number of the line after one more character.
LEMMA LineStep ==
  ASSUME NEW text, NEW i \in Nat
  PROVE  /\ LineIn(text, 0) = 1
         /\ LineIn(text, i) \in Nat
         /\ LineIn(text, i + 1) =
              IF text[i + 1] = NEWLINE THEN LineIn(text, i) + 1 ELSE LineIn(text, i)
<1> DEFINE Breaks(n) == {j \in 0..(n - 1) : text[j + 1] = NEWLINE}
<1>1. \A n \in Nat : IsFiniteSet(Breaks(n)) /\ Cardinality(Breaks(n)) \in Nat
  <2> SUFFICES ASSUME NEW n \in Nat
               PROVE  IsFiniteSet(Breaks(n)) /\ Cardinality(Breaks(n)) \in Nat
    OBVIOUS
  <2>1. IsFiniteSet(0..(n - 1))
    BY FS_Interval
  <2>2. Breaks(n) \in SUBSET (0..(n - 1))
    OBVIOUS
  <2> QED
    BY <2>1, <2>2, FS_Subset, FS_CardinalityType
<1>2. Breaks(0) = {}
  OBVIOUS
<1>3. \A n \in Nat : LineIn(text, n) = 1 + Cardinality(Breaks(n))
  BY DEF LineIn
<1>4. CASE text[i + 1] = NEWLINE
  <2>1. Breaks(i + 1) = Breaks(i) \cup {i} /\ i \notin Breaks(i)
    BY <1>4
  <2>2. IsFiniteSet(Breaks(i))
    BY <1>1
  <2>3. Cardinality(Breaks(i + 1)) = Cardinality(Breaks(i)) + 1
    <3> HIDE DEF Breaks
    <3> QED
      BY <2>1, <2>2, FS_AddElement
  <2> HIDE DEF Breaks
  <2> QED
    BY <1>1, <1>2, <1>3, <1>4, <2>3, FS_EmptySet
<1>5. CASE text[i + 1] # NEWLINE
  <2>1. Breaks(i + 1) = Breaks(i)
    BY <1>5
  <2> HIDE DEF Breaks
  <2> QED
    BY <1>1, <1>2, <1>3, <1>5, <2>1, FS_EmptySet
<1> QED
  BY <1>4, <1>5

\* consume keeps the type of the place, and the place in step with the text.
LEMMA ConsumeStep ==
  ASSUME NEW l \in Places
  PROVE  /\ consume(l) \in Places
         /\ consume(l).c = l.c + 1
         /\ l.c < Len(source) /\ source \in Seq(Char) /\ Positioned(source, l)
              => Positioned(source, consume(l))
<1>1. consume(l) \in Places /\ consume(l).c = l.c + 1
  BY DEF consume, Places
<1>2. ASSUME l.c < Len(source), source \in Seq(Char), Positioned(source, l)
      PROVE  Positioned(source, consume(l))
  <2>1. LineIn(source, l.c + 1) =
          IF source[l.c + 1] = NEWLINE THEN LineIn(source, l.c) + 1 ELSE LineIn(source, l.c)
    BY LineStep DEF Places
  <2> QED
    BY <1>2, <2>1 DEF Positioned, consume, At, Places
<1> QED
  BY <1>1, <1>2

-----------------------------------------------------------------------------

LEMMA InitTypeOK == Init => TypeOK
<1> SUFFICES ASSUME Init
             PROVE  TypeOK
  OBVIOUS
<1>1. source \in Seq(Char) \ {<<>>}
  BY SourceAssumption DEF Init
<1>2. lexer \in Places /\ column \in Nat /\ begin \in Nat
  BY DEF Init, Places
<1>3. value \in Seq(Char) /\ tokens \in Seq(Token)
  BY DEF Init
<1>4. invalid \in BOOLEAN /\ pc = "scan"
  BY DEF Init
<1> QED
  BY <1>1, <1>2, <1>3, <1>4 DEF TypeOK

\* The escaped characters are characters.
LEMMA UnescapeType == \A ch \in EscapeChars : Unescape(ch) \in Char
BY CharAssumption DEF EscapeChars, Unescape, unescape, Special, NUL, NEWLINE

\* The value of a token has a length, all of it if it holds no NUL.
LEMMA StrlenType ==
  ASSUME NEW val \in Seq(Char)
  PROVE  /\ strlen(val) \in Nat
         /\ (\A k \in DOMAIN val : val[k] # NUL) => strlen(val) = Len(val)
<1> DEFINE Before == {i \in DOMAIN val : \A j \in 1..i : val[j] # NUL}
<1>1. IsFiniteSet(1..Len(val)) /\ Cardinality(1..Len(val)) = Len(val)
  <2>1. Len(val) \in Nat /\ 1 \in Int /\ Len(val) \in Int
    OBVIOUS
  <2> QED
    BY <2>1, FS_Interval
<1>2. Before \in SUBSET (1..Len(val))
  OBVIOUS
<1>3. Cardinality(Before) \in Nat
  BY <1>1, <1>2, FS_Subset, FS_CardinalityType
<1>4. (\A k \in DOMAIN val : val[k] # NUL) => Before = 1..Len(val)
  OBVIOUS
<1> QED
  BY <1>1, <1>3, <1>4 DEF strlen

LEMMA TokenType ==
  ASSUME NEW val \in Seq(Char), NEW kind \in Kind, NEW col \in Nat, NEW l \in Places,
         begin \in Nat
  PROVE  new_token(val, kind, col, l) \in Token
BY StrlenType DEF new_token, Token, Places

LEMMA NextTypeOK == TypeOK /\ [Next]_vars => TypeOK'
<1> SUFFICES ASSUME TypeOK, [Next]_vars
             PROVE  TypeOK'
  OBVIOUS
<1> USE DEF TypeOK
<1>0. source \in Seq(Char) /\ lexer \in Places /\ value \in Seq(Char)
  OBVIOUS
<1>1. \A i \in Nat : Readable(i) => At(i) \in Char
  BY <1>0 DEF Readable, At
<1>2. consume(lexer) \in Places /\ consume(consume(lexer)) \in Places
  BY <1>0, ConsumeStep
<1>3. \A l \in Places : NextTurn(l) => /\ lexer' \in Places /\ column' \in Nat
                                        /\ begin' \in Nat /\ pc' = "scan"
  <2> SUFFICES ASSUME NEW l \in Places, NextTurn(l)
               PROVE  /\ lexer' \in Places /\ column' \in Nat
                      /\ begin' \in Nat /\ pc' = "scan"
    OBVIOUS
  <2>1. consume(l) \in Places
    BY ConsumeStep
  <2> QED
    BY <2>1 DEF NextTurn, Places
<1>4. CASE Blank
  BY <1>3, <1>4 DEF Blank
<1>5. CASE CommentStart
  BY <1>5 DEF CommentStart
<1>6. CASE CommentChar
  BY <1>2, <1>6 DEF CommentChar
<1>7. CASE CommentEnd
  BY <1>3, <1>7 DEF CommentEnd
<1>8. CASE WordStart
  BY <1>1, <1>8 DEF WordStart, AtHead, Cur, Places
<1>9. CASE NumberStart
  BY <1>1, <1>9 DEF NumberStart, AtHead, Cur, Places
<1>10. CASE LexemeChar
  <2>1. Ahead \in Char
    BY <1>1, <1>10 DEF LexemeChar, Ahead, Places
  <2> QED
    BY <1>2, <1>10, <2>1 DEF LexemeChar
<1>11. CASE LexemeEnd
  <2>1. (IF pc = "word" THEN word_kind(value) ELSE "int_literal") \in Kind
    BY DEF word_kind, Kind
  <2>2. tokens' \in Seq(Token)
    BY <1>0, <1>11, <2>1, TokenType DEF LexemeEnd, Emit
  <2> QED
    BY <1>3, <1>11, <2>2 DEF LexemeEnd
<1>12. CASE StringStart
  BY <1>2, <1>12 DEF StringStart
<1>13. CASE StringChar
  <2>1. Cur \in Char
    BY <1>1, <1>13 DEF StringChar, Cur, Places
  <2> QED
    BY <1>2, <1>13, <2>1 DEF StringChar
<1>14. CASE StringEscape
  <2>1. value' \in Seq(Char) /\ invalid' \in BOOLEAN
    <3>1. CASE Ahead \in EscapeChars
      <4>1. Unescape(Ahead) \in Char
        BY <3>1, UnescapeType
      <4>2. value' = Append(value, Unescape(Ahead)) /\ invalid' = invalid
        BY <1>14, <3>1 DEF StringEscape
      <4> QED
        BY <4>1, <4>2
    <3>2. CASE Ahead \notin EscapeChars
      <4>1. value' = value /\ invalid' = TRUE
        BY <1>14, <3>2 DEF StringEscape
      <4> QED
        BY <4>1
    <3> QED
      BY <3>1, <3>2
  <2> QED
    BY <1>2, <1>14, <2>1 DEF StringEscape
<1>15. CASE StringEnd
  <2>1. tokens' \in Seq(Token)
    BY <1>0, <1>15, TokenType DEF StringEnd, Emit, Kind
  <2> QED
    BY <1>3, <1>15, <2>1 DEF StringEnd
<1>16. CASE Punct
  <2>1. Cur \in Kind /\ <<Cur>> \in Seq(Char)
    BY <1>1, <1>16 DEF Punct, AtHead, Cur, Kind, Places
  <2>2. new_token(<<Cur>>, Cur, column, lexer) \in Token
    BY <1>0, <2>1, TokenType
  <2>3. tokens' \in Seq(Token)
    BY <1>16, <2>2 DEF Punct, Emit
  <2> QED
    BY <1>3, <1>16, <2>3 DEF Punct
<1>17. CASE Unrecognized
  BY <1>3, <1>17 DEF Unrecognized
<1>18. CASE Return
  <2>1. <<NUL>> \in Seq(Char) /\ "EOF" \in Kind
    BY CharAssumption DEF Special, Kind
  <2>2. new_token(<<NUL>>, "EOF", column, lexer) \in Token
    BY <1>0, <2>1, TokenType
  <2>3. CASE invalid
    BY <1>18, <2>3 DEF Return, Final
  <2>4. CASE ~invalid
    <3>1. tokens' = Append(tokens, new_token(<<NUL>>, "EOF", column, lexer)) /\ pc' = "done"
      BY <1>18, <2>4, Zenon DEF Return, Emit
    <3>2. tokens' \in Seq(Token)
      BY <2>2, <3>1
    <3> QED
      BY <1>18, <3>1, <3>2 DEF Return, Final
  <2> QED
    BY <2>3, <2>4
<1>19. CASE Overrun
  BY <1>19 DEF Overrun, Final
<1>20. CASE UNCHANGED vars
  BY <1>20 DEF vars
<1> QED
  BY <1>4, <1>5, <1>6, <1>7, <1>8, <1>9, <1>10, <1>11, <1>12, <1>13, <1>14, <1>15,
     <1>16, <1>17, <1>18, <1>19, <1>20 DEF Next

\* Every state of the tokenizer is well typed: its offsets are numbers and the
\* value under construction holds characters only (jac_tokenize).
THEOREM TypeCorrect == Spec => []TypeOK
<1>1. Init => TypeOK
  BY InitTypeOK
<1>2. TypeOK /\ [Next]_vars => TypeOK'
  BY NextTypeOK
<1> QED
  BY <1>1, <1>2, PTL DEF Spec

-----------------------------------------------------------------------------

\* A step leaves the place, or consumes one or two characters of the source.
LEMMA PlaceStep ==
  ASSUME TypeOK, [Next]_vars
  PROVE  /\ source' = source
         /\ \/ lexer' = lexer
            \/ lexer.c < Len(source) /\ lexer' = consume(lexer)
            \/ lexer.c + 1 < Len(source) /\ lexer' = consume(consume(lexer))
<1>1. source \in Seq(Char) /\ lexer.c \in Nat
  BY DEF TypeOK, Places
<1>2. source' = source
  BY DEF Next, vars, Blank, CommentStart, CommentChar, CommentEnd, WordStart, NumberStart,
     LexemeChar, LexemeEnd, StringStart, StringChar, StringEscape, StringEnd, Punct,
     Unrecognized, Return, Overrun
<1>3. CASE Blank \/ Unrecognized \/ Punct \/ CommentEnd \/ StringEnd \/ LexemeEnd
  BY <1>1, <1>2, <1>3 DEF Blank, Unrecognized, Punct, CommentEnd, StringEnd, LexemeEnd,
     NextTurn, AtHead, Readable
<1>4. CASE CommentChar \/ StringStart \/ StringChar \/ LexemeChar
  BY <1>1, <1>2, <1>4 DEF CommentChar, StringStart, StringChar, LexemeChar, AtHead, Readable
<1>5. CASE StringEscape
  BY <1>2, <1>5 DEF StringEscape, Readable
<1>6. CASE CommentStart \/ WordStart \/ NumberStart \/ Return \/ Overrun \/ UNCHANGED vars
  BY <1>2, <1>6 DEF CommentStart, WordStart, NumberStart, Return, Overrun, vars
<1> QED
  BY <1>3, <1>4, <1>5, <1>6 DEF Next

LEMMA NextPositionInv == TypeOK /\ PositionInv /\ [Next]_vars => PositionInv'
<1> SUFFICES ASSUME TypeOK, PositionInv, [Next]_vars
             PROVE  PositionInv'
  OBVIOUS
<1>1. source \in Seq(Char) /\ lexer \in Places /\ Positioned(source, lexer)
  BY DEF TypeOK, PositionInv
<1>2. Positioned(source, lexer')
  <2>1. CASE lexer' = lexer
    BY <1>1, <2>1
  <2>2. CASE lexer.c < Len(source) /\ lexer' = consume(lexer)
    BY <1>1, <2>2, ConsumeStep
  <2>3. CASE lexer.c + 1 < Len(source) /\ lexer' = consume(consume(lexer))
    <3>1. lexer.c < Len(source)
      BY <1>1, <2>3 DEF Places
    <3>2. /\ consume(lexer) \in Places /\ consume(lexer).c < Len(source)
          /\ Positioned(source, consume(lexer))
      BY <1>1, <2>3, <3>1, ConsumeStep
    <3> QED
      BY <1>1, <2>3, <3>2, ConsumeStep
  <2> QED
    BY <2>1, <2>2, <2>3, PlaceStep
<1> QED
  BY <1>2, PlaceStep DEF PositionInv

LEMMA InitPositionInv == Init => PositionInv
<1> SUFFICES ASSUME Init
             PROVE  PositionInv
  OBVIOUS
<1>1. LineIn(source, 0) = 1
  BY LineStep
<1>2. Len(source) \in Nat
  BY SourceAssumption DEF Init
<1> QED
  BY <1>1, <1>2 DEF Init, PositionInv, Positioned

\* In every state the line and column of the tokenizer are those of the offset it
\* has reached, for every source (consume of src/lex.c).
THEOREM PositionCorrect == Spec => []PositionInv
<1>1. Init => TypeOK /\ PositionInv
  BY InitTypeOK, InitPositionInv
<1>2. TypeOK /\ PositionInv /\ [Next]_vars => (TypeOK /\ PositionInv)'
  BY NextTypeOK, NextPositionInv
<1> QED
  BY <1>1, <1>2, PTL DEF Spec

-----------------------------------------------------------------------------

\* What the loops keep: at the head of the for loop the recorded start is the
\* place; inside a word or a number the value is the text from the start on, all
\* of it on one line.
ScanInv ==
  /\ pc = "scan" => begin = lexer.c /\ column = lexer.column
  /\ pc \in {"word", "number"} =>
       /\ lexer.line_offset + column = begin + 1
       /\ lexer.line = LineIn(source, begin)
       /\ begin <= lexer.c /\ lexer.c < Len(source)
       /\ Len(value) = lexer.c - begin + 1
       /\ \A k \in DOMAIN value : /\ value[k] = source[begin + k]
                                  /\ value[k] \notin {NUL, NEWLINE}

LEMMA NextScanInv == TypeOK /\ PositionInv /\ ScanInv /\ [Next]_vars => ScanInv'
<1> SUFFICES ASSUME TypeOK, PositionInv, ScanInv, [Next]_vars
             PROVE  ScanInv'
  OBVIOUS
<1>0. /\ source \in Seq(Char) /\ lexer \in Places /\ value \in Seq(Char)
      /\ begin \in Nat /\ column \in Nat /\ source' = source
  BY PlaceStep DEF TypeOK
<1>1. Alnum \cap {NUL, NEWLINE} = {} /\ MINUS \notin {NUL, NEWLINE}
  BY CharAssumption DEF Alnum, MINUS, NUL, NEWLINE
<1>2. CASE Blank \/ CommentEnd \/ LexemeEnd \/ StringEnd \/ Punct \/ Unrecognized
  <2>1. NextTurn(lexer)
    BY <1>2 DEF Blank, CommentEnd, LexemeEnd, StringEnd, Punct, Unrecognized
  <2> QED
    BY <2>1 DEF NextTurn, ScanInv
<1>3. CASE WordStart \/ NumberStart
  <2>1. /\ pc = "scan" /\ lexer.c < Len(source) /\ value' = <<source[lexer.c + 1]>>
        /\ UNCHANGED <<lexer, column, begin>> /\ pc' \in {"word", "number"}
    BY <1>3 DEF WordStart, NumberStart, AtHead, Readable, Cur, At
  <2>2. source[lexer.c + 1] \notin {NUL, NEWLINE}
    BY <1>1, <1>3 DEF WordStart, NumberStart, Cur, At, Alnum
  <2>3. /\ lexer.c + 1 = lexer.line_offset + lexer.column
        /\ lexer.line = LineIn(source, lexer.c)
    BY DEF PositionInv, Positioned
  <2>4. begin = lexer.c /\ column = lexer.column
    BY <2>1 DEF ScanInv
  <2> QED
    <3>1. Len(value') = 1 /\ DOMAIN value' = {1} /\ value'[1] = source[lexer.c + 1]
      BY <2>1
    <3>2. \A k \in DOMAIN value' : /\ value'[k] = source[begin + k]
                                   /\ value'[k] \notin {NUL, NEWLINE}
      BY <1>0, <2>2, <2>4, <3>1
    <3>3. lexer.line_offset + column = begin + 1 /\ begin <= lexer.c
          /\ 1 = lexer.c - begin + 1
      BY <1>0, <2>3, <2>4 DEF Places
    <3> QED
      BY <1>0, <2>1, <2>3, <2>4, <3>1, <3>2, <3>3 DEF ScanInv
<1>4. CASE LexemeChar
  <2>1. /\ pc \in {"word", "number"} /\ lexer.c + 1 < Len(source)
        /\ Ahead \in Alnum /\ lexer' = consume(lexer) /\ value' = Append(value, Ahead)
        /\ UNCHANGED <<column, begin, pc>>
    BY <1>4 DEF LexemeChar, Readable, Continues, Alnum
  <2>2. /\ lexer.line_offset + column = begin + 1
        /\ lexer.line = LineIn(source, begin)
        /\ begin <= lexer.c /\ Len(value) = lexer.c - begin + 1
        /\ \A k \in DOMAIN value : /\ value[k] = source[begin + k]
                                   /\ value[k] \notin {NUL, NEWLINE}
    BY <2>1 DEF ScanInv
  <2>3. source[lexer.c + 1] # NEWLINE
    <3>1. Len(value) \in DOMAIN value /\ begin + Len(value) = lexer.c + 1
      BY <1>0, <2>2 DEF Places
    <3> QED
      BY <2>2, <3>1
  <2>4. /\ lexer'.c = lexer.c + 1 /\ lexer'.line = lexer.line
        /\ lexer'.line_offset = lexer.line_offset
    BY <2>1, <2>3 DEF consume, At
  <2>5. Ahead = source[lexer.c + 2] /\ Ahead \notin {NUL, NEWLINE} /\ Ahead \in Char
    BY <1>0, <1>1, <2>1 DEF Ahead, At, Places
  <2>6. /\ Len(value') = Len(value) + 1
        /\ \A k \in DOMAIN value' : value'[k] = IF k = Len(value) + 1 THEN Ahead ELSE value[k]
        /\ DOMAIN value' = 1 .. Len(value) + 1 /\ DOMAIN value = 1 .. Len(value)
    BY <1>0, <2>1, <2>5
  <2>7. \A k \in DOMAIN value' : /\ value'[k] = source[begin + k]
                                 /\ value'[k] \notin {NUL, NEWLINE}
    <3> SUFFICES ASSUME NEW k \in DOMAIN value'
                 PROVE  value'[k] = source[begin + k] /\ value'[k] \notin {NUL, NEWLINE}
      OBVIOUS
    <3>1. CASE k \in DOMAIN value
      BY <2>2, <2>6, <3>1
    <3>2. CASE k = Len(value) + 1
      <4>1. begin + k = lexer.c + 2
        BY <1>0, <2>2, <3>2 DEF Places
      <4> QED
        BY <2>5, <2>6, <3>2, <4>1
    <3> QED
      BY <1>0, <2>6, <3>1, <3>2
  <2> QED
    BY <1>0, <2>1, <2>2, <2>4, <2>6, <2>7 DEF ScanInv, Places
<1>5. CASE CommentStart \/ CommentChar \/ StringStart \/ StringChar \/ StringEscape
           \/ Return \/ Overrun
  <2>1. pc' \notin {"scan", "word", "number"}
    BY <1>5 DEF CommentStart, CommentChar, StringStart, StringChar, StringEscape, Return, Overrun
  <2> QED
    BY <2>1 DEF ScanInv
<1>6. CASE UNCHANGED vars
  BY <1>0, <1>6 DEF vars, ScanInv
<1> QED
  BY <1>2, <1>3, <1>4, <1>5, <1>6 DEF Next

\* A token made at the end of its text, which begins at `begin' on the line of l,
\* is underlined.
LEMMA UnderlinedToken ==
  ASSUME TypeOK, NEW val \in Seq(Char), NEW kind, NEW n \in Nat, n <= Len(val),
         strlen(val) = n,
         lexer.line_offset + column = begin + 1,
         lexer.line = LineIn(source, begin),
         begin + n <= Len(source),
         \A k \in 1..n : val[k] = source[begin + k]
  PROVE  Underlined(source, new_token(val, kind, column, lexer))
BY DEF Underlined, new_token

\* The caret property when a token is added.
LEMMA EmitStep ==
  ASSUME TypeOK, CaretInv, source' = source, NEW t, Emit(t),
         t.kind # "str_literal" => Underlined(source, t)
  PROVE  CaretInv'
<1>1. /\ tokens \in Seq(Token) /\ Len(tokens) \in Nat
      /\ DOMAIN tokens = 1..Len(tokens)
  BY DEF TypeOK
<1>2. /\ DOMAIN tokens' = 1 .. Len(tokens) + 1
      /\ \A i \in 1 .. Len(tokens) : tokens'[i] = tokens[i]
      /\ tokens'[Len(tokens) + 1] = t
  BY <1>1 DEF Emit
<1> SUFFICES ASSUME NEW i \in DOMAIN tokens', tokens'[i].kind # "str_literal"
             PROVE  Underlined(source, tokens'[i])
  BY DEF CaretInv
<1>3. CASE i \in DOMAIN tokens
  BY <1>1, <1>2, <1>3 DEF CaretInv
<1>4. CASE i = Len(tokens) + 1
  BY <1>2, <1>4
<1> QED
  BY <1>1, <1>2, <1>3, <1>4

LEMMA NextCaretInv ==
  TypeOK /\ PositionInv /\ ScanInv /\ CaretInv /\ [Next]_vars => CaretInv'
<1> SUFFICES ASSUME TypeOK, PositionInv, ScanInv, CaretInv, [Next]_vars
             PROVE  CaretInv'
  OBVIOUS
<1>0. /\ source \in Seq(Char) /\ lexer \in Places /\ value \in Seq(Char)
      /\ begin \in Nat /\ column \in Nat /\ source' = source
  BY PlaceStep DEF TypeOK
<1>1. CASE LexemeEnd
  <2> DEFINE kind == IF pc = "word" THEN word_kind(value) ELSE "int_literal"
             token == new_token(value, kind, column, lexer)
  <2>1. pc \in {"word", "number"} /\ Emit(token)
    BY <1>1 DEF LexemeEnd
  <2>2. /\ lexer.line_offset + column = begin + 1
        /\ lexer.line = LineIn(source, begin)
        /\ begin <= lexer.c /\ lexer.c < Len(source) /\ Len(value) = lexer.c - begin + 1
        /\ \A k \in DOMAIN value : value[k] = source[begin + k] /\ value[k] # NUL
    BY <2>1 DEF ScanInv
  <2>3. strlen(value) = Len(value) /\ Len(value) \in Nat /\ begin + Len(value) <= Len(source)
    <3>1. \A k \in DOMAIN value : value[k] # NUL
      BY <2>2
    <3>2. strlen(value) = Len(value)
      BY <1>0, <3>1, StrlenType
    <3> QED
      BY <1>0, <2>2, <3>2 DEF Places
  <2>4. Underlined(source, token)
    <3> HIDE DEF kind
    <3>1. \A k \in 1..Len(value) : value[k] = source[begin + k]
      BY <1>0, <2>2
    <3> QED
      BY <1>0, <2>2, <2>3, <3>1, UnderlinedToken
  <2> HIDE DEF token
  <2> QED
    BY <1>0, <2>1, <2>4, EmitStep
<1>2. CASE StringEnd
  <2>1. Emit(new_token(value, "str_literal", column, lexer))
    BY <1>2 DEF StringEnd
  <2>2. new_token(value, "str_literal", column, lexer).kind = "str_literal"
    BY DEF new_token
  <2> QED
    BY <1>0, <2>1, <2>2, EmitStep
\* At the head of the for loop the place is the one recorded.
<1>3. ASSUME pc = "scan"
      PROVE  /\ lexer.line_offset + column = begin + 1
             /\ lexer.line = LineIn(source, begin)
             /\ begin = lexer.c
  BY <1>0, <1>3 DEF ScanInv, PositionInv, Positioned, Places
<1>4. CASE Punct
  <2>1. /\ pc = "scan" /\ lexer.c < Len(source) /\ Cur = source[lexer.c + 1] /\ Cur # NUL
        /\ Emit(new_token(<<Cur>>, Cur, column, lexer))
    BY <1>4 DEF Punct, AtHead, Readable, Cur, At
  <2>2. Cur \in Char
    BY <1>0, <2>1 DEF Places
  <2>3. <<Cur>> \in Seq(Char) /\ Len(<<Cur>>) = 1 /\ strlen(<<Cur>>) = 1
    <3>1. <<Cur>> \in Seq(Char) /\ Len(<<Cur>>) = 1 /\ \A k \in DOMAIN <<Cur>> : <<Cur>>[k] # NUL
      BY <2>1, <2>2
    <3> QED
      BY <3>1, StrlenType
  <2>4. begin + 1 <= Len(source) /\ \A k \in 1..1 : <<Cur>>[k] = source[begin + k]
    BY <1>0, <1>3, <2>1 DEF Places
  <2>5. Underlined(source, new_token(<<Cur>>, Cur, column, lexer))
    <3> DEFINE val == <<Cur>>
    <3>1. /\ val \in Seq(Char) /\ 1 \in Nat /\ 1 <= Len(val) /\ strlen(val) = 1
          /\ \A k \in 1..1 : val[k] = source[begin + k]
      BY <2>3, <2>4
    <3> HIDE DEF val
    <3>2. Underlined(source, new_token(val, Cur, column, lexer))
      BY <1>3, <2>1, <2>4, <3>1, UnderlinedToken
    <3> QED
      BY <3>2 DEF val
  <2> QED
    BY <1>0, <2>1, <2>5, EmitStep
<1>5. CASE Return
  <2>1. pc = "scan" /\ lexer.c < Len(source)
    BY <1>5 DEF Return, Readable
  <2>2. tokens' = <<>> \/ Emit(new_token(<<NUL>>, "EOF", column, lexer))
    BY <1>5, Zenon DEF Return
  <2>3. <<NUL>> \in Seq(Char) /\ strlen(<<NUL>>) = 0
    <3>1. {i \in DOMAIN <<NUL>> : \A j \in 1..i : <<NUL>>[j] # NUL} = {}
      OBVIOUS
    <3> QED
      BY <3>1, CharAssumption, FS_EmptySet DEF strlen, Special
  <2>4. Underlined(source, new_token(<<NUL>>, "EOF", column, lexer))
    <3> DEFINE val == <<NUL>>
    <3>1. /\ val \in Seq(Char) /\ 0 \in Nat /\ 0 <= Len(val) /\ strlen(val) = 0
          /\ \A k \in 1..0 : val[k] = source[begin + k]
      BY <2>3
    <3>2. begin + 0 <= Len(source)
      BY <1>0, <1>3, <2>1 DEF Places
    <3> HIDE DEF val
    <3>3. Underlined(source, new_token(val, "EOF", column, lexer))
      BY <1>3, <2>1, <3>1, <3>2, UnderlinedToken
    <3> QED
      BY <3>3 DEF val
  <2>5. CASE tokens' = <<>>
    BY <2>5 DEF CaretInv
  <2>6. CASE Emit(new_token(<<NUL>>, "EOF", column, lexer))
    BY <1>0, <2>4, <2>6, EmitStep
  <2> QED
    BY <2>2, <2>5, <2>6
<1>6. CASE tokens' = tokens
  BY <1>0, <1>6 DEF CaretInv
<1>7. \/ LexemeEnd \/ StringEnd \/ Punct \/ Return \/ tokens' = tokens
  BY DEF Next, vars, Blank, CommentStart, CommentChar, CommentEnd, WordStart, NumberStart,
     LexemeChar, StringStart, StringChar, StringEscape, Unrecognized, Overrun
<1> QED
  BY <1>1, <1>2, <1>4, <1>5, <1>6, <1>7

\* In every state, every token that is not a string literal carries the line, the
\* column, the line start and the length of the very characters it was read from
\* (new_token of src/lex.c, output_diagnostic of src/diagnostics.c).
THEOREM CaretCorrect == Spec => []CaretInv
<1> DEFINE IInv == TypeOK /\ PositionInv /\ ScanInv /\ CaretInv
<1>1. Init => IInv
  <2>1. Init => ScanInv /\ CaretInv
    BY DEF Init, ScanInv, CaretInv
  <2> QED
    BY <2>1, InitTypeOK, InitPositionInv
<1>2. IInv /\ [Next]_vars => IInv'
  BY NextTypeOK, NextPositionInv, NextScanInv, NextCaretInv
<1>3. IInv => CaretInv
  OBVIOUS
<1> QED
  BY <1>1, <1>2, <1>3, PTL DEF Spec

-----------------------------------------------------------------------------

\* Where the start of a string is on the current line, the saved column and
\* line_offset give it; behind a newline both line and line_offset are past it.
StartKept(l) ==
  /\ l.line_offset + column >= begin + 2
  /\ l.line >= LineIn(source, begin)
  /\ l.line = LineIn(source, begin) <=> l.line_offset + column = begin + 2

StringInv ==
  /\ lexer.column > 0
  /\ pc = "string" => LineIn(source, begin) \in Nat /\ StartKept(lexer)

LEMMA ColumnStep == ASSUME NEW l \in Places PROVE consume(l).column > 0
BY DEF consume, Places

\* The start is kept by each character of the string.
LEMMA StartStep ==
  ASSUME TypeOK, NEW l \in Places, l.column > 0, LineIn(source, begin) \in Nat, StartKept(l)
  PROVE  StartKept(consume(l))
<1>1. column \in Nat /\ begin \in Nat
  BY DEF TypeOK
<1>2. CASE At(l.c) = NEWLINE
  <2>1. /\ consume(l).line = l.line + 1
        /\ consume(l).line_offset = l.line_offset + l.column
    BY <1>2 DEF consume
  <2> QED
    BY <1>1, <2>1 DEF StartKept, Places
<1>3. CASE At(l.c) # NEWLINE
  <2>1. consume(l).line = l.line /\ consume(l).line_offset = l.line_offset
    BY <1>3 DEF consume
  <2> QED
    BY <2>1 DEF StartKept
<1> QED
  BY <1>2, <1>3

LEMMA NextStringInv == TypeOK /\ PositionInv /\ ScanInv /\ StringInv /\ [Next]_vars => StringInv'
<1> SUFFICES ASSUME TypeOK, PositionInv, ScanInv, StringInv, [Next]_vars
             PROVE  StringInv'
  OBVIOUS
<1>0. /\ lexer \in Places /\ begin \in Nat /\ column \in Nat /\ source' = source
  BY PlaceStep DEF TypeOK
<1>1. lexer'.column > 0
  <2>1. consume(lexer) \in Places
    BY <1>0, ConsumeStep
  <2> QED
    BY <1>0, <2>1, PlaceStep, ColumnStep DEF StringInv
<1>2. CASE StringStart
  <2>1. /\ pc = "scan" /\ At(lexer.c) = QUOTE /\ lexer' = consume(lexer)
        /\ column' = column + 1 /\ begin' = begin
    BY <1>2 DEF StringStart, AtHead, Cur
  <2>2. /\ lexer.c + 1 = lexer.line_offset + lexer.column
        /\ lexer.line = LineIn(source, lexer.c)
        /\ begin = lexer.c /\ column = lexer.column
    BY <2>1 DEF PositionInv, Positioned, ScanInv
  <2>3. lexer'.line = lexer.line /\ lexer'.line_offset = lexer.line_offset
    BY <2>1 DEF consume, QUOTE, NEWLINE
  <2>4. lexer'.line_offset + column' = begin + 2
    BY <1>0, <2>1, <2>2, <2>3 DEF Places
  <2>5. lexer'.line = LineIn(source, begin) /\ LineIn(source, begin) \in Nat
    BY <1>0, <2>2, <2>3 DEF Places
  <2> QED
    BY <1>0, <1>1, <2>1, <2>4, <2>5 DEF StringInv, StartKept
<1>3. CASE StringChar \/ StringEscape
  <2>1. pc = "string" /\ UNCHANGED <<column, begin, pc>>
    BY <1>3 DEF StringChar, StringEscape
  <2>2. lexer.column > 0 /\ LineIn(source, begin) \in Nat /\ StartKept(lexer)
    BY <2>1 DEF StringInv
  <2>3. StartKept(consume(lexer)) /\ consume(lexer) \in Places /\ consume(lexer).column > 0
    BY <1>0, <2>2, StartStep, ConsumeStep, ColumnStep
  <2>4. StartKept(consume(consume(lexer)))
    BY <2>2, <2>3, StartStep
  <2>5. StartKept(lexer')
    BY <1>3, <2>3, <2>4 DEF StringChar, StringEscape
  <2> QED
    BY <1>0, <1>1, <2>1, <2>2, <2>5 DEF StringInv, StartKept
<1>4. CASE UNCHANGED vars
  BY <1>0, <1>4 DEF vars, StringInv, StartKept
<1>5. CASE pc' # "string"
  BY <1>1, <1>5 DEF StringInv
<1>6. StringStart \/ StringChar \/ StringEscape \/ UNCHANGED vars \/ pc' # "string"
  BY DEF Next, NextTurn, Blank, CommentStart, CommentChar, CommentEnd, WordStart, NumberStart,
     LexemeChar, LexemeEnd, StringEnd, Punct, Unrecognized, Return, Overrun, AtHead
<1> QED
  BY <1>2, <1>3, <1>4, <1>5, <1>6

StringCaret(t) ==
  t.kind = "str_literal" =>
    (t.line = LineOf(t.at) <=> t.source_line + t.column = t.at + 2)

LEMMA NextStringCaretInv ==
  TypeOK /\ StringInv /\ StringCaretInv /\ [Next]_vars => StringCaretInv'
<1> SUFFICES ASSUME TypeOK, StringInv, StringCaretInv, [Next]_vars
             PROVE  StringCaretInv'
  OBVIOUS
<1>0. /\ source' = source /\ lexer \in Places /\ begin \in Nat /\ column \in Nat
      /\ tokens \in Seq(Token) /\ Len(tokens) \in Nat /\ DOMAIN tokens = 1..Len(tokens)
      /\ \A j \in DOMAIN tokens : StringCaret(tokens[j])
  BY PlaceStep DEF TypeOK, StringCaretInv, StringCaret
<1>1. ASSUME NEW t, Emit(t), StringCaret(t)
      PROVE  StringCaretInv'
  <2>1. /\ DOMAIN tokens' = 1 .. Len(tokens) + 1
        /\ \A i \in 1 .. Len(tokens) : tokens'[i] = tokens[i]
        /\ tokens'[Len(tokens) + 1] = t
    BY <1>0, <1>1 DEF Emit
  <2>2. \A i \in DOMAIN tokens' : StringCaret(tokens'[i])
    BY <1>0, <1>1, <2>1
  <2> QED
    BY <1>0, <2>2 DEF StringCaretInv, StringCaret, LineOf
<1>2. CASE StringEnd
  <2> DEFINE t == new_token(value, "str_literal", column, lexer)
  <2>1. pc = "string" /\ Emit(t)
    BY <1>2 DEF StringEnd
  <2>2. t.line = lexer.line /\ t.source_line = lexer.line_offset /\ t.column = column /\ t.at = begin
    BY DEF new_token
  <2>3. StringCaret(t)
    BY <2>1, <2>2 DEF StringInv, StartKept, StringCaret, LineOf
  <2> HIDE DEF t
  <2> QED
    BY <1>1, <2>1, <2>3
<1>3. CASE LexemeEnd
  <2> DEFINE kind == IF pc = "word" THEN word_kind(value) ELSE "int_literal"
             t    == new_token(value, kind, column, lexer)
  <2>1. kind # "str_literal"
    BY KeywordAssumption DEF word_kind
  <2>2. t.kind = kind
    BY DEF new_token
  <2>3. Emit(t)
    BY <1>3 DEF LexemeEnd
  <2> HIDE DEF t, kind
  <2> QED
    BY <1>1, <2>1, <2>2, <2>3 DEF StringCaret
<1>4. CASE Punct
  <2> DEFINE t == new_token(<<Cur>>, Cur, column, lexer)
  <2>1. Emit(t) /\ Cur # "str_literal"
    BY <1>4, CharAssumption DEF Punct
  <2>2. t.kind = Cur
    BY DEF new_token
  <2> HIDE DEF t
  <2> QED
    BY <1>1, <2>1, <2>2 DEF StringCaret
<1>5. CASE Return
  <2> DEFINE t == new_token(<<NUL>>, "EOF", column, lexer)
  <2>1. tokens' = <<>> \/ Emit(t)
    BY <1>5, Zenon DEF Return
  <2>2. t.kind = "EOF"
    BY DEF new_token
  <2>3. CASE tokens' = <<>>
    BY <2>3 DEF StringCaretInv
  <2> HIDE DEF t
  <2>4. CASE Emit(t)
    BY <1>1, <2>2, <2>4 DEF StringCaret
  <2> QED
    BY <2>1, <2>3, <2>4
<1>6. CASE tokens' = tokens
  BY <1>0, <1>6 DEF StringCaretInv, LineOf
<1>7. \/ LexemeEnd \/ StringEnd \/ Punct \/ Return \/ tokens' = tokens
  BY DEF Next, vars, Blank, CommentStart, CommentChar, CommentEnd, WordStart, NumberStart,
     LexemeChar, StringStart, StringChar, StringEscape, Unrecognized, Overrun
<1> QED
  BY <1>2, <1>3, <1>4, <1>5, <1>6, <1>7

\* In every state the diagnostics of a string literal point to its first character
\* exactly if both of its quotes are on one line (src/lex.c:139, 182).
THEOREM StringCaretCorrect == Spec => []StringCaretInv
<1> DEFINE IInv == TypeOK /\ PositionInv /\ ScanInv /\ StringInv /\ StringCaretInv
<1>1. Init => IInv
  <2>1. Init => ScanInv /\ StringInv /\ StringCaretInv
    BY DEF Init, ScanInv, StringInv, StringCaretInv
  <2> QED
    BY <2>1, InitTypeOK, InitPositionInv
<1>2. IInv /\ [Next]_vars => IInv'
  BY NextTypeOK, NextPositionInv, NextScanInv, NextStringInv, NextStringCaretInv
<1>3. IInv => StringCaretInv
  OBVIOUS
<1> QED
  BY <1>1, <1>2, <1>3, PTL DEF Spec

-----------------------------------------------------------------------------

\* EOF is emitted once, by the step that ends the loop.
EofInv ==
  /\ OneEof
  /\ pc # "done" => \A i \in DOMAIN tokens : tokens[i].kind # "EOF"

LEMMA NextEofInv == TypeOK /\ EofInv /\ [Next]_vars => EofInv'
<1> SUFFICES ASSUME TypeOK, EofInv, [Next]_vars
             PROVE  EofInv'
  OBVIOUS
<1>1. tokens \in Seq(Token) /\ Len(tokens) \in Nat /\ DOMAIN tokens = 1..Len(tokens)
  BY DEF TypeOK
<1>2. ASSUME NEW t, Emit(t)
      PROVE  /\ Len(tokens') = Len(tokens) + 1 /\ DOMAIN tokens' = 1 .. Len(tokens) + 1
             /\ \A i \in 1 .. Len(tokens) : tokens'[i] = tokens[i]
             /\ tokens'[Len(tokens) + 1] = t
             /\ tokens' # <<>>
  BY <1>1, <1>2 DEF Emit
<1>3. CASE LexemeEnd \/ StringEnd \/ Punct
  <2>1. PICK t : Emit(t) /\ t.kind # "EOF"
    <3>1. CASE LexemeEnd
      <4> DEFINE kind == IF pc = "word" THEN word_kind(value) ELSE "int_literal"
      <4>1. kind # "EOF"
        BY KeywordAssumption DEF word_kind
      <4>2. new_token(value, kind, column, lexer).kind = kind
        BY DEF new_token
      <4>3. Emit(new_token(value, kind, column, lexer))
        BY <3>1 DEF LexemeEnd
      <4> QED
        BY <4>1, <4>2, <4>3
    <3>2. CASE StringEnd
      <4>1. new_token(value, "str_literal", column, lexer).kind # "EOF"
        BY DEF new_token
      <4> QED
        BY <3>2, <4>1 DEF StringEnd
    <3>3. CASE Punct
      <4>1. Cur # "EOF"
        BY <3>3, CharAssumption DEF Punct
      <4>2. new_token(<<Cur>>, Cur, column, lexer).kind # "EOF"
        BY <4>1 DEF new_token
      <4> QED
        BY <3>3, <4>2 DEF Punct
    <3> QED
      BY <1>3, <3>1, <3>2, <3>3
  <2>2. pc # "done" /\ pc' = "scan"
    BY <1>3 DEF LexemeEnd, StringEnd, Punct, AtHead, NextTurn
  <2> QED
    BY <1>1, <1>2, <2>1, <2>2 DEF EofInv, OneEof
<1>4. CASE Return
  <2>1. pc = "scan"
    BY <1>4 DEF Return
  <2>2. \/ tokens' = <<>> /\ pc' = "failed"
        \/ Emit(new_token(<<NUL>>, "EOF", column, lexer)) /\ pc' = "done"
    BY <1>4, Zenon DEF Return
  <2>3. new_token(<<NUL>>, "EOF", column, lexer).kind = "EOF"
    BY DEF new_token
  <2>4. CASE tokens' = <<>> /\ pc' = "failed"
    BY <2>4 DEF EofInv, OneEof
  <2>5. CASE Emit(new_token(<<NUL>>, "EOF", column, lexer)) /\ pc' = "done"
    BY <1>1, <1>2, <2>1, <2>3, <2>5 DEF EofInv, OneEof
  <2> QED
    BY <2>2, <2>4, <2>5
<1>5. CASE tokens' = tokens /\ pc' # "done" /\ pc # "done"
  BY <1>5 DEF EofInv, OneEof
<1>6. CASE UNCHANGED vars
  BY <1>6 DEF vars, EofInv, OneEof
<1>7. \/ LexemeEnd \/ StringEnd \/ Punct \/ Return \/ UNCHANGED vars
      \/ tokens' = tokens /\ pc' # "done" /\ pc # "done"
  BY DEF Next, Blank, CommentStart, CommentChar, CommentEnd, WordStart, NumberStart,
     LexemeChar, StringStart, StringChar, StringEscape, Unrecognized, Overrun,
     AtHead, NextTurn
<1> QED
  BY <1>3, <1>4, <1>5, <1>6, <1>7

\* Whatever the source, the token array jac_tokenize returns ends with EOF and
\* holds it nowhere else: what the parser assumes of its input.
THEOREM OneEofCorrect == Spec => []OneEof
<1>1. Init => TypeOK /\ EofInv
  <2>1. Init => EofInv
    BY DEF Init, EofInv, OneEof
  <2> QED
    BY <2>1, InitTypeOK
<1>2. TypeOK /\ EofInv /\ [Next]_vars => (TypeOK /\ EofInv)'
  BY NextTypeOK, NextEofInv
<1>3. EofInv => OneEof
  BY DEF EofInv
<1> QED
  BY <1>1, <1>2, <1>3, PTL DEF Spec

-----------------------------------------------------------------------------

\* While the place is not inside a comment or a string, a terminated buffer has a
\* character there.
HeadInv == source[Len(source)] = NUL /\ pc \in {"scan", "word", "number"} => lexer.c < Len(source)

LEMMA NextHeadInv == TypeOK /\ HeadInv /\ [Next]_vars => HeadInv'
<1> SUFFICES ASSUME TypeOK, HeadInv, [Next]_vars, source[Len(source)] = NUL
             PROVE  pc' \in {"scan", "word", "number"} => lexer'.c < Len(source)
  BY PlaceStep DEF HeadInv
<1>0. /\ source \in Seq(Char) /\ Len(source) \in Nat /\ lexer \in Places /\ lexer.c \in Nat
      /\ source' = source
  BY PlaceStep DEF TypeOK, Places
\* The consumption of a character that is not NUL stays in front of the last one.
<1>1. ASSUME lexer.c < Len(source), source[lexer.c + 1] # NUL, lexer' = consume(lexer)
      PROVE  lexer'.c < Len(source)
  <2>1. lexer.c + 1 # Len(source)
    BY <1>1
  <2> QED
    BY <1>0, <1>1, <2>1, ConsumeStep
<1>2. NUL \notin Blanks \cup Alnum \cup Puncts \cup {QUOTE, NEWLINE}
  BY CharAssumption DEF Alnum, NUL, QUOTE, NEWLINE
<1>3. CASE Blank \/ CommentEnd \/ StringEnd \/ Punct \/ Unrecognized
  <2>1. /\ lexer.c < Len(source) /\ source[lexer.c + 1] # NUL /\ lexer' = consume(lexer)
    BY <1>2, <1>3 DEF Blank, CommentEnd, StringEnd, Punct, Unrecognized, AtHead, Readable, Cur,
       At, NextTurn
  <2> QED
    BY <1>1, <2>1
<1>4. CASE LexemeChar \/ LexemeEnd
  <2>1. lexer.c + 1 < Len(source) /\ lexer' = consume(lexer)
    BY <1>4 DEF LexemeChar, LexemeEnd, Readable, NextTurn
  <2> QED
    BY <1>0, <2>1, ConsumeStep
<1>5. CASE WordStart \/ NumberStart
  BY <1>5 DEF WordStart, NumberStart, AtHead, Readable
<1>6. CASE CommentStart \/ CommentChar \/ StringStart \/ StringChar \/ StringEscape
           \/ Return \/ Overrun
  <2>1. pc' \notin {"scan", "word", "number"}
    BY <1>6 DEF CommentStart, CommentChar, StringStart, StringChar, StringEscape, Return, Overrun
  <2> QED
    BY <2>1
<1>7. CASE UNCHANGED vars
  BY <1>7 DEF vars, HeadInv
<1> QED
  BY <1>3, <1>4, <1>5, <1>6, <1>7 DEF Next

LEMMA OverrunStep ==
  ASSUME TypeOK, ScanInv, HeadInv, Next
  PROVE  At(Len(source) - 1) = NUL /\ pc # "overrun" /\ pc' = "overrun"
           => pc \in {"comment", "string"}
<1> SUFFICES ASSUME At(Len(source) - 1) = NUL, pc' = "overrun", pc # "overrun",
                    pc \notin {"comment", "string"}
             PROVE  FALSE
  OBVIOUS
<1>0. /\ source \in Seq(Char) /\ Len(source) \in Nat /\ lexer.c \in Nat /\ begin \in Nat
      /\ value \in Seq(Char) /\ source[Len(source)] = NUL
  BY DEF TypeOK, Places, At
<1>1. Overrun
  BY DEF Next, Blank, CommentStart, CommentChar, CommentEnd, WordStart, NumberStart, LexemeChar,
     LexemeEnd, StringStart, StringChar, StringEscape, StringEnd, Punct, Unrecognized, Return,
     NextTurn
<1>2. CASE pc = "scan"
  <2>1. lexer.c < Len(source)
    BY <1>0, <1>2 DEF HeadInv
  <2>2. ~Readable(lexer.c + 1) /\ source[lexer.c + 1] = MINUS
    BY <1>1, <1>2, <2>1 DEF Overrun, Readable, Cur, At
  <2>3. lexer.c + 1 = Len(source)
    BY <1>0, <2>1, <2>2 DEF Readable
  <2> QED
    BY <1>0, <2>2, <2>3 DEF MINUS, NUL
<1>3. CASE pc \in {"word", "number"}
  <2>1. /\ lexer.c < Len(source) /\ begin <= lexer.c /\ Len(value) = lexer.c - begin + 1
        /\ \A k \in DOMAIN value : value[k] = source[begin + k] /\ value[k] # NUL
    BY <1>3 DEF ScanInv
  <2>2. Len(value) \in DOMAIN value /\ begin + Len(value) = lexer.c + 1
    BY <1>0, <2>1
  <2>3. source[lexer.c + 1] # NUL
    BY <2>1, <2>2
  <2>4. lexer.c + 1 < Len(source)
    BY <1>0, <2>1, <2>3
  <2> QED
    BY <1>1, <1>3, <2>4 DEF Overrun, Readable
<1>4. pc \in {"scan", "word", "number"}
  BY <1>1 DEF Overrun
<1> QED
  BY <1>2, <1>3, <1>4

\* On every terminated buffer only a comment or a string reads past the end: the
\* two loops of jac_tokenize that do not look for the terminator.
THEOREM OverrunCorrect == Spec => OnlyTextOverruns
<1> DEFINE IInv == TypeOK /\ PositionInv /\ ScanInv /\ HeadInv
<1>1. Init => IInv
  <2>1. Init => ScanInv
    BY DEF Init, ScanInv
  <2>2. Init => HeadInv
    <3>1. ASSUME Init
          PROVE  0 < Len(source) /\ lexer.c = 0
      <4>1. source \in Seq(Char) /\ source # <<>>
        BY <3>1, SourceAssumption DEF Init
      <4> QED
        BY <3>1, <4>1 DEF Init
    <3> QED
      BY <3>1 DEF HeadInv
  <2> QED
    BY <2>1, <2>2, InitTypeOK, InitPositionInv
<1>2. IInv /\ [Next]_vars => IInv'
  BY NextTypeOK, NextPositionInv, NextScanInv, NextHeadInv
<1>3. IInv /\ [Next]_vars =>
        [At(Len(source) - 1) = NUL /\ pc # "overrun" /\ pc' = "overrun" =>
           pc \in {"comment", "string"}]_vars
  BY OverrunStep DEF vars
<1> QED
  BY <1>1, <1>2, <1>3, PTL DEF Spec, OnlyTextOverruns

-----------------------------------------------------------------------------

\* The text does not change.
LEMMA SameText ==
  ASSUME source' = source
  PROVE  /\ Start' = Start
         /\ \A i : Lexeme(i)' = Lexeme(i)
         /\ \A i : Escaped(i)' = Escaped(i) /\ Decoded(i)' = Decoded(i)
         /\ \A i, j : BadEscape(i, j)' = BadEscape(i, j) /\ (Closes(i, j)' <=> Closes(i, j))
<1>1. \A i : At(i)' = At(i) /\ Readable(i)' = Readable(i)
  BY DEF At, Readable
<1>2. \A i : Escaped(i)' = Escaped(i)
  BY DEF Escaped, At
<1>3. \A i : Decoded(i)' = Decoded(i)
  BY <1>2 DEF Decoded, At
<1>4. \A i, j : BadEscape(i, j)' = BadEscape(i, j) /\ (Closes(i, j)' <=> Closes(i, j))
  BY <1>1, <1>2 DEF BadEscape, Closes
<1>5. \A i : ClosingQuote(i)' = ClosingQuote(i)
  BY <1>1, <1>2, <1>4 DEF ClosingQuote
<1>6. \A i, class : RunEnd(i, class)' = RunEnd(i, class)
  BY <1>1 DEF RunEnd
<1>7. \A i : Lexeme(i)' = Lexeme(i)
  BY <1>1, <1>3, <1>4, <1>5, <1>6, ZenonT(40) DEF Lexeme, Word, Number, Comment, String, Run, Item, Text
<1>8. Start' = Start
  BY <1>1, <1>7 DEF Start
<1> QED
  BY <1>2, <1>3, <1>4, <1>7, <1>8

LEMMA RunEndIs ==
  ASSUME source \in Seq(Char), NEW i \in Nat, NEW class, NEW j \in i .. Len(source),
         \A k \in i .. j - 1 : At(k) \in class, j < Len(source) => At(j) \notin class
  PROVE  RunEnd(i, class) = j
<1> DEFINE Ends(m) == /\ \A k \in i .. m - 1 : At(k) \in class
                      /\ m < Len(source) => At(m) \notin class
<1>1. Ends(j) /\ Len(source) \in Nat
  OBVIOUS
<1>2. ASSUME NEW m \in i .. Len(source), Ends(m)
      PROVE  m = j
  <2>1. CASE m < j
    <3>1. m \in i .. j - 1 /\ m < Len(source)
      BY <1>1, <2>1
    <3> QED
      BY <1>1, <1>2, <3>1
  <2>2. CASE j < m
    <3>1. j \in i .. m - 1 /\ j < Len(source)
      BY <1>1, <2>2
    <3> QED
      BY <1>1, <1>2, <3>1
  <2> QED
    BY <1>1, <2>1, <2>2
<1>3. RunEnd(i, class) = CHOOSE m \in i .. Len(source) : Ends(m)
  BY DEF RunEnd
<1> HIDE DEF Ends
<1> QED
  BY <1>1, <1>2, <1>3

LEMMA RunEndType ==
  ASSUME source \in Seq(Char), NEW i \in Nat, i <= Len(source), NEW class
  PROVE  RunEnd(i, class) \in i .. Len(source)
<1> DEFINE T == {j \in i .. Len(source) : j < Len(source) => At(j) \notin class}
<1>1. Len(source) \in Nat /\ T \subseteq Nat /\ Len(source) \in T
  OBVIOUS
<1>2. PICK j \in T : \A m \in T : j <= m
  BY <1>1, LeastElement
<1>3. \A k \in i .. j - 1 : At(k) \in class
  <2> SUFFICES ASSUME NEW k \in i .. j - 1, At(k) \notin class
               PROVE  FALSE
    OBVIOUS
  <2>1. k \in i .. Len(source) /\ ~(j <= k)
    BY <1>1
  <2>2. k \in T
    BY <2>1
  <2> QED
    BY <1>2, <2>1, <2>2
<1> QED
  BY <1>2, <1>3, RunEndIs

LEMMA ClosingIs ==
  ASSUME source \in Seq(Char), NEW i \in Nat, NEW j \in i .. Len(source),
         \A k \in i .. j - 1 : ~Closes(i, k), j < Len(source) => Closes(i, j)
  PROVE  ClosingQuote(i) = j
<1> DEFINE Ends(m) == /\ \A k \in i .. m - 1 : ~Closes(i, k)
                      /\ m < Len(source) => Closes(i, m)
<1>1. Ends(j) /\ Len(source) \in Nat
  OBVIOUS
<1>2. ASSUME NEW m \in i .. Len(source), Ends(m)
      PROVE  m = j
  <2>1. CASE m < j
    <3>1. m \in i .. j - 1 /\ m < Len(source)
      BY <1>1, <2>1
    <3> QED
      BY <1>1, <1>2, <3>1
  <2>2. CASE j < m
    <3>1. j \in i .. m - 1 /\ j < Len(source)
      BY <1>1, <2>2
    <3> QED
      BY <1>1, <1>2, <3>1
  <2> QED
    BY <1>1, <2>1, <2>2
<1>3. ClosingQuote(i) = CHOOSE m \in i .. Len(source) : Ends(m)
  BY DEF ClosingQuote
<1> HIDE DEF Ends
<1> QED
  BY <1>1, <1>2, <1>3

LEMMA ClosingType ==
  ASSUME source \in Seq(Char), NEW i \in Nat, i <= Len(source)
  PROVE  ClosingQuote(i) \in i .. Len(source)
<1> DEFINE T == {j \in i .. Len(source) : j < Len(source) => Closes(i, j)}
<1>1. Len(source) \in Nat /\ T \subseteq Nat /\ Len(source) \in T
  OBVIOUS
<1>2. PICK j \in T : \A m \in T : j <= m
  BY <1>1, LeastElement
<1>3. \A k \in i .. j - 1 : ~Closes(i, k)
  <2> SUFFICES ASSUME NEW k \in i .. j - 1, Closes(i, k)
               PROVE  FALSE
    OBVIOUS
  <2>1. k \in i .. Len(source) /\ ~(j <= k)
    BY <1>1
  <2>2. k \in T
    BY <2>1
  <2> QED
    BY <1>2, <2>1, <2>2
<1> QED
  BY <1>2, <1>3, ClosingIs

\* Escapes, character by character.
LEMMA EscapedFacts ==
  ASSUME NEW i
  PROVE  /\ Escaped(i)[0] = FALSE
         /\ \A n \in Nat : Escaped(i)[n + 1] = (At(i + n) = BACKSLASH /\ ~Escaped(i)[n])
<1> DEFINE step == [p \in Nat \X BOOLEAN |-> At(i + p[1]) = BACKSLASH /\ ~p[2]]
           Is(f) == f = [n \in Nat |-> IF n = 0 THEN FALSE
                                       ELSE At(i + (n - 1)) = BACKSLASH /\ ~f[n - 1]]
<1>1. step \in [Nat \X BOOLEAN -> BOOLEAN]
  OBVIOUS
<1>2. \A n \in Nat : \A b \in BOOLEAN : step[<<n, b>>] = (At(i + n) = BACKSLASH /\ ~b)
  OBVIOUS
<1> HIDE DEF step
<1>3. PICK f \in [Nat -> BOOLEAN] : Iterates(f, FALSE, step)
  <2>1. FALSE \in BOOLEAN /\ step \in Steps(BOOLEAN)
    BY <1>1 DEF Steps
  <2> QED
    BY <2>1, Recursion, Zenon
<1>4. \A n \in Nat : f[n + 1] = (At(i + n) = BACKSLASH /\ ~f[n])
  BY <1>2, <1>3 DEF Iterates
<1>5. Is(f)
  <2> DEFINE g == [n \in Nat |-> IF n = 0 THEN FALSE
                                 ELSE At(i + (n - 1)) = BACKSLASH /\ ~f[n - 1]]
  <2>1. ASSUME NEW n \in Nat PROVE f[n] = g[n]
    <3>1. CASE n = 0
      BY <1>3, <3>1 DEF Iterates
    <3>2. CASE n # 0
      <4>1. PICK m \in Nat : m = n - 1 /\ n = m + 1
        BY <3>2
      <4> QED
        BY <1>4, <3>2, <4>1
    <3> QED
      BY <3>1, <3>2
  <2>2. f = [n \in Nat |-> f[n]] /\ g = [n \in Nat |-> g[n]]
    OBVIOUS
  <2>3. f = g
    <3> HIDE DEF g
    <3> QED
      BY <2>1, <2>2
  <2> QED
    BY <2>3
<1>6. Escaped(i) = CHOOSE e : Is(e)
  BY DEF Escaped
<1>7. Is(Escaped(i))
  <2> HIDE DEF Is
  <2> QED
    BY <1>5, <1>6
<1>8. ASSUME NEW n \in Nat
      PROVE  Escaped(i)[n + 1] = (At(i + n) = BACKSLASH /\ ~Escaped(i)[n])
  <2>1. n + 1 \in Nat /\ n + 1 # 0 /\ (n + 1) - 1 = n
    OBVIOUS
  <2> QED
    BY <1>7, <2>1
<1> QED
  BY <1>7, <1>8

\* A string, decoded character by character.
LEMMA DecodedFacts ==
  ASSUME NEW i
  PROVE  /\ Decoded(i)[0] = <<>>
         /\ \A n \in Nat : Decoded(i)[n + 1] = Decode(Decoded(i)[n], At(i + n), Escaped(i)[n])
<1> DEFINE V       == Seq({At(i + n) : n \in Nat} \cup {Unescape(At(i + n)) : n \in Nat})
           step    == [p \in Nat \X V |-> Decode(p[2], At(i + p[1]), Escaped(i)[p[1]])]
           More(n, before) == Decode(before, At(i + n), Escaped(i)[n])
           Is(f)   == f = [n \in Nat |-> IF n = 0 THEN <<>> ELSE More(n - 1, f[n - 1])]
<1>1. \A n \in Nat : \A v \in V : More(n, v) \in V
  BY DEF Decode
<1>2. <<>> \in V
  OBVIOUS
<1>3. step \in [Nat \X V -> V] /\ \A n \in Nat : \A v \in V : step[<<n, v>>] = More(n, v)
  BY <1>1
<1> HIDE DEF step, V
<1>4. PICK f \in [Nat -> V] : Iterates(f, <<>>, step)
  <2>1. step \in Steps(V)
    BY <1>3 DEF Steps
  <2> QED
    BY <1>2, <2>1, Recursion
<1> HIDE DEF More
<1>5. \A n \in Nat : f[n + 1] = More(n, f[n])
  BY <1>3, <1>4 DEF Iterates
<1>6. Is(f)
  <2> DEFINE g == [n \in Nat |-> IF n = 0 THEN <<>> ELSE More(n - 1, f[n - 1])]
  <2>1. ASSUME NEW n \in Nat PROVE f[n] = g[n]
    <3>1. CASE n = 0
      BY <1>4, <3>1 DEF Iterates
    <3>2. CASE n # 0
      <4>1. PICK m \in Nat : m = n - 1 /\ n = m + 1
        BY <3>2
      <4> QED
        BY <1>5, <3>2, <4>1
    <3> QED
      BY <3>1, <3>2
  <2>2. f = [n \in Nat |-> f[n]] /\ g = [n \in Nat |-> g[n]]
    OBVIOUS
  <2>3. f = g
    <3> HIDE DEF g
    <3> QED
      BY <2>1, <2>2
  <2> QED
    BY <2>3
<1>7. Decoded(i) = CHOOSE e : Is(e)
  BY DEF Decoded, More
<1>8. Is(Decoded(i))
  <2> HIDE DEF Is
  <2> QED
    BY <1>6, <1>7
<1>9. ASSUME NEW n \in Nat
      PROVE  Decoded(i)[n + 1] = More(n, Decoded(i)[n])
  <2>1. n + 1 \in Nat /\ n + 1 # 0 /\ (n + 1) - 1 = n
    OBVIOUS
  <2> QED
    BY <1>8, <2>1
<1> QED
  BY <1>8, <1>9 DEF More

\* Lexemes follow one another.
LEMMA NextType ==
  ASSUME source \in Seq(Char), NEW i \in Nat, Readable(i)
  PROVE  Lexeme(i).next \in Nat
<1>1. i < Len(source) /\ Len(source) \in Nat /\ i + 1 \in Nat /\ i + 1 <= Len(source)
      /\ i <= Len(source)
  BY DEF Readable
<1>2. /\ RunEnd(i, Alnum) \in Nat /\ RunEnd(i + 1, Digits) \in Nat
      /\ RunEnd(i, Char \ {NEWLINE}) \in Nat /\ ClosingQuote(i + 1) \in Nat
  BY <1>1, RunEndType, ClosingType, SMTT(30)
<1> QED
  BY <1>1, <1>2 DEF Lexeme, Word, Number, Comment, String, Run, Item

LEMMA StartFacts ==
  ASSUME source \in Seq(Char)
  PROVE  /\ Start[0] = 0
         /\ \A n \in Nat : Start[n + 1] = IF Readable(Start[n]) THEN Lexeme(Start[n]).next
                                          ELSE Start[n]
<1> DEFINE More(i) == IF Readable(i) THEN Lexeme(i).next ELSE i
           step    == [p \in Nat \X Nat |-> More(p[2])]
           Is(f)   == f = [n \in Nat |-> IF n = 0 THEN 0 ELSE More(f[n - 1])]
<1>1. \A i \in Nat : More(i) \in Nat
  BY NextType
<1>3. step \in [Nat \X Nat -> Nat] /\ \A n, i \in Nat : step[<<n, i>>] = More(i)
  BY <1>1
<1> HIDE DEF step
<1>4. PICK f \in [Nat -> Nat] : Iterates(f, 0, step)
  <2>1. step \in Steps(Nat) /\ 0 \in Nat
    BY <1>3 DEF Steps
  <2> QED
    BY <2>1, Recursion
<1> HIDE DEF More
<1>5. \A n \in Nat : f[n + 1] = More(f[n])
  BY <1>3, <1>4 DEF Iterates
<1>6. Is(f)
  <2> DEFINE g == [n \in Nat |-> IF n = 0 THEN 0 ELSE More(f[n - 1])]
  <2>1. ASSUME NEW n \in Nat PROVE f[n] = g[n]
    <3>1. CASE n = 0
      BY <1>4, <3>1 DEF Iterates
    <3>2. CASE n # 0
      <4>1. PICK m \in Nat : m = n - 1 /\ n = m + 1
        BY <3>2
      <4> QED
        BY <1>5, <3>2, <4>1
    <3> QED
      BY <3>1, <3>2
  <2>2. f = [n \in Nat |-> f[n]] /\ g = [n \in Nat |-> g[n]]
    OBVIOUS
  <2>3. f = g
    <3> HIDE DEF g
    <3> QED
      BY <2>1, <2>2
  <2> QED
    BY <2>3
<1>7. Start = CHOOSE e : Is(e)
  BY DEF Start, More
<1>8. Is(Start)
  <2> HIDE DEF Is
  <2> QED
    BY <1>6, <1>7
<1>9. ASSUME NEW n \in Nat
      PROVE  Start[n + 1] = More(Start[n])
  <2>1. n + 1 \in Nat /\ n + 1 # 0 /\ (n + 1) - 1 = n
    OBVIOUS
  <2> QED
    BY <1>8, <2>1
<1> QED
  BY <1>8, <1>9 DEF More

LEMMA StartType ==
  ASSUME source \in Seq(Char)
  PROVE  \A n \in Nat : Start[n] \in Nat
<1> DEFINE S == {n \in Nat : Start[n] \in Nat}
<1>1. 0 \in S
  BY StartFacts
<1>2. ASSUME NEW n \in Nat, n \in S
      PROVE  n + 1 \in S
  <2>1. Start[n] \in Nat
    BY <1>2
  <2>2. Readable(Start[n]) => Lexeme(Start[n]).next \in Nat
    BY <2>1, NextType
  <2>3. Start[n + 1] \in Nat
    BY <2>1, <2>2, StartFacts
  <2> QED
    BY <2>3
<1> HIDE DEF S
<1>3. \A n \in Nat : n \in S
  BY <1>1, <1>2, InductionOnNat
<1> QED
  BY <1>3 DEF S

\* Nothing follows the terminator.
LEMMA LastStart ==
  ASSUME source \in Seq(Char), NEW n \in Nat, Lexeme(Start[n]).next = Start[n]
  PROVE  \A m \in Nat : n <= m => Start[m] = Start[n]
<1> DEFINE S == {m \in Nat : n <= m => Start[m] = Start[n]}
<1>1. 0 \in S
  OBVIOUS
<1>2. ASSUME NEW m \in Nat, m \in S
      PROVE  m + 1 \in S
  <2>1. CASE n <= m
    BY <1>2, <2>1, StartFacts
  <2>2. CASE ~(n <= m)
    <3>1. n <= m + 1 => n = m + 1
      BY <2>2
    <3> QED
      BY <3>1
  <2> QED
    BY <2>1, <2>2
<1> HIDE DEF S
<1>3. \A m \in Nat : m \in S
  BY <1>1, <1>2, InductionOnNat
<1> QED
  BY <1>3 DEF S

\* The classes of characters are apart, so that the first one decides.
LEMMA LexemeCases ==
  ASSUME NEW i
  PROVE  /\ At(i) = NUL => Lexeme(i) = Item("EOF", <<NUL>>, i, FALSE)
         /\ At(i) \in Blanks => Lexeme(i) = Item("none", <<>>, i + 1, FALSE)
         /\ At(i) = MINUS /\ At(i + 1) = MINUS => Lexeme(i) = Comment(i)
         /\ At(i) \in Letters => Lexeme(i) = Word(i)
         /\ At(i) \in Digits => Lexeme(i) = Number(i)
         /\ At(i) = MINUS /\ At(i + 1) \in Digits => Lexeme(i) = Number(i)
         /\ At(i) = QUOTE => Lexeme(i) = String(i)
         /\ At(i) \in Puncts /\ (At(i) = MINUS => At(i + 1) \notin Digits \cup {MINUS})
              => Lexeme(i) = Run(At(i), i, i + 1)
         /\ At(i) \notin Blanks \cup Alnum \cup Puncts \cup {QUOTE, NUL}
              => Lexeme(i) = Item("none", <<>>, i + 1, TRUE)
<1>1. /\ NUL # QUOTE /\ NUL # MINUS /\ QUOTE # MINUS
      /\ MINUS \in Puncts /\ MINUS \notin Blanks \cup Letters \cup Digits
      /\ NUL \notin Blanks \cup Letters \cup Digits \cup Puncts
      /\ QUOTE \notin Blanks \cup Letters \cup Digits \cup Puncts
      /\ Blanks \cap (Letters \cup Digits \cup Puncts) = {}
      /\ Puncts \cap (Letters \cup Digits) = {} /\ Letters \cap Digits = {}
  BY CharAssumption DEF NUL, QUOTE, MINUS
<1> HIDE DEF NUL, QUOTE, MINUS
<1> QED
  BY <1>1 DEF Lexeme, Alnum

LEMMA TextFacts ==
  ASSUME source \in Seq(Char), NEW i \in Nat, NEW j \in i .. Len(source),
         NEW val \in Seq(Char), Len(val) = j - i, \A k \in DOMAIN val : val[k] = source[i + k]
  PROVE  Text(i, j) = val
<1>1. Len(source) \in Nat /\ j \in Nat /\ j - i \in Nat
  OBVIOUS
<1>2. Text(i, j) = [k \in 1 .. j - i |-> source[i + k]]
  BY <1>1 DEF Text
<1>3. val = [k \in 1 .. j - i |-> val[k]]
  OBVIOUS
<1> QED
  BY <1>2, <1>3

-----------------------------------------------------------------------------

\* The lexemes that the first n turns of the loop have read.
Heads(n) == {Start[m] : m \in 0 .. n - 1}

Tokenized(n) ==
  /\ {tokens[k].at : k \in DOMAIN tokens} = {i \in Heads(n) : Lexeme(i).kind # "none"}
  /\ \A j, k \in DOMAIN tokens : j < k => tokens[j].at < tokens[k].at
  /\ \A k \in DOMAIN tokens : /\ tokens[k].kind = Lexeme(tokens[k].at).kind
                              /\ tokens[k].value = Lexeme(tokens[k].at).value

\* A bad escape has been met in the string that is read.
Rejected == pc = "string" /\ BadEscape(begin + 1, lexer.c)

\* After n turns.
Turned(n) ==
  /\ Start[n] = begin
  /\ \A i \in Heads(n) : i < begin
  /\ Tokenized(n)
  /\ invalid <=> \/ \E i \in Heads(n) : Lexeme(i).bad
                 \/ Rejected

\* What has been read of the lexeme that starts at `begin'.
TextInv ==
  /\ pc \in {"comment", "string"} => begin < Len(source)
  /\ pc = "comment" => /\ At(begin) = MINUS /\ At(begin + 1) = MINUS
                       /\ begin <= lexer.c /\ \A k \in begin .. lexer.c - 1 : At(k) # NEWLINE
  /\ pc = "word" => At(begin) \in Letters /\ \A k \in begin .. lexer.c : At(k) \in Alnum
  /\ pc = "number" => /\ At(begin) \in Digits \/ (At(begin) = MINUS /\ At(begin + 1) \in Digits)
                      /\ \A k \in begin + 1 .. lexer.c : At(k) \in Digits
  /\ pc = "string" =>
       /\ At(begin) = QUOTE /\ begin + 1 <= lexer.c
       /\ ~Escaped(begin + 1)[lexer.c - (begin + 1)]
       /\ \A k \in begin + 1 .. lexer.c - 1 : ~Closes(begin + 1, k)
       /\ value = Decoded(begin + 1)[lexer.c - (begin + 1)]

MatchInv ==
  /\ pc \notin Final => (\E n \in 0 .. begin : Turned(n)) /\ TextInv
  /\ MatchesReference

\* One more lexeme, with its token or without one.
LEMMA TokenStep ==
  ASSUME tokens \in Seq(Token), source' = source, NEW n \in Nat, Tokenized(n),
         Start[n] = begin, \A i \in Heads(n) : i < begin,
         IF Lexeme(begin).kind = "none" THEN tokens' = tokens
         ELSE \E t : Emit(t) /\ t.at = begin /\ t.kind = Lexeme(begin).kind
                             /\ t.value = Lexeme(begin).value
  PROVE  Tokenized(n + 1)' /\ Heads(n + 1) = Heads(n) \cup {begin}
<1>1. Heads(n + 1) = Heads(n) \cup {begin}
  <2>1. \A m : m \in 0 .. (n + 1) - 1 <=> m \in 0 .. n - 1 \/ m = n
    OBVIOUS
  <2> QED
    BY <2>1 DEF Heads
<1>2. Start' = Start /\ \A i : Lexeme(i)' = Lexeme(i)
  BY SameText
<1>3. Heads(n + 1)' = Heads(n + 1)
  BY <1>2 DEF Heads
<1>4. Len(tokens) \in Nat /\ DOMAIN tokens = 1 .. Len(tokens)
  OBVIOUS
<1>5. \A k \in DOMAIN tokens : tokens[k].at \in Heads(n)
  BY DEF Tokenized
<1>6. CASE Lexeme(begin).kind = "none"
  <2>1. tokens' = tokens
    BY <1>6
  <2> QED
    BY <1>1, <1>2, <1>3, <1>6, <2>1 DEF Tokenized
<1>7. CASE Lexeme(begin).kind # "none"
  <2>1. PICK t : Emit(t) /\ t.at = begin /\ t.kind = Lexeme(begin).kind
                         /\ t.value = Lexeme(begin).value
    BY <1>7
  <2>2. /\ DOMAIN tokens' = 1 .. Len(tokens) + 1
        /\ \A k \in 1 .. Len(tokens) : tokens'[k] = tokens[k]
        /\ tokens'[Len(tokens) + 1] = t
    <3> DEFINE T == Token \cup {t}
    <3>1. tokens \in Seq(T) /\ t \in T
      OBVIOUS
    <3>2. tokens' = Append(tokens, t)
      BY <2>1 DEF Emit
    <3> HIDE DEF T
    <3> QED
      BY <3>1, <3>2
  <2>3. \A k \in DOMAIN tokens' : k \in DOMAIN tokens \/ k = Len(tokens) + 1
    BY <1>4, <2>2
  <2>4. \A k \in DOMAIN tokens : k \in DOMAIN tokens' /\ tokens'[k] = tokens[k]
    BY <1>4, <2>2
  <2>5. Len(tokens) + 1 \in DOMAIN tokens'
    BY <1>4, <2>2
  <2>6. {tokens'[k].at : k \in DOMAIN tokens'} = {i \in Heads(n + 1) : Lexeme(i).kind # "none"}
    <3>1. {tokens'[k].at : k \in DOMAIN tokens'} = {tokens[k].at : k \in DOMAIN tokens} \cup {begin}
      BY <2>1, <2>2, <2>3, <2>4, <2>5
    <3> QED
      BY <1>1, <1>7, <3>1 DEF Tokenized
  <2>7. ASSUME NEW j \in DOMAIN tokens', NEW k \in DOMAIN tokens', j < k
        PROVE  tokens'[j].at < tokens'[k].at
    <3>1. j \in DOMAIN tokens
      BY <1>4, <2>2, <2>7
    <3>2. CASE k \in DOMAIN tokens
      BY <2>4, <2>7, <3>1, <3>2 DEF Tokenized
    <3>3. CASE k = Len(tokens) + 1
      BY <1>5, <2>1, <2>2, <2>4, <3>1, <3>3
    <3> QED
      BY <2>3, <3>2, <3>3
  <2>8. \A k \in DOMAIN tokens' : /\ tokens'[k].kind = Lexeme(tokens'[k].at).kind
                                  /\ tokens'[k].value = Lexeme(tokens'[k].at).value
    BY <2>1, <2>2, <2>3, <2>4 DEF Tokenized
  <2> QED
    BY <1>1, <1>2, <1>3, <2>6, <2>7, <2>8 DEF Tokenized
<1> QED
  BY <1>1, <1>6, <1>7

\* A turn of the loop, from the start of a lexeme to the start of the next.
LEMMA TurnStep ==
  ASSUME tokens \in Seq(Token), source \in Seq(Char), source' = source, begin \in Nat,
         lexer.c \in Nat, Readable(begin), begin <= lexer.c,
         \E n \in 0 .. begin : Turned(n),
         Lexeme(begin).next = lexer.c + 1, NextTurn(lexer),
         IF Lexeme(begin).kind = "none" THEN tokens' = tokens
         ELSE \E t : Emit(t) /\ t.at = begin /\ t.kind = Lexeme(begin).kind
                             /\ t.value = Lexeme(begin).value,
         Rejected => Lexeme(begin).bad, invalid' <=> invalid \/ Lexeme(begin).bad
  PROVE  MatchInv'
<1>1. begin' = lexer.c + 1 /\ pc' = "scan"
  BY DEF NextTurn, consume
<1>2. PICK n \in 0 .. begin : Turned(n)
  OBVIOUS
<1>3. n \in Nat /\ n + 1 \in 0 .. begin'
  BY <1>1
<1>4. Tokenized(n + 1)' /\ Heads(n + 1) = Heads(n) \cup {begin}
  BY <1>2, <1>3, TokenStep DEF Turned
<1>5. Start' = Start /\ \A i : Lexeme(i)' = Lexeme(i)
  BY SameText
<1>6. Heads(n + 1)' = Heads(n + 1)
  BY <1>5 DEF Heads
<1>7. Start[n + 1] = begin'
  BY <1>1, <1>2, <1>3, StartFacts DEF Turned
<1>8. \A i \in Heads(n + 1) : i < begin'
  <2> SUFFICES ASSUME NEW i \in Heads(n), i < begin
               PROVE  i < begin'
    BY <1>1, <1>2, <1>4 DEF Turned
  <2>1. PICK m \in 0 .. n - 1 : i = Start[m]
    BY DEF Heads
  <2>2. i \in Nat
    BY <2>1, StartType
  <2> QED
    BY <1>1, <2>2
<1>9. (\E i \in Heads(n + 1) : Lexeme(i).bad)'
        <=> (\E i \in Heads(n) : Lexeme(i).bad) \/ Lexeme(begin).bad
  BY <1>4, <1>5, <1>6
<1>10. invalid <=> (\E i \in Heads(n) : Lexeme(i).bad) \/ Rejected
  BY <1>2 DEF Turned
<1>11. ~Rejected'
  BY <1>1 DEF Rejected
<1>12. invalid' <=> (\E i \in Heads(n + 1) : Lexeme(i).bad)' \/ Rejected'
  BY <1>9, <1>10, <1>11, Zenon
<1>13. Start[n + 1]' = begin' /\ \A i \in Heads(n + 1)' : i < begin'
  BY <1>5, <1>6, <1>7, <1>8
<1>14. Turned(n + 1)'
  BY <1>4, <1>12, <1>13, Zenon DEF Turned
<1> QED
  BY <1>1, <1>3, <1>14 DEF TextInv, MatchInv, MatchesReference, Final

\* A step inside a lexeme.
LEMMA StayStep ==
  ASSUME source' = source, tokens' = tokens, begin' = begin, pc' \notin Final,
         \E n \in 0 .. begin : Turned(n), TextInv',
         Rejected => Rejected', invalid' <=> invalid \/ Rejected'
  PROVE  MatchInv'
<1>1. PICK n \in 0 .. begin : Turned(n)
  OBVIOUS
<1>2. Start' = Start /\ \A i : Lexeme(i)' = Lexeme(i)
  BY SameText
<1>3. Heads(n)' = Heads(n)
  BY <1>2 DEF Heads
<1>4. Tokenized(n)'
  BY <1>1, <1>2, <1>3 DEF Turned, Tokenized
<1>5. (\E i \in Heads(n) : Lexeme(i).bad)' <=> \E i \in Heads(n) : Lexeme(i).bad
  BY <1>2, <1>3
<1>6. invalid <=> (\E i \in Heads(n) : Lexeme(i).bad) \/ Rejected
  BY <1>1 DEF Turned
<1>7. invalid' <=> (\E i \in Heads(n) : Lexeme(i).bad)' \/ Rejected'
  BY <1>5, <1>6, Zenon
<1>8. Start[n]' = begin' /\ \A i \in Heads(n)' : i < begin'
  BY <1>1, <1>2, <1>3 DEF Turned
<1>9. Turned(n)'
  BY <1>4, <1>7, <1>8, Zenon DEF Turned
<1> QED
  BY <1>1, <1>9 DEF MatchInv, MatchesReference, Final

LEMMA MatchInside ==
  ASSUME TypeOK, ScanInv, MatchInv,
         CommentStart \/ CommentChar \/ WordStart \/ NumberStart \/ LexemeChar
  PROVE  MatchInv'
<1>1. /\ source \in Seq(Char) /\ Len(source) \in Nat /\ lexer.c \in Nat /\ begin \in Nat
      /\ source' = source /\ tokens' = tokens /\ begin' = begin /\ invalid' = invalid
      /\ pc \notin Final \cup {"string"} /\ pc' \notin Final \cup {"string"}
  BY DEF TypeOK, Places, CommentStart, CommentChar, WordStart, NumberStart, LexemeChar, AtHead,
     Final
<1>2. ~Rejected /\ ~Rejected' /\ (\E n \in 0 .. begin : Turned(n)) /\ TextInv
  BY <1>1 DEF Rejected, MatchInv
<1>3. \A i : At(i)' = At(i)
  BY <1>1 DEF At
<1>4. lexer' \in {lexer, consume(lexer)} /\ consume(lexer).c = lexer.c + 1
  BY ConsumeStep DEF CommentStart, CommentChar, WordStart, NumberStart, LexemeChar, TypeOK
<1>5. CASE CommentStart
  <2>1. /\ pc' = "comment" /\ begin = lexer.c /\ lexer' = lexer /\ lexer.c < Len(source)
        /\ At(begin) = MINUS /\ At(begin + 1) = MINUS
    BY <1>5 DEF CommentStart, AtHead, ScanInv, Readable, Cur, Ahead
  <2>2. TextInv'
    BY <1>1, <1>3, <2>1 DEF TextInv
  <2> QED
    BY <1>1, <1>2, <2>2, StayStep
<1>6. CASE CommentChar
  <2>1. /\ pc = "comment" /\ pc' = "comment" /\ lexer'.c = lexer.c + 1
        /\ At(lexer.c) # NEWLINE /\ begin <= lexer.c /\ begin < Len(source)
        /\ At(begin) = MINUS /\ At(begin + 1) = MINUS
        /\ \A k \in begin .. lexer.c - 1 : At(k) # NEWLINE
    BY <1>2, <1>4, <1>6 DEF CommentChar, Cur, TextInv
  <2>2. \A k \in begin .. lexer'.c - 1 : At(k) # NEWLINE
    <3>1. \A k \in begin .. lexer'.c - 1 : k \in begin .. lexer.c - 1 \/ k = lexer.c
      BY <1>1, <2>1
    <3> QED
      BY <2>1, <3>1
  <2>3. begin <= lexer'.c
    BY <1>1, <2>1
  <2>4. TextInv'
    BY <1>1, <1>3, <2>1, <2>2, <2>3 DEF TextInv
  <2> QED
    BY <1>1, <1>2, <2>4, StayStep
<1>7. CASE WordStart
  <2>1. pc' = "word" /\ begin = lexer.c /\ lexer' = lexer /\ At(begin) \in Letters
    BY <1>7 DEF WordStart, AtHead, ScanInv, Cur
  <2>2. \A k \in begin .. lexer'.c : At(k) \in Alnum
    BY <1>1, <2>1 DEF Alnum
  <2>3. TextInv'
    BY <1>1, <1>3, <2>1, <2>2 DEF TextInv
  <2> QED
    BY <1>1, <1>2, <2>3, StayStep
<1>8. CASE NumberStart
  <2>1. /\ pc' = "number" /\ begin = lexer.c /\ lexer' = lexer
        /\ At(begin) \in Digits \/ (At(begin) = MINUS /\ At(begin + 1) \in Digits)
    BY <1>8 DEF NumberStart, AtHead, ScanInv, Cur, Ahead
  <2>2. \A k \in begin + 1 .. lexer'.c : At(k) \in Digits
    BY <1>1, <2>1
  <2>3. TextInv'
    BY <1>1, <1>3, <2>1, <2>2 DEF TextInv
  <2> QED
    BY <1>1, <1>2, <2>3, StayStep
<1>9. CASE LexemeChar
  <2>1. /\ pc \in {"word", "number"} /\ pc' = pc /\ lexer'.c = lexer.c + 1 /\ begin <= lexer.c
        /\ At(lexer.c + 1) \in (IF pc = "word" THEN Alnum ELSE Digits)
    BY <1>4, <1>9 DEF LexemeChar, Continues, Ahead, ScanInv
  <2>2. CASE pc = "word"
    <3>1. At(begin) \in Letters /\ \A k \in begin .. lexer.c : At(k) \in Alnum
      BY <1>2, <2>2 DEF TextInv
    <3>2. \A k \in begin .. lexer'.c : k \in begin .. lexer.c \/ k = lexer.c + 1
      BY <1>1, <2>1
    <3>3. \A k \in begin .. lexer'.c : At(k) \in Alnum
      BY <2>1, <2>2, <3>1, <3>2
    <3>4. TextInv'
      BY <1>1, <1>3, <2>1, <2>2, <3>1, <3>3 DEF TextInv
    <3> QED
      BY <1>1, <1>2, <3>4, StayStep
  <2>3. CASE pc = "number"
    <3>1. /\ At(begin) \in Digits \/ (At(begin) = MINUS /\ At(begin + 1) \in Digits)
          /\ \A k \in begin + 1 .. lexer.c : At(k) \in Digits
      BY <1>2, <2>3 DEF TextInv
    <3>2. \A k \in begin + 1 .. lexer'.c : k \in begin + 1 .. lexer.c \/ k = lexer.c + 1
      BY <1>1, <2>1
    <3>3. \A k \in begin + 1 .. lexer'.c : At(k) \in Digits
      BY <2>1, <2>3, <3>1, <3>2
    <3>4. TextInv'
      BY <1>1, <1>3, <2>1, <2>3, <3>1, <3>3 DEF TextInv
    <3> QED
      BY <1>1, <1>2, <3>4, StayStep
  <2> QED
    BY <2>1, <2>2, <2>3
<1> QED
  BY <1>5, <1>6, <1>7, <1>8, <1>9

\* Lexemes that end where they start, and those that a loop has read.
LEMMA MatchTurns ==
  ASSUME TypeOK, ScanInv, MatchInv,
         Blank \/ CommentEnd \/ LexemeEnd \/ Punct \/ Unrecognized
  PROVE  MatchInv'
<1>1. /\ source \in Seq(Char) /\ Len(source) \in Nat /\ lexer.c \in Nat /\ begin \in Nat
      /\ source' = source /\ tokens \in Seq(Token) /\ value \in Seq(Char) /\ NextTurn(lexer)
      /\ pc \notin Final \cup {"string"}
  BY DEF TypeOK, Places, Blank, CommentEnd, LexemeEnd, Punct, Unrecognized, AtHead, Final
<1>2. ~Rejected /\ (\E n \in 0 .. begin : Turned(n)) /\ TextInv
  BY <1>1 DEF Rejected, MatchInv
<1>3. CASE Blank
  <2>1. begin = lexer.c /\ Readable(begin) /\ tokens' = tokens /\ invalid' = invalid
        /\ Lexeme(begin) = Item("none", <<>>, begin + 1, FALSE)
    BY <1>3, LexemeCases DEF Blank, AtHead, ScanInv, Cur
  <2> QED
    BY <1>1, <1>2, <2>1, TurnStep DEF Item
<1>4. CASE CommentEnd
  <2>1. /\ begin < Len(source) /\ tokens' = tokens /\ invalid' = invalid
        /\ begin <= lexer.c /\ lexer.c < Len(source) /\ At(lexer.c) = NEWLINE
        /\ At(begin) = MINUS /\ At(begin + 1) = MINUS
        /\ \A k \in begin .. lexer.c - 1 : At(k) # NEWLINE
    BY <1>2, <1>4 DEF CommentEnd, TextInv, Cur, Readable
  <2>2. \A k \in begin .. lexer.c - 1 : At(k) \in Char \ {NEWLINE}
    BY <1>1, <2>1 DEF At
  <2>3. RunEnd(begin, Char \ {NEWLINE}) = lexer.c
    <3>1. lexer.c \in begin .. Len(source) /\ At(lexer.c) \notin Char \ {NEWLINE}
      BY <1>1, <2>1
    <3> QED
      BY <1>1, <2>2, <3>1, RunEndIs
  <2>4. Lexeme(begin) = Item("none", <<>>, lexer.c + 1, FALSE)
    BY <2>1, <2>3, LexemeCases DEF Comment
  <2> QED
    BY <1>1, <1>2, <2>1, <2>4, TurnStep DEF Item, Readable
<1>5. CASE Unrecognized
  <2>1. begin = lexer.c /\ Readable(begin) /\ tokens' = tokens /\ invalid' = TRUE
        /\ Lexeme(begin) = Item("none", <<>>, begin + 1, TRUE)
    BY <1>5, LexemeCases DEF Unrecognized, AtHead, ScanInv, Cur
  <2> QED
    BY <1>1, <1>2, <2>1, TurnStep DEF Item
<1>6. CASE Punct
  <2>1. /\ begin = lexer.c /\ begin < Len(source) /\ At(begin) \in Puncts
        /\ At(begin) = MINUS => At(begin + 1) \notin Digits \cup {MINUS}
        /\ Emit(new_token(<<At(begin)>>, At(begin), column, lexer)) /\ invalid' = invalid
    BY <1>6 DEF Punct, AtHead, ScanInv, Cur, Ahead, Readable
  <2>2. Text(begin, begin + 1) = <<At(begin)>>
    <3> DEFINE val == <<At(begin)>>
    <3>1. /\ val \in Seq(Char) /\ Len(val) = (begin + 1) - begin
          /\ \A k \in DOMAIN val : val[k] = source[begin + k]
      BY <1>1, <2>1 DEF At
    <3>2. begin + 1 \in begin .. Len(source)
      BY <1>1, <2>1
    <3> HIDE DEF val
    <3>3. Text(begin, begin + 1) = val
      BY <1>1, <3>1, <3>2, TextFacts
    <3> QED
      BY <3>3 DEF val
  <2>3. Lexeme(begin) = Item(At(begin), <<At(begin)>>, begin + 1, FALSE)
    BY <2>1, <2>2, LexemeCases DEF Run
  <2>4. At(begin) # "none"
    BY <2>1, NoneAssumption DEF Kind
  <2>5. \E t : Emit(t) /\ t.at = begin /\ t.kind = At(begin) /\ t.value = <<At(begin)>>
    BY <2>1 DEF new_token
  <2> QED
    BY <1>1, <1>2, <2>1, <2>3, <2>4, <2>5, TurnStep DEF Item, Readable
<1>7. CASE LexemeEnd
  <2> DEFINE kind == IF pc = "word" THEN word_kind(value) ELSE "int_literal"
  <2>1. /\ pc \in {"word", "number"} /\ begin <= lexer.c /\ lexer.c + 1 < Len(source)
        /\ Len(value) = lexer.c - begin + 1
        /\ \A k \in DOMAIN value : value[k] = source[begin + k]
        /\ invalid' = invalid /\ Emit(new_token(value, kind, column, lexer))
        /\ At(lexer.c + 1) \notin (IF pc = "word" THEN Alnum ELSE Digits)
    BY <1>7 DEF LexemeEnd, ScanInv, Readable, Continues, Ahead
  <2>2. Text(begin, lexer.c + 1) = value
    <3>1. lexer.c + 1 \in begin .. Len(source) /\ Len(value) = (lexer.c + 1) - begin
      BY <1>1, <2>1
    <3> QED
      BY <1>1, <2>1, <3>1, TextFacts
  <2>3. Lexeme(begin) = Item(kind, value, lexer.c + 1, FALSE)
    <3>1. CASE pc = "word"
      <4>1. At(begin) \in Letters /\ \A k \in begin .. (lexer.c + 1) - 1 : At(k) \in Alnum
        BY <1>1, <1>2, <3>1 DEF TextInv
      <4>2. lexer.c + 1 \in begin .. Len(source) /\ At(lexer.c + 1) \notin Alnum
        BY <1>1, <2>1, <3>1
      <4>3. RunEnd(begin, Alnum) = lexer.c + 1
        BY <1>1, <4>1, <4>2, RunEndIs
      <4> QED
        BY <2>2, <3>1, <4>1, <4>3, LexemeCases DEF Word, Run
    <3>2. CASE pc = "number"
      <4>1. /\ At(begin) \in Digits \/ (At(begin) = MINUS /\ At(begin + 1) \in Digits)
            /\ \A k \in begin + 1 .. (lexer.c + 1) - 1 : At(k) \in Digits
        BY <1>1, <1>2, <3>2 DEF TextInv
      <4>2. lexer.c + 1 \in begin + 1 .. Len(source) /\ At(lexer.c + 1) \notin Digits
            /\ begin + 1 \in Nat
        BY <1>1, <2>1, <3>2
      <4>3. RunEnd(begin + 1, Digits) = lexer.c + 1
        BY <1>1, <4>1, <4>2, RunEndIs
      <4> QED
        BY <2>2, <3>2, <4>1, <4>3, LexemeCases DEF Number, Run
    <3> QED
      BY <2>1, <3>1, <3>2
  <2>4. kind # "none"
    BY NoneAssumption DEF Kind, word_kind
  <2>5. \E t : Emit(t) /\ t.at = begin /\ t.kind = kind /\ t.value = value
    BY <2>1 DEF new_token
  <2>6. Readable(begin)
    BY <1>1, <2>1 DEF Readable
  <2> HIDE DEF kind
  <2> QED
    BY <1>1, <1>2, <2>1, <2>3, <2>4, <2>5, <2>6, TurnStep DEF Item
<1> QED
  BY <1>3, <1>4, <1>5, <1>6, <1>7

\* The loop of a string, one character or one escape at a time.
LEMMA MatchString ==
  ASSUME TypeOK, ScanInv, MatchInv, StringStart \/ StringChar \/ StringEscape
  PROVE  MatchInv'
<1>1. /\ source \in Seq(Char) /\ Len(source) \in Nat /\ lexer.c \in Nat /\ begin \in Nat
      /\ source' = source /\ tokens' = tokens /\ begin' = begin
      /\ pc \notin Final /\ pc' = "string" /\ Readable(lexer.c)
  BY DEF TypeOK, Places, StringStart, StringChar, StringEscape, AtHead, Final
<1>2. (\E n \in 0 .. begin : Turned(n)) /\ TextInv
  BY <1>1 DEF MatchInv
<1>3. /\ \A i : At(i)' = At(i) /\ Escaped(i)' = Escaped(i) /\ Decoded(i)' = Decoded(i)
      /\ \A i, j : Closes(i, j)' <=> Closes(i, j)
  BY <1>1, SameText DEF At
<1>4. /\ consume(lexer) \in Places /\ consume(lexer).c = lexer.c + 1
      /\ consume(consume(lexer)).c = lexer.c + 2
  <2>1. consume(lexer) \in Places /\ consume(lexer).c = lexer.c + 1
    BY ConsumeStep DEF TypeOK
  <2>2. consume(consume(lexer)).c = consume(lexer).c + 1
    BY <2>1, ConsumeStep
  <2> QED
    BY <1>1, <2>1, <2>2
<1> DEFINE first == begin + 1
<1>5. first \in Nat /\ first' = first
  BY <1>1
<1>6. CASE StringStart
  <2>1. /\ pc = "scan" /\ begin = lexer.c /\ begin < Len(source) /\ At(begin) = QUOTE
        /\ lexer'.c = begin + 1 /\ value' = <<>> /\ invalid' = invalid
    BY <1>4, <1>6 DEF StringStart, AtHead, ScanInv, Cur, Readable
  <2>2. lexer'.c - first = 0 /\ first .. lexer'.c - 1 = {} /\ first <= lexer'.c
    BY <1>1, <2>1
  <2>3. ~Rejected /\ ~Rejected'
    BY <1>1, <2>1, <2>2 DEF Rejected, BadEscape
  <2>4. ~Escaped(first)[0] /\ Decoded(first)[0] = <<>>
    BY EscapedFacts, DecodedFacts
  <2>5. TextInv'
    BY <1>1, <1>3, <1>5, <2>1, <2>2, <2>4 DEF TextInv
  <2>6. pc' \notin Final /\ (Rejected => Rejected') /\ (invalid' <=> invalid \/ Rejected')
    BY <1>1, <2>1, <2>3, Zenon DEF Final
  <2> QED
    BY <1>1, <1>2, <2>5, <2>6, StayStep, Zenon
<1>7. ASSUME StringChar \/ StringEscape
      PROVE  /\ pc = "string" /\ begin < Len(source) /\ At(begin) = QUOTE /\ first <= lexer.c
             /\ lexer.c - first \in Nat
             /\ first + (lexer.c - first) = lexer.c
             /\ ~Escaped(first)[lexer.c - first]
             /\ \A k \in first .. lexer.c - 1 : ~Closes(first, k)
             /\ value = Decoded(first)[lexer.c - first]
  <2>1. pc = "string"
    BY <1>7 DEF StringChar, StringEscape
  <2> QED
    BY <1>1, <1>2, <2>1 DEF TextInv
<1>8. ASSUME pc = "string", NEW c \in Nat, lexer'.c = c, lexer.c <= c
      PROVE  Rejected => Rejected'
  <2>1. BadEscape(begin + 1, lexer.c)' = BadEscape(begin + 1, c)
    BY <1>1, <1>3, <1>8 DEF BadEscape
  <2>2. first .. lexer.c - 1 \subseteq first .. c - 1
    BY <1>1, <1>8
  <2> QED
    BY <1>1, <1>8, <2>1, <2>2 DEF Rejected, BadEscape
<1>9. CASE StringChar
  <2> DEFINE n == lexer.c - first
  <2>1. n \in Nat /\ n + 1 = lexer'.c - first /\ lexer'.c = lexer.c + 1
    BY <1>1, <1>4, <1>5, <1>7, <1>9 DEF StringChar
  <2>2. At(lexer.c) \notin {QUOTE, BACKSLASH} /\ value' = Append(value, At(lexer.c))
        /\ invalid' = invalid
    BY <1>9 DEF StringChar, Cur
  <2>3. ~Escaped(first)[n + 1]
    BY <1>7, <1>9, <2>1, <2>2, EscapedFacts
  <2>4. value' = Decoded(first)[n + 1]
    BY <1>7, <1>9, <2>1, <2>2, DecodedFacts DEF Decode
  <2>5. \A k \in first .. lexer'.c - 1 : k \in first .. lexer.c - 1 \/ k = lexer.c
    BY <1>1, <2>1
  <2>6. \A k \in first .. lexer'.c - 1 : ~Closes(first, k)
    BY <1>7, <1>9, <2>2, <2>5 DEF Closes
  <2>7. first <= lexer'.c
    BY <1>1, <1>7, <1>9, <2>1
  <2>8. TextInv'
    <3> HIDE DEF n
    <3> QED
      BY <1>1, <1>3, <1>5, <1>7, <1>9, <2>1, <2>3, <2>4, <2>6, <2>7 DEF TextInv
  <2>9. Rejected' <=> Rejected
    <3>1. BadEscape(begin + 1, lexer.c)' <=> BadEscape(begin + 1, lexer.c + 1)
      BY <1>1, <1>3, <2>1 DEF BadEscape
    <3>2. BadEscape(begin + 1, lexer.c + 1) <=> BadEscape(begin + 1, lexer.c)
      <4>1. \A k : k \in first .. (lexer.c + 1) - 1 <=> k \in first .. lexer.c - 1 \/ k = lexer.c
        BY <1>1, <1>5, <1>7, <1>9
      <4> QED
        BY <1>7, <1>9, <4>1 DEF BadEscape
    <3> QED
      BY <1>1, <1>7, <1>9, <3>1, <3>2 DEF Rejected
  <2>10. Rejected => invalid
    BY <1>2 DEF Turned
  <2>11. invalid' <=> invalid \/ Rejected'
    BY <2>2, <2>9, <2>10
  <2>12. pc' \notin Final
    BY <1>1 DEF Final
  <2>13. Rejected => Rejected'
    BY <2>9
  <2> QED
    BY <1>1, <1>2, <2>8, <2>11, <2>12, <2>13, StayStep, Zenon
<1>10. CASE StringEscape
  <2> DEFINE n == lexer.c - first
             c == lexer.c + 2
  <2>1. /\ n \in Nat /\ n + 1 \in Nat /\ (n + 1) + 1 = c - first /\ lexer'.c = c
        /\ first + (n + 1) = lexer.c + 1 /\ (lexer.c + 1) - first = n + 1
    <3>1. lexer'.c = c
      BY <1>4, <1>10 DEF StringEscape
    <3>2. n \in Nat
      BY <1>7, <1>10
    <3>3. (n + 1) + 1 = c - first /\ first + (n + 1) = lexer.c + 1 /\ (lexer.c + 1) - first = n + 1
      BY <1>1
    <3> QED
      BY <3>1, <3>2, <3>3
  <2>2. /\ At(lexer.c) = BACKSLASH
        /\ IF At(lexer.c + 1) \in EscapeChars
           THEN value' = Append(value, Unescape(At(lexer.c + 1))) /\ invalid' = invalid
           ELSE invalid' = TRUE /\ value' = value
    BY <1>10 DEF StringEscape, Cur, Ahead
  <2> HIDE DEF c
  <2>3. Escaped(first)[n + 1] = TRUE
    BY <1>7, <1>10, <2>1, <2>2, EscapedFacts
  <2>4. ~Escaped(first)[(n + 1) + 1]
    BY <2>1, <2>3, EscapedFacts
  <2>5. Decoded(first)[n + 1] = value
    BY <1>7, <1>10, <2>1, <2>2, DecodedFacts DEF Decode
  <2>6. value' = Decoded(first)[(n + 1) + 1]
    <3>1. Decoded(first)[(n + 1) + 1]
            = Decode(Decoded(first)[n + 1], At(first + (n + 1)), Escaped(first)[n + 1])
      BY <2>1, DecodedFacts
    <3> QED
      BY <2>1, <2>2, <2>3, <2>5, <3>1 DEF Decode
  <2>7. c \in Nat /\ lexer.c <= c /\ first <= c
        /\ \A k \in first .. c - 1 : k \in first .. lexer.c - 1 \/ k = lexer.c \/ k = lexer.c + 1
    BY <1>1, <1>5, <1>7, <1>10 DEF c
  <2>8. \A k \in first .. lexer'.c - 1 : ~Closes(first, k)
    BY <1>7, <1>10, <2>1, <2>2, <2>3, <2>7 DEF Closes, BACKSLASH, QUOTE
  <2>9. TextInv'
    <3>1. Escaped(first)[lexer'.c - first] = Escaped(first)[(n + 1) + 1]
          /\ Decoded(first)[lexer'.c - first] = Decoded(first)[(n + 1) + 1]
      BY <2>1
    <3> HIDE DEF n
    <3> QED
      BY <1>1, <1>3, <1>5, <1>7, <1>10, <2>1, <2>4, <2>6, <2>7, <2>8, <3>1 DEF TextInv
  <2>10. Rejected => Rejected'
    BY <1>7, <1>8, <1>10, <2>1, <2>7
  <2>11. Rejected' <=> Rejected \/ At(lexer.c + 1) \notin EscapeChars
    <3>1. BadEscape(begin + 1, lexer.c)' <=> BadEscape(first, c)
      BY <1>1, <1>3, <2>1 DEF BadEscape
    <3>2. BadEscape(first, c) <=> BadEscape(first, lexer.c) \/ At(lexer.c + 1) \notin EscapeChars
      <4>1. lexer.c + 1 \in first .. c - 1 /\ \A k \in first .. lexer.c - 1 : k \in first .. c - 1
        BY <1>1, <1>5, <1>7, <1>10, <2>7 DEF c
      <4> QED
        BY <1>1, <1>7, <1>10, <2>1, <2>3, <2>7, <4>1 DEF BadEscape
    <3> QED
      BY <1>1, <1>7, <1>10, <3>1, <3>2 DEF Rejected
  <2>12. Rejected => invalid
    BY <1>2 DEF Turned
  <2>13. invalid' <=> invalid \/ Rejected'
    BY <2>2, <2>11, <2>12
  <2>14. pc' \notin Final
    BY <1>1 DEF Final
  <2> QED
    BY <1>1, <1>2, <2>9, <2>10, <2>13, <2>14, StayStep, Zenon
<1> QED
  BY <1>6, <1>9, <1>10

LEMMA MatchStringEnd ==
  ASSUME TypeOK, ScanInv, MatchInv, StringEnd
  PROVE  MatchInv'
<1> DEFINE first == begin + 1
<1>1. /\ source \in Seq(Char) /\ Len(source) \in Nat /\ lexer.c \in Nat /\ begin \in Nat
      /\ source' = source /\ tokens \in Seq(Token) /\ pc = "string" /\ NextTurn(lexer)
      /\ lexer.c < Len(source) /\ At(lexer.c) = QUOTE /\ invalid' = invalid
      /\ Emit(new_token(value, "str_literal", column, lexer))
  BY DEF TypeOK, Places, StringEnd, Readable, Cur
<1>2. (\E n \in 0 .. begin : Turned(n)) /\ TextInv
  BY <1>1 DEF MatchInv, Final
<1>3. /\ begin < Len(source) /\ At(begin) = QUOTE /\ first <= lexer.c
      /\ ~Escaped(first)[lexer.c - first]
      /\ \A k \in first .. lexer.c - 1 : ~Closes(first, k)
      /\ value = Decoded(first)[lexer.c - first]
  BY <1>1, <1>2 DEF TextInv
<1>4. ClosingQuote(first) = lexer.c
  <2>1. lexer.c \in first .. Len(source) /\ Closes(first, lexer.c) /\ first \in Nat
    BY <1>1, <1>3 DEF Closes
  <2> QED
    BY <1>1, <1>3, <2>1, ClosingIs
<1>5. Lexeme(begin) = Item("str_literal", value, lexer.c + 1, BadEscape(first, lexer.c))
  BY <1>3, <1>4, LexemeCases DEF String
<1>6. "str_literal" # "none"
  OBVIOUS
<1>7. \E t : Emit(t) /\ t.at = begin /\ t.kind = "str_literal" /\ t.value = value
  BY <1>1 DEF new_token
<1>8. Rejected <=> Lexeme(begin).bad
  BY <1>1, <1>5 DEF Rejected, Item
<1>9. Rejected => invalid
  BY <1>2 DEF Turned
<1>10. invalid' <=> invalid \/ Lexeme(begin).bad
  BY <1>1, <1>8, <1>9
<1>11. /\ Readable(begin) /\ begin <= lexer.c /\ Lexeme(begin).next = lexer.c + 1
       /\ Lexeme(begin).kind = "str_literal" /\ Lexeme(begin).value = value
  BY <1>1, <1>3, <1>5 DEF Readable, Item
<1>12. IF Lexeme(begin).kind = "none" THEN tokens' = tokens
       ELSE \E t : Emit(t) /\ t.at = begin /\ t.kind = Lexeme(begin).kind
                           /\ t.value = Lexeme(begin).value
  BY <1>6, <1>7, <1>11
<1>13. Rejected => Lexeme(begin).bad
  BY <1>8
<1> HIDE DEF first
<1> QED
  BY <1>1, <1>2, <1>10, <1>11, <1>12, <1>13, TurnStep, Zenon

\* The end: the lexemes read so far are all there are.
LEMMA MatchReturn ==
  ASSUME TypeOK, ScanInv, MatchInv, Return
  PROVE  MatchInv'
<1>1. /\ source \in Seq(Char) /\ Len(source) \in Nat /\ begin \in Nat /\ begin = lexer.c
      /\ source' = source /\ tokens \in Seq(Token) /\ pc = "scan"
      /\ begin < Len(source) /\ At(begin) = NUL
  BY DEF TypeOK, Places, Return, ScanInv, Readable, Cur
<1>2. PICK n \in 0 .. begin : Turned(n)
  BY <1>1 DEF MatchInv, Final
<1>3. Start' = Start /\ \A i : Lexeme(i)' = Lexeme(i)
  BY <1>1, SameText
<1>4. Lexeme(begin) = Item("EOF", <<NUL>>, begin, FALSE)
  BY <1>1, LexemeCases
<1>5. n \in Nat /\ n \in 0 .. Len(source) /\ Start[n] = begin
  BY <1>1, <1>2 DEF Turned
<1>6. \A m \in Nat : n <= m => Start[m] = begin
  BY <1>1, <1>4, <1>5, LastStart DEF Item
<1>7. Starts = Heads(n) \cup {begin}
  <2>1. \A m \in 0 .. Len(source) : Start[m] \in Heads(n) \cup {begin}
    <3> SUFFICES ASSUME NEW m \in 0 .. Len(source)
                 PROVE  Start[m] \in Heads(n) \cup {begin}
      OBVIOUS
    <3>1. CASE n <= m
      BY <1>1, <1>6, <3>1
    <3>2. CASE ~(n <= m)
      <4>1. m \in 0 .. n - 1
        BY <1>1, <1>5, <3>2
      <4> QED
        BY <4>1 DEF Heads
    <3> QED
      BY <3>1, <3>2
  <2>2. \A m \in 0 .. n - 1 : m \in 0 .. Len(source)
    BY <1>1, <1>5
  <2> QED
    BY <1>5, <2>1, <2>2 DEF Starts, Heads
<1>8. Starts' = Starts
  BY <1>1, <1>3 DEF Starts
<1>9. invalid <=> \E i \in Heads(n) : Lexeme(i).bad
  BY <1>1, <1>2 DEF Turned, Rejected
<1>10. CASE invalid
  <2>1. pc' = "failed"
    BY <1>10 DEF Return
  <2>2. \E i \in Starts : Lexeme(i).bad
    BY <1>7, <1>9, <1>10
  <2> QED
    BY <1>3, <1>8, <2>1, <2>2 DEF MatchInv, MatchesReference, Final
<1>11. CASE ~invalid
  <2>1. pc' = "done" /\ Emit(new_token(<<NUL>>, "EOF", column, lexer))
    BY <1>11, Zenon DEF Return
  <2>2. \E t : Emit(t) /\ t.at = begin /\ t.kind = "EOF" /\ t.value = <<NUL>>
    BY <2>1 DEF new_token
  <2>3. Tokenized(n + 1)' /\ Heads(n + 1) = Heads(n) \cup {begin}
    <3>1. Tokenized(n) /\ \A i \in Heads(n) : i < begin
      BY <1>2 DEF Turned
    <3>2. IF Lexeme(begin).kind = "none" THEN tokens' = tokens
          ELSE \E t : Emit(t) /\ t.at = begin /\ t.kind = Lexeme(begin).kind
                              /\ t.value = Lexeme(begin).value
      BY <1>4, <2>2 DEF Item
    <3> QED
      BY <1>1, <1>5, <3>1, <3>2, TokenStep
  <2>4. Heads(n + 1)' = Starts' /\ Heads(n + 1) = Starts
    BY <1>3, <1>7, <1>8, <2>3 DEF Heads
  <2>5. \A i \in Starts : ~Lexeme(i).bad
    BY <1>4, <1>7, <1>9, <1>11 DEF Item
  <2> QED
    BY <1>3, <1>8, <2>1, <2>3, <2>4, <2>5 DEF MatchInv, MatchesReference, Final, Tokenized
<1> QED
  BY <1>10, <1>11

LEMMA NextMatchInv == TypeOK /\ ScanInv /\ MatchInv /\ [Next]_vars => MatchInv'
<1> SUFFICES ASSUME TypeOK, ScanInv, MatchInv, [Next]_vars
             PROVE  MatchInv'
  OBVIOUS
<1>1. CASE Overrun
  BY <1>1 DEF Overrun, MatchInv, MatchesReference, Final
<1>2. CASE UNCHANGED vars
  <2>1. /\ source' = source /\ tokens' = tokens /\ begin' = begin /\ invalid' = invalid
        /\ pc' = pc /\ lexer' = lexer /\ value' = value
    BY <1>2 DEF vars
  <2>2. CASE pc \notin Final
    <3>1. TextInv /\ \E n \in 0 .. begin : Turned(n)
      BY <2>2 DEF MatchInv
    <3>2. TextInv' /\ Rejected' = Rejected
      BY <2>1, <3>1, SameText DEF TextInv, At, Rejected
    <3>3. Rejected => invalid
      BY <3>1 DEF Turned
    <3>4. invalid' <=> invalid \/ Rejected'
      BY <2>1, <3>2, <3>3, Zenon
    <3> QED
      BY <2>1, <2>2, <3>1, <3>2, <3>4, StayStep
  <2>3. CASE pc \in Final
    <3>1. MatchesReference'
      BY <2>1, SameText DEF MatchInv, MatchesReference, Starts
    <3> QED
      BY <2>1, <2>3, <3>1 DEF MatchInv
  <2> QED
    BY <2>2, <2>3
<1> QED
  BY <1>1, <1>2, MatchInside, MatchTurns, MatchString, MatchStringEnd, MatchReturn DEF Next

\* Whatever the source, the tokens of jac_tokenize are the lexemes of the source,
\* in order, with their decoded values; it fails exactly if one of them is bad.
THEOREM MatchCorrect == Spec => []MatchesReference
<1> DEFINE IInv == TypeOK /\ PositionInv /\ ScanInv /\ MatchInv
<1>1. Init => IInv
  <2>1. Init => ScanInv
    BY DEF Init, ScanInv
  <2>2. ASSUME Init
        PROVE  MatchInv
    <3>1. source \in Seq(Char) /\ begin = 0 /\ tokens = <<>> /\ invalid = FALSE /\ pc = "scan"
      BY <2>2, SourceAssumption DEF Init
    <3>2. Start[0] = begin /\ Heads(0) = {}
      BY <3>1, StartFacts DEF Heads
    <3>3. Turned(0)
      BY <3>1, <3>2 DEF Turned, Tokenized, Rejected
    <3> QED
      BY <3>1, <3>3 DEF MatchInv, TextInv, MatchesReference
  <2> QED
    BY <2>1, <2>2, InitTypeOK, InitPositionInv
<1>2. IInv /\ [Next]_vars => IInv'
  BY NextTypeOK, NextPositionInv, NextScanInv, NextMatchInv
<1>3. IInv => MatchesReference
  BY DEF MatchInv
<1> QED
  BY <1>1, <1>2, <1>3, PTL DEF Spec
=============================================================================
