------------------------------- MODULE Lexer -------------------------------
(***************************************************************************)
(* The tokenizer of src/lex.c: jac_tokenize, one action per branch of its  *)
(* scanning loop and one per turn of the inner loops of a comment, a word, *)
(* a number and a string.  Every action includes the `consume' of the for  *)
(* statement's increment when the branch ends there.                       *)
(*                                                                         *)
(* The source is a buffer of characters that the loop reads through        *)
(* lexer.c[0] and lexer.c[1].  A read past the end of the buffer is        *)
(* undefined behaviour in C; the model stops there, in pc = "overrun".     *)
(***************************************************************************)
EXTENDS Naturals, Sequences, FiniteSets

CONSTANTS
  Sources,   \* the buffers jac_tokenize may be called with
  Char,      \* the characters
  Letters,   \* isalpha(c) or '_'
  Digits,    \* isdigit(c)
  Blanks,    \* isspace(c)
  Puncts,    \* the characters of ";:,{}()*->&="
  Keywords   \* the table `keywords': a function from spellings to kinds

NEWLINE   == "\n"
QUOTE     == "\""
BACKSLASH == "\\"
MINUS     == "-"
NUL       == "NUL"

\* The character an escape stands for; the letters of the switch.
unescape ==
  [ n |-> NEWLINE, t |-> "HT", r |-> "CR", b |-> "BS", f |-> "FF", v |-> "VT" ]
EscapeChars == DOMAIN unescape \cup {"0"}
Unescape(ch) == IF ch = "0" THEN NUL ELSE unescape[ch]

Special == {NEWLINE, QUOTE, BACKSLASH, MINUS, NUL, "HT", "CR", "BS", "FF", "VT"}

ASSUME CharAssumption ==
  /\ Letters \cup Digits \cup Blanks \cup Puncts \cup Special \subseteq Char
  /\ NEWLINE \in Blanks /\ MINUS \in Puncts
  /\ {QUOTE, BACKSLASH, NUL} \cap (Letters \cup Digits \cup Blanks \cup Puncts) = {}
  /\ Blanks \cap (Letters \cup Digits \cup Puncts) = {}
  /\ Puncts \cap (Letters \cup Digits) = {}
  /\ Letters \cap Digits = {}
  /\ {"EOF", "str_literal"} \cap Puncts = {}
ASSUME SourceAssumption == Sources \subseteq Seq(Char) \ {<<>>}
ASSUME KeywordAssumption ==
  /\ DOMAIN Keywords \subseteq Seq(Char)
  /\ \A w \in DOMAIN Keywords : Keywords[w] \notin {"EOF", "str_literal"}

VARIABLES
  source,   \* const char *source
  lexer,    \* struct lexer: offsets c and line_offset into source, line, column
  column,   \* the local `column': where the token being read starts
  value,    \* the darray of the token being read (its closing '\0' left out)
  tokens,   \* the darray of tokens
  invalid,  \* the local `invalid'
  pc,       \* which loop runs, or how jac_tokenize ended
  begin     \* history: the offset at which this turn of the loop started

vars == <<source, lexer, column, value, tokens, invalid, pc, begin>>

Alnum == Letters \cup Digits
Final == {"done", "failed", "overrun"}

Readable(i) == i < Len(source)
At(i)       == source[i + 1]
Cur         == At(lexer.c)
Ahead       == At(lexer.c + 1)

-----------------------------------------------------------------------------

\* struct lexer
Places == [c : Nat, line : Nat, column : Nat, line_offset : Nat]

\* Mutant of consume: line_offset points at the newline instead of behind it.
consume_ShortLine(l) ==
  IF At(l.c) = NEWLINE
  THEN [c |-> l.c + 1, line |-> l.line + 1, column |-> 1,
        line_offset |-> l.line_offset + l.column - 1]
  ELSE [c |-> l.c + 1, line |-> l.line, column |-> l.column + 1,
        line_offset |-> l.line_offset]

consume(l) ==
  IF At(l.c) = NEWLINE
  THEN [c |-> l.c + 1, line |-> l.line + 1, column |-> 1,
        line_offset |-> l.line_offset + l.column]
  ELSE [c |-> l.c + 1, line |-> l.line, column |-> l.column + 1,
        line_offset |-> l.line_offset]

\* strlen of a value: the characters before its first NUL.
strlen(val) == Cardinality({i \in DOMAIN val : \A j \in 1..i : val[j] # NUL})

\* Mutant of new_token: the column where the token ends, not where it starts.
new_token_EndColumn(val, kind, col, l) ==
  [kind |-> kind, value |-> val, length |-> strlen(val), line |-> l.line,
   column |-> l.column, source_line |-> l.line_offset, at |-> begin]

new_token(val, kind, col, l) ==
  [kind |-> kind, value |-> val, length |-> strlen(val), line |-> l.line,
   column |-> col, source_line |-> l.line_offset, at |-> begin]

\* The kinds of lex.h that jac_tokenize uses, and jac_token.
Kind  == {"identifier", "int_literal", "str_literal", "EOF"} \cup Puncts
           \cup {Keywords[w] : w \in DOMAIN Keywords}
Token == [kind : Kind, value : Seq(Char), length : Nat, line : Nat, column : Nat,
          source_line : Nat, at : Nat]

word_kind(val) == IF val \in DOMAIN Keywords THEN Keywords[val] ELSE "identifier"

-----------------------------------------------------------------------------

Init ==
  /\ source \in Sources
  /\ lexer = [c |-> 0, line |-> 1, column |-> 1, line_offset |-> 0]
  /\ column = 1
  /\ value = <<>>
  /\ tokens = <<>>
  /\ invalid = FALSE
  /\ pc = "scan"
  /\ begin = 0

\* The increment of the for statement: consume(&lexer), column = lexer.column.
NextTurn(l) ==
  /\ lexer' = consume(l)
  /\ column' = consume(l).column
  /\ begin' = consume(l).c
  /\ pc' = "scan"

Emit(token) == tokens' = Append(tokens, token)

\* Mutant of AtHead: the loop condition does not look for the terminator.
AtHead_NoTerminator == pc = "scan" /\ Readable(lexer.c)

AtHead == pc = "scan" /\ Readable(lexer.c) /\ Cur # NUL

Blank ==
  /\ AtHead /\ Cur \in Blanks
  /\ NextTurn(lexer)
  /\ UNCHANGED <<source, value, tokens, invalid>>

CommentStart ==
  /\ AtHead /\ Cur = MINUS /\ Readable(lexer.c + 1) /\ Ahead = MINUS
  /\ pc' = "comment"
  /\ UNCHANGED <<source, lexer, column, value, tokens, invalid, begin>>

\* Mutant of CommentChar: the loop does not advance.
CommentChar_Stuck ==
  /\ pc = "comment" /\ Readable(lexer.c) /\ Cur # NEWLINE
  /\ UNCHANGED vars

\* while (*lexer.c != '\n') consume(&lexer);  -- '\0' does not stop it
CommentChar ==
  /\ pc = "comment" /\ Readable(lexer.c) /\ Cur # NEWLINE
  /\ lexer' = consume(lexer)
  /\ UNCHANGED <<source, column, value, tokens, invalid, pc, begin>>

CommentEnd ==
  /\ pc = "comment" /\ Readable(lexer.c) /\ Cur = NEWLINE
  /\ NextTurn(lexer)
  /\ UNCHANGED <<source, value, tokens, invalid>>

WordStart ==
  /\ AtHead /\ Cur \in Letters
  /\ value' = <<Cur>>
  /\ pc' = "word"
  /\ UNCHANGED <<source, lexer, column, tokens, invalid, begin>>

NumberStart ==
  /\ AtHead
  /\ \/ Cur \in Digits
     \/ Cur = MINUS /\ Readable(lexer.c + 1) /\ Ahead \in Digits
  /\ value' = <<Cur>>
  /\ pc' = "number"
  /\ UNCHANGED <<source, lexer, column, tokens, invalid, begin>>

\* Mutant of Continues: no digits in words.
Continues_LettersOnly(ch) == ch \in (IF pc = "word" THEN Letters ELSE Digits)

\* What continues the lexeme that is being read.
Continues(ch) == ch \in (IF pc = "word" THEN Alnum ELSE Digits)

LexemeChar ==
  /\ pc \in {"word", "number"} /\ Readable(lexer.c + 1) /\ Continues(Ahead)
  /\ lexer' = consume(lexer)
  /\ value' = Append(value, Ahead)
  /\ UNCHANGED <<source, column, tokens, invalid, pc, begin>>

LexemeEnd ==
  /\ pc \in {"word", "number"} /\ Readable(lexer.c + 1) /\ ~Continues(Ahead)
  /\ Emit(new_token(value, IF pc = "word" THEN word_kind(value) ELSE "int_literal",
                    column, lexer))
  /\ value' = <<>>
  /\ NextTurn(lexer)
  /\ UNCHANGED <<source, invalid>>

\* Mutant of StringStart: the column stays at the quote.
StringStart_AtQuote ==
  /\ AtHead /\ Cur = QUOTE
  /\ lexer' = consume(lexer)
  /\ value' = <<>>
  /\ pc' = "string"
  /\ UNCHANGED <<source, column, tokens, invalid, begin>>

StringStart ==
  /\ AtHead /\ Cur = QUOTE
  /\ lexer' = consume(lexer)
  /\ column' = column + 1
  /\ value' = <<>>
  /\ pc' = "string"
  /\ UNCHANGED <<source, tokens, invalid, begin>>

\* while (*lexer.c != '"') ...  -- '\0' does not stop it either
StringChar ==
  /\ pc = "string" /\ Readable(lexer.c) /\ Cur \notin {QUOTE, BACKSLASH}
  /\ lexer' = consume(lexer)
  /\ value' = Append(value, Cur)
  /\ UNCHANGED <<source, column, tokens, invalid, pc, begin>>

StringEscape ==
  /\ pc = "string" /\ Readable(lexer.c) /\ Cur = BACKSLASH /\ Readable(lexer.c + 1)
  /\ lexer' = consume(consume(lexer))
  /\ IF Ahead \in EscapeChars
     THEN value' = Append(value, Unescape(Ahead)) /\ UNCHANGED invalid
     ELSE invalid' = TRUE /\ UNCHANGED value
  /\ UNCHANGED <<source, column, tokens, pc, begin>>

StringEnd ==
  /\ pc = "string" /\ Readable(lexer.c) /\ Cur = QUOTE
  /\ Emit(new_token(value, "str_literal", column, lexer))
  /\ value' = <<>>
  /\ NextTurn(lexer)
  /\ UNCHANGED <<source, invalid>>

Punct ==
  /\ AtHead /\ Cur \in Puncts
  /\ Cur = MINUS => Readable(lexer.c + 1) /\ Ahead \notin Digits \cup {MINUS}
  /\ Emit(new_token(<<Cur>>, Cur, column, lexer))
  /\ NextTurn(lexer)
  /\ UNCHANGED <<source, value, invalid>>

Unrecognized ==
  /\ AtHead /\ Cur \notin Blanks \cup Alnum \cup Puncts \cup {QUOTE}
  /\ invalid' = TRUE
  /\ NextTurn(lexer)
  /\ UNCHANGED <<source, value, tokens>>

\* Mutant of Return: no EOF token is appended.
Return_NoEof ==
  /\ pc = "scan" /\ Readable(lexer.c) /\ Cur = NUL
  /\ IF invalid THEN tokens' = <<>> /\ pc' = "failed"
                ELSE UNCHANGED tokens /\ pc' = "done"
  /\ UNCHANGED <<source, lexer, column, value, invalid, begin>>

\* The loop has met '\0': the tokens and their EOF, or NULL and no tokens.
Return ==
  /\ pc = "scan" /\ Readable(lexer.c) /\ Cur = NUL
  /\ IF invalid
     THEN tokens' = <<>> /\ pc' = "failed"
     ELSE Emit(new_token(<<NUL>>, "EOF", column, lexer)) /\ pc' = "done"
  /\ UNCHANGED <<source, lexer, column, value, invalid, begin>>

\* The next read of the running loop lies outside the buffer.
Overrun ==
  /\ \/ pc \in {"scan", "comment", "string"} /\ ~Readable(lexer.c)
     \/ pc \in {"word", "number"} /\ ~Readable(lexer.c + 1)
     \/ /\ Readable(lexer.c) /\ ~Readable(lexer.c + 1)
        /\ \/ pc = "scan" /\ Cur = MINUS
           \/ pc = "string" /\ Cur = BACKSLASH
  /\ pc' = "overrun"
  /\ UNCHANGED <<source, lexer, column, value, tokens, invalid, begin>>

Next ==
  \/ Blank \/ CommentStart \/ CommentChar \/ CommentEnd
  \/ WordStart \/ NumberStart \/ LexemeChar \/ LexemeEnd
  \/ StringStart \/ StringChar \/ StringEscape \/ StringEnd
  \/ Punct \/ Unrecognized \/ Return \/ Overrun

Spec == Init /\ [][Next]_vars /\ WF_vars(Next)

-----------------------------------------------------------------------------
(***************************************************************************)
(* Properties.                                                             *)
(***************************************************************************)

\* The number of the line that offset i of a text is on.
LineIn(text, i) == 1 + Cardinality({j \in 0..(i - 1) : text[j + 1] = NEWLINE})
LineOf(i)       == LineIn(source, i)

\* Every variable holds a value of the C type it models.
TypeOK ==
  /\ source \in Seq(Char) \ {<<>>}
  /\ lexer \in Places
  /\ column \in Nat /\ begin \in Nat
  /\ value \in Seq(Char)
  /\ tokens \in Seq(Token)
  /\ invalid \in BOOLEAN
  /\ pc \in {"scan", "comment", "word", "number", "string"} \cup Final

\* Offset, line and column of l agree on a place of the text.
Positioned(text, l) ==
  /\ l.c <= Len(text)
  /\ l.c + 1 = l.line_offset + l.column
  /\ l.line_offset > 0 => text[l.line_offset] = NEWLINE
  /\ \A i \in l.line_offset .. (l.c - 1) : text[i + 1] # NEWLINE
  /\ l.line = LineIn(text, l.c)

\* consume keeps line, column and line_offset in step with the offset c it
\* advances: line_offset is where the line of c starts, column is the distance
\* from there, line counts the newlines passed (src/lex.c, consume).
PositionInv == Positioned(source, lexer)

\* The diagnostic of t underlines it: source_line and column give the offset t
\* was read at, line is the line of that offset, and the `length' characters from
\* there on are the value.
Underlined(text, t) ==
  /\ t.source_line + t.column = t.at + 1
  /\ t.line = LineIn(text, t.at)
  /\ t.at + t.length <= Len(text)
  /\ \A k \in 1..t.length : t.value[k] = text[t.at + k]

\* The diagnostics of every token but a string underline it, even though the token
\* is made behind its last character (new_token, read by output_diagnostic of
\* src/diagnostics.c).
CaretInv ==
  \A i \in DOMAIN tokens : tokens[i].kind # "str_literal" => Underlined(source, tokens[i])

\* The diagnostics of a string literal are taken when its closing quote is met,
\* its column when the opening one is: they locate the first character of the
\* string exactly when both quotes are on one line.
StringCaretInv ==
  \A t \in {tokens[i] : i \in DOMAIN tokens} : t.kind = "str_literal" =>
    (t.line = LineOf(t.at) <=> t.source_line + t.column = t.at + 2)

\* What the parser relies on to stop: a returned token array is not empty, ends
\* with EOF, and holds EOF nowhere else.
OneEof ==
  pc = "done" => /\ tokens # <<>>
                 /\ \A i \in DOMAIN tokens : tokens[i].kind = "EOF" <=> i = Len(tokens)

\* On a terminated buffer the scanning loop, a word and a number stop in time:
\* only a comment or a string can read past the end (jac_tokenize).
OnlyTextOverruns ==
  [][At(Len(source) - 1) = NUL /\ pc # "overrun" /\ pc' = "overrun" =>
       pc \in {"comment", "string"}]_vars

\* jac_tokenize returns, or leaves the buffer: no loop runs for ever inside it.
Termination == <>(pc \in Final)

=============================================================================
