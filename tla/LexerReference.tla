--------------------------- MODULE LexerReference ---------------------------
(***************************************************************************)
(* What tokenizing a buffer means, said without a scanner: the lexeme that *)
(* starts at an offset is the longest run of characters of its class, a    *)
(* comment ends at the next newline, a string at the first quote that is   *)
(* not escaped.                                                            *)
(***************************************************************************)
EXTENDS Lexer, Integers

\* What yields no token has the kind "none", which no token has.
ASSUME NoneAssumption == "none" \notin Kind

Text(i, j) == SubSeq(source, i + 1, j)

\* The end (exclusive) of the longest run of characters of `class' from i on.
RunEnd(i, class) ==
  CHOOSE j \in i .. Len(source) : /\ \A k \in i .. j - 1 : At(k) \in class
                                  /\ j < Len(source) => At(j) \notin class

\* Whether the n-th character from i on is escaped: the one before it is a
\* backslash, and not escaped itself.
Escaped(i) ==
  LET escaped[n \in Nat] ==
        IF n = 0 THEN FALSE ELSE At(i + (n - 1)) = BACKSLASH /\ ~escaped[n - 1]
  IN  escaped

Closes(i, j) == At(j) = QUOTE /\ ~Escaped(i)[j - i]

\* Where the string ends whose first character is at i; the end of a buffer in
\* which it does not.
ClosingQuote(i) ==
  CHOOSE j \in i .. Len(source) : /\ \A k \in i .. j - 1 : ~Closes(i, k)
                                  /\ j < Len(source) => Closes(i, j)

\* What the character behind those of `before' adds to the value of a string.
Decode(before, ch, escaped) ==
  IF escaped THEN IF ch \in EscapeChars THEN Append(before, Unescape(ch)) ELSE before
  ELSE IF ch = BACKSLASH THEN before ELSE Append(before, ch)

\* The value that the first n characters from i on have in a string.
Decoded(i) ==
  LET decoded[n \in Nat] ==
        IF n = 0 THEN <<>> ELSE Decode(decoded[n - 1], At(i + (n - 1)), Escaped(i)[n - 1])
  IN  decoded

BadEscape(i, j) == \E k \in i .. j - 1 : Escaped(i)[k - i] /\ At(k) \notin EscapeChars

\* The lexeme at offset i: its kind ("none" for what yields no token), its
\* value, where the next one starts, and whether it makes the source invalid.
Item(kind, val, next, bad) == [kind |-> kind, value |-> val, next |-> next, bad |-> bad]
Run(kind, i, j)            == Item(kind, Text(i, j), j, FALSE)

Word(i)    == Run(word_kind(Text(i, RunEnd(i, Alnum))), i, RunEnd(i, Alnum))
Number(i)  == Run("int_literal", i, RunEnd(i + 1, Digits))
Comment(i) == Item("none", <<>>, RunEnd(i, Char \ {NEWLINE}) + 1, FALSE)
String(i)  == LET end == ClosingQuote(i + 1)
              IN  Item("str_literal", Decoded(i + 1)[end - (i + 1)], end + 1, BadEscape(i + 1, end))

Lexeme(i) ==
  LET ch == At(i)
  IN  IF      ch = NUL                              THEN Item("EOF", <<NUL>>, i, FALSE)
      ELSE IF ch \in Blanks                         THEN Item("none", <<>>, i + 1, FALSE)
      ELSE IF ch = MINUS /\ At(i + 1) = MINUS       THEN Comment(i)
      ELSE IF ch \in Letters                        THEN Word(i)
      ELSE IF ch \in Digits                         THEN Number(i)
      ELSE IF ch = MINUS /\ At(i + 1) \in Digits    THEN Number(i)
      ELSE IF ch = QUOTE                            THEN String(i)
      ELSE IF ch \in Puncts                         THEN Run(ch, i, i + 1)
      ELSE                                               Item("none", <<>>, i + 1, TRUE)

\* The offsets at which the lexemes of the source start, one behind the other.
Start[n \in Nat] ==
  IF n = 0 THEN 0
  ELSE IF Readable(Start[n - 1]) THEN Lexeme(Start[n - 1]).next ELSE Start[n - 1]

Starts == {Start[n] : n \in 0 .. Len(source)}

\* At its end the scanner has emitted exactly the lexemes of the source, in
\* order, each with its kind, its decoded value and its place; and it has
\* rejected the source exactly when one of the lexemes is bad (jac_tokenize).
MatchesReference ==
  /\ pc = "failed" => \E i \in Starts : Lexeme(i).bad
  /\ pc = "done" =>
       /\ \A i \in Starts : ~Lexeme(i).bad
       /\ {tokens[k].at : k \in DOMAIN tokens} = {i \in Starts : Lexeme(i).kind # "none"}
       /\ \A j, k \in DOMAIN tokens : j < k => tokens[j].at < tokens[k].at
       /\ \A k \in DOMAIN tokens : /\ tokens[k].kind = Lexeme(tokens[k].at).kind
                                   /\ tokens[k].value = Lexeme(tokens[k].at).value
=============================================================================
