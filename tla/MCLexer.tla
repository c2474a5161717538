------------------------------- MODULE MCLexer -------------------------------
(***************************************************************************)
(* Lexer on every NUL-terminated buffer of at most MaxLen characters, and  *)
(* on short buffers without a NUL, as src/main.c may pass.                 *)
(***************************************************************************)
EXTENDS LexerReference, TLC

CONSTANT MaxLen

MCLetters  == {"a", "n"}
MCDigits   == {"0"}
MCBlanks   == {" ", NEWLINE}
MCPuncts   == {";", MINUS}
MCKeywords == <<"a", "n">> :> "return"
MCAlphabet == MCLetters \cup MCDigits \cup MCBlanks \cup MCPuncts
                \cup {QUOTE, BACKSLASH, "#"}
MCChar     == MCAlphabet \cup Special

Texts(n, alphabet) == UNION {[1..m -> alphabet] : m \in 0..n}

MCSources ==
  {Append(text, NUL) : text \in Texts(MaxLen, MCAlphabet)}
    \cup (Texts(3, MCAlphabet) \ {<<>>})
==============================================================================
