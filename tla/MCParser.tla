------------------------------ MODULE MCParser ------------------------------
(***************************************************************************)
(* Parser, its heap and the printer of its AST, on two kinds of token      *)
(* streams: complete programs with one token deleted, inserted or replaced *)
(* by any other, and short statements with every choice of the tokens at   *)
(* their holes.                                                            *)
(***************************************************************************)
EXTENDS Ownership, ParserReference, ASTPrinter, TokenEdits

CONSTANT HoleKinds   \* the kinds that fill the holes of the templates

ID  == "identifier"
INT == "int_literal"
STR == "str_literal"

\* func id ( i32 : id , * u8 : id ) - > i32 { i32 : id := int ; id ( str , & id ) ; return id ; }
Function ==
  << "func", ID, "(", "i32", ":", ID, ",", "*", "u8", ":", ID, ")", "-", ">", "i32", "{",
     "i32", ":", ID, ":", "=", INT, ";",
     ID, "(", STR, ",", "&", ID, ")", ";",
     "return", ID, ";", "}" >>

\* extern { func id ( * id : id ) ; func id ; } func id { { id := id ( ) ; } return ; }
Unit ==
  << "extern", "{", "func", ID, "(", "*", ID, ":", ID, ")", ";", "func", ID, ";", "}",
     "func", ID, "{", "{", ID, ":", "=", ID, "(", ")", ";", "}", "return", ";", "}" >>

Edited(s) == Edits(s, Kinds \ {"EOF"})

Filled(before, n, after) ==
  {before \o holes \o after : holes \in UNION {[1..m -> HoleKinds] : m \in 0..n}}

Templates ==
  Filled(<<>>, 3, <<"func", ID, "{", "}">>)
  \cup Filled(<<"func", ID>>, 3, <<"{", "}">>)
  \cup Filled(<<"func", ID, "(">>, 3, <<")", "{", "}">>)
  \cup Filled(<<"func", ID, "{", "return">>, 3, <<";", "}">>)
  \cup Filled(<<"func", ID, "{", "return", ID, "(">>, 3, <<";", "}">>)
  \cup Filled(<<"func", ID, "{", ID, "(">>, 3, <<")", ";", "}">>)
  \cup Filled(<<"func", ID, "{">>, 3, <<"}">>)

MCTokenStreams ==
  {Append(s, "EOF") : s \in {<<>>} \cup Edited(Function) \cup Edited(Unit) \cup Templates}
=============================================================================
