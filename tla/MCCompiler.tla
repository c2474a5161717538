----------------------------- MODULE MCCompiler -----------------------------
(***************************************************************************)
(* Compiler on sources of one and two functions, on each edit of one       *)
(* token of a small function, on bodies and headers of every kind, and on  *)
(* bodies too long for the reserve of the arena.                           *)
(***************************************************************************)
EXTENDS Compiler, TokenEdits

ID  == "identifier"
INT == "int_literal"

Head1(type) == <<"func", ID, "(">> \o type \o <<":", ID, ")", "-", ">", "i32">>
Body1       == <<"{", "return", INT, ";", "}">>
Body2       == <<"{", "return", INT, ";", "return", "str_literal", ";", "}">>
Declared(h) == <<"extern", "{">> \o h \o <<";", "}">>

I32 == Head1(<<"i32">>)
Ptr == Head1(<<"*", "i32">>)

\* The sizes of the nodes in words of 8 bytes.
MCNodeSize ==
  [expression |-> 2, statement_expression_call |-> 2, assignment |-> 2, variable_definition |-> 4,
   statement_expression |-> 2, statement_return |-> 1, function_definition |-> 6]

MCPlain ==
  {Append(p, "EOF") : p \in {<<>>, I32 \o Body1, Declared(I32), I32 \o Body1 \o Ptr \o Body2,
                             Declared(Ptr) \o I32 \o Body2, I32 \o <<"{", "}">> \o Declared(Ptr)}}

\* Headers with up to three arguments, with a return type or without.
Arguments ==
  LET lists == UNION {[1 .. k -> {<<"u8">>, <<"*", ID>>}] : k \in 0 .. 3}
      text(list) == FlattenSeq([k \in DOMAIN list |->
                      (IF k = 1 THEN <<>> ELSE <<",">>) \o list[k] \o <<":", ID>>])
  IN  {text(list) : list \in lists}

Headers ==
  {<<"func", ID, "(">> \o args \o <<")">> \o type :
     args \in Arguments, type \in {<<>>, <<"-", ">", "i32">>}}

Others ==
  {I32 \o Body1 \o I32 \o Body2, Declared(I32) \o I32 \o Body1, I32 \o Body1 \o Declared(I32),
   <<"func", ID>> \o Body1, <<"func", ID, "-", ">", "i32">> \o Body1,
   <<"func", ID, "(", "u8", ":", ID, ",", ID, ":", ID, ")">> \o Body2,
   I32 \o <<"{", "return", ";", "}">>, I32 \o <<"{", "return", "&", ";", "}">>,
   I32 \o <<"{", "{", "return", INT, ";", "}", "}">>,
   I32 \o <<"{", ID, ":", "=", INT, ";", "}">>, I32 \o <<"{", ID, "(", ")", ";", "}">>,
   I32 \o <<"{", "return", ID, ";", "}">>}

\* Sources whose nodes outgrow the reserve of the run: one that passes, one with an error
\* behind it, and one in which a function may be declared again.
Returns(n) == FlattenSeq([k \in 1 .. n |-> <<"return", INT, ";">>])

Long == {I32 \o <<"{">> \o Returns(n) \o <<"}">> : n \in {6, 8, 12}}
LongStreams ==
  Long \cup {p \o <<";", ";">> : p \in Long} \cup {I32 \o <<"{">> \o Returns(10) \o <<"}">> \o I32 \o Body1}

CompilerStreams ==
  MCPlain \cup
  {Append(p, "EOF") :
     p \in Others \cup LongStreams \cup Edits(I32 \o Body1, Kinds \ {"EOF"}) \cup {h \o Body2 : h \in Headers}
          \cup {Declared(h) \o I32 \o Body1 : h \in Headers}}

DerivedStreams ==
  {Append(p, "EOF") : p \in {<<"func", ID>> \o Body1, I32 \o <<"{", "return", ";", "}">>,
                            I32 \o <<"{", ID, "(", INT, ")", ";", "}">>}}
=============================================================================
