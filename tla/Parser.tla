------------------------------- MODULE Parser -------------------------------
(***************************************************************************)
(* The recursive-descent parser of src/ast.c: jac_parse_unit, the parse_*  *)
(* functions and the error recovery of skip_statement.                     *)
(*                                                                         *)
(* The call stack is a variable.  A frame is one activation of a parse_*   *)
(* function, and `todo' is what is left of that function's body, a         *)
(* sequence of the few things such a body does: expect a token, call       *)
(* another parse_* function, loop or branch on the kind of the next token. *)
(* The bodies themselves are the parse_... definitions below.  A token is  *)
(* its kind; the AST refers to tokens by their index, as the code does by  *)
(* a pointer.                                                              *)
(***************************************************************************)
EXTENDS Naturals, Sequences

CONSTANT TokenStreams   \* the arrays jac_tokenize may return

Kinds ==
  {"identifier", "int_literal", "str_literal", "return", "extern", "func",
   "i32", "u8", ";", ":", ",", "{", "}", "(", ")", "*", "-", ">", "&", "=", "EOF"}

\* EOF closes a token array and stands nowhere else in it: what the lexer
\* guarantees (OneEof of module Lexer).
ASSUME StreamAssumption ==
  TokenStreams \subseteq
    {s \in Seq(Kinds) : /\ s # <<>>
                        /\ \A i \in DOMAIN s : s[i] = "EOF" <=> i = Len(s)}

VARIABLES
  tokens,   \* parser->tokens
  c,        \* parser->c, as an index into tokens
  stack,    \* the activations of parse_* functions, the running one last
  mode,     \* what runs: the loop of jac_parse_unit, a parse_* function, the
            \* unwinding of one that returned false, skip_statement; or the end
  unit,     \* the darray of accepted unit statements
  success,  \* the local `success' of jac_parse_unit
  diags,    \* the number of diagnostics printed
  dropped   \* history: the tokens a failed optional parse has consumed

vars == <<tokens, c, stack, mode, unit, success, diags, dropped>>

Final == {"accepted", "rejected", "aborted"}

Kind   == tokens[c]
is_eof == Kind = "EOF"

-----------------------------------------------------------------------------
(***************************************************************************)
(* What the body of a parse_* function does, one item per step.            *)
(***************************************************************************)

\* expect(parser, kind), the token kept in the AST node or not.  (A kept '*' is
\* one level of indirection, a kept '&' the tag JAC_AST_EXPRESSION_ADDROF.)
Tok(kind)   == [op |-> "token", kinds |-> {kind}, keep |-> FALSE]
Keep(kinds) == [op |-> "token", kinds |-> kinds, keep |-> TRUE]

\* if (!parse_fn(parser, required, ...)) return false; with `required' passed
\* on, or TRUE; CallOr prints a diagnostic of the caller's too.
Call(fn)   == [op |-> "call", fn |-> fn, force |-> FALSE, say |-> FALSE]
CallOr(fn) == [op |-> "call", fn |-> fn, force |-> FALSE, say |-> TRUE]
Must(fn)   == [op |-> "call", fn |-> fn, force |-> TRUE, say |-> FALSE]

\* if (parse_fn(parser, false, ...)) { then }
Try(fn, then) == [op |-> "try", fn |-> fn, then |-> then]

\* if / while (the kind of the next token is one of `kinds') { then }
When(kinds, then)  == [op |-> "when", kinds |-> kinds, then |-> then]
While(kinds, then) == [op |-> "while", kinds |-> kinds, then |-> then]

\* default: print a diagnostic if required; return false;
Reject == [op |-> "token", kinds |-> {}, keep |-> FALSE]

Unclosed == Kinds \ {"EOF", "}"}

\* Mutant of parse_statement_expression_call: an argument behind a comma is parsed
\* as required, even in a call that is optional.
parse_call_RequiredArgument ==
  << Keep({"identifier"}), Tok("("),
     Try("expression", << While({","}, << Tok(","), Must("expression") >>) >>),
     Tok(")") >>

parse_statement_expression_call ==
  << Keep({"identifier"}), Tok("("),
     Try("expression", << While({","}, << Tok(","), CallOr("expression") >>) >>),
     Tok(")") >>

parse_variable_definition ==
  << Call("variable_declaration"), Tok(":"), Tok("="), Call("expression") >>

parse_assignment ==
  << Keep({"identifier"}), Tok(":"), Tok("="), Call("expression") >>

\* `next' is parser->c[1].kind, read only behind an identifier.
parse_statement_expression(kind, next) ==
  CASE kind = "identifier" /\ next = "(" -> << Call("statement_expression_call") >>
    [] kind = "identifier" /\ next # "(" -> << Call("assignment") >>
    [] OTHER -> << CallOr("variable_definition") >>

\* Mutant of parse_expression: the default case consumes the token it rejects.
parse_expression_Consumes(kind, next) ==
  CASE kind \in {"str_literal", "int_literal"} -> << Keep({kind}) >>
    [] kind = "&" -> << Keep({"&"}), Keep({"identifier"}) >>
    [] kind = "identifier" /\ next = "(" -> << Call("statement_expression") >>
    [] kind = "identifier" /\ next # "(" -> << Keep({"identifier"}) >>
    [] OTHER -> << Keep(Kinds \ {"EOF"}), Reject >>

parse_expression(kind, next) ==
  CASE kind \in {"str_literal", "int_literal"} -> << Keep({kind}) >>
    [] kind = "&" -> << Keep({"&"}), Keep({"identifier"}) >>
    [] kind = "identifier" /\ next = "(" -> << Call("statement_expression") >>
    [] kind = "identifier" /\ next # "(" -> << Keep({"identifier"}) >>
    [] OTHER -> << Reject >>

parse_statement_return == << Tok("return"), Try("expression", <<>>) >>

parse_scope_statement(kind) ==
  CASE kind = "return" -> << Call("statement_return"), Tok(";") >>
    [] kind = "{" -> << Call("block") >>
    [] OTHER -> << CallOr("statement_expression"), Tok(";") >>

parse_block ==
  << Tok("{"), While(Unclosed, << Call("scope_statement") >>), Tok("}") >>

\* Mutant of parse_type: the stars are consumed but not counted.
parse_type_NoIndirection ==
  << While({"*"}, << Tok("*") >>), Keep({"identifier", "u8", "i32"}) >>

parse_type ==
  << While({"*"}, << Keep({"*"}) >>), Keep({"identifier", "u8", "i32"}) >>

parse_variable_declaration == << Call("type"), Tok(":"), Keep({"identifier"}) >>

parse_function_header ==
  << Tok("func"), Keep({"identifier"}),
     When({"("},
       << Tok("("),
          Try("variable_declaration",
              << While({","}, << Tok(","), Call("variable_declaration") >>) >>),
          Tok(")") >>),
     When({"-"}, << Tok("-"), Tok(">"), Must("type") >>) >>

\* Mutant of parse_extern_block: a header that does not parse is passed over.
parse_extern_block_Tolerant ==
  << Tok("extern"), Tok("{"),
     While(Unclosed, << Try("function_header", << Tok(";") >>) >>),
     Tok("}") >>

parse_extern_block ==
  << Tok("extern"), Tok("{"),
     While(Unclosed, << Must("function_header"), Tok(";") >>),
     Tok("}") >>

parse_function_definition == << Call("function_header"), Must("block") >>

parse_unit_statement(kind) ==
  CASE kind = "func" -> << Must("function_definition") >>
    [] kind = "extern" -> << Must("extern_block") >>
    [] OTHER -> << Reject >>

\* The body of a function, its switch already taken on the next token.
Body(fn) ==
  LET next == IF Kind = "identifier" THEN tokens[c + 1] ELSE Kind
  IN  CASE fn = "statement_expression_call" -> parse_statement_expression_call
        [] fn = "variable_definition" -> parse_variable_definition
        [] fn = "assignment" -> parse_assignment
        [] fn = "statement_expression" -> parse_statement_expression(Kind, next)
        [] fn = "expression" -> parse_expression(Kind, next)
        [] fn = "statement_return" -> parse_statement_return
        [] fn = "scope_statement" -> parse_scope_statement(Kind)
        [] fn = "block" -> parse_block
        [] fn = "type" -> parse_type
        [] fn = "variable_declaration" -> parse_variable_declaration
        [] fn = "function_header" -> parse_function_header
        [] fn = "extern_block" -> parse_extern_block
        [] fn = "function_definition" -> parse_function_definition
        [] fn = "unit_statement" -> parse_unit_statement(Kind)

-----------------------------------------------------------------------------

top  == stack[Len(stack)]
item == Head(top.todo)
rest == Tail(top.todo)

Frame(fn, required) ==
  [fn |-> fn, todo |-> Body(fn), required |-> required, kids |-> <<>>, start |-> c]

\* The AST node a frame has built: the tokens and the nodes it kept, in order.
Node(frame) == [fn |-> frame.fn, at |-> frame.start, kids |-> frame.kids]
Leaf(i)     == [fn |-> "token", at |-> i]

Replace(s, frame) == [s EXCEPT ![Len(s)] = frame]
Pop == SubSeq(stack, 1, Len(stack) - 1)

Say(required) == diags' = IF required THEN diags + 1 ELSE diags

Running == mode = "parse" /\ top.todo # <<>>

Init ==
  /\ tokens \in TokenStreams
  /\ c = 1
  /\ stack = <<>>
  /\ mode = "unit"
  /\ unit = <<>>
  /\ success = TRUE
  /\ diags = 0
  /\ dropped = {}

\* The head of the loop of jac_parse_unit, and the call of parse_unit_statement.
ParseStatement ==
  /\ mode = "unit" /\ ~is_eof
  /\ mode' = "parse"
  /\ stack' = << Frame("unit_statement", TRUE) >>
  /\ UNCHANGED <<tokens, c, unit, success, diags, dropped>>

\* The loop has met EOF: the unit, or nothing (jac_free_unit) after an error.
Finish ==
  /\ mode = "unit" /\ is_eof
  /\ mode' = IF success THEN "accepted" ELSE "rejected"
  /\ unit' = IF success THEN unit ELSE <<>>
  /\ UNCHANGED <<tokens, c, stack, success, diags, dropped>>

\* expect: the token is of the expected kind and is consumed...
Expect ==
  /\ Running /\ item.op = "token" /\ Kind \in item.kinds
  /\ c' = c + 1
  /\ stack' = Replace(stack, [top EXCEPT !.todo = rest,
                                         !.kids = IF item.keep THEN Append(@, Leaf(c)) ELSE @])
  /\ UNCHANGED <<tokens, mode, unit, success, diags, dropped>>

\* ... or it is not, and the function returns false.
ExpectFails ==
  /\ Running /\ item.op = "token" /\ Kind \notin item.kinds
  /\ mode' = "fail"
  /\ Say(top.required)
  /\ UNCHANGED <<tokens, c, stack, unit, success, dropped>>

Branch ==
  /\ Running /\ item.op \in {"when", "while"}
  /\ LET again == IF item.op = "while" THEN top.todo ELSE rest
         todo  == IF Kind \in item.kinds THEN item.then \o again ELSE rest
     IN  stack' = Replace(stack, [top EXCEPT !.todo = todo])
  /\ UNCHANGED <<tokens, c, mode, unit, success, diags, dropped>>

CallParse ==
  /\ Running /\ item.op \in {"call", "try"}
  /\ LET required == item.op = "call" /\ (item.force \/ top.required)
     IN  stack' = Append(stack, Frame(item.fn, required))
  /\ UNCHANGED <<tokens, c, mode, unit, success, diags, dropped>>

\* The function returns true: its caller takes the node and goes on.
ReturnTrue ==
  /\ mode = "parse" /\ top.todo = <<>>
  /\ stack' = LET caller == stack[Len(stack) - 1]
                  then   == IF Head(caller.todo).op = "try" THEN Head(caller.todo).then
                            ELSE <<>>
              IN  IF Len(stack) = 1 THEN <<>>
                  ELSE Replace(Pop, [caller EXCEPT !.todo = then \o Tail(@),
                                                   !.kids = Append(@, Node(top))])
  /\ unit' = IF Len(stack) = 1 THEN Append(unit, Node(top)) ELSE unit
  /\ mode' = IF Len(stack) = 1 THEN "unit" ELSE "parse"
  /\ UNCHANGED <<tokens, c, success, diags, dropped>>

\* The function returns false to a caller that fails with it ...
ReturnFalse ==
  /\ mode = "fail" /\ Len(stack) > 1
  /\ LET caller == stack[Len(stack) - 1]
     IN  /\ Head(caller.todo).op = "call"
         /\ Say(Head(caller.todo).say /\ caller.required)
  /\ stack' = Pop
  /\ UNCHANGED <<tokens, c, mode, unit, success, dropped>>

\* ... or to one for which it was optional.  The tokens it has consumed stay
\* consumed: c is not reset.
ReturnNothing ==
  /\ mode = "fail" /\ Len(stack) > 1
  /\ LET caller == stack[Len(stack) - 1]
     IN  /\ Head(caller.todo).op = "try"
         /\ stack' = Replace(Pop, [caller EXCEPT !.todo = Tail(@)])
  /\ dropped' = dropped \cup top.start .. (c - 1)
  /\ mode' = "parse"
  /\ UNCHANGED <<tokens, c, unit, success, diags>>

\* parse_unit_statement returns false to jac_parse_unit.
StatementFails ==
  /\ mode = "fail" /\ Len(stack) = 1
  /\ stack' = <<>>
  /\ success' = FALSE
  /\ mode' = "skip"
  /\ UNCHANGED <<tokens, c, unit, diags, dropped>>

\* skip_statement: drop tokens up to ';' or '}' ...
SkipToken ==
  /\ mode = "skip" /\ Kind \notin {"EOF", ";", "}"}
  /\ c' = c + 1
  /\ UNCHANGED <<tokens, stack, mode, unit, success, diags, dropped>>

\* Mutant of SkipClose: the token behind ';' or '}' is skipped unchecked.
SkipClose_Unchecked ==
  /\ mode = "skip" /\ Kind \in {";", "}"}
  /\ mode' = "unit" /\ c' = c + 2
  /\ UNCHANGED <<tokens, stack, unit, success, diags, dropped>>

\* ... and that token, and one more: consume asserts that it is not EOF.
SkipClose ==
  /\ mode = "skip" /\ Kind \in {";", "}"}
  /\ IF tokens[c + 1] = "EOF" THEN mode' = "aborted" /\ c' = c + 1
                              ELSE mode' = "unit" /\ c' = c + 2
  /\ UNCHANGED <<tokens, stack, unit, success, diags, dropped>>

SkipEof ==
  /\ mode = "skip" /\ is_eof
  /\ mode' = "unit"
  /\ UNCHANGED <<tokens, c, stack, unit, success, diags, dropped>>

Next ==
  \/ ParseStatement \/ Finish
  \/ Expect \/ ExpectFails \/ Branch \/ CallParse
  \/ ReturnTrue \/ ReturnFalse \/ ReturnNothing \/ StatementFails
  \/ SkipToken \/ SkipClose \/ SkipEof

Spec == Init /\ [][Next]_vars /\ WF_vars(Next)

-----------------------------------------------------------------------------
(***************************************************************************)
(* Properties.                                                             *)
(***************************************************************************)

Functions ==
  {"statement_expression_call", "variable_definition", "assignment",
   "statement_expression", "expression", "statement_return", "scope_statement",
   "block", "type", "variable_declaration", "function_header", "extern_block",
   "function_definition", "unit_statement"}

\* Every variable holds a value of the C type it models; parser->c points into
\* the token array, whatever the error or the recovery (consume, src/ast.c).
TypeOK ==
  /\ c \in DOMAIN tokens
  /\ \A i \in DOMAIN stack : /\ stack[i].fn \in Functions
                             /\ stack[i].required \in BOOLEAN
                             /\ stack[i].start \in 1..c
  /\ mode \in {"unit", "parse", "fail", "skip"} \cup Final
  /\ success \in BOOLEAN
  /\ diags \in Nat
  /\ dropped \subseteq 1..(c - 1)

\* A unit is rejected only with a diagnostic, and accepted only without one, even
\* when the parser has recovered from an error and gone on: `required' reaches every
\* failure that ends a statement, no failure of an optional parse is reported, and
\* the assertion of consume (src/ast.c:33) stops none but a unit already diagnosed
\* (the required arguments of the parse_* functions, jac_parse_unit).
DiagnosedInv ==
  /\ mode \in {"skip", "rejected", "aborted"} => diags > 0 /\ ~success
  /\ mode = "accepted" => diags = 0

\* A token that a failed optional parse has consumed is lost to the AST; it is
\* never one that delimits statements or blocks, so the loss stays inside its
\* statement (parse_statement_return, parse_function_header, calls).
LossIsConfined ==
  \A i \in dropped : tokens[i] \notin {";", "{", "}", "func", "extern", "return"}

\* docs/GRAMMAR.md derives a unit token by token: an accepted unit has no token
\* that no production accounts for.
NothingSwallowed == mode = "accepted" => dropped = {}

=============================================================================
