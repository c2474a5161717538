----------------------------- MODULE Ownership -----------------------------
(***************************************************************************)
(* The arrays and names that the parser of src/ast.c takes from the heap,  *)
(* and what jac_free_unit gives back of them: the parser's steps, each     *)
(* with what it allocates, and the free_* functions over the AST.          *)
(***************************************************************************)
EXTENDS Parser, SequencesExt

VARIABLES
  live,    \* the allocations not freed yet: what for, and from which token on
  pending, \* what the calls of jac_free_unit and the free_* functions have left to do
  freed,   \* the deallocations of jac_free_unit, in order
  failed   \* history: the tokens of the statements that did not parse

heap == <<live, pending, freed, failed>>

-----------------------------------------------------------------------------
(***************************************************************************)
(* Cleanup: what the body of each free_* function does, a sequence of the  *)
(* nodes it calls the next function for and of its own deallocation.       *)
(***************************************************************************)

darray_free(what, at) == [fn |-> "darray_free", what |-> what, at |-> at]

Own(what, node) == << darray_free(what, node.at) >>

free_statement_expression_call(call) ==
  Tail(call.kids) \o Own("statement_expression_call", call)

free_variable_definition(var_def)         == << var_def.kids[2] >>
free_assignment(assignment)               == << assignment.kids[2] >>
free_statement_expression(expr_statement) == << expr_statement.kids[1] >>

free_expression(expression) ==
  IF expression.kids[1].fn = "statement_expression" THEN << expression.kids[1] >> ELSE <<>>

\* Mutant of free_return: an expression is taken for a token.
free_return_Nothing(ret) == <<>>

\* Without an expression, ret->expression is NULL.
free_return(ret) == ret.kids

free_block(block) == block.kids \o Own("block", block)

\* Not header->mangled.
free_function_header(header) == Own("function_header", header)

free_function_definition(func_def) == << func_def.kids[1], func_def.kids[2] >>

free_extern_block(block) == block.kids \o Own("extern_block", block)

free(node) ==
  CASE node.fn = "statement_expression_call" -> free_statement_expression_call(node)
    [] node.fn = "variable_definition"       -> free_variable_definition(node)
    [] node.fn = "assignment"                -> free_assignment(node)
    [] node.fn = "statement_expression"      -> free_statement_expression(node)
    [] node.fn = "expression"                -> free_expression(node)
    [] node.fn = "statement_return"          -> free_return(node)
    [] node.fn = "block"                     -> free_block(node)
    [] node.fn = "function_header"           -> free_function_header(node)
    [] node.fn = "function_definition"       -> free_function_definition(node)
    [] node.fn = "extern_block"              -> free_extern_block(node)
    [] node.fn \in {"scope_statement", "unit_statement"} -> << node.kids[1] >>
    [] OTHER -> <<>>   \* a token, a type, a variable_declaration

jac_free_unit(nodes) == Append(nodes, darray_free("unit", 0))

-----------------------------------------------------------------------------
(***************************************************************************)
(* The parser's steps.                                                     *)
(***************************************************************************)

HeapInit == Init /\ live = {<<"unit", 0>>} /\ pending = <<>> /\ freed = <<>> /\ failed = {}

\* The functions that have a darray_new, and the token it stands behind.
NewBehind ==
  [statement_expression_call |-> {"("}, function_header |-> {"identifier"},
   block |-> {"{"}, extern_block |-> {"{"}]

Allocate(what) ==
  live' = live \cup {<<what, top.start>>} /\ UNCHANGED <<pending, freed, failed>>

Free(nodes) == pending' = jac_free_unit(nodes) /\ UNCHANGED <<live, freed, failed>>

NewArray ==
  /\ Expect
  /\ top.fn \in DOMAIN NewBehind /\ item.kinds = NewBehind[top.fn]
  /\ Allocate(top.fn)

OtherToken ==
  /\ Expect
  /\ ~(top.fn \in DOMAIN NewBehind /\ item.kinds = NewBehind[top.fn])
  /\ UNCHANGED heap

\* jac_mangle_function_name, on the way to the `->'
NewName     == Branch /\ item.kinds = {"-"} /\ Allocate("mangled")
OtherBranch == Branch /\ item.kinds # {"-"} /\ UNCHANGED heap

\* Nothing of a statement that fails is freed.
Fail ==
  /\ StatementFails
  /\ failed' = failed \cup stack[1].start .. c
  /\ UNCHANGED <<live, pending, freed>>

\* jac_parse_unit frees the statements it has accepted before it returns false ...
GiveUp == Finish /\ ~success /\ Free(unit)
Accept  == Finish /\ success /\ UNCHANGED heap

\* Mutant of FreeUnit: main frees a unit that jac_parse_unit has freed.
FreeUnit_Rejected ==
  /\ mode = "rejected" \/ (mode = "accepted" /\ freed = <<>> /\ pending = <<>>)
  /\ Free(unit)
  /\ UNCHANGED vars

\* Mutant of FreeUnit: an empty unit is taken for none.
FreeUnit_NotEmpty ==
  /\ mode = "accepted" /\ freed = <<>> /\ pending = <<>> /\ unit # <<>>
  /\ Free(unit)
  /\ UNCHANGED vars

\* ... and main an accepted unit, if it gets there: only when the check has passed and
\* jac_print_ir has returned, which Compiler says.
FreeUnit ==
  /\ mode = "accepted" /\ freed = <<>> /\ pending = <<>>
  /\ Free(unit)
  /\ UNCHANGED vars

\* A free_* function is called for the next node ...
FreeNode ==
  /\ pending # <<>> /\ Head(pending).fn # "darray_free"
  /\ pending' = free(Head(pending)) \o Tail(pending)
  /\ UNCHANGED <<vars, live, freed, failed>>

\* ... or frees the array it was called for, its elements done.
FreeArray ==
  /\ pending # <<>> /\ Head(pending).fn = "darray_free"
  /\ LET array == <<Head(pending).what, Head(pending).at>>
     IN  live' = live \ {array} /\ freed' = Append(freed, array)
  /\ pending' = Tail(pending)
  /\ UNCHANGED <<vars, failed>>

Quiet ==
  /\ \/ ParseStatement \/ ExpectFails \/ CallParse \/ ReturnTrue \/ ReturnFalse
     \/ ReturnNothing \/ SkipToken \/ SkipClose \/ SkipEof
  /\ UNCHANGED heap

\* jac_parse_unit, and what a call of jac_free_unit does once it is made.
HeapWork ==
  \/ NewArray \/ OtherToken \/ NewName \/ OtherBranch
  \/ Fail \/ GiveUp \/ Accept \/ Quiet
  \/ FreeNode \/ FreeArray

HeapNext == HeapWork \/ FreeUnit

\* What runs goes on; the call of main need not come.
HeapSpec == HeapInit /\ [][HeapNext]_<<vars, heap>> /\ WF_<<vars, heap>>(HeapWork)

-----------------------------------------------------------------------------
(***************************************************************************)
(* Properties.                                                             *)
(***************************************************************************)

\* The cleanup has run to its end.
Cleaned == freed # <<>> /\ pending = <<>>

\* Each deallocation is of something that is allocated, so nothing is freed twice, and
\* the unit is freed after everything that lies in it (jac_free_unit).
FreesWhatLives ==
  [][freed' # freed => /\ Last(freed') \in live
                       /\ (Last(freed') = <<"unit", 0>> <=> pending' = <<>>)]_<<vars, heap>>

\* Whatever the tokens, the parser accepts the unit, or stops in the assertion of consume,
\* or has freed the unit; a cleanup that is begun, by it or by main, runs to its end; and
\* none frees what is not allocated: a rejected unit is freed exactly once, an accepted one
\* by main at most once.  (Every turn of the parser's loops consumes a token; the ways out
\* on which main leaves the unit are those of LeftAtExit.)  (jac_parse_unit, jac_free_unit)
FreedAtMostOnce ==
  /\ <>(mode \in {"accepted", "aborted"} \/ Cleaned)
  /\ pending # <<>> ~> Cleaned
  /\ FreesWhatLives

\* What stays allocated when the unit has been freed: the mangled names, which have
\* no free, and what the parser had taken for something it did not keep - an optional
\* parse it gave up or a statement that failed (src/ast.c:68, 356, 454, 479, 514).
\* Of an accepted unit with nothing swallowed only the name of each header is left.
LeaksKnown ==
  Cleaned =>
    /\ \A a \in live : a[1] = "mangled" \/ a[2] \in dropped \cup failed
    /\ mode = "accepted" /\ dropped = {} =>
         live = {<<"mangled", a[2]>> : a \in {b \in ToSet(freed) : b[1] = "function_header"}}
=============================================================================
