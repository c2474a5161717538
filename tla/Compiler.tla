------------------------------ MODULE Compiler ------------------------------
(***************************************************************************)
(* main of src/main.c around the parser with its heap (Ownership), the     *)
(* arena that the parser puts its nodes into, the checker and the printer  *)
(* of the IR, which run here as their own modules have them: the checker   *)
(* on the AST of the parser, the printer on the IR of the checker.  The    *)
(* tokenizer is one step: what may come of it is shown by Lexer.           *)
(*                                                                         *)
(* A step that reads what is not the program's may end in "crashed", which *)
(* stands for all that may come of it but one: that it reads what was      *)
(* there before, and goes on.                                              *)
(***************************************************************************)
EXTENDS Ownership

CONSTANTS
  Spellings,   \* the identifiers of functions
  Reserve,     \* of Arena: the bytes reserved for the nodes,
  NodeSize,    \* the size of each kind of node,
  FirstBytes,  \* and the first byte of the first one
  Size, Mapped, MaxStars,   \* of IRPrinter
  Plain        \* sources in which every header has one argument and a return type,
               \* no two of them the same arguments, and every body literal returns

\* The tokens are counted in a size_t, and what lies behind an array ends before its
\* values do.
ASSUME SizeAssumption ==
  /\ Size \in Nat /\ Mapped \in Nat /\ Mapped + 1 < Size
  /\ \A stream \in TokenStreams : Len(stream) < Size

ASSUME ArenaAssumption ==
  /\ Reserve \in Nat /\ Reserve > 1 /\ FirstBytes \subseteq 0 .. 255
  /\ NodeSize \in [{"expression", "statement_expression_call", "assignment",
                    "variable_definition", "statement_expression", "statement_return",
                    "function_definition"} -> Nat \ {0}]

VARIABLES
  at,          \* the call main is at, or what it ends with
  held,        \* what main has to free, and the IR
  todo,        \* what it goes on to free
  contained,   \* does the tokenizer stay in the buffer?
  names,       \* the spelling of the identifier at each token
  \* the variables of Arena: memory, top, objects and block
  memory, stride_top, objects, home,
  \* the variables of Checker: unit, mode, success and diags, and the others
  checked, checking, passed, complaints,
  s, i, functions, array, place, parent_fn, new_block,
  \* those of IRPrinter: functions, at, f, i and arg, and the others
  printed, printing, pf, pi, parg, out, undefined

arenaVars   == <<memory, stride_top, objects, home>>
parserVars  == <<vars, heap, arenaVars>>
checkerVars == <<checked, checking, passed, complaints,
                 s, i, functions, array, place, parent_fn, new_block>>
printerVars == <<printed, printing, pf, pi, parg, out, undefined>>
mainVars    == <<at, held, todo, contained, names>>

Nodes == INSTANCE Arena WITH
  Sizes <- {NodeSize[kind] : kind \in DOMAIN NodeSize}, MaxBytes <- 0,
  top <- stride_top, block <- home, pc <- IF at = "aborted" THEN "aborted" ELSE "live"

Check == INSTANCE Checker WITH
  Units <- {}, unit <- checked, mode <- checking, success <- passed, diags <- complaints

Listing == INSTANCE IRPrinter WITH
  IRs <- {}, functions <- printed, at <- printing, f <- pf, i <- pi, arg <- parg

\* main frees and returns 0, or 1 after an error.
Freeing == {"finish", "give up"}
Ends    == {"exit 0", "exit 1", "aborted", "crashed"}

CompilerInit ==
  /\ HeapInit
  /\ at = "start" /\ held = {} /\ todo = <<>>
  /\ contained = FALSE
  /\ names \in [{k \in DOMAIN tokens : k > 1 /\ tokens[k - 1] = "func"} -> Spellings]
  /\ memory = Nodes!new_impl(Reserve) /\ stride_top = 0 /\ objects = <<>> /\ home = 0
  /\ checked = <<>> /\ checking = "unit" /\ passed = TRUE /\ complaints = 0
  /\ s = 1 /\ i = 1 /\ functions = <<>> /\ array = Check!new_impl(0) /\ place = 0
  /\ parent_fn = [place |-> 0, at |-> 0] /\ new_block = Check!EmptyBlock(0)
  /\ printed = <<>> /\ printing = "function" /\ pf = 1 /\ pi = 0 /\ parg = 0
  /\ out = <<>> /\ undefined = {}

-----------------------------------------------------------------------------
(***************************************************************************)
(* The nodes of the AST in the arena.                                      *)
(***************************************************************************)

\* The kinds of nodes that a parse_* function puts into the arena: the last thing it does
\* before it returns true.
InArena ==
  [variable_definition  |-> {"expression"},
   assignment           |-> {"expression"},
   statement_return     |-> {"expression"},
   expression           |-> {"statement_expression"},
   statement_expression |-> {"statement_expression_call", "assignment", "variable_definition"},
   scope_statement      |-> {"statement_return", "statement_expression"},
   unit_statement       |-> {"function_definition"}]

\* The function on top of the stack is about to store a node.
Stores ==
  /\ mode = "parse" /\ top.todo = <<>>
  /\ top.fn \in DOMAIN InArena /\ top.kids # <<>>
  /\ Last(top.kids).fn \in InArena[top.fn]

Stored == NodeSize[Last(top.kids).fn]

\* A growth has moved the array away from a node.
LeftBehind == \E k \in DOMAIN objects : objects[k].block # home

\* A node was written behind what is allocated.
Overrun == \E k \in DOMAIN objects : objects[k].to >= memory.room

\* What the nodes of the AST are read from.
NodeBlocks == IF LeftBehind THEN {"arena", "old arena"} ELSE {"arena"}

\* jac_free_unit reads them as it comes to them.
FreeReads ==
  IF pending # <<>> /\ \E fn \in DOMAIN InArena : Head(pending).fn \in InArena[fn]
  THEN NodeBlocks ELSE {}

-----------------------------------------------------------------------------
(***************************************************************************)
(* The AST of the parser, as the checker reads it.                         *)
(***************************************************************************)

\* A header's name stands before its arguments, its return type behind them.
HasType(node)    == Last(node.kids).fn = "type"
Parameters(node) == Tail(IF HasType(node) THEN Front(node.kids) ELSE node.kids)

\* type->indirection is a byte.
Stars(parameter) == (Len(parameter.kids[1].kids) - 1) % 256


\* identifier, stars and kinds of the argument types: all that is mangled (custom
\* types have one spelling)
Header(node) ==
  LET args == Parameters(node)
      type(part) == <<Stars(part), tokens[Last(part.kids[1].kids).at]>>
  IN  [mangled |-> <<names[node.kids[1].at], [k \in DOMAIN args |-> type(args[k])]>>,
       args    |-> [k \in DOMAIN args |-> Stars(args[k])],
       returns |-> HasType(node)]

Expression(node) ==
  LET first == node.kids[1]
      kind  == IF first.fn # "token" THEN "statement"
               ELSE IF tokens[first.at] \in {"int_literal", "str_literal"} THEN "literal"
               ELSE tokens[first.at]
  IN  Check!Expression(kind, first.at)

ScopeStatement(node) ==
  LET kind == node.kids[1].fn
      kids == node.kids[1].kids
  IN  IF kind = "statement_return"
      THEN Check!Return(IF kids = <<>> THEN Check!NULL ELSE Expression(kids[1]))
      ELSE [holds |-> kind]

UnitStatement(node) ==
  LET kids == node.kids[1].kids
  IN  IF node.kids[1].fn = "extern_block"
      THEN Check!Extern([k \in DOMAIN kids |-> Header(kids[k])])
      ELSE Check!Definition(Header(kids[1]),
                            [k \in DOMAIN kids[2].kids |-> ScopeStatement(kids[2].kids[k])])

\* A function of the IR, as the printer reads it.
Printed(function) ==
  [args |-> function.header.args, returns |-> function.header.returns,
   is_declaration |-> function.is_declaration,
   blocks |-> [b \in DOMAIN function.blocks |->
                 [k \in DOMAIN function.blocks[b].instructions |->
                    function.blocks[b].instructions[k].operands[1]]]]

-----------------------------------------------------------------------------
(***************************************************************************)
(* main.                                                                   *)
(***************************************************************************)

\* No argument, or a file that cannot be opened.
NoFile ==
  /\ at = "start"
  /\ at' \in {"exit 0", "exit 1"}
  /\ UNCHANGED <<parserVars, checkerVars, printerVars, held, todo, contained, names>>

\* The buffer is one byte longer than the file, and fread does not write that byte; and
\* a terminated text may end in a comment or in a string that is not closed.
ReadFile ==
  /\ at = "start"
  /\ at' = "tokenize" /\ held' = {"source"}
  /\ contained' \in BOOLEAN
  /\ UNCHANGED <<parserVars, checkerVars, printerVars, todo, names>>

\* jac_tokenize returns an array or NULL; or it leaves the buffer.  The arena is reserved
\* behind it.
Tokenize ==
  /\ at = "tokenize"
  /\ \/ at' = "parse" /\ held' = held \cup {"tokens", "arena"} /\ UNCHANGED todo
     \/ at' = "give up" /\ todo' = <<"source">> /\ UNCHANGED held
     \/ ~contained /\ at' = "crashed" /\ UNCHANGED <<held, todo>>
  /\ UNCHANGED <<parserVars, checkerVars, printerVars, contained, names>>

\* A step of jac_parse_unit, with the node that it stores.
Parse ==
  /\ at = "parse" /\ (mode \notin Final \/ pending # <<>>)
  /\ HeapNext
  /\ UNCHANGED <<mainVars, checkerVars, printerVars>>
  /\ IF Stores THEN \E first_byte \in FirstBytes : Nodes!jac_arena_alloc(Stored, first_byte)
               ELSE UNCHANGED arenaVars

\* The assertion of darray_resize_impl stops it.
ParseAborts ==
  /\ at = "parse" /\ Stores /\ at' = "aborted"
  /\ Nodes!ReallocFails(Stored)
  /\ UNCHANGED <<vars, heap, checkerVars, printerVars, held, todo, contained, names>>

\* Mutant of Parsed: main frees the arena and the tokens only.
Parsed_KeepsSource ==
  /\ at = "parse" /\ mode \in Final /\ pending = <<>>
  /\ at' = CASE mode = "accepted" -> "check" [] mode = "rejected" -> "give up"
             [] OTHER -> "aborted"
  /\ todo' = IF mode = "rejected" THEN <<"arena", "tokens">> ELSE <<>>
  /\ held' = IF mode = "accepted" THEN held \cup {"ir"} ELSE held
  /\ checked' = [k \in DOMAIN unit |-> UnitStatement(unit[k])]
  /\ UNCHANGED <<parserVars, printerVars, contained, names, checking, passed, complaints,
                 s, i, functions, array, place, parent_fn, new_block>>

\* jac_parse_unit has returned; if TRUE, jac_check_unit is called.
Parsed ==
  /\ at = "parse" /\ mode \in Final /\ pending = <<>>
  /\ at' = CASE mode = "accepted" -> "check" [] mode = "rejected" -> "give up"
             [] OTHER -> "aborted"
  /\ todo' = IF mode = "rejected" THEN <<"arena", "tokens", "source">> ELSE <<>>
  /\ held' = IF mode = "accepted" THEN held \cup {"ir"} ELSE held
  /\ checked' = [k \in DOMAIN unit |-> UnitStatement(unit[k])]
  /\ UNCHANGED <<parserVars, printerVars, contained, names, checking, passed, complaints,
                 s, i, functions, array, place, parent_fn, new_block>>

CheckUnit ==
  /\ at = "check" /\ checking \notin Check!Final
  /\ Check!Next
  /\ UNCHANGED <<mainVars, parserVars, printerVars>>

HandOver == printed' = [k \in DOMAIN functions |-> Printed(functions[k])]

\* Mutant of Checked: the result of jac_check_unit is not looked at.
Checked_Ignored ==
  /\ at = "check" /\ checking \in Check!Final
  /\ at' = IF checking \in {"passed", "failed"} THEN "print" ELSE checking
  /\ HandOver
  /\ UNCHANGED <<parserVars, checkerVars, held, todo, contained, names,
                 printing, pf, pi, parg, out, undefined>>

\* jac_check_unit has returned; if TRUE, jac_print_ir is called.
Checked ==
  /\ at = "check" /\ checking \in Check!Final
  /\ at' = CASE checking = "passed" -> "print" [] checking = "failed" -> "give up"
             [] OTHER -> checking
  /\ todo' = IF checking = "failed" THEN <<"arena", "tokens", "source">> ELSE <<>>
  /\ HandOver
  /\ UNCHANGED <<parserVars, checkerVars, held, contained, names,
                 printing, pf, pi, parg, out, undefined>>

PrintIR ==
  /\ at = "print" /\ printing \notin Listing!Final
  /\ Listing!Next
  /\ UNCHANGED <<mainVars, parserVars, checkerVars>>

\* Mutant of Finished: the arena is freed before the unit whose nodes are in it.
Finished_ArenaFirst ==
  /\ at = "print" /\ printing \in Listing!Final
  /\ at' = IF printing = "printed" THEN "finish" ELSE printing
  /\ todo' = <<"arena", "unit", "tokens", "source">>
  /\ UNCHANGED <<parserVars, checkerVars, printerVars, held, contained, names>>

\* jac_print_ir has returned, or stopped in a read.
Finished ==
  /\ at = "print" /\ printing \in Listing!Final
  /\ at' = IF printing = "printed" THEN "finish" ELSE printing
  /\ todo' = <<"unit", "arena", "tokens", "source">>
  /\ UNCHANGED <<parserVars, checkerVars, printerVars, held, contained, names>>

\* jac_free_arena, jac_free_tokens, free; the order is todo's.
Release ==
  /\ at \in Freeing /\ todo # <<>> /\ Head(todo) # "unit"
  /\ held' = held \ {Head(todo)}
  /\ todo' = Tail(todo)
  /\ UNCHANGED <<parserVars, checkerVars, printerVars, at, contained, names>>

\* jac_free_unit
ReleaseUnit ==
  /\ at \in Freeing /\ todo # <<>> /\ Head(todo) = "unit"
  /\ FreeUnit \/ FreeNode \/ FreeArray
  /\ UNCHANGED arenaVars
  /\ todo' = IF pending' = <<>> THEN Tail(todo) ELSE todo
  /\ UNCHANGED <<checkerVars, printerVars, at, held, contained, names>>

Exit ==
  /\ at \in Freeing /\ todo = <<>>
  /\ at' = IF at = "finish" THEN "exit 0" ELSE "exit 1"
  /\ UNCHANGED <<parserVars, checkerVars, printerVars, held, todo, contained, names>>

\* What each call of main reads: tokens point into the source, the AST and the IR to
\* tokens, the nodes of the AST are in the arena - or where they were before it moved.
Reads ==
  CASE at = "tokenize" -> {"source"}
    [] at = "parse"    -> {"source", "tokens", "arena"} \cup FreeReads
    [] at = "check"    -> {"source", "tokens"} \cup NodeBlocks
    [] at = "print"    -> {"tokens", "ir"}
    [] at \in Freeing /\ todo # <<>> -> IF Head(todo) = "unit" THEN FreeReads ELSE {Head(todo)}
    [] OTHER           -> {}

\* A node is read that a growth has left behind, in a block that realloc has freed; or one
\* was written over what lies behind the arena.
Strays ==
  /\ "old arena" \in Reads \/ (Overrun /\ at \notin Ends)
  /\ at' = "crashed"
  /\ UNCHANGED <<parserVars, checkerVars, printerVars, held, todo, contained, names>>

CompilerNext ==
  \/ NoFile \/ ReadFile \/ Tokenize \/ Parse \/ ParseAborts \/ Parsed \/ CheckUnit
  \/ Checked \/ PrintIR \/ Finished \/ Release \/ ReleaseUnit \/ Exit \/ Strays

CompilerVars == <<parserVars, checkerVars, printerVars, mainVars>>

CompilerSpec == CompilerInit /\ [][CompilerNext]_CompilerVars /\ WF_CompilerVars(CompilerNext)

-----------------------------------------------------------------------------
(***************************************************************************)
(* Properties.                                                             *)
(***************************************************************************)

Ended == at \in Ends

\* The nodes take no more than what src/main.c reserves, see SafeWithinReserve of Arena.
WithinReserve == memory.count <= Reserve + 2

\* No call of main reads or frees what has been freed, on any of its ways out, but for the
\* blocks that a growing arena leaves to realloc while the AST points into them; and not
\* those either, as long as the nodes fit into what src/main.c reserves.  The unit is there
\* as long as the checker and the printer run (main, jac_arena_alloc_impl).
ReadsWhatIsLive ==
  /\ Reads \subseteq held \cup {"old arena"}
  /\ WithinReserve => Reads \subseteq held
  /\ at \in {"check", "print"} => <<"unit", 0>> \in live

\* When main returns, it has freed what is its own; the IR stays, if there is one, and
\* the unit exactly if the check failed (src/main.c:61-67, 108-114).
LeftAtExit ==
  at \in {"exit 0", "exit 1"} =>
    /\ held = IF mode = "accepted" THEN {"ir"} ELSE {}
    /\ (<<"unit", 0>> \in live /\ mode = "accepted") <=> checking = "failed"

\* The functions and returns of a source, and those of what was printed.
TokenShows(token) == IF token \in {"func", "return"} THEN <<token>> ELSE <<>>
PieceShows(x) ==
  CASE x.piece = "header" -> <<"func">> [] x.piece = "ret" -> <<"return">> [] OTHER -> <<>>

InSource == FlattenSeq([k \in DOMAIN tokens |-> TokenShows(tokens[k])])
InOutput == FlattenSeq([k \in DOMAIN out |-> PieceShows(out[k])])

\* The status is 0 only for a source of which every function and every return has
\* come through parser, checker and printer, in order, without a complaint; and 1
\* only with one (main, jac_parse_unit, jac_check_unit).
StatusIsTrue ==
  mode \in Final =>
    /\ at = "exit 0" => diags = 0 /\ complaints = 0 /\ InOutput = InSource
    /\ at = "exit 1" => diags + complaints > 0


\* What the printer reads unset, and what it prints, on the IR that the checker made
\* (jac_print_ir).
UnsetReads      == Listing!UnsetReads
OutIsTheListing == Listing!OutIsTheListing

\* main returns, or the program stops in an assertion or a read.
CompilerTermination == <>Ended

\* A source that docs/GRAMMAR.md derives, as those of the run are - accepted, with every
\* token in the AST - does not stop the compiler: "scope_statement := RETURN expression? ';'
\* | expression_statement ';' | block", and the two "?" of function_header.
GrammarCompiles ==
  mode = "accepted" /\ dropped = {} => at \notin {"aborted", "crashed"}
=============================================================================
