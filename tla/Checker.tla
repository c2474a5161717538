------------------------------ MODULE Checker ------------------------------
(***************************************************************************)
(* jac_check_unit of src/ir.c: each function header becomes a function of  *)
(* the IR, and the body of a definition a sequence of blocks, a new one    *)
(* behind each return.  The array ir->functions is followed through its    *)
(* growth, as parent_fn points into it.  A mangled name is a value.        *)
(***************************************************************************)
EXTENDS DArrayHeader, Sequences

CONSTANT Units   \* the ASTs: sequences of unit statements

\* A header is a record with a field `mangled'.  An expression is the kind of what
\* it holds and its token; a return without one has NULL there.
Extern(headers)           == [holds |-> "extern_block", headers |-> headers]
Definition(header, block) == [holds |-> "func_def", headers |-> <<header>>, block |-> block]
Return(expression)        == [holds |-> "return", expression |-> expression]
Expression(kind, token)   == [holds |-> kind, token |-> token]
NULL                      == [holds |-> "NULL"]

\* A unit statement of the parser: a definition has one header and a block.
ASSUME UnitAssumption ==
  \A u \in Units :
    /\ Len(u) \in Nat
    /\ \A k \in 1 .. Len(u) :
         /\ Len(u[k].headers) \in Nat
         /\ u[k].holds = "func_def" => Len(u[k].headers) = 1 /\ Len(u[k].block) \in Nat

VARIABLES
  unit,       \* the parameter of jac_check_unit
  s,          \* the statement its loop is at
  i,          \* the header or the scope statement the inner loop is at
  mode,       \* which function runs: jac_check_unit ("unit"), check_block, at its
              \* start ("enter") or in its loop ("block"); or how it has ended
  functions,  \* ir->functions
  array,      \* the header of that darray
  place,      \* the block of memory it is in: realloc may move it
  parent_fn,  \* checker->parent_fn: an index, and the memory it points into
  new_block,  \* the local of check_block
  success,    \* the local of jac_check_unit
  diags       \* the number of diagnostics printed

vars == <<unit, s, i, mode, functions, array, place, parent_fn, new_block, success, diags>>

Final == {"passed", "failed", "aborted", "crashed"}

EmptyBlock(id) == [id |-> id, instructions |-> <<>>]

Init ==
  /\ unit \in Units
  /\ s = 1 /\ i = 1
  /\ mode = "unit"
  /\ functions = <<>>
  /\ array = new_impl(0)
  /\ place = 0
  /\ parent_fn = [place |-> 0, at |-> 0]
  /\ new_block = EmptyBlock(0)
  /\ success = TRUE
  /\ diags = 0

statement     == unit[s]
header        == statement.headers[i]
is_definition == statement.holds = "func_def"
Redeclares    == \E f \in DOMAIN functions : functions[f].header.mangled = header.mangled

AtHeader == mode = "unit" /\ s <= Len(unit) /\ i <= Len(statement.headers)

\* Mutant of Declare: the address of the array is taken, not that of its last element.
Declare_FirstFunction ==
  /\ AtHeader /\ ~Redeclares
  /\ functions' = Append(functions, [header |-> header, is_declaration |-> ~is_definition,
                                     blocks |-> <<>>, tmp_counter |-> 0])
  /\ array' = grow_impl(array, 1)
  /\ place' \in IF Grows(array, 1) THEN {place, place + 1} ELSE {place}
  /\ parent_fn' = [place |-> place', at |-> 1]
  /\ mode' = IF is_definition THEN "enter" ELSE "unit"
  /\ i' = IF is_definition THEN 1 ELSE i + 1
  /\ UNCHANGED <<unit, s, new_block, success, diags>>

\* check_function_header pushes a function (blocks = NULL for a declaration) ...
Declare ==
  /\ AtHeader /\ ~Redeclares
  /\ functions' = Append(functions, [header |-> header, is_declaration |-> ~is_definition,
                                     blocks |-> <<>>, tmp_counter |-> 0])
  /\ array' = grow_impl(array, 1)
  /\ place' \in IF Grows(array, 1) THEN {place, place + 1} ELSE {place}
  /\ parent_fn' = [place |-> place', at |-> Len(functions')]
  /\ mode' = IF is_definition THEN "enter" ELSE "unit"
  /\ i' = IF is_definition THEN 1 ELSE i + 1
  /\ UNCHANGED <<unit, s, new_block, success, diags>>

\* Mutant of Redeclare: a redeclaration is reported, and the unit passes.
Redeclare_Tolerant ==
  /\ AtHeader /\ Redeclares
  /\ diags' = diags + 1
  /\ i' = i + 1
  /\ UNCHANGED <<unit, s, mode, functions, array, place, parent_fn, new_block, success>>

\* Mutant of Redeclare: the body of a redeclared function is checked all the same.
Redeclare_ChecksBody ==
  /\ AtHeader /\ Redeclares
  /\ diags' = diags + 1
  /\ success' = FALSE
  /\ mode' = IF is_definition THEN "enter" ELSE "unit"
  /\ i' = IF is_definition THEN 1 ELSE i + 1
  /\ UNCHANGED <<unit, s, functions, array, place, parent_fn, new_block>>

\* ... or finds one of that name; the body, if there is one, is not checked.
Redeclare ==
  /\ AtHeader /\ Redeclares
  /\ diags' = diags + 1
  /\ success' = FALSE
  /\ i' = i + 1
  /\ UNCHANGED <<unit, s, mode, functions, array, place, parent_fn, new_block>>

NextStatement ==
  /\ mode = "unit" /\ s <= Len(unit) /\ i > Len(statement.headers)
  /\ s' = s + 1 /\ i' = 1
  /\ UNCHANGED <<unit, mode, functions, array, place, parent_fn, new_block, success, diags>>

Finish ==
  /\ mode = "unit" /\ s > Len(unit)
  /\ mode' = IF success THEN "passed" ELSE "failed"
  /\ UNCHANGED <<unit, s, i, functions, array, place, parent_fn, new_block, success, diags>>

-----------------------------------------------------------------------------
(***************************************************************************)
(* check_block.  What it reads and writes through parent_fn lies where     *)
(* parent_fn points.                                                       *)
(***************************************************************************)

parent == functions[parent_fn.at]

\* *parent_fn with these blocks, and this many ids handed out
Parent(blocks, tmp_counter) ==
  [functions EXCEPT ![parent_fn.at] =
     [header |-> parent.header, is_declaration |-> parent.is_declaration,
      blocks |-> blocks, tmp_counter |-> tmp_counter]]

Enter ==
  /\ mode = "enter"
  /\ new_block' = EmptyBlock(parent.tmp_counter)
  /\ functions' = Parent(parent.blocks, parent.tmp_counter + 1)
  /\ mode' = "block"
  /\ UNCHANGED <<unit, s, i, array, place, parent_fn, success, diags>>

InLoop == mode = "block" /\ i <= Len(statement.block)
scope  == statement.block[i]

\* The block a return closes: check_expression has made an operand of the literal.
Closed == [new_block EXCEPT !.instructions =
             Append(@, [op |-> "RET", operands |-> <<scope.expression.token>>])]

\* Mutant of CheckReturn: the next block takes the number of the one just pushed.
CheckReturn_SameId ==
  /\ InLoop /\ scope.holds = "return" /\ scope.expression.holds = "literal"
  /\ functions' = Parent(Append(parent.blocks, Closed), parent.tmp_counter)
  /\ new_block' = EmptyBlock(new_block.id)
  /\ i' = i + 1
  /\ UNCHANGED <<unit, s, mode, array, place, parent_fn, success, diags>>

CheckReturn ==
  /\ InLoop /\ scope.holds = "return" /\ scope.expression.holds = "literal"
  /\ functions' = Parent(Append(parent.blocks, Closed), parent.tmp_counter + 1)
  /\ new_block' = EmptyBlock(parent.tmp_counter)
  /\ i' = i + 1
  /\ UNCHANGED <<unit, s, mode, array, place, parent_fn, success, diags>>

\* check_expression looks at what `return;' has not got.
NullExpression ==
  /\ InLoop /\ scope.holds = "return" /\ scope.expression = NULL
  /\ mode' = "crashed"
  /\ UNCHANGED <<unit, s, i, functions, array, place, parent_fn, new_block, success, diags>>

\* JAC_ASSERT(false, "unreachable."), of check_expression and of check_block
Unreachable ==
  /\ InLoop
  /\ \/ scope.holds # "return"
     \/ scope.holds = "return" /\ scope.expression.holds \notin {"literal", "NULL"}
  /\ mode' = "aborted"
  /\ UNCHANGED <<unit, s, i, functions, array, place, parent_fn, new_block, success, diags>>

EndBlock ==
  /\ mode = "block" /\ i > Len(statement.block)
  /\ functions' = Parent(Append(parent.blocks, new_block), parent.tmp_counter)
  /\ mode' = "unit"
  /\ s' = s + 1 /\ i' = 1
  /\ UNCHANGED <<unit, array, place, parent_fn, new_block, success, diags>>

Next ==
  \/ Declare \/ Redeclare \/ NextStatement \/ Finish
  \/ Enter \/ CheckReturn \/ NullExpression \/ Unreachable \/ EndBlock

Spec == Init /\ [][Next]_vars

-----------------------------------------------------------------------------
(***************************************************************************)
(* Properties.                                                             *)
(***************************************************************************)

InBody == mode \in {"enter", "block"}

TypeOK ==
  /\ s \in 1 .. Len(unit) + 1 /\ i \in Nat \ {0}
  /\ mode \in {"unit", "enter", "block"} \cup Final
  /\ array \in Headers /\ array.count = Len(functions)
  /\ place \in Nat
  /\ parent_fn.place \in 0 .. place /\ parent_fn.at \in 0 .. Len(functions)
  /\ \A f \in DOMAIN functions : /\ functions[f].is_declaration \in BOOLEAN
                                 /\ functions[f].tmp_counter \in Nat
  /\ success \in BOOLEAN /\ diags \in Nat

\* Whenever check_block goes through parent_fn, the pointer is to the memory the
\* functions are in now, however often it has moved, and to the function that the
\* running definition has made: not to one of a redeclaration that was passed over
\* (check_function_header, check_function_definition).
ParentIsCurrent ==
  InBody => /\ is_definition
            /\ parent_fn = [place |-> place, at |-> Len(functions)]
            /\ parent.header = statement.headers[1] /\ ~parent.is_declaration

\* No two functions of the IR have one mangled name, and the unit passes exactly if
\* no header has been turned away, with a diagnostic for each that was
\* (check_function_header, jac_check_unit).
DeclaredOnce ==
  /\ \A f, g \in DOMAIN functions :
       functions[f].header.mangled = functions[g].header.mangled => f = g
  /\ success <=> diags = 0
  /\ mode = "passed" => diags = 0
  /\ mode = "failed" => diags > 0

\* The blocks of a function are numbered as they lie, from 0; each but the last one
\* of a finished body ends in its only return; a declaration has none (check_block).
BlocksInOrder ==
  \A f \in DOMAIN functions :
    LET fn   == functions[f]
        open == mode \in {"block", "aborted", "crashed"} /\ f = Len(functions)
        n    == Len(fn.blocks)
    IN  /\ \A b \in 1 .. n : /\ fn.blocks[b].id = b - 1
                             /\ Len(fn.blocks[b].instructions) <= 1
                             /\ b < n \/ open => Len(fn.blocks[b].instructions) = 1
        /\ fn.tmp_counter = IF open THEN n + 1 ELSE n
        /\ open => new_block = EmptyBlock(n)
        /\ fn.is_declaration => n = 0

\* Where a header stands in the source: its statement and its position there.
Places       == UNION {{<<k, h>> : h \in 1 .. Len(unit[k].headers)} : k \in 1 .. Len(unit)}
HeaderAt(p)  == unit[p[1]].headers[p[2]]
Before(p, q) == p[1] < q[1] \/ (p[1] = q[1] /\ p[2] < q[2])
FirstOfName  == {p \in Places :
                   \A q \in Places : Before(q, p) => HeaderAt(q).mangled # HeaderAt(p).mangled}

\* The blocks that the first n statements of a body close, each with a return, and
\* those of a whole body: an empty one stands behind the last.
Returned(block, n) ==
  [b \in 1 .. n |->
     [id |-> b - 1,
      instructions |-> <<[op |-> "RET", operands |-> <<block[b].expression.token>>]>>]]

Blocks(block) == Append(Returned(block, Len(block)), EmptyBlock(Len(block)))

\* The function that the header at p becomes.
Function(p) ==
  LET defines == unit[p[1]].holds = "func_def"
      body    == IF defines THEN Blocks(unit[p[1]].block) ELSE <<>>
  IN  [header |-> HeaderAt(p), is_declaration |-> ~defines,
       blocks |-> body, tmp_counter |-> Len(body)]

\* The IR of a checked unit has a function for the first header of each name, in
\* the order of the source, with the body that stands behind that header: a block
\* for every return, and the empty one behind the last (jac_check_unit).
IRIsTheUnit ==
  mode \in {"passed", "failed"} =>
    \E at \in [DOMAIN functions -> FirstOfName] :
      /\ \A f, g \in DOMAIN functions : f < g => Before(at[f], at[g])
      /\ \A p \in FirstOfName : \E f \in DOMAIN functions : at[f] = p
      /\ \A f \in DOMAIN functions : functions[f] = Function(at[f])

Table == INSTANCE SymbolTable WITH
  table    <- [f \in DOMAIN functions |->
                 [name |-> functions[f].header.mangled, body |-> functions[f].blocks]],
  rejected <- ~success,
  verdict  <- CASE mode \in {"passed", "failed"}   -> mode
                [] mode \in {"aborted", "crashed"} -> "stopped"
                [] OTHER                          -> "open"

\* The IR is a table that only ever gains names and, at its end, the body of the
\* newest one: whatever comes later, a redeclaration among it, a function that is
\* not the last is final, and the unit passes only if none was turned away
\* (check_block through parent_fn, jac_check_unit).
ImplementsSymbolTable == Table!Spec
=============================================================================
