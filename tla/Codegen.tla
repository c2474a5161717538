------------------------------ MODULE Codegen ------------------------------
(***************************************************************************)
(* jac_generate_unit of src/gen.c, which is left out of the build          *)
(* (CMakeLists.txt:8) and reads an AST of that time.  The recursion of the *)
(* generate_* functions is a list of what is left to do, innermost first.  *)
(* An instruction is a record; identifiers and literals are values.        *)
(***************************************************************************)
EXTENDS Integers, Sequences, SequencesExt

CONSTANTS
  Units,      \* the ASTs
  Registers,  \* the size of argument_registers
  MaxDepth    \* the nesting of calls the machine's stack has room for

ASSUME CodegenAssumption == Registers \in Nat /\ MaxDepth \in Nat

VARIABLES
  unit,          \* the parameter
  u,             \* the statement its loop is at
  todo,          \* what the functions that run have still to do
  variables,     \* the local of generate_function_definition: names and expressions
  str_literals,  \* the literals that have a label
  rodata, text,  \* the sections
  mode           \* "running", or how the generator has ended

vars == <<unit, u, todo, variables, str_literals, rodata, text, mode>>

\* The nodes of the AST.  An expression that holds an expression statement is that
\* statement; a return without an expression has NULL there.
Integer(chars)    == [holds |-> "int_literal", value |-> chars]
String(chars)     == [holds |-> "str_literal", value |-> chars]
Identifier(x)     == [holds |-> "identifier", id |-> x]
Addrof(x)         == [holds |-> "addrof", id |-> x]
Call(x, args)     == [holds |-> "call", id |-> x, args |-> args]
Variable(x, e)    == [holds |-> "variable_definition", id |-> x, expression |-> e]
Assignment(x, e)  == [holds |-> "assignment", id |-> x, expression |-> e]
Return(e)         == [holds |-> "return", expression |-> e]
Block(ss)         == [holds |-> "block", statements |-> ss]
NULL              == [holds |-> "NULL"]
Extern(ids)       == [holds |-> "extern_block", ids |-> ids]
Function(x, n, b) == [holds |-> "function_definition", id |-> x, params |-> n, block |-> b]

Ins(op, a)     == [op |-> op, a |-> a]
Emit(code)     == [do |-> "emit", code |-> code]
Generate(e, d) == [do |-> "generate", node |-> e, depth |-> d]
PopArgument(k) == [do |-> "pop argument", k |-> k]
Define(node)   == [do |-> "define", node |-> node]

NUL == "NUL"

\* What strcmp sees of a literal, which may have a NUL in it.
cstr(chars) == SubSeq(chars, 1, SelectInSeq(Append(chars, NUL), LAMBDA ch : ch = NUL) - 1)

-----------------------------------------------------------------------------

\* _start calls main and exits with what it returns.
Init ==
  /\ unit \in Units
  /\ u = 1 /\ todo = <<>> /\ variables = <<>> /\ str_literals = <<>> /\ rodata = <<>>
  /\ text = <<Ins("label", "_start"), Ins("call", "main"), Ins("exit", "rax")>>
  /\ mode = "running"

AtStatement == mode = "running" /\ todo = <<>> /\ u <= Len(unit)

Stop(how) ==
  /\ mode' = how
  /\ UNCHANGED <<unit, u, todo, variables, str_literals, rodata, text>>

generate_extern_block ==
  /\ AtStatement /\ unit[u].holds = "extern_block"
  /\ text' = text \o [k \in DOMAIN unit[u].ids |-> Ins("extern", unit[u].ids[k])]
  /\ u' = u + 1
  /\ UNCHANGED <<unit, todo, variables, str_literals, rodata, mode>>

\* The frame, in words: the parameters, rounded up to 16 bytes, and one.
Frame(params) == 2 * ((params + 1) \div 2) + 1

\* The registers are stored as the first words of the frame; their names are not
\* among the variables.
generate_function_definition ==
  /\ AtStatement /\ unit[u].holds = "function_definition"
  /\ unit[u].params <= Registers
  /\ text' = text \o <<Ins("label", unit[u].id), Ins("enter", Frame(unit[u].params))>>
                  \o [k \in 1 .. unit[u].params |-> Ins("store argument", k - 1)]
  /\ variables' = <<>>
  /\ todo' = <<Generate(Block(unit[u].block), 1),
               Emit(<<Ins("label", ".ret"), Ins("leave", "rbp"), Ins("ret", "rbp")>>)>>
  /\ u' = u + 1
  /\ UNCHANGED <<unit, str_literals, rodata, mode>>

TooManyParameters ==
  /\ AtStatement /\ unit[u].holds = "function_definition"
  /\ unit[u].params > Registers
  /\ Stop("overrun")

item == Head(todo)
node == item.node

Doing(what) == mode = "running" /\ todo # <<>> /\ item.do = what

\* A generate_* function starts on a node.
At(kind) == Doing("generate") /\ item.depth <= MaxDepth /\ node.holds = kind

Below(e)   == Generate(e, item.depth + 1)
Then(next) == todo' = next \o Tail(todo)

EmitCode ==
  /\ Doing("emit")
  /\ text' = text \o item.code /\ Then(<<>>)
  /\ UNCHANGED <<unit, u, variables, str_literals, rodata, mode>>

Overflow == Doing("generate") /\ item.depth > MaxDepth /\ Stop("overflow")

-----------------------------------------------------------------------------
(***************************************************************************)
(* Expressions.                                                            *)
(***************************************************************************)

generate_int_literal ==
  /\ At("int_literal")
  /\ text' = Append(text, Ins("push", node.value)) /\ Then(<<>>)
  /\ UNCHANGED <<unit, u, variables, str_literals, rodata, mode>>

\* `of' is a history: the literal that the label stands for.
PushString(k) == [op |-> "push string", a |-> k, of |-> node.value]

known == SelectInSeq(str_literals, LAMBDA literal : cstr(literal) = cstr(node.value))

\* Mutant of generate_str_literal: the new literal is not kept.
generate_str_literal_Forgets ==
  /\ At("str_literal")
  /\ IF known # 0
     THEN text' = Append(text, PushString(known - 1)) /\ UNCHANGED rodata
     ELSE /\ rodata' = Append(rodata, [label |-> Len(str_literals), bytes |-> node.value])
          /\ text' = Append(text, PushString(Len(str_literals)))
  /\ Then(<<>>)
  /\ UNCHANGED <<unit, u, variables, str_literals, mode>>

generate_str_literal ==
  /\ At("str_literal")
  /\ IF known # 0
     THEN text' = Append(text, PushString(known - 1)) /\ UNCHANGED <<str_literals, rodata>>
     ELSE /\ rodata' = Append(rodata, [label |-> Len(str_literals), bytes |-> node.value])
          /\ str_literals' = Append(str_literals, node.value)
          /\ text' = Append(text, PushString(Len(str_literals)))
  /\ Then(<<>>)
  /\ UNCHANGED <<unit, u, variables, mode>>

\* Mutant of generate_statement_expression_call: what is returned is not pushed.
generate_call_NoPush ==
  /\ At("call")
  /\ Then(FlattenSeq([k \in DOMAIN node.args |-> <<Below(node.args[k]), PopArgument(k - 1)>>])
            \o <<Emit(<<Ins("xor", "rax"), Ins("call", node.id)>>)>>)
  /\ UNCHANGED <<unit, u, variables, str_literals, rodata, text, mode>>

generate_statement_expression_call ==
  /\ At("call")
  /\ Then(FlattenSeq([k \in DOMAIN node.args |-> <<Below(node.args[k]), PopArgument(k - 1)>>])
            \o <<Emit(<<Ins("xor", "rax"), Ins("call", node.id), Ins("push", "rax")>>)>>)
  /\ UNCHANGED <<unit, u, variables, str_literals, rodata, text, mode>>

PopToRegister ==
  /\ Doing("pop argument") /\ item.k < Registers
  /\ text' = Append(text, Ins("pop argument", item.k)) /\ Then(<<>>)
  /\ UNCHANGED <<unit, u, variables, str_literals, rodata, mode>>

TooManyArguments == Doing("pop argument") /\ item.k >= Registers /\ Stop("overrun")

\* Mutant of generate_variable_definition: the variable is there in its own expression.
generate_variable_definition_First ==
  /\ At("variable_definition")
  /\ variables' = Append(variables, node)
  /\ Then(<<Below(node.expression), Emit(<<Ins("pop", "rax"), Ins("store", Len(variables))>>)>>)
  /\ UNCHANGED <<unit, u, str_literals, rodata, text, mode>>

generate_variable_definition ==
  /\ At("variable_definition")
  /\ Then(<<Below(node.expression), Define(node)>>)
  /\ UNCHANGED <<unit, u, variables, str_literals, rodata, text, mode>>

DefineVariable ==
  /\ Doing("define")
  /\ text' = text \o <<Ins("pop", "rax"), Ins("store", Len(variables))>>
  /\ variables' = Append(variables, node)
  /\ Then(<<>>)
  /\ UNCHANGED <<unit, u, str_literals, rodata, mode>>

\* The first variable of that name, 0 if there is none.
place == SelectInSeq(variables, LAMBDA variable : variable.id = node.id)

\* Mutant of generate_assignment: the variable keeps its expression.
generate_assignment_Forgets ==
  /\ At("assignment") /\ place # 0
  /\ Then(<<Below(node.expression)>>)
  /\ UNCHANGED <<unit, u, variables, str_literals, rodata, text, mode>>

generate_assignment ==
  /\ At("assignment") /\ place # 0
  /\ variables' = [variables EXCEPT ![place] = Variable(node.id, node.expression)]
  /\ Then(<<Below(node.expression)>>)
  /\ UNCHANGED <<unit, u, str_literals, rodata, text, mode>>

\* The expression of the variable is generated once more.
generate_identifier ==
  /\ At("identifier") /\ place # 0
  /\ Then(<<Below(variables[place].expression)>>)
  /\ UNCHANGED <<unit, u, variables, str_literals, rodata, text, mode>>

generate_reference ==
  /\ At("addrof") /\ place # 0
  /\ text' = text \o <<Ins("lea", place - 1), Ins("push", "rax")>> /\ Then(<<>>)
  /\ UNCHANGED <<unit, u, variables, str_literals, rodata, mode>>

\* JAC_ASSERT(false, "undefined variable."), behind each of the three loops.
UndefinedAssignment == At("assignment") /\ place = 0 /\ Stop("aborted")
UndefinedIdentifier == At("identifier") /\ place = 0 /\ Stop("aborted")
UndefinedReference  == At("addrof") /\ place = 0 /\ Stop("aborted")

-----------------------------------------------------------------------------
(***************************************************************************)
(* Statements.                                                             *)
(***************************************************************************)

generate_statement_return ==
  /\ At("return") /\ node.expression # NULL
  /\ Then(<<Below(node.expression), Emit(<<Ins("pop", "rax"), Ins("jmp", ".ret")>>)>>)
  /\ UNCHANGED <<unit, u, variables, str_literals, rodata, text, mode>>

NullExpression == At("return") /\ node.expression = NULL /\ Stop("crashed")

generate_block ==
  /\ At("block")
  /\ Then([k \in DOMAIN node.statements |-> Below(node.statements[k])])
  /\ UNCHANGED <<unit, u, variables, str_literals, rodata, text, mode>>

Finish == mode = "running" /\ todo = <<>> /\ u > Len(unit) /\ Stop("done")

Next ==
  \/ generate_extern_block \/ generate_function_definition \/ TooManyParameters
  \/ EmitCode \/ Overflow \/ generate_int_literal \/ generate_str_literal
  \/ generate_statement_expression_call \/ PopToRegister \/ TooManyArguments
  \/ generate_variable_definition \/ DefineVariable \/ generate_assignment
  \/ generate_identifier \/ generate_reference
  \/ UndefinedAssignment \/ UndefinedIdentifier \/ UndefinedReference
  \/ generate_statement_return \/ NullExpression \/ generate_block \/ Finish

Spec == Init /\ [][Next]_vars
=============================================================================
