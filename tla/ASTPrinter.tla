----------------------------- MODULE ASTPrinter -----------------------------
(***************************************************************************)
(* jac_print_unit of src/ast.c: a line for each node, indented by its      *)
(* depth.  The wording of a line is its label, what it shows of the AST a  *)
(* token.  For TLC only (recursive).                                       *)
(***************************************************************************)
EXTENDS Parser, SequencesExt

CONSTANTS
  Indent,  \* the parameter of jac_print_unit
  Unset    \* what a ret_type.indirection that was never set may hold

Line(level, label, shows) == << [level |-> level, label |-> label, shows |-> shows] >>
indented(level, label)    == Line(level, label, 0)
print_token(leaf, label, level) == Line(level, label, leaf.at)

Lines(print(_, _), nodes, level) == FlattenSeq([k \in DOMAIN nodes |-> print(nodes[k], level)])

-----------------------------------------------------------------------------

\* A level deeper behind the line of a pointer.
print_indirect(indirection, level, print(_)) ==
  IF indirection > 0
  THEN Line(level, "pointer", indirection) \o print(level + Indent) ELSE print(level)

indirection(type) == (Len(type.kids) - 1) % 256

print_type(type, level) ==
  LET leaf    == Last(type.kids)
      label   == IF tokens[leaf.at] = "identifier" THEN "custom" ELSE "intrinsic"
      kind(l) == print_token(leaf, label, l)
  IN  print_indirect(indirection(type), level, kind)

\* JAC_TYPE_NONE, with an indirection that was not set
print_no_type(level, unset) ==
  LET none(l) == indented(l, "none") IN print_indirect(unset, level, none)

print_variable_declaration(declaration, level) ==
  indented(level, "variable_declaration")
    \o print_token(declaration.kids[2], "id", level + Indent)
    \o print_type(declaration.kids[1], level + Indent)

RECURSIVE print_expression(_, _)

print_statement_expression_call(call, level) ==
  indented(level, "statement_expression_call")
    \o print_token(call.kids[1], "id", level + Indent)
    \o Lines(print_expression, Tail(call.kids), level + Indent)

print_variable_definition(var_def, level) ==
  indented(level, "variable_definition")
    \o print_variable_declaration(var_def.kids[1], level + Indent)
    \o print_expression(var_def.kids[2], level + Indent)

print_assignment(assignment, level) ==
  indented(level, "assignment")
    \o print_token(assignment.kids[1], "id", level + Indent)
    \o print_expression(assignment.kids[2], level + Indent)

print_statement_expression(expr_statement, level) ==
  LET node  == expr_statement.kids[1]
      below == level + Indent
  IN  indented(level, "statement_expression") \o
        CASE node.fn = "statement_expression_call" -> print_statement_expression_call(node, below)
          [] node.fn = "variable_definition" -> print_variable_definition(node, below)
          [] node.fn = "assignment" -> print_assignment(node, below)

\* Mutant of print_expression: a reference is printed as what it refers to.
print_expression_NoRef(expression, level) ==
  LET node  == expression.kids[1]
      below == level + Indent
  IN  indented(level, "expression") \o
        CASE node.fn = "statement_expression" -> print_statement_expression(node, below)
          [] node.fn = "token" -> print_token(Last(expression.kids),
               IF tokens[Last(expression.kids).at] = "identifier" THEN "id" ELSE "literal", below)

print_expression(expression, level) ==
  LET node  == expression.kids[1]
      below == level + Indent
  IN  indented(level, "expression") \o
        CASE node.fn = "statement_expression" -> print_statement_expression(node, below)
          [] node.fn = "token" -> print_token(Last(expression.kids),
               CASE tokens[node.at] = "&" -> "ref" [] tokens[node.at] = "identifier" -> "id"
                 [] OTHER -> "literal", below)

print_statement_return(ret, level) ==
  indented(level, "statement_return")
    \o IF ret.kids = <<>> THEN indented(level + Indent, "none_type")
       ELSE print_expression(ret.kids[1], level + Indent)

RECURSIVE print_block(_, _)
print_block(block, level) ==
  LET print(statement, below) ==
        LET node == statement.kids[1]
        IN  CASE node.fn = "statement_return" -> print_statement_return(node, below)
              [] node.fn = "block" -> print_block(node, below)
              [] node.fn = "statement_expression" -> print_statement_expression(node, below)
  IN  indented(level, "block") \o Lines(print, block.kids, level + Indent)

print_function_header(header, level, unset) ==
  LET parts == Tail(header.kids)
      args  == SelectSeq(parts, LAMBDA part : part.fn = "variable_declaration")
      below == level + Indent
  IN  indented(level, "function_header")
        \o print_token(header.kids[1], "id", below)
        \o print_token(header.kids[1], "mangled", below)
        \o (IF Len(parts) = Len(args) THEN print_no_type(below, unset)
            ELSE print_type(Last(parts), below))
        \o Lines(print_variable_declaration, args, below)

print_extern_block(block, level, unset) ==
  LET print(header, below) == print_function_header(header, below, unset)
  IN  indented(level, "extern_block") \o Lines(print, block.kids, level + Indent)

print_function_definition(func_def, level, unset) ==
  indented(level, "function_definition")
    \o print_function_header(func_def.kids[1], level + Indent, unset)
    \o print_block(func_def.kids[2], level + Indent)

jac_print_unit(nodes, unset) ==
  LET print(statement, level) ==
        LET node == statement.kids[1]
        IN  IF node.fn = "function_definition" THEN print_function_definition(node, level, unset)
            ELSE print_extern_block(node, level, unset)
  IN  indented(0, "unit") \o Lines(print, nodes, Indent)

-----------------------------------------------------------------------------
(***************************************************************************)
(* The listing is read back by its indentation alone.                      *)
(***************************************************************************)

Tree(label, shows, below) == [label |-> label, shows |-> shows, below |-> below]

\* The trees a listing shows: a line stands above those that follow it deeper.
RECURSIVE Forest(_)
Forest(lines) ==
  LET tops == SetToSortSeq({k \in DOMAIN lines : \A j \in 1 .. k : lines[j].level >= lines[k].level},
                           LAMBDA a, b : a < b)
      end(t) == IF t = Len(tops) THEN Len(lines) ELSE tops[t + 1] - 1
  IN  [t \in DOMAIN tops |->
         Tree(lines[tops[t]].label, lines[tops[t]].shows,
              Forest(SubSeq(lines, tops[t] + 1, end(t))))]

Leaf0(label)       == Tree(label, 0, <<>>)
Pointed(stars, of) == IF stars > 0 THEN Tree("pointer", stars, <<of>>) ELSE of

\* The tree of an AST node.
RECURSIVE Shape(_, _)
Shape(node, unset) ==
  LET Named(k, label) == Tree(label, node.kids[k].at, <<>>)
      Of(k)  == Shape(node.kids[k], unset)
      All    == [k \in DOMAIN node.kids |-> Of(k)]
      first  == IF node.kids = <<>> THEN "none" ELSE node.kids[1].fn
      last   == Len(node.kids)
      kind   == tokens[node.kids[last].at]
  IN  CASE node.fn \in {"unit_statement", "scope_statement"} -> Of(1)
        [] node.fn = "expression" /\ first = "token" ->
             Tree(node.fn, 0, <<Named(last, CASE last = 2 -> "ref" [] kind = "identifier" -> "id"
                                              [] OTHER -> "literal")>>)
        [] node.fn = "type" ->
             Pointed(last - 1, Named(last, IF kind = "identifier" THEN "custom" ELSE "intrinsic"))
        [] node.fn = "variable_declaration" -> Tree(node.fn, 0, <<Named(2, "id"), Of(1)>>)
        [] node.fn = "function_header" ->
             LET type == IF node.kids[last].fn = "type" THEN Of(last)
                         ELSE Pointed(unset, Leaf0("none"))
                 args == SelectSeq(Tail(node.kids), LAMBDA part : part.fn = "variable_declaration")
             IN  Tree(node.fn, 0, <<Named(1, "id"), Named(1, "mangled"), type>>
                                    \o [k \in DOMAIN args |-> Shape(args[k], unset)])
        [] node.fn \in {"statement_expression_call", "assignment"} ->
             Tree(node.fn, 0, <<Named(1, "id")>> \o [k \in 1 .. last - 1 |-> Of(k + 1)])
        [] node.fn = "statement_return" /\ first = "none" ->
             Tree(node.fn, 0, <<Leaf0("none_type")>>)
        [] OTHER -> Tree(node.fn, 0, All)

\* From the listing of an accepted unit the AST can be read back: each node is under
\* its parent, in order, with the tokens it holds, but for the unset pointers before
\* the `none' of a header without a return type (jac_print_unit).
ListingShowsTheAst ==
  mode = "accepted" =>
    \A unset \in Unset :
      Forest(jac_print_unit(unit, unset)) =
        <<Tree("unit", 0, [k \in DOMAIN unit |-> Shape(unit[k], unset)])>>
=============================================================================
