-------------------------- MODULE ParserReference --------------------------
(***************************************************************************)
(* The source text of an AST: what each node of src/ast.c is written as,   *)
(* by the productions the parser follows.  These are those of              *)
(* docs/GRAMMAR.md but for one: empty parentheses, behind the name of a    *)
(* call (src/ast.c:71) or of a header (src/ast.c:457), which the grammar   *)
(* does not derive (docs/GRAMMAR.md:14-18: at least one declaration, or    *)
(* expression, between them).                                              *)
(***************************************************************************)
EXTENDS Parser, SequencesExt

\* What is written for a sequence of texts, between commas.
Commas(texts) ==
  FlattenSeq([i \in DOMAIN texts |-> IF i = 1 THEN texts[i] ELSE <<",">> \o texts[i]])

\* A header without parameters may have been written with parentheses or not: by
\* docs/GRAMMAR.md:14 only without, but the parser takes both.
HasParentheses(source, header) == source[header.kids[1].at + 1] = "("

header_text(source, header, parts) ==
  LET returns == Len(parts) > 1 /\ header.kids[Len(parts)].fn = "type"
      words   == IF returns THEN Front(parts) ELSE parts
  IN  << "func" >> \o parts[1]
        \o (IF HasParentheses(source, header) THEN << "(" >> \o Commas(Tail(words)) \o << ")" >>
            ELSE << >>)
        \o (IF returns THEN << "-", ">" >> \o Last(parts) ELSE << >>)

\* What a node is written as whose kids are written as `parts'.  A call without
\* arguments has empty parentheses, which is the parser's and not the grammar's.
Text(source, node, parts) ==
  LET all == FlattenSeq(parts)
  IN  CASE node.fn = "statement_expression_call" ->
             parts[1] \o << "(" >> \o Commas(Tail(parts)) \o << ")" >>
        [] node.fn \in {"variable_definition", "assignment"} ->
             parts[1] \o << ":", "=" >> \o parts[2]
        [] node.fn = "variable_declaration" -> parts[1] \o << ":" >> \o parts[2]
        [] node.fn = "statement_return" -> << "return" >> \o all
        [] node.fn = "scope_statement" ->
             IF node.kids[1].fn = "block" THEN all ELSE Append(all, ";")
        [] node.fn = "block" -> << "{" >> \o all \o << "}" >>
        [] node.fn = "function_header" -> header_text(source, node, parts)
        [] node.fn = "extern_block" ->
             << "extern", "{" >>
               \o FlattenSeq([i \in DOMAIN parts |-> Append(parts[i], ";")]) \o << "}" >>
        [] OTHER -> all   \* expression, type, function_definition, unit_statement, ...

\* Trees over some nodes, and their texts when those of the nodes are known.
Trees(nodes) ==
  [fn : {"token"}, at : Nat] \cup [fn : Functions, at : Nat, kids : Seq(nodes)]

Texts(source, below) ==
  [tree \in Trees(DOMAIN below) |->
     IF tree.fn = "token" THEN << source[tree.at] >>
     ELSE Text(source, tree, [i \in DOMAIN tree.kids |-> below[tree.kids[i]]])]

\* The text of a node.  A tree has less than six levels for each token.
Written(source, node) ==
  LET texts[levels \in Nat] ==
        Texts(source, IF levels = 0 THEN << >> ELSE texts[levels - 1])
  IN  texts[6 * Len(source)][node]

\* The tokens of the source that were not lost, without EOF.
KeptTokens ==
  FlattenSeq([i \in 1 .. Len(tokens) - 1 |-> IF i \in dropped THEN << >> ELSE << tokens[i] >>])

\* The AST of an accepted unit is the source's: written out by the productions
\* the parser follows, which are those of docs/GRAMMAR.md and empty parentheses,
\* it gives back the tokens, in order, each once, but for those a failed optional
\* parse has swallowed (jac_parse_unit).
AstIsTheSource ==
  mode = "accepted" => FlattenSeq([i \in DOMAIN unit |-> Written(tokens, unit[i])]) = KeptTokens
=============================================================================
