---------------------------- MODULE ParserProofs ----------------------------
(***************************************************************************)
(* The parser on every token array: its cursor stays in the array, a unit  *)
(* is rejected exactly when a diagnostic was printed, what a failed        *)
(* optional parse loses does not reach a delimiter, and the AST of an      *)
(* accepted unit is the source's.                                          *)
(***************************************************************************)
EXTENDS ParserReference, SequenceTheorems, Induction, TLAPS

(***************************************************************************)
(* The functions fall into three layers.  Those of the outer layer always  *)
(* run with `required' set; only they insist (Must) on what they call.     *)
(* Those of the inmost layer are all that an optional parse may reach, and *)
(* the tokens they expect delimit nothing.                                 *)
(***************************************************************************)
Outer    == {"unit_statement", "function_definition", "extern_block", "function_header"}
Middle   == {"statement_return", "scope_statement", "block"}
Optional == {"expression", "statement_expression", "statement_expression_call",
             "variable_definition", "assignment", "variable_declaration", "type"}

Delimiters == {";", "{", "}", "func", "extern", "return"}
Tokens     == Kinds \ {"EOF"}
Harmless      == Tokens \ Delimiters

LEMMA Layers ==
  /\ Functions = Outer \cup Middle \cup Optional
  /\ Outer \cap (Middle \cup Optional) = {} /\ Middle \cap Optional = {}
BY DEF Functions, Outer, Middle, Optional

\* The items of a body that expects the kinds K, calls the functions F and insists
\* if B allows it, to the depth at which the bodies nest them.
Simple(F, K, B) ==
  [op : {"token"}, kinds : SUBSET K, keep : BOOLEAN]
    \cup [op : {"call"}, fn : F, force : B, say : BOOLEAN]
Loops(S) == [op : {"when", "while"}, kinds : SUBSET Kinds, then : Seq(S)]
Tries(S) == [op : {"try"}, fn : Optional, then : Seq(S)]

Level1(F, K, B) == Simple(F, K, B) \cup Loops(Simple(F, K, B))
Level2(F, K, B) == Level1(F, K, B) \cup Tries(Level1(F, K, B))
Items(F, K, B)  == Level2(F, K, B) \cup Loops(Level2(F, K, B))

OuterItems    == Items(Functions, Tokens, BOOLEAN)
MiddleItems   == Items(Middle \cup Optional, Tokens, {FALSE})
OptionalItems == Items(Optional, Harmless, {FALSE})

-----------------------------------------------------------------------------

LEMMA ItemFacts ==
  ASSUME NEW F, NEW K, NEW B, NEW x \in Items(F, K, B)
  PROVE  /\ x.op \in {"token", "call", "try", "when", "while"}
         /\ x.op = "token" => x.kinds \subseteq K
         /\ x.op = "call" => x.fn \in F /\ x.force \in B
         /\ x.op = "try" => x.fn \in Optional /\ x.then \in Seq(Items(F, K, B))
         /\ x.op \in {"when", "while"} => x.then \in Seq(Items(F, K, B))
<1> DEFINE S0 == Simple(F, K, B)
           S1 == Level1(F, K, B)
           S2 == Level2(F, K, B)
           S3 == Items(F, K, B)
<1>1. S0 \subseteq S3 /\ S1 \subseteq S3 /\ S2 \subseteq S3
  BY DEF Level1, Level2, Items
<1>2. CASE x \in S0
  BY <1>2 DEF Simple
<1>3. CASE x \in Loops(S0)
  <2>1. x.op \in {"when", "while"} /\ x.then \in Seq(S0)
    <3> HIDE DEF S0
    <3> QED
      BY <1>3 DEF Loops
  <2>2. x.then \in Seq(S3)
    BY <1>1, <2>1, SeqMonotonic
  <2> QED
    BY <2>1, <2>2
<1>4. CASE x \in Tries(S1)
  <2>1. x.op = "try" /\ x.fn \in Optional /\ x.then \in Seq(S1)
    <3> HIDE DEF S1
    <3> QED
      BY <1>4 DEF Tries
  <2>2. x.then \in Seq(S3)
    BY <1>1, <2>1, SeqMonotonic
  <2> QED
    BY <2>1, <2>2
<1>5. CASE x \in Loops(S2)
  <2>1. x.op \in {"when", "while"} /\ x.then \in Seq(S2)
    <3> HIDE DEF S2
    <3> QED
      BY <1>5 DEF Loops
  <2>2. x.then \in Seq(S3)
    BY <1>1, <2>1, SeqMonotonic
  <2> QED
    BY <2>1, <2>2
<1> QED
  BY <1>2, <1>3, <1>4, <1>5 DEF Level1, Level2, Items

-----------------------------------------------------------------------------
(***************************************************************************)
(* The bodies.                                                             *)
(***************************************************************************)

\* What the constructors of items build.
LEMMA Constructors ==
  ASSUME NEW F, NEW K, NEW B
  PROVE  /\ \A k \in K : Tok(k) \in Simple(F, K, B)
         /\ \A ks \in SUBSET K : Keep(ks) \in Simple(F, K, B)
         /\ Reject \in Simple(F, K, B)
         /\ FALSE \in B => \A f \in F : Call(f) \in Simple(F, K, B) /\ CallOr(f) \in Simple(F, K, B)
         /\ TRUE \in B => \A f \in F : Must(f) \in Simple(F, K, B)
BY DEF Simple, Tok, Keep, Reject, Call, CallOr, Must

LEMMA Nesting ==
  ASSUME NEW F, NEW K, NEW B
  PROVE  /\ Simple(F, K, B) \subseteq Level1(F, K, B)
         /\ Level1(F, K, B) \subseteq Level2(F, K, B)
         /\ Level2(F, K, B) \subseteq Items(F, K, B)
         /\ \A ks \in SUBSET Kinds, s \in Seq(Simple(F, K, B)) :
              While(ks, s) \in Level1(F, K, B)
         /\ \A f \in Optional, s \in Seq(Level1(F, K, B)) : Try(f, s) \in Level2(F, K, B)
         /\ \A ks \in SUBSET Kinds, s \in Seq(Level2(F, K, B)) :
              When(ks, s) \in Items(F, K, B) /\ While(ks, s) \in Items(F, K, B)
<1> DEFINE S0 == Simple(F, K, B)
           S1 == Level1(F, K, B)
           S2 == Level2(F, K, B)
           S3 == Items(F, K, B)
<1>1. S0 \subseteq S1 /\ S1 \subseteq S2 /\ S2 \subseteq S3
  BY DEF Level1, Level2, Items
<1>2. Loops(S0) \subseteq S1 /\ Tries(S1) \subseteq S2 /\ Loops(S2) \subseteq S3
  BY DEF Level1, Level2, Items
<1> HIDE DEF S0, S1, S2, S3
<1>3. \A ks \in SUBSET Kinds, s \in Seq(S0) : While(ks, s) \in Loops(S0)
  BY DEF While, Loops
<1>4. \A f \in Optional, s \in Seq(S1) : Try(f, s) \in Tries(S1)
  BY DEF Try, Tries
<1>5. \A ks \in SUBSET Kinds, s \in Seq(S2) :
        When(ks, s) \in Loops(S2) /\ While(ks, s) \in Loops(S2)
  BY DEF When, While, Loops
<1> QED
  BY <1>1, <1>2, <1>3, <1>4, <1>5 DEF S0, S1, S2, S3

LEMMA Tuples ==
  ASSUME NEW S
  PROVE  /\ << >> \in Seq(S)
         /\ \A a \in S : << a >> \in Seq(S)
         /\ \A a, b \in S : << a, b >> \in Seq(S)
         /\ \A a, b, d \in S : << a, b, d >> \in Seq(S)
         /\ \A a, b, d, e \in S : << a, b, d, e >> \in Seq(S)
OBVIOUS

LEMMA OptionalBodies ==
  ASSUME NEW fn \in Optional
  PROVE  Body(fn) \in Seq(OptionalItems)
<1> DEFINE S0 == Simple(Optional, Harmless, {FALSE})
           S1 == Level1(Optional, Harmless, {FALSE})
           S2 == Level2(Optional, Harmless, {FALSE})
           S3 == OptionalItems
<1>1. /\ \A k \in Harmless : Tok(k) \in S0
      /\ \A ks \in SUBSET Harmless : Keep(ks) \in S0
      /\ Reject \in S0
      /\ \A f \in Optional : Call(f) \in S0 /\ CallOr(f) \in S0
  BY Constructors
<1>2. /\ S0 \subseteq S1 /\ S1 \subseteq S2 /\ S2 \subseteq S3
      /\ \A ks \in SUBSET Kinds, s \in Seq(S0) : While(ks, s) \in S1
      /\ \A f \in Optional, s \in Seq(S1) : Try(f, s) \in S2
  BY Nesting DEF OptionalItems
<1>3. S0 \subseteq S3 /\ S1 \subseteq S3
  BY <1>2
<1> HIDE DEF S0, S1, S2, S3
<1>4. /\ "(" \in Harmless /\ ")" \in Harmless /\ "," \in Harmless /\ ":" \in Harmless /\ "=" \in Harmless
      /\ {"identifier"} \subseteq Harmless /\ {"&"} \subseteq Harmless /\ {"*"} \subseteq Harmless
      /\ {"str_literal"} \subseteq Harmless /\ {"int_literal"} \subseteq Harmless
      /\ {"identifier", "u8", "i32"} \subseteq Harmless
      /\ {","} \subseteq Kinds /\ {"*"} \subseteq Kinds
  BY DEF Harmless, Tokens, Kinds, Delimiters
<1>5. Keep({"identifier"}) \in S3 /\ Tok("(") \in S3 /\ Tok(")") \in S3 /\ Tok(":") \in S3
      /\ Tok("=") \in S3
  BY <1>1, <1>3, <1>4
<1>6. \A f \in Optional : Call(f) \in S3 /\ CallOr(f) \in S3
  BY <1>1, <1>3
<1>7. "expression" \in Optional /\ "statement_expression" \in Optional
      /\ "statement_expression_call" \in Optional /\ "variable_definition" \in Optional
      /\ "assignment" \in Optional /\ "variable_declaration" \in Optional /\ "type" \in Optional
  BY DEF Optional
<1>8. parse_statement_expression_call \in Seq(S3)
  <2>1. << Tok(","), CallOr("expression") >> \in Seq(S0)
    <3>1. Tok(",") \in S0 /\ CallOr("expression") \in S0
      BY <1>1, <1>4, <1>7
    <3> QED
      BY <3>1, Tuples
  <2>2. << While({","}, << Tok(","), CallOr("expression") >>) >> \in Seq(S1)
    <3>1. While({","}, << Tok(","), CallOr("expression") >>) \in S1
      BY <1>2, <1>4, <2>1
    <3> QED
      BY <3>1, Tuples
  <2>3. Try("expression", << While({","}, << Tok(","), CallOr("expression") >>) >>) \in S3
    BY <1>2, <1>7, <2>2
  <2> QED
    BY <1>5, <2>3, Tuples DEF parse_statement_expression_call
<1>9. parse_variable_definition \in Seq(S3) /\ parse_assignment \in Seq(S3)
      /\ parse_variable_declaration \in Seq(S3)
  BY <1>5, <1>6, <1>7 DEF parse_variable_definition, parse_assignment,
                          parse_variable_declaration
<1>10. \A kind, next : parse_statement_expression(kind, next) \in Seq(S3)
  BY <1>6, <1>7 DEF parse_statement_expression
<1>11. \A kind, next : parse_expression(kind, next) \in Seq(S3)
  <2>1. Keep({"str_literal"}) \in S3 /\ Keep({"int_literal"}) \in S3 /\ Keep({"&"}) \in S3
        /\ Reject \in S3
    BY <1>1, <1>3, <1>4
  <2> SUFFICES ASSUME NEW kind, NEW next
               PROVE  parse_expression(kind, next) \in Seq(S3)
    OBVIOUS
  <2>2. kind \in {"str_literal", "int_literal"} => << Keep({kind}) >> \in Seq(S3)
    BY <2>1
  <2> QED
    BY <1>5, <1>6, <1>7, <2>1, <2>2 DEF parse_expression
<1>12. parse_type \in Seq(S3)
  <2>1. << Keep({"*"}) >> \in Seq(S0)
    <3>1. Keep({"*"}) \in S0
      BY <1>1, <1>4
    <3> QED
      BY <3>1, Tuples
  <2>2. While({"*"}, << Keep({"*"}) >>) \in S3 /\ Keep({"identifier", "u8", "i32"}) \in S3
    BY <1>1, <1>2, <1>3, <1>4, <2>1
  <2> QED
    BY <2>2 DEF parse_type
<1> QED
  BY <1>8, <1>9, <1>10, <1>11, <1>12 DEF Body, Optional, S3

LEMMA MiddleBodies ==
  ASSUME NEW fn \in Middle
  PROVE  Body(fn) \in Seq(MiddleItems)
<1> DEFINE F  == Middle \cup Optional
           S0 == Simple(F, Tokens, {FALSE})
           S1 == Level1(F, Tokens, {FALSE})
           S2 == Level2(F, Tokens, {FALSE})
           S3 == MiddleItems
<1>1. /\ \A k \in Tokens : Tok(k) \in S0
      /\ \A f \in F : Call(f) \in S0 /\ CallOr(f) \in S0
  BY Constructors
<1>2. /\ S0 \subseteq S1 /\ S1 \subseteq S2 /\ S2 \subseteq S3
      /\ \A ks \in SUBSET Kinds, s \in Seq(S0) : While(ks, s) \in S1
      /\ \A f \in Optional, s \in Seq(S1) : Try(f, s) \in S2
  BY Nesting DEF MiddleItems
<1>3. S0 \subseteq S3 /\ S1 \subseteq S3
  BY <1>2
<1>4. /\ "statement_return" \in F /\ "block" \in F /\ "statement_expression" \in F
      /\ "scope_statement" \in F /\ "expression" \in Optional
  BY DEF Middle, Optional
<1> HIDE DEF F, S0, S1, S2, S3
<1>5. {"return", ";", "{", "}"} \subseteq Tokens /\ Unclosed \subseteq Kinds
  BY DEF Tokens, Kinds, Unclosed
<1>6. Tok("return") \in S3 /\ Tok(";") \in S3 /\ Tok("{") \in S3 /\ Tok("}") \in S3
  BY <1>1, <1>3, <1>5
<1>7. parse_statement_return \in Seq(S3)
  <2>1. Try("expression", <<>>) \in S3
    BY <1>2, <1>4, Tuples
  <2> QED
    BY <1>6, <2>1, Tuples DEF parse_statement_return
<1>8. \A kind : parse_scope_statement(kind) \in Seq(S3)
  <2>1. Call("statement_return") \in S3 /\ Call("block") \in S3
        /\ CallOr("statement_expression") \in S3
    BY <1>1, <1>3, <1>4
  <2> QED
    BY <1>6, <2>1, Tuples DEF parse_scope_statement
<1>9. parse_block \in Seq(S3)
  <2>1. << Call("scope_statement") >> \in Seq(S0)
    BY <1>1, <1>4, Tuples
  <2>2. While(Unclosed, << Call("scope_statement") >>) \in S3
    BY <1>2, <1>3, <1>5, <2>1
  <2> QED
    BY <1>6, <2>2, Tuples DEF parse_block
<1> QED
  BY <1>7, <1>8, <1>9 DEF Body, Middle, S3

LEMMA OuterBodies ==
  ASSUME NEW fn \in Outer
  PROVE  Body(fn) \in Seq(OuterItems)
<1> DEFINE S0 == Simple(Functions, Tokens, BOOLEAN)
           S1 == Level1(Functions, Tokens, BOOLEAN)
           S2 == Level2(Functions, Tokens, BOOLEAN)
           S3 == OuterItems
<1>1. /\ \A k \in Tokens : Tok(k) \in S0
      /\ \A ks \in SUBSET Tokens : Keep(ks) \in S0
      /\ Reject \in S0
      /\ \A f \in Functions : Call(f) \in S0 /\ Must(f) \in S0
  BY Constructors
<1>2. /\ S0 \subseteq S1 /\ S1 \subseteq S2 /\ S2 \subseteq S3
      /\ \A ks \in SUBSET Kinds, s \in Seq(S0) : While(ks, s) \in S1
      /\ \A f \in Optional, s \in Seq(S1) : Try(f, s) \in S2
      /\ \A ks \in SUBSET Kinds, s \in Seq(S2) : When(ks, s) \in S3
  BY Nesting DEF OuterItems
<1>3. S0 \subseteq S2 /\ S0 \subseteq S3 /\ S1 \subseteq S3
  BY <1>2
<1> HIDE DEF S0, S1, S2, S3
<1>4. /\ {"func", "(", ")", "-", ">", "extern", "{", "}", ";", ","} \subseteq Tokens
      /\ {"identifier"} \subseteq Tokens
      /\ {"("} \subseteq Kinds /\ {"-"} \subseteq Kinds /\ {","} \subseteq Kinds
      /\ Unclosed \subseteq Kinds
  BY DEF Tokens, Kinds, Unclosed
<1>5. /\ "variable_declaration" \in Optional
      /\ {"variable_declaration", "type", "function_header", "block", "function_definition",
           "extern_block"} \subseteq Functions
  BY DEF Functions, Optional
<1>6. parse_function_header \in Seq(S3)
  <2>1. << Tok(","), Call("variable_declaration") >> \in Seq(S0)
    <3>1. Tok(",") \in S0 /\ Call("variable_declaration") \in S0
      BY <1>1, <1>4, <1>5
    <3> QED
      BY <3>1, Tuples
  <2> DEFINE more == While({","}, << Tok(","), Call("variable_declaration") >>)
             list == Try("variable_declaration", << more >>)
             back == << Tok("-"), Tok(">"), Must("type") >>
  <2>2. more \in S1
    BY <1>2, <1>4, <2>1
  <2>3. list \in S2
    <3> HIDE DEF more
    <3> QED
      BY <1>2, <1>5, <2>2, Tuples
  <2>4. << Tok("("), list, Tok(")") >> \in Seq(S2)
    <3>1. Tok("(") \in S2 /\ Tok(")") \in S2
      BY <1>1, <1>3, <1>4
    <3> HIDE DEF list
    <3> QED
      BY <2>3, <3>1, Tuples
  <2>5. When({"("}, << Tok("("), list, Tok(")") >>) \in S3
    <3> HIDE DEF list
    <3> QED
      BY <1>2, <1>4, <2>4
  <2>6. When({"-"}, back) \in S3
    <3>1. back \in Seq(S2)
      <4>1. Tok("-") \in S2 /\ Tok(">") \in S2 /\ Must("type") \in S2
        BY <1>1, <1>3, <1>4, <1>5
      <4> QED
        BY <4>1, Tuples
    <3> HIDE DEF back
    <3> QED
      BY <1>2, <1>4, <3>1
  <2>7. Tok("func") \in S3 /\ Keep({"identifier"}) \in S3
    BY <1>1, <1>3, <1>4
  <2> QED
    BY <2>5, <2>6, <2>7, Tuples DEF parse_function_header
<1>7. parse_extern_block \in Seq(S3)
  <2>1. << Must("function_header"), Tok(";") >> \in Seq(S0)
    <3>1. Must("function_header") \in S0 /\ Tok(";") \in S0
      BY <1>1, <1>4, <1>5
    <3> QED
      BY <3>1, Tuples
  <2>2. While(Unclosed, << Must("function_header"), Tok(";") >>) \in S3
    BY <1>2, <1>3, <1>4, <2>1
  <2>3. Tok("extern") \in S3 /\ Tok("{") \in S3 /\ Tok("}") \in S3
    BY <1>1, <1>3, <1>4
  <2> QED
    BY <2>2, <2>3, Tuples DEF parse_extern_block
<1>8. parse_function_definition \in Seq(S3) /\ \A kind : parse_unit_statement(kind) \in Seq(S3)
  BY <1>1, <1>3, <1>5 DEF parse_function_definition, parse_unit_statement
<1> QED
  BY <1>6, <1>7, <1>8 DEF Body, Outer, S3

-----------------------------------------------------------------------------
(***************************************************************************)
(* The stack.                                                              *)
(***************************************************************************)

IsSeq(s) == \E S : s \in Seq(S)

IsFrame(f) == f = [fn |-> f.fn, todo |-> f.todo, required |-> f.required,
                   kids |-> f.kids, start |-> f.start]

\* A frame has only to do what its layer does, and an outer one reports its errors.
Layered(f) ==
  /\ f.fn \in Functions /\ f.required \in BOOLEAN
  /\ f.fn \in Outer => f.required /\ f.todo \in Seq(OuterItems)
  /\ f.fn \in Middle => f.todo \in Seq(MiddleItems)
  /\ f.fn \in Optional => f.todo \in Seq(OptionalItems)

\* Frame f has called frame g: g reports its errors exactly if f does and needs g.
Calls(f, g) ==
  /\ f.todo # << >> /\ Head(f.todo).op \in {"call", "try"}
  /\ g.required <=> (Head(f.todo).op = "call" /\ f.required)
  /\ Head(f.todo).op = "try" => g.fn \in Optional

StackOK(s, d) ==
  /\ IsSeq(s)
  /\ \A i \in 1..Len(s) : IsFrame(s[i]) /\ Layered(s[i]) /\ s[i].start \in 1..d
  /\ \A i \in 1..Len(s) - 1 : Calls(s[i], s[i + 1])
  /\ \A i, j \in 1..Len(s) : i < j /\ s[i].fn \in Optional => s[j].fn \in Optional
  /\ s # << >> => s[1].required

LEMMA SeqFacts ==
  ASSUME NEW s, IsSeq(s)
  PROVE  /\ Len(s) \in Nat /\ DOMAIN s = 1..Len(s)
         /\ s # << >> <=> Len(s) > 0
<1>1. PICK S : s \in Seq(S)
  BY DEF IsSeq
<1> QED
  BY <1>1

LEMMA ReplaceFacts ==
  ASSUME NEW s, IsSeq(s), s # << >>, NEW f
  PROVE  /\ IsSeq(Replace(s, f)) /\ Len(Replace(s, f)) = Len(s)
         /\ Replace(s, f)[Len(s)] = f
         /\ \A i \in 1..Len(s) - 1 : Replace(s, f)[i] = s[i]
         /\ Replace(s, f) # << >>
<1>1. PICK S : s \in Seq(S)
  BY DEF IsSeq
<1> DEFINE r == Replace(s, f)
<1>2. s \in Seq(S \cup {f}) /\ Len(s) \in 1..Len(s)
  BY <1>1
<1>3. r \in Seq(S \cup {f}) /\ Len(r) = Len(s)
  BY <1>2, ExceptSeq DEF Replace
<1>4. \A j \in 1..Len(s) : r[j] = IF j = Len(s) THEN f ELSE s[j]
  BY <1>2, ExceptSeq DEF Replace
<1> HIDE DEF r
<1>5. IsSeq(r)
  BY <1>3 DEF IsSeq
<1>6. r # << >>
  BY <1>2, <1>3, <1>5, SeqFacts
<1>7. r[Len(s)] = f /\ \A i \in 1..Len(s) - 1 : r[i] = s[i]
  BY <1>2, <1>4
<1> QED
  BY <1>3, <1>5, <1>6, <1>7 DEF r

LEMMA AppendFacts ==
  ASSUME NEW s, IsSeq(s), NEW f
  PROVE  /\ IsSeq(Append(s, f)) /\ Len(Append(s, f)) = Len(s) + 1
         /\ Append(s, f)[Len(s) + 1] = f
         /\ \A i \in 1..Len(s) : Append(s, f)[i] = s[i]
         /\ Append(s, f) # << >>
<1>1. PICK S : s \in Seq(S)
  BY DEF IsSeq
<1>2. s \in Seq(S \cup {f})
  BY <1>1
<1>3. Append(s, f) \in Seq(S \cup {f})
  BY <1>2
<1> QED
  BY <1>2, <1>3 DEF IsSeq

LEMMA PopFacts ==
  ASSUME NEW s, IsSeq(s), Len(s) > 1
  PROVE  LET p == SubSeq(s, 1, Len(s) - 1)
         IN  /\ IsSeq(p) /\ Len(p) = Len(s) - 1 /\ p # << >>
             /\ \A i \in 1..Len(s) - 1 : p[i] = s[i]
<1>1. PICK S : s \in Seq(S)
  BY DEF IsSeq
<1> DEFINE p == SubSeq(s, 1, Len(s) - 1)
<1>2. p \in Seq(S) /\ Len(p) = Len(s) - 1 /\ \A i \in 1..Len(s) - 1 : p[i] = s[i]
  BY <1>1, SubSeqProperties
<1> HIDE DEF p
<1>3. IsSeq(p)
  BY <1>2 DEF IsSeq
<1>4. p # << >>
  BY <1>1, <1>2, <1>3, SeqFacts
<1> QED
  BY <1>2, <1>3, <1>4 DEF p

LEMMA ReplaceOK ==
  ASSUME NEW s, NEW d \in Nat, NEW e \in Nat, StackOK(s, d), d <= e, s # << >>,
         NEW f, IsFrame(f), Layered(f), f.fn = s[Len(s)].fn,
         f.required = s[Len(s)].required, f.start = s[Len(s)].start
  PROVE  StackOK(Replace(s, f), e)
<1> DEFINE r == Replace(s, f)
<1>1. Len(s) \in Nat /\ Len(s) > 0
  BY SeqFacts DEF StackOK
<1>2. /\ IsSeq(r) /\ Len(r) = Len(s) /\ r # << >>
      /\ r[Len(s)] = f /\ \A i \in 1..Len(s) - 1 : r[i] = s[i]
  BY ReplaceFacts DEF StackOK
<1>3. \A i \in 1..Len(s) : /\ r[i].fn = s[i].fn /\ r[i].required = s[i].required
                           /\ r[i].start = s[i].start
  BY <1>1, <1>2
<1> HIDE DEF r
<1>4. \A i \in 1..Len(s) : IsFrame(r[i]) /\ Layered(r[i])
  <2> SUFFICES ASSUME NEW i \in 1..Len(s)
               PROVE  IsFrame(r[i]) /\ Layered(r[i])
    OBVIOUS
  <2>1. CASE i = Len(s)
    BY <1>2, <2>1
  <2>2. CASE i # Len(s)
    <3>1. r[i] = s[i] /\ IsFrame(s[i]) /\ Layered(s[i])
      BY <1>1, <1>2, <2>2 DEF StackOK
    <3> QED
      BY <3>1
  <2> QED
    BY <2>1, <2>2
<1>5. \A i \in 1..Len(s) : r[i].start \in 1..e
  BY <1>3 DEF StackOK
<1>6. \A i \in 1..Len(s) - 1 : Calls(r[i], r[i + 1])
  <2> SUFFICES ASSUME NEW i \in 1..Len(s) - 1
               PROVE  Calls(r[i], r[i + 1])
    OBVIOUS
  <2>1. r[i] = s[i] /\ r[i + 1].fn = s[i + 1].fn /\ r[i + 1].required = s[i + 1].required
    BY <1>1, <1>2, <1>3
  <2>2. Calls(s[i], s[i + 1])
    BY DEF StackOK
  <2> QED
    BY <2>1, <2>2 DEF Calls
<1>7. \A i, j \in 1..Len(s) : i < j /\ r[i].fn \in Optional => r[j].fn \in Optional
  BY <1>3 DEF StackOK
<1>8. r[1].required
  BY <1>1, <1>3 DEF StackOK
<1>9. StackOK(r, e)
  BY <1>2, <1>4, <1>5, <1>6, <1>7, <1>8 DEF StackOK
<1> QED
  BY <1>9 DEF r

LEMMA PushOK ==
  ASSUME NEW s, NEW d \in Nat, StackOK(s, d), s # << >>,
         NEW f, IsFrame(f), Layered(f), f.start \in 1..d, Calls(s[Len(s)], f),
         s[Len(s)].fn \in Optional => f.fn \in Optional
  PROVE  StackOK(Append(s, f), d)
<1> DEFINE r == Append(s, f)
<1>1. Len(s) \in Nat /\ Len(s) > 0
  BY SeqFacts DEF StackOK
<1>2. /\ IsSeq(r) /\ Len(r) = Len(s) + 1 /\ r # << >>
      /\ r[Len(s) + 1] = f /\ \A i \in 1..Len(s) : r[i] = s[i]
  BY AppendFacts DEF StackOK
<1> HIDE DEF r
<1>3. \A i \in 1..Len(r) : IsFrame(r[i]) /\ Layered(r[i]) /\ r[i].start \in 1..d
  <2> SUFFICES ASSUME NEW i \in 1..Len(r)
               PROVE  IsFrame(r[i]) /\ Layered(r[i]) /\ r[i].start \in 1..d
    OBVIOUS
  <2>1. CASE i = Len(s) + 1
    BY <1>2, <2>1
  <2>2. CASE i # Len(s) + 1
    <3>1. i \in 1..Len(s) /\ r[i] = s[i]
      BY <1>1, <1>2, <2>2
    <3>2. IsFrame(s[i]) /\ Layered(s[i]) /\ s[i].start \in 1..d
      BY <3>1 DEF StackOK
    <3> QED
      BY <3>1, <3>2
  <2> QED
    BY <2>1, <2>2
<1>4. \A i \in 1..Len(r) - 1 : Calls(r[i], r[i + 1])
  <2> SUFFICES ASSUME NEW i \in 1..Len(r) - 1
               PROVE  Calls(r[i], r[i + 1])
    OBVIOUS
  <2>1. CASE i = Len(s)
    BY <1>1, <1>2, <2>1
  <2>2. CASE i # Len(s)
    <3>1. i \in 1..Len(s) - 1 /\ r[i] = s[i] /\ r[i + 1] = s[i + 1]
      BY <1>1, <1>2, <2>2
    <3>2. Calls(s[i], s[i + 1])
      BY <3>1 DEF StackOK
    <3> QED
      BY <3>1, <3>2
  <2> QED
    BY <2>1, <2>2
<1>5. \A i, j \in 1..Len(r) : i < j /\ r[i].fn \in Optional => r[j].fn \in Optional
  <2> SUFFICES ASSUME NEW i \in 1..Len(r), NEW j \in 1..Len(r), i < j, r[i].fn \in Optional
               PROVE  r[j].fn \in Optional
    OBVIOUS
  <2>1. i \in 1..Len(s) /\ r[i] = s[i]
    BY <1>1, <1>2
  <2>2. s[Len(s)].fn \in Optional
    <3>1. i = Len(s) \/ i < Len(s)
      BY <1>1, <2>1
    <3> QED
      BY <1>1, <2>1, <3>1 DEF StackOK
  <2>3. CASE j = Len(s) + 1
    BY <1>2, <2>2, <2>3
  <2>4. CASE j # Len(s) + 1
    <3>1. j \in 1..Len(s) /\ r[j] = s[j]
      BY <1>1, <1>2, <2>4
    <3> QED
      BY <2>1, <3>1 DEF StackOK
  <2> QED
    BY <2>3, <2>4
<1>6. r[1].required
  BY <1>1, <1>2 DEF StackOK
<1>7. StackOK(r, d)
  BY <1>2, <1>3, <1>4, <1>5, <1>6 DEF StackOK
<1> QED
  BY <1>7 DEF r

LEMMA PopOK ==
  ASSUME NEW s, NEW d \in Nat, StackOK(s, d), Len(s) > 1
  PROVE  StackOK(SubSeq(s, 1, Len(s) - 1), d)
<1> DEFINE r == SubSeq(s, 1, Len(s) - 1)
<1>1. Len(s) \in Nat
  BY SeqFacts DEF StackOK
<1>2. IsSeq(r) /\ Len(r) = Len(s) - 1 /\ r # << >> /\ \A i \in 1..Len(s) - 1 : r[i] = s[i]
  BY PopFacts DEF StackOK
<1> HIDE DEF r
<1>3. \A i \in 1..Len(r) : i \in 1..Len(s) /\ r[i] = s[i]
  BY <1>1, <1>2
<1>4. \A i \in 1..Len(r) - 1 : i \in 1..Len(s) - 1 /\ r[i] = s[i] /\ r[i + 1] = s[i + 1]
  BY <1>1, <1>2
<1>5. \A i \in 1..Len(r) : IsFrame(r[i]) /\ Layered(r[i]) /\ r[i].start \in 1..d
  BY <1>3 DEF StackOK
<1>6. \A i \in 1..Len(r) - 1 : Calls(r[i], r[i + 1])
  BY <1>4 DEF StackOK
<1>7. \A i, j \in 1..Len(r) : i < j /\ r[i].fn \in Optional => r[j].fn \in Optional
  BY <1>3 DEF StackOK
<1>8. r[1].required
  <2>1. s # << >> /\ 1 \in 1..Len(r)
    BY <1>1, <1>2, SeqFacts DEF StackOK
  <2> QED
    BY <1>3, <2>1 DEF StackOK
<1>9. StackOK(r, d)
  BY <1>2, <1>5, <1>6, <1>7, <1>8 DEF StackOK
<1> QED
  BY <1>9 DEF r

-----------------------------------------------------------------------------
(***************************************************************************)
(* What a frame does next.                                                 *)
(***************************************************************************)

LEMMA HeadFacts ==
  ASSUME NEW f, Layered(f), f.todo # << >>
  PROVE  LET x == Head(f.todo)
         IN  /\ x.op \in {"token", "call", "try", "when", "while"}
             /\ x.op = "token" => /\ x.kinds \subseteq Tokens
                                  /\ f.fn \in Optional => x.kinds \subseteq Harmless
             /\ x.op = "call" => /\ x.fn \in Functions /\ x.force \in BOOLEAN
                                 /\ f.fn \notin Outer => ~x.force /\ x.fn \notin Outer
                                 /\ f.fn \in Optional => x.fn \in Optional
             /\ x.op = "try" => x.fn \in Optional
<1> DEFINE x == Head(f.todo)
           R(y) == /\ y.op \in {"token", "call", "try", "when", "while"}
                   /\ y.op = "token" => /\ y.kinds \subseteq Tokens
                                        /\ f.fn \in Optional => y.kinds \subseteq Harmless
                   /\ y.op = "call" => /\ y.fn \in Functions /\ y.force \in BOOLEAN
                                       /\ f.fn \notin Outer => ~y.force /\ y.fn \notin Outer
                                       /\ f.fn \in Optional => y.fn \in Optional
                   /\ y.op = "try" => y.fn \in Optional
<1>1. CASE f.fn \in Outer
  <2>1. x \in OuterItems
    BY <1>1, HeadTailProperties DEF Layered
  <2> QED
    <3>1. /\ x.op \in {"token", "call", "try", "when", "while"}
          /\ x.op = "token" => x.kinds \subseteq Tokens
          /\ x.op = "call" => x.fn \in Functions /\ x.force \in BOOLEAN
          /\ x.op = "try" => x.fn \in Optional
      BY <2>1, ItemFacts DEF OuterItems
    <3> HIDE DEF x
    <3>2. f.fn \notin Optional /\ f.fn \in Outer
      BY <1>1, Layers
    <3>3. R(x)
      BY <3>1, <3>2, Layers
    <3> QED
      BY <3>3 DEF x
<1>2. CASE f.fn \in Middle
  <2>1. x \in MiddleItems
    BY <1>2, HeadTailProperties DEF Layered
  <2> QED
    <3>1. /\ x.op \in {"token", "call", "try", "when", "while"}
          /\ x.op = "token" => x.kinds \subseteq Tokens
          /\ x.op = "call" => x.fn \in Middle \cup Optional /\ x.force \in {FALSE}
          /\ x.op = "try" => x.fn \in Optional
      BY <2>1, ItemFacts DEF MiddleItems
    <3> HIDE DEF x
    <3>2. f.fn \notin Optional /\ f.fn \notin Outer
      BY <1>2, Layers
    <3>3. R(x)
      BY <3>1, <3>2, Layers
    <3> QED
      BY <3>3 DEF x
<1>3. CASE f.fn \in Optional
  <2>1. x \in OptionalItems
    BY <1>3, HeadTailProperties DEF Layered
  <2>2. Harmless \subseteq Tokens
    BY DEF Harmless
  <2> QED
    <3>1. /\ x.op \in {"token", "call", "try", "when", "while"}
          /\ x.op = "token" => x.kinds \subseteq Harmless
          /\ x.op = "call" => x.fn \in Optional /\ x.force \in {FALSE}
          /\ x.op = "try" => x.fn \in Optional
      BY <2>1, ItemFacts DEF OptionalItems
    <3> HIDE DEF x
    <3>2. f.fn \in Optional /\ f.fn \notin Outer
      BY <1>3, Layers
    <3>3. R(x)
      BY <3>1, <3>2, <2>2, Layers
    <3> QED
      BY <3>3 DEF x
<1> QED
  BY <1>1, <1>2, <1>3, Layers DEF Layered

LEMMA TodoStep ==
  ASSUME NEW F, NEW K, NEW B, NEW todo \in Seq(Items(F, K, B)), todo # << >>
  PROVE  /\ Tail(todo) \in Seq(Items(F, K, B))
         /\ Head(todo).op \in {"try", "when", "while"} =>
              /\ Head(todo).then \o Tail(todo) \in Seq(Items(F, K, B))
              /\ Head(todo).then \o todo \in Seq(Items(F, K, B))
<1> DEFINE S == Items(F, K, B)
<1>1. Head(todo) \in S /\ Tail(todo) \in Seq(S)
  BY HeadTailProperties
<1>2. Head(todo).op \in {"try", "when", "while"} => Head(todo).then \in Seq(S)
  BY <1>1, ItemFacts
<1> HIDE DEF S
<1>3. ASSUME NEW t \in Seq(S), NEW u \in Seq(S)
      PROVE  t \o u \in Seq(S)
  BY ConcatProperties
<1>4. todo \in Seq(S)
  BY DEF S
<1> QED
  BY <1>1, <1>2, <1>3, <1>4 DEF S

LEMMA StepIn ==
  ASSUME NEW F, NEW K, NEW B, NEW todo \in Seq(Items(F, K, B)), todo # << >>, NEW next,
         \/ next = Tail(todo)
         \/ /\ Head(todo).op \in {"try", "when", "while"}
            /\ next = Head(todo).then \o Tail(todo) \/ next = Head(todo).then \o todo
  PROVE  next \in Seq(Items(F, K, B))
BY TodoStep

\* A frame that has done its next item is still one of its layer.
LEMMA LayeredStep ==
  ASSUME NEW f, Layered(f), f.todo # << >>, NEW g, g.fn = f.fn, g.required = f.required,
         \/ g.todo = Tail(f.todo)
         \/ /\ Head(f.todo).op \in {"try", "when", "while"}
            /\ \/ g.todo = Head(f.todo).then \o Tail(f.todo)
               \/ g.todo = Head(f.todo).then \o f.todo
  PROVE  Layered(g)
<1>1. f.fn \in Outer => g.todo \in Seq(OuterItems)
  BY StepIn DEF Layered, OuterItems
<1>2. f.fn \in Middle => g.todo \in Seq(MiddleItems)
  BY StepIn DEF Layered, MiddleItems
<1>3. f.fn \in Optional => g.todo \in Seq(OptionalItems)
  BY StepIn DEF Layered, OptionalItems
<1> QED
  BY <1>1, <1>2, <1>3 DEF Layered

LEMMA EmptyConcat ==
  ASSUME NEW f, Layered(f), f.todo # << >>
  PROVE  << >> \o Tail(f.todo) = Tail(f.todo)
<1>1. ASSUME NEW S, f.todo \in Seq(S)
      PROVE  << >> \o Tail(f.todo) = Tail(f.todo)
  <2>1. Tail(f.todo) \in Seq(S)
    BY <1>1, HeadTailProperties
  <2> QED
    BY <2>1, ConcatEmptySeq
<1> QED
  BY <1>1, Layers DEF Layered

LEMMA FrameFacts ==
  ASSUME NEW fn \in Functions, NEW required \in BOOLEAN, fn \in Outer => required
  PROVE  /\ IsFrame(Frame(fn, required)) /\ Layered(Frame(fn, required))
         /\ Frame(fn, required).fn = fn /\ Frame(fn, required).required = required
         /\ Frame(fn, required).start = c
<1>1. /\ fn \in Outer => Body(fn) \in Seq(OuterItems)
      /\ fn \in Middle => Body(fn) \in Seq(MiddleItems)
      /\ fn \in Optional => Body(fn) \in Seq(OptionalItems)
  BY OuterBodies, MiddleBodies, OptionalBodies
<1> QED
  BY <1>1 DEF Frame, IsFrame, Layered

LEMMA TopFacts ==
  ASSUME NEW s, NEW d \in Nat, StackOK(s, d), s # << >>
  PROVE  /\ Len(s) \in Nat /\ Len(s) \in 1..Len(s)
         /\ IsFrame(s[Len(s)]) /\ Layered(s[Len(s)]) /\ s[Len(s)].start \in 1..d
         /\ \A i \in 1..Len(s) : s[i].fn \in Optional => s[Len(s)].fn \in Optional
<1>1. Len(s) \in Nat /\ Len(s) \in 1..Len(s)
  BY SeqFacts DEF StackOK
<1>2. ASSUME NEW i \in 1..Len(s), s[i].fn \in Optional
      PROVE  s[Len(s)].fn \in Optional
  <2>1. i = Len(s) \/ i < Len(s)
    BY <1>1
  <2> QED
    BY <1>1, <1>2, <2>1 DEF StackOK
<1> QED
  BY <1>1, <1>2 DEF StackOK

\* What an assignment to a frame's fields leaves.
LEMMA NewTodo ==
  ASSUME NEW f, IsFrame(f), NEW t, NEW g, g = [f EXCEPT !.todo = t]
  PROVE  /\ IsFrame(g) /\ g.todo = t
         /\ g.fn = f.fn /\ g.required = f.required /\ g.start = f.start
<1>1. PICK fn, todo, required, kids, start :
        f = [fn |-> fn, todo |-> todo, required |-> required, kids |-> kids, start |-> start]
  BY DEF IsFrame
<1>2. g = [fn |-> fn, todo |-> t, required |-> required, kids |-> kids, start |-> start]
  BY <1>1
<1> QED
  BY <1>1, <1>2 DEF IsFrame

LEMMA NewKids ==
  ASSUME NEW f, IsFrame(f), NEW k, NEW g, g = [f EXCEPT !.kids = k]
  PROVE  /\ IsFrame(g) /\ g.todo = f.todo
         /\ g.fn = f.fn /\ g.required = f.required /\ g.start = f.start
<1>1. PICK fn, todo, required, kids, start :
        f = [fn |-> fn, todo |-> todo, required |-> required, kids |-> kids, start |-> start]
  BY DEF IsFrame
<1>2. g = [fn |-> fn, todo |-> todo, required |-> required, kids |-> k, start |-> start]
  BY <1>1
<1> QED
  BY <1>1, <1>2 DEF IsFrame

-----------------------------------------------------------------------------
(***************************************************************************)
(* The inductive invariant.                                                *)
(***************************************************************************)

\* An optional parse has consumed plain tokens only, the lost ones included.
LossInv ==
  /\ \A i \in 1..Len(stack) : stack[i].fn \in Optional =>
       \A k \in stack[i].start .. (c - 1) : tokens[k] \in Harmless
  /\ \A k \in dropped : tokens[k] \in Harmless

\* A diagnostic has been printed exactly if the statement that runs is failing,
\* and must report it, or an earlier one has failed.
DiagInv ==
  /\ mode = "fail" /\ top.required => diags > 0
  /\ diags > 0 => ~success \/ (mode = "fail" /\ top.required)
  /\ ~success => diags > 0
  /\ mode \in {"skip", "rejected", "aborted"} => ~success
  /\ mode = "accepted" => success

StackInv ==
  /\ StackOK(stack, c)
  /\ mode \in {"parse", "fail"} <=> stack # << >>

IInv == TypeOK /\ tokens \in TokenStreams /\ StackInv /\ LossInv /\ DiagInv

LEMMA StreamFacts ==
  ASSUME tokens \in TokenStreams
  PROVE  /\ tokens \in Seq(Kinds) /\ Len(tokens) \in Nat /\ DOMAIN tokens = 1..Len(tokens)
         /\ Len(tokens) > 0
         /\ \A i \in 1..Len(tokens) : tokens[i] \in Kinds /\ (tokens[i] = "EOF" <=> i = Len(tokens))
BY StreamAssumption

LEMMA Within ==
  ASSUME NEW n \in Nat, NEW i \in 1..n, i # n
  PROVE  i \in Nat /\ i + 1 \in 1..n
OBVIOUS

\* Behind a token that is not EOF there is another.
LEMMA NextToken ==
  ASSUME tokens \in TokenStreams, c \in DOMAIN tokens, Kind # "EOF"
  PROVE  c \in Nat /\ c + 1 \in DOMAIN tokens
<1>1. /\ Len(tokens) \in Nat /\ DOMAIN tokens = 1..Len(tokens)
      /\ \A i \in 1..Len(tokens) : tokens[i] = "EOF" <=> i = Len(tokens)
  BY StreamFacts
<1>2. c \in 1..Len(tokens) /\ c # Len(tokens)
  BY <1>1 DEF Kind
<1>3. c \in Nat /\ c + 1 \in 1..Len(tokens)
  BY <1>1, <1>2, Within
<1> QED
  BY <1>1, <1>3

\* The stack part of TypeOK.
LEMMA StackType ==
  ASSUME NEW s, NEW d \in Nat, StackOK(s, d)
  PROVE  \A i \in DOMAIN s : /\ s[i].fn \in Functions
                             /\ s[i].required \in BOOLEAN
                             /\ s[i].start \in 1..d
<1>1. DOMAIN s = 1..Len(s)
  BY SeqFacts DEF StackOK
<1> QED
  BY <1>1 DEF StackOK, Layered

LEMMA EmptyStack ==
  ASSUME NEW d
  PROVE  StackOK(<< >>, d)
<1>1. << >> \in Seq({})
  OBVIOUS
<1> QED
  BY <1>1 DEF StackOK, IsSeq

LEMMA InitInv ==
  ASSUME Init
  PROVE  IInv
<1>1. tokens \in TokenStreams /\ c \in DOMAIN tokens /\ c \in Nat
  <2>1. tokens \in TokenStreams /\ c = 1
    BY DEF Init
  <2>2. Len(tokens) \in Nat /\ DOMAIN tokens = 1..Len(tokens) /\ Len(tokens) > 0
    BY <2>1, StreamFacts
  <2> QED
    BY <2>1, <2>2
<1>2. StackInv
  BY EmptyStack DEF Init, StackInv
<1>3. TypeOK
  BY <1>1 DEF Init, TypeOK
<1>4. LossInv
  BY DEF Init, LossInv
<1>5. DiagInv
  BY DEF Init, DiagInv
<1> QED
  BY <1>1, <1>2, <1>3, <1>4, <1>5 DEF IInv

\* What every step lemma starts from.
LEMMA Facts ==
  ASSUME IInv
  PROVE  /\ c \in Nat /\ c \in 1..Len(tokens) /\ Kind \in Kinds
         /\ StackOK(stack, c)
         /\ stack # << >> =>
              /\ Len(stack) \in Nat /\ Len(stack) \in 1..Len(stack)
              /\ IsFrame(top) /\ Layered(top) /\ top.start \in 1..c
              /\ \A i \in 1..Len(stack) : stack[i].fn \in Optional => top.fn \in Optional
<1>1. c \in Nat /\ c \in 1..Len(tokens) /\ Kind \in Kinds
  <2>1. tokens \in TokenStreams /\ c \in DOMAIN tokens
    BY DEF IInv, TypeOK
  <2>2. /\ Len(tokens) \in Nat /\ DOMAIN tokens = 1..Len(tokens)
        /\ \A i \in 1..Len(tokens) : tokens[i] \in Kinds
    BY <2>1, StreamFacts
  <2> QED
    BY <2>1, <2>2 DEF Kind
<1> QED
  BY <1>1, TopFacts DEF IInv, StackInv, top

-----------------------------------------------------------------------------
(***************************************************************************)
(* One lemma per action.                                                   *)
(***************************************************************************)

LEMMA ParseStatementInv ==
  ASSUME IInv, ParseStatement
  PROVE  IInv'
<1> DEFINE f == Frame("unit_statement", TRUE)
<1>1. /\ c \in Nat /\ c \in 1..Len(tokens)
      /\ stack' = << f >> /\ c' = c /\ tokens' = tokens
  BY Facts DEF ParseStatement
<1>2. IsFrame(f) /\ Layered(f) /\ f.fn = "unit_statement" /\ f.required = TRUE /\ f.start = c
  <2>1. "unit_statement" \in Functions
    BY DEF Functions
  <2> QED
    BY <2>1, FrameFacts
<1> HIDE DEF f
<1>3. IsSeq(<< f >>)
  <2>1. << f >> \in Seq({f})
    OBVIOUS
  <2> QED
    BY <2>1 DEF IsSeq
<1>4. StackOK(<< f >>, c)
  BY <1>1, <1>2, <1>3 DEF StackOK
<1>5. StackInv'
  <2>1. << f >> # << >>
    OBVIOUS
  <2> QED
    BY <1>1, <1>4, <2>1 DEF ParseStatement, StackInv
<1>6. TypeOK'
  <2>1. \A i \in DOMAIN stack' : /\ stack'[i].fn \in Functions
                                 /\ stack'[i].required \in BOOLEAN
                                 /\ stack'[i].start \in 1..c'
    BY <1>1, <1>4, StackType
  <2> QED
    BY <2>1 DEF IInv, TypeOK, ParseStatement
<1>7. LossInv'
  <2>1. f.fn \notin Optional
    BY <1>2 DEF Optional
  <2>2. \A i \in 1..Len(stack') : stack'[i] = f
    BY <1>1
  <2>3. \A k \in dropped' : tokens'[k] \in Harmless
    BY DEF IInv, LossInv, ParseStatement
  <2> QED
    BY <2>1, <2>2, <2>3 DEF LossInv
<1>8. DiagInv'
  BY DEF IInv, DiagInv, ParseStatement
<1> QED
  BY <1>5, <1>6, <1>7, <1>8 DEF IInv, ParseStatement

\* The steps that start no function and touch no stack.
LEMMA IdleInv ==
  ASSUME IInv, Finish \/ SkipToken \/ SkipClose \/ SkipEof
  PROVE  IInv'
<1>1. /\ c \in Nat /\ c \in 1..Len(tokens) /\ Len(tokens) \in Nat
      /\ mode \in {"unit", "skip"} /\ stack = << >> /\ stack' = << >>
      /\ tokens' = tokens /\ dropped' = dropped /\ diags' = diags /\ success' = success
  BY Facts, StreamFacts DEF IInv, StackInv, Finish, SkipToken, SkipClose, SkipEof
<1>2. mode' \in {"unit", "skip", "accepted", "rejected", "aborted"}
  BY DEF IInv, TypeOK, Finish, SkipToken, SkipClose, SkipEof
<1>3. c' \in 1..Len(tokens) /\ c <= c'
  <2>1. CASE Finish \/ SkipEof
    BY <1>1, <2>1 DEF Finish, SkipEof
  <2>2. CASE SkipToken
    <3>1. Kind # "EOF" /\ c \in DOMAIN tokens /\ tokens \in TokenStreams /\ c' = c + 1
      BY <2>2 DEF SkipToken, IInv, TypeOK
    <3>2. c + 1 \in DOMAIN tokens /\ DOMAIN tokens = 1..Len(tokens)
      BY <3>1, NextToken, StreamFacts
    <3> QED
      BY <1>1, <3>1, <3>2
  <2>3. CASE SkipClose
    <3>1. c + 1 \in 1..Len(tokens) /\ (tokens[c + 1] # "EOF" => c + 2 \in 1..Len(tokens))
      <4>1. c + 1 \in 1..Len(tokens)
        BY <1>1, <2>3, NextToken, StreamFacts DEF SkipClose, IInv, TypeOK
      <4>2. \A i \in 1..Len(tokens) : tokens[i] = "EOF" <=> i = Len(tokens)
        BY StreamFacts DEF IInv
      <4> QED
        BY <1>1, <4>1, <4>2
    <3>2. \/ tokens[c + 1] = "EOF" /\ c' = c + 1
          \/ tokens[c + 1] # "EOF" /\ c' = c + 2
      BY <2>3 DEF SkipClose
    <3> QED
      BY <1>1, <3>1, <3>2
  <2> QED
    BY <2>1, <2>2, <2>3
<1>4. StackInv'
  BY <1>1, <1>2, EmptyStack DEF StackInv
<1>5. TypeOK'
  <2>1. c' \in DOMAIN tokens'
    BY <1>1, <1>3, StreamFacts DEF IInv
  <2>2. dropped' \subseteq 1..(c' - 1)
    <3>1. dropped' \subseteq 1..(c - 1)
      BY <1>1 DEF IInv, TypeOK
    <3>2. \A d, e \in Nat : d <= e => 1..(d - 1) \subseteq 1..(e - 1)
      OBVIOUS
    <3>3. \A n \in Nat : \A i \in 1..n : i \in Nat
      OBVIOUS
    <3> QED
      BY <1>1, <1>3, <3>1, <3>2, <3>3
  <2> QED
    BY <1>1, <1>2, <2>1, <2>2 DEF IInv, TypeOK, Final
<1>6. LossInv'
  BY <1>1 DEF IInv, LossInv
<1>7. DiagInv'
  BY <1>1 DEF IInv, TypeOK, DiagInv, Finish, SkipToken, SkipClose, SkipEof
<1> QED
  BY <1>1, <1>4, <1>5, <1>6, <1>7 DEF IInv

LEMMA ExpectInv ==
  ASSUME IInv, Expect
  PROVE  IInv'
<1> DEFINE k == IF item.keep THEN Append(top.kids, Leaf(c)) ELSE top.kids
           f == [top EXCEPT !.todo = rest, !.kids = k]
<1>1. /\ mode = "parse" /\ top.todo # << >> /\ item.op = "token" /\ Kind \in item.kinds
      /\ c' = c + 1 /\ tokens' = tokens /\ stack' = Replace(stack, f)
      /\ UNCHANGED << mode, success, diags, dropped >>
  BY DEF Expect, Running
<1>2. stack # << >>
  BY <1>1 DEF IInv, StackInv
<1>3. /\ IsFrame(f) /\ f.todo = rest
      /\ f.fn = top.fn /\ f.required = top.required /\ f.start = top.start
  <2>1. IsFrame(top)
    BY <1>2, Facts
  <2>2. PICK h : h = [top EXCEPT !.todo = rest]
    OBVIOUS
  <2>3. PICK g : g = [h EXCEPT !.kids = k]
    OBVIOUS
  <2>4. f = g
    BY <2>2, <2>3
  <2> HIDE DEF f, k
  <2>5. IsFrame(h) /\ h.todo = rest
        /\ h.fn = top.fn /\ h.required = top.required /\ h.start = top.start
    BY <2>1, <2>2, NewTodo
  <2>6. IsFrame(g) /\ g.todo = h.todo
        /\ g.fn = h.fn /\ g.required = h.required /\ g.start = h.start
    BY <2>3, <2>5, NewKids
  <2> QED
    BY <2>4, <2>5, <2>6
<1> HIDE DEF f, k
<1>4. Layered(f)
  BY <1>1, <1>2, <1>3, Facts, LayeredStep DEF rest
<1>5. c \in Nat /\ c + 1 \in DOMAIN tokens /\ c + 1 \in 1..Len(tokens)
  <2>1. Kind # "EOF"
    <3>1. item.kinds \subseteq Tokens
      BY <1>1, <1>2, Facts, HeadFacts DEF item
    <3> QED
      BY <1>1, <3>1 DEF Tokens
  <2> QED
    BY <2>1, NextToken, StreamFacts DEF IInv, TypeOK
<1>6. StackOK(stack', c')
  <2>1. StackOK(stack, c) /\ c <= c + 1 /\ c + 1 \in Nat
    BY <1>5, Facts
  <2>2. StackOK(Replace(stack, f), c + 1)
    BY <1>2, <1>3, <1>4, <1>5, <2>1, ReplaceOK DEF top
  <2> QED
    BY <1>1, <2>2
<1>7. /\ Len(stack') = Len(stack) /\ stack' # << >>
      /\ \A i \in 1..Len(stack) : stack'[i].fn = stack[i].fn /\ stack'[i].start = stack[i].start
      /\ stack'[Len(stack)] = f
  <2>1. /\ Len(stack) \in Nat /\ Len(stack') = Len(stack) /\ stack'[Len(stack)] = f
        /\ \A i \in 1..Len(stack) - 1 : stack'[i] = stack[i]
        /\ stack' # << >>
    BY <1>1, <1>2, Facts, ReplaceFacts DEF StackOK
  <2> QED
    BY <1>3, <2>1 DEF top
<1>8. StackInv'
  BY <1>1, <1>6, <1>7 DEF StackInv
<1>9. TypeOK'
  <2>1. \A i \in DOMAIN stack' : /\ stack'[i].fn \in Functions
                                 /\ stack'[i].required \in BOOLEAN
                                 /\ stack'[i].start \in 1..c'
    BY <1>1, <1>5, <1>6, StackType
  <2>2. dropped \subseteq 1..(c + 1 - 1)
    BY <1>5 DEF IInv, TypeOK
  <2> QED
    BY <1>1, <1>5, <2>1, <2>2 DEF IInv, TypeOK
<1>10. LossInv'
  <2>1. ASSUME NEW i \in 1..Len(stack), stack[i].fn \in Optional,
               NEW j \in stack[i].start .. c
        PROVE  tokens[j] \in Harmless
    <3>1. CASE j = c
      <4>1. item.kinds \subseteq Harmless
        BY <1>1, <1>2, <2>1, Facts, HeadFacts DEF item
      <4> QED
        BY <1>1, <3>1, <4>1 DEF Kind
    <3>2. CASE j # c
      <4>1. j \in stack[i].start .. (c - 1)
        BY <1>5, <3>2
      <4> QED
        BY <2>1, <4>1 DEF IInv, LossInv
    <3> QED
      BY <3>1, <3>2
  <2>2. c' - 1 = c
    BY <1>1, <1>5
  <2> QED
    BY <1>1, <1>7, <2>1, <2>2 DEF IInv, LossInv
<1>11. DiagInv'
  BY <1>1 DEF IInv, DiagInv
<1> QED
  BY <1>1, <1>8, <1>9, <1>10, <1>11 DEF IInv

LEMMA ExpectFailsInv ==
  ASSUME IInv, ExpectFails
  PROVE  IInv'
<1>1. /\ mode = "parse" /\ mode' = "fail" /\ stack # << >>
      /\ diags' = IF top.required THEN diags + 1 ELSE diags
      /\ UNCHANGED << tokens, c, stack, success, dropped >>
  BY DEF IInv, StackInv, ExpectFails, Running, Say
<1>2. diags \in Nat /\ diags' \in Nat /\ top.required \in BOOLEAN
  BY <1>1, Facts DEF IInv, TypeOK, Layered
<1>3. StackInv' /\ LossInv'
  BY <1>1 DEF IInv, StackInv, LossInv
<1>4. TypeOK'
  BY <1>1, <1>2 DEF IInv, TypeOK
<1>5. DiagInv'
  <2>1. top' = top
    BY <1>1 DEF top
  <2> QED
    BY <1>1, <1>2, <2>1 DEF IInv, DiagInv
<1> QED
  BY <1>1, <1>3, <1>4, <1>5 DEF IInv

LEMMA BranchInv ==
  ASSUME IInv, Branch
  PROVE  IInv'
<1> DEFINE again == IF item.op = "while" THEN top.todo ELSE rest
           todo  == IF Kind \in item.kinds THEN item.then \o again ELSE rest
           f == [top EXCEPT !.todo = todo]
<1>1. /\ mode = "parse" /\ top.todo # << >> /\ item.op \in {"when", "while"}
      /\ stack' = Replace(stack, f)
      /\ UNCHANGED << tokens, c, mode, success, diags, dropped >>
  BY DEF Branch, Running
<1>2. stack # << >> /\ c \in Nat
  BY <1>1, Facts DEF IInv, StackInv
<1>3. /\ IsFrame(f) /\ f.todo = todo
      /\ f.fn = top.fn /\ f.required = top.required /\ f.start = top.start
  <2>1. IsFrame(top)
    BY <1>2, Facts
  <2>2. f = [top EXCEPT !.todo = todo]
    OBVIOUS
  <2> HIDE DEF f, todo
  <2> QED
    BY <2>1, <2>2, NewTodo
<1>4. \/ todo = Tail(top.todo)
      \/ todo = Head(top.todo).then \o Tail(top.todo)
      \/ todo = Head(top.todo).then \o top.todo
  BY DEF item, rest
<1> HIDE DEF f, todo
<1>5. Layered(f)
  BY <1>1, <1>2, <1>3, <1>4, Facts, LayeredStep DEF item
<1>6. StackOK(stack', c)
  <2>1. StackOK(Replace(stack, f), c)
    BY <1>2, <1>3, <1>5, Facts, ReplaceOK DEF top
  <2> QED
    BY <1>1, <2>1
<1>7. /\ Len(stack') = Len(stack) /\ stack' # << >>
      /\ \A i \in 1..Len(stack) : stack'[i].fn = stack[i].fn /\ stack'[i].start = stack[i].start
  <2>1. /\ Len(stack) \in Nat /\ Len(stack') = Len(stack) /\ stack'[Len(stack)] = f
        /\ \A i \in 1..Len(stack) - 1 : stack'[i] = stack[i]
        /\ stack' # << >>
    BY <1>1, <1>2, Facts, ReplaceFacts DEF StackOK
  <2> QED
    BY <1>3, <2>1 DEF top
<1>8. StackInv'
  BY <1>1, <1>6, <1>7 DEF StackInv
<1>9. TypeOK'
  <2>1. \A i \in DOMAIN stack' : /\ stack'[i].fn \in Functions
                                 /\ stack'[i].required \in BOOLEAN
                                 /\ stack'[i].start \in 1..c
    BY <1>2, <1>6, StackType
  <2> QED
    BY <1>1, <2>1 DEF IInv, TypeOK
<1>10. LossInv'
  BY <1>1, <1>7 DEF IInv, LossInv
<1>11. DiagInv'
  BY <1>1 DEF IInv, DiagInv
<1> QED
  BY <1>1, <1>8, <1>9, <1>10, <1>11 DEF IInv

LEMMA CallParseInv ==
  ASSUME IInv, CallParse
  PROVE  IInv'
<1> DEFINE required == item.op = "call" /\ (item.force \/ top.required)
           f == Frame(item.fn, required)
<1>1. /\ mode = "parse" /\ top.todo # << >> /\ item.op \in {"call", "try"}
      /\ stack' = Append(stack, f)
      /\ UNCHANGED << tokens, c, mode, success, diags, dropped >>
  BY DEF CallParse, Running
<1>2. stack # << >> /\ c \in Nat /\ c \in 1..c
  <2>1. stack # << >>
    BY <1>1 DEF IInv, StackInv
  <2>2. c \in Nat /\ c \in 1..Len(tokens) /\ Len(tokens) \in Nat
    BY Facts, StreamFacts DEF IInv
  <2> QED
    BY <2>1, <2>2
<1>3. Layered(top)
  BY <1>2, Facts
<1>4. /\ item.op = "call" => /\ item.fn \in Functions /\ item.force \in BOOLEAN
                             /\ top.fn \notin Outer => ~item.force /\ item.fn \notin Outer
                             /\ top.fn \in Optional => item.fn \in Optional
      /\ item.op = "try" => item.fn \in Optional
  BY <1>1, <1>3, HeadFacts DEF item
<1>5. top.required \in BOOLEAN /\ (top.fn \in Outer => top.required)
  BY <1>3 DEF Layered
<1>6. required \in BOOLEAN /\ (required <=> (item.op = "call" /\ top.required))
  BY <1>4, <1>5
<1>7. item.fn \in Functions /\ (item.fn \in Outer => required)
  BY <1>1, <1>4, <1>5, <1>6, Layers
<1>8. /\ IsFrame(f) /\ Layered(f) /\ f.fn = item.fn /\ f.required = required /\ f.start = c
  <2> HIDE DEF required
  <2> QED
    BY <1>6, <1>7, FrameFacts
<1> HIDE DEF f, required
<1>9. Calls(top, f)
  BY <1>1, <1>4, <1>6, <1>8 DEF Calls, item
<1>10. top.fn \in Optional => f.fn \in Optional
  BY <1>1, <1>4, <1>8
<1>11. StackOK(stack', c)
  <2>1. StackOK(Append(stack, f), c)
    BY <1>2, <1>8, <1>9, <1>10, Facts, PushOK DEF top
  <2> QED
    BY <1>1, <2>1
<1>12. /\ Len(stack) \in Nat /\ Len(stack') = Len(stack) + 1 /\ stack' # << >>
       /\ stack'[Len(stack) + 1] = f /\ \A i \in 1..Len(stack) : stack'[i] = stack[i]
  BY <1>1, <1>2, Facts, AppendFacts DEF StackOK
<1>13. StackInv'
  BY <1>1, <1>11, <1>12 DEF StackInv
<1>14. TypeOK'
  <2>1. \A i \in DOMAIN stack' : /\ stack'[i].fn \in Functions
                                 /\ stack'[i].required \in BOOLEAN
                                 /\ stack'[i].start \in 1..c
    BY <1>2, <1>11, StackType
  <2> QED
    BY <1>1, <2>1 DEF IInv, TypeOK
<1>15. LossInv'
  <2>1. ASSUME NEW i \in 1..Len(stack'), stack'[i].fn \in Optional,
               NEW j \in stack'[i].start .. (c - 1)
        PROVE  tokens[j] \in Harmless
    <3>1. CASE i = Len(stack) + 1
      <4>1. j \in c .. (c - 1)
        BY <1>8, <1>12, <2>1, <3>1
      <4> QED
        BY <1>2, <4>1
    <3>2. CASE i # Len(stack) + 1
      <4>1. i \in 1..Len(stack) /\ stack'[i] = stack[i]
        BY <1>12, <3>2
      <4> QED
        BY <2>1, <4>1 DEF IInv, LossInv
    <3> QED
      BY <3>1, <3>2
  <2> QED
    BY <1>1, <2>1 DEF IInv, LossInv
<1>16. DiagInv'
  BY <1>1 DEF IInv, DiagInv
<1> QED
  BY <1>1, <1>13, <1>14, <1>15, <1>16 DEF IInv

\* The frame under the top is its caller.
LEMMA CallerFacts ==
  ASSUME NEW s, NEW d \in Nat, StackOK(s, d), Len(s) > 1
  PROVE  /\ Len(s) \in Nat /\ Len(s) - 1 \in 1..Len(s)
         /\ Calls(s[Len(s) - 1], s[Len(s)])
         /\ IsFrame(s[Len(s) - 1]) /\ Layered(s[Len(s) - 1])
         /\ Head(s[Len(s) - 1].todo).op = "try" => s[Len(s)].fn \in Optional
         /\ s[Len(s)].required <=> /\ Head(s[Len(s) - 1].todo).op = "call"
                                   /\ s[Len(s) - 1].required
<1>1. Len(s) \in Nat
  BY SeqFacts DEF StackOK
<1>2. Len(s) - 1 \in 1..Len(s) /\ Len(s) - 1 \in 1..Len(s) - 1 /\ Len(s) - 1 + 1 = Len(s)
  BY <1>1
<1>3. Calls(s[Len(s) - 1], s[Len(s) - 1 + 1])
  BY <1>2 DEF StackOK
<1>4. Calls(s[Len(s) - 1], s[Len(s)])
  BY <1>2, <1>3
<1>5. IsFrame(s[Len(s) - 1]) /\ Layered(s[Len(s) - 1])
  BY <1>2 DEF StackOK
<1> QED
  BY <1>1, <1>2, <1>4, <1>5 DEF Calls

\* Returning to the caller, which goes on as frame f.
LEMMA Resume ==
  ASSUME NEW s, NEW d \in Nat, StackOK(s, d), Len(s) > 1,
         NEW f, IsFrame(f), Layered(f), f.fn = s[Len(s) - 1].fn,
         f.required = s[Len(s) - 1].required, f.start = s[Len(s) - 1].start,
         NEW r, r = Replace(SubSeq(s, 1, Len(s) - 1), f)
  PROVE  /\ StackOK(r, d) /\ Len(r) = Len(s) - 1 /\ r # << >>
         /\ \A i \in 1..Len(r) : i \in 1..Len(s) /\ r[i].fn = s[i].fn /\ r[i].start = s[i].start
<1> DEFINE p == SubSeq(s, 1, Len(s) - 1)
<1>1. Len(s) \in Nat /\ IsSeq(s)
  BY SeqFacts DEF StackOK
<1>2. StackOK(p, d)
  BY PopOK
<1>3. Len(p) = Len(s) - 1 /\ p # << >> /\ \A i \in 1..Len(s) - 1 : p[i] = s[i]
  BY <1>1, PopFacts
<1>4. r = Replace(p, f)
  OBVIOUS
<1> HIDE DEF p
<1>5. Len(p) \in 1..Len(s) - 1 /\ p[Len(p)] = s[Len(s) - 1]
  BY <1>1, <1>3
<1>6. StackOK(r, d)
  BY <1>2, <1>3, <1>4, <1>5, ReplaceOK
<1>7. /\ Len(r) = Len(s) - 1 /\ r[Len(s) - 1] = f /\ r # << >>
      /\ \A i \in 1..Len(s) - 2 : r[i] = s[i]
  <2>1. IsSeq(p)
    BY <1>2 DEF StackOK
  <2>2. /\ Len(r) = Len(p) /\ r[Len(p)] = f /\ r # << >>
        /\ \A i \in 1..Len(p) - 1 : r[i] = p[i]
    BY <1>3, <1>4, <2>1, ReplaceFacts
  <2> QED
    BY <1>1, <1>3, <2>2
<1>8. ASSUME NEW i \in 1..Len(r)
      PROVE  i \in 1..Len(s) /\ r[i].fn = s[i].fn /\ r[i].start = s[i].start
  <2>1. CASE i = Len(s) - 1
    BY <1>1, <1>7, <2>1
  <2>2. CASE i # Len(s) - 1
    BY <1>1, <1>7, <2>2
  <2> QED
    BY <2>1, <2>2
<1> QED
  BY <1>6, <1>7, <1>8

\* A step that pops the stack, or returns to the caller, keeps what is said of the
\* tokens that the frames have consumed.
LEMMA LossKept ==
  ASSUME IInv, NEW r,
         \A i \in 1..Len(r) : i \in 1..Len(stack) /\ r[i].fn = stack[i].fn
                                                  /\ r[i].start = stack[i].start
  PROVE  \A i \in 1..Len(r) : r[i].fn \in Optional =>
           \A k \in r[i].start .. (c - 1) : tokens[k] \in Harmless
BY DEF IInv, LossInv

LEMMA ReturnTrueInv ==
  ASSUME IInv, ReturnTrue
  PROVE  IInv'
<1> DEFINE caller == stack[Len(stack) - 1]
           then == IF Head(caller.todo).op = "try" THEN Head(caller.todo).then ELSE << >>
           k == Append(caller.kids, Node(top))
           f == [caller EXCEPT !.todo = then \o Tail(caller.todo), !.kids = k]
<1>1. /\ mode = "parse" /\ stack # << >>
      /\ stack' = IF Len(stack) = 1 THEN << >> ELSE Replace(Pop, f)
      /\ mode' = IF Len(stack) = 1 THEN "unit" ELSE "parse"
      /\ UNCHANGED << tokens, c, success, diags, dropped >>
  BY DEF ReturnTrue, IInv, StackInv
<1>2. c \in Nat /\ Len(stack) \in Nat /\ Len(stack) > 0 /\ StackOK(stack, c)
  BY <1>1, Facts
<1>3. CASE Len(stack) = 1
  <2>1. stack' = << >> /\ mode' = "unit"
    BY <1>1, <1>3
  <2>2. StackInv'
    BY <1>1, <2>1, EmptyStack DEF StackInv
  <2>3. TypeOK'
    BY <1>1, <2>1 DEF IInv, TypeOK
  <2>4. LossInv'
    BY <1>1, <2>1 DEF IInv, LossInv
  <2>5. DiagInv'
    BY <1>1, <2>1 DEF IInv, DiagInv
  <2> QED
    BY <1>1, <2>2, <2>3, <2>4, <2>5 DEF IInv
<1>4. CASE Len(stack) # 1
  <2>1. Len(stack) > 1 /\ stack' = Replace(Pop, f) /\ mode' = "parse"
    <3>1. Len(stack) > 1
      BY <1>2, <1>4
    <3>2. stack' = Replace(Pop, f) /\ mode' = "parse"
      <4> HIDE DEF f
      <4> QED
        BY <1>1, <1>4
    <3> QED
      BY <3>1, <3>2, Zenon
  <2>2. IsFrame(caller) /\ Layered(caller) /\ Calls(caller, top)
    BY <1>2, <2>1, CallerFacts DEF top
  <2>3. IsFrame(f) /\ f.todo = then \o Tail(caller.todo)
        /\ f.fn = caller.fn /\ f.required = caller.required /\ f.start = caller.start
    <3> DEFINE t == then \o Tail(caller.todo)
    <3>1. PICK h : h = [caller EXCEPT !.todo = t]
      OBVIOUS
    <3>2. PICK g : g = [h EXCEPT !.kids = k]
      OBVIOUS
    <3>3. f = g
      BY <3>1, <3>2
    <3> HIDE DEF f, k, t, caller
    <3>4. IsFrame(h) /\ h.todo = t
          /\ h.fn = caller.fn /\ h.required = caller.required /\ h.start = caller.start
      BY <2>2, <3>1, NewTodo
    <3>5. IsFrame(g) /\ g.todo = h.todo
          /\ g.fn = h.fn /\ g.required = h.required /\ g.start = h.start
      BY <3>2, <3>4, NewKids
    <3> QED
      BY <3>3, <3>4, <3>5 DEF t
  <2> HIDE DEF f, caller
  <2>4. caller.todo # << >>
    BY <2>2 DEF Calls
  <2>5. \/ f.todo = Tail(caller.todo)
        \/ Head(caller.todo).op = "try" /\ f.todo = Head(caller.todo).then \o Tail(caller.todo)
    <3>1. << >> \o Tail(caller.todo) = Tail(caller.todo)
      BY <2>2, <2>4, EmptyConcat
    <3> QED
      BY <2>3, <3>1
  <2>6. Layered(f)
    BY <2>2, <2>3, <2>4, <2>5, LayeredStep
  <2>7. /\ StackOK(stack', c) /\ stack' # << >>
        /\ \A i \in 1..Len(stack') : /\ i \in 1..Len(stack) /\ stack'[i].fn = stack[i].fn
                                     /\ stack'[i].start = stack[i].start
    BY <1>2, <2>1, <2>3, <2>6, Resume DEF Pop, caller
  <2>8. StackInv'
    BY <1>1, <2>1, <2>7 DEF StackInv
  <2>9. TypeOK'
    <3>1. \A i \in DOMAIN stack' : /\ stack'[i].fn \in Functions
                                   /\ stack'[i].required \in BOOLEAN
                                   /\ stack'[i].start \in 1..c
      BY <1>2, <2>7, StackType
    <3> QED
      BY <1>1, <2>1, <3>1 DEF IInv, TypeOK
  <2>10. LossInv'
    BY <1>1, <2>7, LossKept DEF IInv, LossInv
  <2>11. DiagInv'
    BY <1>1, <2>1 DEF IInv, DiagInv
  <2> QED
    BY <1>1, <2>8, <2>9, <2>10, <2>11 DEF IInv
<1> QED
  BY <1>3, <1>4

LEMMA ReturnFalseInv ==
  ASSUME IInv, ReturnFalse
  PROVE  IInv'
<1> DEFINE caller == stack[Len(stack) - 1]
<1>1. /\ mode = "fail" /\ mode' = "fail" /\ Len(stack) > 1 /\ Head(caller.todo).op = "call"
      /\ diags' = IF Head(caller.todo).say /\ caller.required THEN diags + 1 ELSE diags
      /\ stack' = SubSeq(stack, 1, Len(stack) - 1)
      /\ UNCHANGED << tokens, c, success, dropped >>
  BY DEF ReturnFalse, Say, Pop
<1>2. c \in Nat /\ StackOK(stack, c) /\ IsSeq(stack) /\ Len(stack) \in Nat
  <2>1. c \in Nat /\ StackOK(stack, c)
    BY Facts
  <2> QED
    BY <2>1, SeqFacts DEF StackOK
<1>3. top.required <=> caller.required
  BY <1>1, <1>2, CallerFacts DEF top
<1>4. /\ StackOK(stack', c) /\ Len(stack') = Len(stack) - 1 /\ stack' # << >>
      /\ \A i \in 1..Len(stack) - 1 : stack'[i] = stack[i]
  BY <1>1, <1>2, PopOK, PopFacts
<1>5. top' = caller
  BY <1>1, <1>2, <1>4 DEF top
<1> HIDE DEF caller
<1>6. diags \in Nat /\ diags' \in Nat /\ (diags > 0 => diags' > 0)
      /\ (~caller.required => diags' = diags)
  <2>1. diags \in Nat
    BY DEF IInv, TypeOK
  <2> QED
    BY <1>1, <2>1
<1>7. StackInv'
  BY <1>1, <1>4 DEF StackInv
<1>8. TypeOK'
  <2>1. \A i \in DOMAIN stack' : /\ stack'[i].fn \in Functions
                                 /\ stack'[i].required \in BOOLEAN
                                 /\ stack'[i].start \in 1..c
    BY <1>2, <1>4, StackType
  <2> QED
    BY <1>1, <1>6, <2>1 DEF IInv, TypeOK
<1>9. LossInv'
  <2>1. \A i \in 1..Len(stack') : i \in 1..Len(stack) /\ stack'[i] = stack[i]
    BY <1>2, <1>4
  <2> QED
    BY <1>1, <2>1, LossKept DEF IInv, LossInv
<1>10. DiagInv'
  BY <1>1, <1>3, <1>5, <1>6 DEF IInv, DiagInv
<1> QED
  BY <1>1, <1>7, <1>8, <1>9, <1>10 DEF IInv

LEMMA ReturnNothingInv ==
  ASSUME IInv, ReturnNothing
  PROVE  IInv'
<1> DEFINE caller == stack[Len(stack) - 1]
           f == [caller EXCEPT !.todo = Tail(caller.todo)]
<1>1. /\ mode = "fail" /\ mode' = "parse" /\ Len(stack) > 1 /\ Head(caller.todo).op = "try"
      /\ stack' = Replace(SubSeq(stack, 1, Len(stack) - 1), f)
      /\ dropped' = dropped \cup (top.start .. (c - 1))
      /\ UNCHANGED << tokens, c, success, diags >>
  BY DEF ReturnNothing, Pop
<1>2. c \in Nat /\ StackOK(stack, c) /\ stack # << >> /\ Len(stack) \in Nat
      /\ top.start \in 1..c /\ Len(stack) \in 1..Len(stack)
  <2>1. stack # << >>
    BY <1>1 DEF IInv, StackInv
  <2> QED
    BY <2>1, Facts
<1>3. /\ IsFrame(caller) /\ Layered(caller) /\ Calls(caller, top)
      /\ top.fn \in Optional /\ ~top.required
  BY <1>1, <1>2, CallerFacts DEF top
<1>4. IsFrame(f) /\ f.todo = Tail(caller.todo)
      /\ f.fn = caller.fn /\ f.required = caller.required /\ f.start = caller.start
  <2>1. f = [caller EXCEPT !.todo = Tail(caller.todo)]
    OBVIOUS
  <2> HIDE DEF f, caller
  <2> QED
    BY <1>3, <2>1, NewTodo
<1> HIDE DEF f, caller
<1>5. Layered(f)
  BY <1>3, <1>4, LayeredStep DEF Calls
<1>6. /\ StackOK(stack', c) /\ stack' # << >>
      /\ \A i \in 1..Len(stack') : /\ i \in 1..Len(stack) /\ stack'[i].fn = stack[i].fn
                                   /\ stack'[i].start = stack[i].start
  BY <1>1, <1>2, <1>4, <1>5, Resume DEF caller
<1>7. StackInv'
  BY <1>1, <1>6 DEF StackInv
<1>8. TypeOK'
  <2>1. \A i \in DOMAIN stack' : /\ stack'[i].fn \in Functions
                                 /\ stack'[i].required \in BOOLEAN
                                 /\ stack'[i].start \in 1..c
    BY <1>2, <1>6, StackType
  <2>2. \A i \in 1..c : i .. (c - 1) \subseteq 1..(c - 1)
    BY <1>2
  <2>3. dropped' \subseteq 1..(c - 1)
    BY <1>1, <1>2, <2>2 DEF IInv, TypeOK
  <2> QED
    BY <1>1, <2>1, <2>3 DEF IInv, TypeOK
<1>9. LossInv'
  <2>1. \A k \in top.start .. (c - 1) : tokens[k] \in Harmless
    BY <1>2, <1>3 DEF IInv, LossInv, top
  <2>2. \A k \in dropped' : tokens[k] \in Harmless
    BY <1>1, <2>1 DEF IInv, LossInv
  <2> QED
    BY <1>1, <1>6, <2>2, LossKept DEF LossInv
<1>10. DiagInv'
  BY <1>1, <1>3 DEF IInv, DiagInv
<1> QED
  BY <1>1, <1>7, <1>8, <1>9, <1>10 DEF IInv

LEMMA StatementFailsInv ==
  ASSUME IInv, StatementFails
  PROVE  IInv'
<1>1. /\ mode = "fail" /\ mode' = "skip" /\ Len(stack) = 1 /\ stack' = << >>
      /\ success' = FALSE /\ UNCHANGED << tokens, c, diags, dropped >>
  BY DEF StatementFails
<1>2. diags > 0
  <2>1. stack # << >> /\ StackOK(stack, c)
    BY <1>1 DEF IInv, StackInv
  <2>2. top.required
    BY <1>1, <2>1 DEF StackOK, top
  <2> QED
    BY <1>1, <2>2 DEF IInv, DiagInv
<1>3. StackInv'
  BY <1>1, EmptyStack DEF StackInv
<1>4. TypeOK'
  <2>1. DOMAIN stack' = {}
    BY <1>1
  <2> QED
    BY <1>1, <2>1 DEF IInv, TypeOK
<1>5. LossInv'
  BY <1>1 DEF IInv, LossInv
<1>6. DiagInv'
  BY <1>1, <1>2 DEF IInv, DiagInv
<1> QED
  BY <1>1, <1>3, <1>4, <1>5, <1>6 DEF IInv

LEMMA StepInv ==
  ASSUME IInv, [Next]_vars
  PROVE  IInv'
<1>1. CASE Next
  BY <1>1, ParseStatementInv, IdleInv, ExpectInv, ExpectFailsInv, BranchInv, CallParseInv,
     ReturnTrueInv, ReturnFalseInv, ReturnNothingInv, StatementFailsInv DEF Next
<1>2. CASE UNCHANGED vars
  <2>1. top' = top
    BY <1>2 DEF vars, top
  <2> QED
    BY <1>2, <2>1 DEF vars, IInv, TypeOK, StackInv, LossInv, DiagInv
<1> QED
  BY <1>1, <1>2

LEMMA Invariance == Spec => []IInv
<1>1. Init => IInv
  BY InitInv
<1>2. IInv /\ [Next]_vars => IInv'
  BY StepInv
<1> QED
  BY <1>1, <1>2, PTL DEF Spec

-----------------------------------------------------------------------------
(***************************************************************************)
(* The theorems.                                                           *)
(***************************************************************************)

\* Whatever the tokens, the cursor stays inside the token array: no increment of
\* parser->c, by consume or in the recovery of skip_statement, passes EOF.
THEOREM TypeCorrect == Spec => []TypeOK
<1>1. IInv => TypeOK
  BY DEF IInv
<1> QED
  BY <1>1, Invariance, PTL

\* Whatever the tokens, a unit is rejected with a diagnostic and accepted without.
THEOREM DiagnosedCorrect == Spec => []DiagnosedInv
<1>1. IInv => DiagnosedInv
  BY DEF IInv, TypeOK, DiagInv, DiagnosedInv
<1> QED
  BY <1>1, Invariance, PTL

\* Whatever the tokens, what a failed optional parse loses is no delimiter.
THEOREM LossCorrect == Spec => []LossIsConfined
<1>1. IInv => LossIsConfined
  BY DEF IInv, LossInv, LossIsConfined, Harmless, Delimiters
<1> QED
  BY <1>1, Invariance, PTL

-----------------------------------------------------------------------------
(***************************************************************************)
(* The AST of an accepted unit is the source's, for token streams of every *)
(* length (ParserReference's AstIsTheSource).                              *)
(*                                                                         *)
(* The invariant, TextInv, says of every activation of a parse function    *)
(* what it has read: the tokens from its start up to where its callee      *)
(* began (or up to the token ahead), but for the dropped ones, are the     *)
(* text t of a control point of the function (Done), a pair of what is     *)
(* left of the body and what its kids are written as.  The argument:       *)
(*                                                                         *)
(*   1. sequences of tokens, their concatenation, and FlattenSeq as the    *)
(*      last of the partial concatenations;                                *)
(*   2. Written, defined level by level: a node has its text from the      *)
(*      level of its Height on, since kids are lower than their node;      *)
(*   3. the tokens that are kept, and what dropping more of them changes;  *)
(*   4. the control points of each function, and that everything the       *)
(*      parser may do at one leads to another (AllMoves);                  *)
(*   5. the stack: each frame is under way up to where the next began      *)
(*      (Chain), through calls, returns and failures;                      *)
(*   6. one lemma per action of Parser, and the theorem.                   *)
(***************************************************************************)

\* The texts of tokens.
Words == Seq(Kinds)

\* The concatenation of two texts is a text, as long as both together.
LEMMA JoinType ==
  ASSUME NEW q \in Words, NEW r \in Words
  PROVE  /\ q \o r \in Words /\ Len(q \o r) = Len(q) + Len(r) /\ Len(q) \in Nat /\ Len(r) \in Nat
BY DEF Words

\* Concatenation is associative.
LEMMA JoinAssoc ==
  ASSUME NEW q \in Words, NEW r \in Words, NEW t \in Words
  PROVE  (q \o r) \o t = q \o (r \o t)
BY DEF Words

\* The empty text changes nothing it is joined to.
LEMMA JoinEmpty ==
  /\ << >> \in Words
  /\ \A q \in Words : q \o << >> = q /\ << >> \o q = q
BY DEF Words

\* To append a token is to join its one-token text.
LEMMA JoinOne ==
  ASSUME NEW q \in Words, NEW k \in Kinds
  PROVE  << k >> \in Words /\ Len(<< k >>) = 1 /\ Append(q, k) = q \o << k >>
BY DEF Words

\* Texts of one length with the same tokens are equal.
LEMMA WordsEqual ==
  ASSUME NEW q \in Words, NEW r \in Words, Len(q) = Len(r), \A k \in 1 .. Len(q) : q[k] = r[k]
  PROVE  q = r
BY DEF Words

\* To join two one-token texts is to join the text of both.
LEMMA JoinTwo ==
  ASSUME NEW q \in Words, NEW k \in Kinds, NEW l \in Kinds
  PROVE  << k, l >> \in Words /\ Len(<< k, l >>) = 2
         /\ (q \o << k >>) \o << l >> = q \o << k, l >>
<1>1. (q \o << k >>) \o << l >> = q \o (<< k >> \o << l >>)
  BY JoinOne, JoinAssoc
<1> DEFINE two == << k, l >>
           sum == << k >> \o << l >>
<1>2. two \in Words /\ Len(two) = 2 /\ two[1] = k /\ two[2] = l
  BY DEF Words
<1>3. sum \in Words /\ Len(sum) = 2 /\ sum[1] = k /\ sum[2] = l
  BY DEF Words
<1> HIDE DEF two, sum
<1>4. \A i \in 1 .. 2 : i = 1 \/ i = 2
  OBVIOUS
<1>5. two = sum
  BY <1>2, <1>3, <1>4, WordsEqual
<1> QED
  BY <1>1, <1>2, <1>5 DEF two, sum

-----------------------------------------------------------------------------
\* FlattenSeq, piece by piece.

\* Concatenation stays among the sequences over a set.
LEMMA SeqJoin ==
  ASSUME NEW V
  PROVE  /\ << >> \in Seq(V)
         /\ \A q, r \in Seq(V) : q \o r \in Seq(V)
         /\ \A q \in Seq(V) : << >> \o q = q /\ q \o << >> = q
OBVIOUS

\* Partial joins of the sequences in s.
Joins(W, j, s) ==
  /\ j[0] = << >>
  /\ \A n \in Nat : j[n] \in W
  /\ \A n \in Nat : n + 1 <= Len(s) => j[n + 1] = j[n] \o s[n + 1]

\* The partial joins of a sequence of texts exist.
LEMMA JoinsExist ==
  ASSUME NEW V, NEW W, W = Seq(V), NEW s \in Seq(W)
  PROVE  \E j \in [Nat -> W] : Joins(W, j, s)
<1> DEFINE More(n, before) == IF n + 1 <= Len(s) THEN before \o s[n + 1] ELSE before
           step == [p \in Nat \X W |-> More(p[1], p[2])]
<1>1. \A n \in Nat : n + 1 <= Len(s) => s[n + 1] \in W
  <2> SUFFICES ASSUME NEW n \in Nat, n + 1 <= Len(s)
               PROVE  s[n + 1] \in W
    OBVIOUS
  <2>1. n + 1 \in 1 .. Len(s)
    OBVIOUS
  <2> QED
    BY <2>1
<1>2. \A n \in Nat : \A t \in W : More(n, t) \in W
  BY <1>1, SeqJoin
<1>3. step \in [Nat \X W -> W] /\ \A n \in Nat : \A t \in W : step[<<n, t>>] = More(n, t)
  <2> HIDE DEF More
  <2> QED
    BY <1>2
<1> HIDE DEF step
<1>4. PICK f \in [Nat -> W] : Iterates(f, << >>, step)
  <2>1. step \in Steps(W) /\ << >> \in W
    BY <1>3, SeqJoin DEF Steps
  <2> QED
    BY <2>1, Recursion
<1>5. f[0] = << >> /\ \A n \in Nat : f[n] \in W /\ f[n + 1] = More(n, f[n])
  <2>1. f[0] = << >> /\ \A n \in Nat : f[n] \in W /\ f[n + 1] = step[<<n, f[n]>>]
    BY <1>4 DEF Iterates
  <2> HIDE DEF More
  <2> QED
    BY <1>3, <2>1
<1>6. Joins(W, f, s)
  BY <1>5 DEF Joins
<1> QED
  BY <1>6

\* FlattenSeq, a fold, is the last of these partial joins.
LEMMA JoinedIs ==
  ASSUME NEW V, NEW W, W = Seq(V), NEW s \in Seq(W)
  PROVE  \E j \in [Nat -> W] : Joins(W, j, s) /\ FlattenSeq(s) = j[Len(s)]
<1> DEFINE L == Len(s)
<1>1. L \in Nat /\ \A i \in 1 .. L : s[i] \in W
  OBVIOUS
<1>2. PICK j \in [Nat -> W] : Joins(W, j, s)
  BY JoinsExist
<1>3. /\ j[0] = << >> /\ \A n \in Nat : j[n] \in W
      /\ \A n \in Nat : n + 1 <= L => j[n + 1] = j[n] \o s[n + 1]
  BY <1>2 DEF Joins
<1>5. CASE L = 0
  <2>1. s = << >>
    BY <1>5
  <2>2. FlattenSeq(s) = s
    BY <1>5 DEF FlattenSeq
  <2> QED
    BY <1>2, <1>3, <1>5, <2>1, <2>2
<1>6. CASE L # 0
  <2> DEFINE Is(f) == f = [i \in 1 .. L |-> IF i = 1 THEN s[i] ELSE f[i - 1] \o s[i]]
             flatten == CHOOSE f : Is(f)
             g       == [i \in 1 .. L |-> j[i]]
  <2>2. \A i \in 1 .. L : j[i] = IF i = 1 THEN s[i] ELSE j[i - 1] \o s[i]
    <3> SUFFICES ASSUME NEW i \in 1 .. L
                 PROVE  j[i] = IF i = 1 THEN s[i] ELSE j[i - 1] \o s[i]
      OBVIOUS
    <3>1. i - 1 \in Nat /\ (i - 1) + 1 = i /\ (i - 1) + 1 <= L
      BY <1>1
    <3>2. j[i] = j[i - 1] \o s[i] /\ s[i] \in W
      BY <1>1, <1>3, <3>1
    <3>3. CASE i = 1
      <4>1. j[i - 1] = << >>
        BY <1>3, <3>3
      <4>2. << >> \o s[i] = s[i]
        BY <3>2, SeqJoin
      <4> QED
        BY <3>2, <3>3, <4>1, <4>2
    <3> QED
      BY <3>2, <3>3
  <2>3. Is(g)
    <3> DEFINE h == [i \in 1 .. L |-> IF i = 1 THEN s[i] ELSE g[i - 1] \o s[i]]
    <3>1. ASSUME NEW i \in 1 .. L PROVE g[i] = h[i]
      <4>1. i # 1 => i - 1 \in 1 .. L
        BY <1>1
      <4> QED
        BY <2>2, <4>1
    <3>2. g = [i \in 1 .. L |-> g[i]]
      OBVIOUS
    <3>4. h = [i \in 1 .. L |-> h[i]]
      <4> HIDE DEF g
      <4> QED
        OBVIOUS
    <3>3. g = h
      <4> HIDE DEF g, h
      <4> QED
        BY <3>1, <3>2, <3>4
    <3> QED
      BY <3>3
  <2>4. Is(flatten)
    <3> HIDE DEF Is
    <3> QED
      BY <2>3
  <2>5. FlattenSeq(s) = flatten[L]
    BY <1>6 DEF FlattenSeq
  <2> HIDE DEF flatten
  <2>6. \A n \in Nat : n + 1 <= L => flatten[n + 1] = j[n + 1]
    <3> DEFINE S == {n \in Nat : n + 1 <= L => flatten[n + 1] = j[n + 1]}
    <3>1. 0 \in S
      <4>1. CASE 1 <= L
        <5>1. 1 \in 1 .. L
          BY <1>1, <4>1
        <5> QED
          BY <2>2, <2>4, <5>1
      <4> QED
        BY <4>1
    <3>2. ASSUME NEW n \in Nat, n \in S
          PROVE  n + 1 \in S
      <4> SUFFICES ASSUME (n + 1) + 1 <= L
                   PROVE  flatten[(n + 1) + 1] = j[(n + 1) + 1]
        OBVIOUS
      <4> DEFINE i == (n + 1) + 1
      <4> HIDE DEF L
      <4>1. i \in 1 .. L /\ i # 1 /\ i - 1 = n + 1 /\ n + 1 <= L
        BY <1>1
      <4> HIDE DEF i
      <4>2. flatten[i] = flatten[i - 1] \o s[i] /\ j[i] = j[i - 1] \o s[i]
        BY <2>2, <2>4, <4>1
      <4>3. flatten[i - 1] = j[i - 1]
        BY <3>2, <4>1
      <4> QED
        BY <4>2, <4>3 DEF i
    <3> HIDE DEF S
    <3>3. \A n \in Nat : n \in S
      BY <3>1, <3>2, InductionOnNat
    <3> QED
      BY <3>3 DEF S
  <2>7. flatten[L] = j[L]
    <3>1. PICK n \in Nat : n + 1 = L /\ n + 1 <= L
      <4>1. L - 1 \in Nat /\ (L - 1) + 1 = L /\ (L - 1) + 1 <= L
        BY <1>1, <1>6
      <4> QED
        BY <4>1
    <3>2. flatten[n + 1] = j[n + 1]
      BY <2>6, <3>1
    <3> QED
      BY <3>1, <3>2
  <2> QED
    BY <1>2, <2>5, <2>7
<1> QED
  BY <1>5, <1>6

\* What FlattenSeq returns is a text.
LEMMA JoinedType ==
  ASSUME NEW V, NEW W, W = Seq(V), NEW s \in Seq(W)
  PROVE  FlattenSeq(s) \in W
<1>1. PICK j \in [Nat -> W] : FlattenSeq(s) = j[Len(s)]
  BY JoinedIs
<1>2. Len(s) \in Nat
  OBVIOUS
<1> QED
  BY <1>1, <1>2

\* Nothing joined is the empty text.
LEMMA FlatEmpty == FlattenSeq(<< >>) = << >>
<1>1. Len(<< >>) = 0
  OBVIOUS
<1> QED
  BY <1>1 DEF FlattenSeq

\* Two joins that agree on the pieces agree on what they are joined to.
LEMMA JoinsAgree ==
  ASSUME NEW W, NEW s, NEW t, NEW j, NEW k, Joins(W, j, s), Joins(W, k, t),
         NEW n \in Nat, n <= Len(s), n <= Len(t), Len(s) \in Nat, Len(t) \in Nat,
         \A i \in 1 .. n : s[i] = t[i]
  PROVE  j[n] = k[n]
<1> DEFINE S == {m \in Nat : m <= n => j[m] = k[m]}
<1>1. 0 \in S
  BY DEF Joins
<1>2. ASSUME NEW m \in Nat, m \in S
      PROVE  m + 1 \in S
  <2> SUFFICES ASSUME m + 1 <= n
               PROVE  j[m + 1] = k[m + 1]
    OBVIOUS
  <2>1. m <= n /\ m + 1 <= Len(s) /\ m + 1 <= Len(t) /\ m + 1 \in 1 .. n
    OBVIOUS
  <2>2. j[m] = k[m] /\ s[m + 1] = t[m + 1]
    BY <1>2, <2>1
  <2> QED
    BY <2>1, <2>2 DEF Joins
<1> HIDE DEF S
<1>3. n \in S
  BY <1>1, <1>2, InductionOnNat
<1> QED
  BY <1>3 DEF S

\* One text more is joined at the end.
LEMMA JoinedAppend ==
  ASSUME NEW V, NEW W, W = Seq(V), NEW s \in Seq(W), NEW x \in W
  PROVE  Append(s, x) \in Seq(W) /\ FlattenSeq(Append(s, x)) = FlattenSeq(s) \o x
<1> DEFINE t == Append(s, x)
<1>1. /\ t \in Seq(W) /\ Len(t) = Len(s) + 1 /\ Len(s) \in Nat /\ t[Len(s) + 1] = x
      /\ \A i \in 1 .. Len(s) : t[i] = s[i]
  <2> QED
    OBVIOUS
<1> HIDE DEF t
<1>2. PICK j : Joins(W, j, s) /\ FlattenSeq(s) = j[Len(s)]
  BY JoinedIs
<1>3. PICK k : Joins(W, k, t) /\ FlattenSeq(t) = k[Len(t)]
  BY <1>1, JoinedIs
<1>4. j[Len(s)] = k[Len(s)]
  <2>1. Len(s) \in Nat /\ Len(t) \in Nat /\ Len(s) <= Len(t) /\ Len(s) <= Len(s)
    BY ONLY <1>1
  <2>2. \A i \in 1 .. Len(s) : s[i] = t[i]
    BY <1>1, Zenon
  <2> QED
    BY ONLY <1>2, <1>3, <2>1, <2>2, JoinsAgree
<1>5. k[Len(s) + 1] = k[Len(s)] \o x
  <2>1. Len(s) + 1 <= Len(t)
    BY <1>1
  <2> QED
    BY <1>1, <1>3, <2>1 DEF Joins
<1>6. FlattenSeq(t) = FlattenSeq(s) \o x
  BY <1>1, <1>2, <1>3, <1>4, <1>5
<1> QED
  BY <1>1, <1>6 DEF t

-----------------------------------------------------------------------------
\* What holds of the empty sequence and of a longer one with each, holds of all.
LEMMA SeqInduction ==
  ASSUME NEW V, NEW T, << >> \in T, \A w \in Seq(V), x \in V : w \in T => Append(w, x) \in T
  PROVE  \A w \in Seq(V) : w \in T
<1> DEFINE S == {n \in Nat : \A w \in Seq(V) : Len(w) = n => w \in T}
<1>1. 0 \in S
  <2>1. \A w \in Seq(V) : Len(w) = 0 => w = << >>
    OBVIOUS
  <2> QED
    BY <2>1
<1>2. ASSUME NEW n \in Nat, n \in S PROVE n + 1 \in S
  <2> SUFFICES ASSUME NEW w \in Seq(V), Len(w) = n + 1
               PROVE  w \in T
    OBVIOUS
  <2> DEFINE p == SubSeq(w, 1, n)
             x == w[n + 1]
  <2>1. w # << >> /\ Len(w) - 1 = n
    OBVIOUS
  <2>2. p \in Seq(V) /\ x \in V /\ Append(p, x) = w /\ Len(p) = n
    <3>1. p \in Seq(V) /\ Len(p) = n /\ \A i \in 1 .. n : p[i] = w[i]
      BY SubSeqProperties
    <3>2. x \in V
      OBVIOUS
    <3> HIDE DEF p
    <3>3. Append(p, x) \in Seq(V) /\ Len(Append(p, x)) = Len(w)
          /\ \A i \in 1 .. Len(w) : Append(p, x)[i] = w[i]
      BY <3>1, <3>2
    <3> DEFINE a == Append(p, x)
    <3>4. a = w
      <4> HIDE DEF a
      <4> QED
        BY <3>3 DEF a
    <3> QED
      BY <3>1, <3>2, <3>4
  <2>3. p \in T
    BY <1>2, <2>2
  <2> HIDE DEF p, x
  <2> QED
    BY <2>2, <2>3
<1> HIDE DEF S
<1>3. \A n \in Nat : n \in S
  BY <1>1, <1>2, InductionOnNat
<1> QED
  BY <1>3 DEF S

\* A function from the elements of sequences, and one to sequences.
Goes(m, V, W) == m \in [V -> W]
Maps(m, V, U) == Goes(m, V, Seq(U))

\* What becomes of a sequence, element by element.
Picture(m, w) == FlattenSeq([k \in DOMAIN w |-> m[w[k]]])

\* Of nothing becomes nothing.
LEMMA PictureNone ==
  ASSUME NEW m
  PROVE  Picture(m, << >>) = << >>
<1>1. [k \in DOMAIN << >> |-> m[<< >>[k]]] = << >>
  OBVIOUS
<1> QED
  BY <1>1, FlatEmpty DEF Picture

\* The pieces of the picture of a sequence.
LEMMA PictureSeq ==
  ASSUME NEW V, NEW W, NEW m, Goes(m, V, W), NEW w \in Seq(V)
  PROVE  /\ [k \in DOMAIN w |-> m[w[k]]] \in Seq(W)
         /\ Len([k \in DOMAIN w |-> m[w[k]]]) = Len(w)
         /\ \A k \in 1 .. Len(w) : [i \in DOMAIN w |-> m[w[i]]][k] = m[w[k]]
<1>1. Len(w) \in Nat /\ DOMAIN w = 1 .. Len(w) /\ \A k \in 1 .. Len(w) : w[k] \in V
  OBVIOUS
<1>2. \A k \in 1 .. Len(w) : m[w[k]] \in W
  BY <1>1 DEF Goes
<1> DEFINE f == [k \in DOMAIN w |-> m[w[k]]]
<1>3. f \in [1 .. Len(w) -> W] /\ \A k \in 1 .. Len(w) : f[k] = m[w[k]]
  BY <1>1, <1>2
<1> HIDE DEF f
<1>4. f \in Seq(W) /\ Len(f) = Len(w)
  <2>1. f \in Seq(W)
    BY <1>1, <1>3
  <2>2. DOMAIN f = 1 .. Len(f) /\ Len(f) \in Nat /\ DOMAIN f = 1 .. Len(w)
    BY <1>3, <2>1
  <2> DEFINE a == Len(f)
             b == Len(w)
  <2>3. a \in Nat /\ b \in Nat /\ 1 .. a = 1 .. b
    BY <1>1, <2>2
  <2> HIDE DEF a, b
  <2>4. a = b
    <3>1. a > 0 => a \in 1 .. b
      BY <2>3
    <3>2. b > 0 => b \in 1 .. a
      BY <2>3
    <3> QED
      BY <2>3, <3>1, <3>2
  <2> QED
    BY <2>1, <2>4 DEF a, b
<1> QED
  BY <1>3, <1>4 DEF f

\* What becomes of a sequence is a sequence of what the pieces are made of.
LEMMA PictureType ==
  ASSUME NEW V, NEW U, NEW m, Maps(m, V, U), NEW w \in Seq(V)
  PROVE  Picture(m, w) \in Seq(U)
<1> DEFINE W == Seq(U)
           f == [k \in DOMAIN w |-> m[w[k]]]
<1>1. W = Seq(U) /\ Goes(m, V, W)
  BY DEF Maps
<1> HIDE DEF W
<1>2. f \in Seq(W)
  BY <1>1, PictureSeq
<1> HIDE DEF f
<1>3. FlattenSeq(f) \in W
  BY <1>1, <1>2, JoinedType
<1> QED
  BY <1>1, <1>3 DEF Picture, f

\* The picture of one element more is joined at the end.
LEMMA PictureAppend ==
  ASSUME NEW V, NEW U, NEW m, Maps(m, V, U), NEW w \in Seq(V), NEW x \in V
  PROVE  Picture(m, Append(w, x)) = Picture(m, w) \o m[x]
<1> DEFINE W == Seq(U)
           a == Append(w, x)
           f == [k \in DOMAIN w |-> m[w[k]]]
           g == [k \in DOMAIN a |-> m[a[k]]]
<1>1. W = Seq(U) /\ Goes(m, V, W)
  BY DEF Maps
<1>2. a \in Seq(V) /\ Len(a) = Len(w) + 1 /\ Len(w) \in Nat /\ a[Len(w) + 1] = x
      /\ \A k \in 1 .. Len(w) : a[k] = w[k]
  OBVIOUS
<1> HIDE DEF W, a
<1>3. f \in Seq(W) /\ Len(f) = Len(w) /\ \A k \in 1 .. Len(w) : f[k] = m[w[k]]
  BY <1>1, PictureSeq
<1>4. g \in Seq(W) /\ Len(g) = Len(a) /\ \A k \in 1 .. Len(a) : g[k] = m[a[k]]
  <2>1. a \in Seq(V)
    BY <1>2
  <2> QED
    BY ONLY <1>1, <2>1, PictureSeq
<1> HIDE DEF f, g
<1> DEFINE y == m[x]
           h == Append(f, y)
<1>5. y \in W
  BY <1>1 DEF Goes
<1> HIDE DEF y
<1>6. h \in Seq(W) /\ Len(h) = Len(f) + 1 /\ h[Len(f) + 1] = y
      /\ \A k \in 1 .. Len(f) : h[k] = f[k]
  BY <1>3, <1>5
<1>7. FlattenSeq(h) = FlattenSeq(f) \o y
  BY <1>1, <1>3, <1>5, JoinedAppend
<1> HIDE DEF h
<1>8. g = h
  <2>1. Len(g) = Len(h) /\ Len(g) \in Nat
    BY <1>2, <1>3, <1>4, <1>6
  <2>2. ASSUME NEW k \in 1 .. Len(g) PROVE g[k] = h[k]
    <3>1. CASE k = Len(w) + 1
      BY <1>2, <1>3, <1>4, <1>6, <2>2, <3>1 DEF y
    <3>2. CASE k # Len(w) + 1
      <4>1. k \in 1 .. Len(w) /\ k \in 1 .. Len(a)
        BY <1>2, <1>4, <2>2, <3>2
      <4> QED
        BY <1>2, <1>3, <1>4, <1>6, <4>1
    <3> QED
      BY <3>1, <3>2
  <2> QED
    BY <1>4, <1>6, <2>1, <2>2
<1> QED
  BY <1>7, <1>8 DEF Picture, f, g, h, y, a

\* The picture of two sequences joined.
LEMMA PictureJoin ==
  ASSUME NEW V, NEW U, NEW m, Maps(m, V, U), NEW v \in Seq(V), NEW w \in Seq(V)
  PROVE  Picture(m, v \o w) = Picture(m, v) \o Picture(m, w)
<1> DEFINE P(q) == Picture(m, q)
           T == {q \in Seq(V) : P(v \o q) = P(v) \o P(q)}
<1>0. \A q \in Seq(V) : P(q) \in Seq(U)
  BY PictureType
<1>1. << >> \in T
  <2>1. v \o << >> = v /\ P(<< >>) = << >> /\ << >> \in Seq(V)
    BY PictureNone
  <2>2. P(v) \o << >> = P(v)
    BY <1>0
  <2> QED
    BY <2>1, <2>2
<1>2. ASSUME NEW q \in Seq(V), NEW x \in V, q \in T PROVE Append(q, x) \in T
  <2>1. v \o Append(q, x) = Append(v \o q, x) /\ v \o q \in Seq(V) /\ Append(q, x) \in Seq(V)
    OBVIOUS
  <2>2. P(Append(v \o q, x)) = P(v \o q) \o m[x]
    <3> DEFINE y == v \o q
    <3>1. y \in Seq(V)
      BY <2>1
    <3> HIDE DEF y
    <3>2. P(Append(y, x)) = P(y) \o m[x]
      BY <3>1, PictureAppend
    <3> QED
      BY <3>2 DEF y
  <2>3. P(Append(q, x)) = P(q) \o m[x]
    BY PictureAppend
  <2>4. P(v \o q) = P(v) \o P(q)
    BY <1>2
  <2>5. (P(v) \o P(q)) \o m[x] = P(v) \o (P(q) \o m[x])
    <3> DEFINE a == P(v)
               b == P(q)
               y == m[x]
    <3>1. a \in Seq(U) /\ b \in Seq(U) /\ y \in Seq(U)
      BY <1>0 DEF Maps, Goes
    <3> HIDE DEF a, b, y
    <3>2. (a \o b) \o y = a \o (b \o y)
      BY <3>1
    <3> QED
      BY <3>2 DEF a, b, y
  <2> HIDE DEF P
  <2> QED
    BY <2>1, <2>2, <2>3, <2>4, <2>5
<1> HIDE DEF T
<1>3. w \in T
  BY <1>1, <1>2, SeqInduction
<1> QED
  BY <1>3 DEF T

\* The picture of sequences joined is that of each, joined.
LEMMA PictureFlat ==
  ASSUME NEW V, NEW U, NEW m, Maps(m, V, U), NEW parts \in Seq(Seq(V))
  PROVE  Picture(m, FlattenSeq(parts)) = FlattenSeq([k \in DOMAIN parts |-> Picture(m, parts[k])])
<1> DEFINE W == Seq(V)
           M == [q \in W |-> Picture(m, q)]
           P(q) == Picture(M, q)
           T == {q \in Seq(W) : Picture(m, FlattenSeq(q)) = P(q)}
<1>1. W = Seq(V) /\ Maps(M, W, U) /\ \A q \in W : M[q] = Picture(m, q)
  <2>1. \A q \in W : Picture(m, q) \in Seq(U)
    BY PictureType
  <2> QED
    BY <2>1 DEF Maps, Goes
<1>2. << >> \in T
  BY PictureNone, FlatEmpty
<1> HIDE DEF W, M
<1>3. ASSUME NEW q \in Seq(W), NEW x \in W, q \in T PROVE Append(q, x) \in T
  <2>1. Append(q, x) \in Seq(W) /\ FlattenSeq(Append(q, x)) = FlattenSeq(q) \o x
        /\ FlattenSeq(q) \in W
    BY <1>1, JoinedAppend, JoinedType
  <2>2. P(Append(q, x)) = P(q) \o M[x]
    BY <1>1, PictureAppend
  <2> DEFINE z == FlattenSeq(q)
  <2>3. Picture(m, z \o x) = Picture(m, z) \o Picture(m, x)
    <3>1. z \in Seq(V) /\ x \in Seq(V)
      BY <1>1, <2>1
    <3> HIDE DEF z
    <3> QED
      BY <3>1, PictureJoin
  <2> HIDE DEF P
  <2> QED
    BY <1>1, <1>3, <2>1, <2>2, <2>3
<1> HIDE DEF T
<1>4. parts \in T
  BY <1>1, <1>2, <1>3, SeqInduction
<1>5. [k \in DOMAIN parts |-> M[parts[k]]] = [k \in DOMAIN parts |-> Picture(m, parts[k])]
  BY <1>1
<1> QED
  BY <1>4, <1>5 DEF T, Picture
\* Sequences that are joined begin with the join of the first few.
LEMMA FlatNext ==
  ASSUME NEW V, NEW W, W = Seq(V), NEW s \in Seq(W), NEW n \in Nat, n + 1 <= Len(s)
  PROVE  /\ SubSeq(s, 1, n) \in Seq(W) /\ FlattenSeq(SubSeq(s, 1, n)) \in W /\ s[n + 1] \in W
         /\ FlattenSeq(SubSeq(s, 1, n + 1)) = FlattenSeq(SubSeq(s, 1, n)) \o s[n + 1]
<1> DEFINE p == SubSeq(s, 1, n)
           r == SubSeq(s, 1, n + 1)
           x == s[n + 1]
           a == Append(p, x)
<1>1. Len(s) \in Nat /\ n <= Len(s) /\ n + 1 \in 1 .. Len(s)
  OBVIOUS
<1>2. p \in Seq(W) /\ Len(p) = n /\ \A k \in 1 .. n : p[k] = s[k]
  BY <1>1, SubSeqProperties
<1>3. r \in Seq(W) /\ Len(r) = n + 1 /\ \A k \in 1 .. n + 1 : r[k] = s[k]
  BY <1>1, SubSeqProperties
<1>4. x \in W
  BY <1>1
<1> HIDE DEF p, r
<1>5. a \in Seq(W) /\ Len(a) = n + 1 /\ a[n + 1] = x /\ \A k \in 1 .. n : a[k] = p[k]
  BY <1>2, <1>4
<1>6. FlattenSeq(a) = FlattenSeq(p) \o x
  <2> HIDE DEF x
  <2> QED
    BY <1>2, <1>4, JoinedAppend
<1> HIDE DEF a
<1>7. r = a
  <2>1. ASSUME NEW k \in 1 .. n + 1 PROVE r[k] = a[k]
    <3>1. CASE k = n + 1
      BY <1>3, <1>5, <3>1
    <3>2. CASE k # n + 1
      <4>1. k \in 1 .. n
        BY <3>2
      <4> QED
        BY <1>2, <1>3, <1>5, <4>1
    <3> QED
      BY <3>1, <3>2
  <2> QED
    BY <1>3, <1>5, <2>1
<1>8. FlattenSeq(p) \in W
  BY <1>2, JoinedType
<1> QED
  BY <1>2, <1>4, <1>6, <1>7, <1>8 DEF p, r, x

\* A join begins with that of any first few.
LEMMA FlatPrefix ==
  ASSUME NEW V, NEW W, W = Seq(V), NEW s \in Seq(W), NEW n \in Nat, n <= Len(s)
  PROVE  /\ FlattenSeq(SubSeq(s, 1, n)) \in W
         /\ \E r \in W : FlattenSeq(s) = FlattenSeq(SubSeq(s, 1, n)) \o r
<1> DEFINE p(q) == FlattenSeq(SubSeq(s, 1, q))
           S == {d \in Nat : n + d <= Len(s) => \E r \in W : p(n + d) = p(n) \o r}
<1>0. Len(s) \in Nat
  OBVIOUS
<1>6. ASSUME NEW q \in Nat, q <= Len(s) PROVE p(q) \in W
  <2>1. SubSeq(s, 1, q) \in Seq(W)
    BY <1>0, <1>6, SubSeqProperties
  <2> DEFINE z == SubSeq(s, 1, q)
  <2> HIDE DEF z
  <2>2. FlattenSeq(z) \in W
    BY <2>1, JoinedType DEF z
  <2> QED
    BY <2>2 DEF z
<1>7. \A q \in Nat : q + 1 <= Len(s) => s[q + 1] \in W /\ p(q + 1) = p(q) \o s[q + 1]
  BY FlatNext
<1> HIDE DEF p
<1>1. 0 \in S
  <2>1. p(n) \in W
    BY <1>6
  <2>2. p(n) \o << >> = p(n) /\ << >> \in W
    BY <2>1, SeqJoin
  <2>3. n + 0 = n
    OBVIOUS
  <2>4. \E r \in W : p(n + 0) = p(n) \o r
    BY <2>2, <2>3
  <2> QED
    BY <2>4
<1>2. ASSUME NEW d \in Nat, d \in S PROVE d + 1 \in S
  <2> DEFINE Longer(m) == m <= Len(s) => \E r \in W : p(m) = p(n) \o r
  <2> SUFFICES ASSUME n + (d + 1) <= Len(s) PROVE Longer(n + (d + 1))
    <3>1. S = {m \in Nat : Longer(n + m)} /\ d + 1 \in Nat
      OBVIOUS
    <3>2. Longer(n + (d + 1)) <=> (n + (d + 1) <= Len(s) => Longer(n + (d + 1)))
      OBVIOUS
    <3> HIDE DEF Longer, S
    <3> QED
      BY <3>1, <3>2
  <2>0. PICK q \in Nat : q = n + d
    OBVIOUS
  <2>1. q \in Nat /\ q + 1 <= Len(s) /\ n + (d + 1) = q + 1 /\ q <= Len(s) /\ n <= Len(s)
    BY <1>0, <2>0
  <2>2. PICK r \in W : p(q) = p(n) \o r
    BY <1>2, <2>0, <2>1
  <2> DEFINE x == s[q + 1]
  <2>3. p(q + 1) = p(q) \o x /\ x \in W
    BY <1>7, <2>1
  <2>4. p(n) \in W
    BY <1>6
  <2> HIDE DEF x, p
  <2>5. (p(n) \o r) \o x = p(n) \o (r \o x) /\ r \o x \in W
    <3> DEFINE a == p(n)
    <3> HIDE DEF a
    <3>1. \A e, g, h \in Seq(V) : (e \o g) \o h = e \o (g \o h) /\ g \o h \in Seq(V)
      OBVIOUS
    <3>2. a \in Seq(V) /\ r \in Seq(V) /\ x \in Seq(V)
      BY <2>2, <2>3, <2>4 DEF a
    <3>3. (a \o r) \o x = a \o (r \o x) /\ r \o x \in Seq(V)
      BY ONLY <3>1, <3>2
    <3> QED
      BY <3>3 DEF a
  <2> QED
    BY <2>1, <2>2, <2>3, <2>5
<1> HIDE DEF S
<1>3. \A d \in Nat : d \in S
  BY ONLY <1>1, <1>2, InductionOnNat
<1>4. \E r \in W : p(Len(s)) = p(n) \o r
  <2>1. Len(s) - n \in Nat /\ n + (Len(s) - n) = Len(s) /\ n + (Len(s) - n) <= Len(s)
    BY <1>0
  <2>2. Len(s) - n \in S
    BY <1>3, <2>1
  <2> QED
    BY <2>1, <2>2 DEF S
<1>5. SubSeq(s, 1, Len(s)) = s
  BY <1>0
<1> QED
  BY <1>4, <1>5, <1>6 DEF p

\* A sequence of things, and one of the sets that they are in.
Matches(v, w) == Len(v) = Len(w) /\ \A k \in 1 .. Len(v) : v[k] \in w[k]

\* What matches, joined.
LEMMA MatchesJoin ==
  ASSUME NEW V, NEW W, NEW v \in Seq(V), NEW w \in Seq(W), NEW x \in Seq(V), NEW y \in Seq(W),
         Matches(v, w), Matches(x, y)
  PROVE  Matches(v \o x, w \o y)
<1>1. Len(v) \in Nat /\ Len(x) \in Nat /\ Len(w) = Len(v) /\ Len(y) = Len(x)
  BY DEF Matches
<1>2. \A k \in 1 .. Len(v) + Len(x) :
        /\ (v \o x)[k] = IF k <= Len(v) THEN v[k] ELSE x[k - Len(v)]
        /\ (w \o y)[k] = IF k <= Len(v) THEN w[k] ELSE y[k - Len(v)]
  BY <1>1
<1>3. Len(v \o x) = Len(v) + Len(x) /\ Len(w \o y) = Len(v) + Len(x)
  BY <1>1
<1>4. ASSUME NEW k \in 1 .. Len(v) + Len(x) PROVE (v \o x)[k] \in (w \o y)[k]
  <2>1. CASE k <= Len(v)
    <3>1. k \in 1 .. Len(v)
      BY <1>1, <2>1
    <3> QED
      BY <1>2, <2>1, <3>1 DEF Matches
  <2>2. CASE ~(k <= Len(v))
    <3>1. k - Len(v) \in 1 .. Len(x)
      BY <1>1, <2>2
    <3>2. (v \o x)[k] = x[k - Len(v)] /\ (w \o y)[k] = y[k - Len(v)]
      BY <1>2, <2>2
    <3>3. x[k - Len(v)] \in y[k - Len(v)]
      BY <3>1 DEF Matches
    <3> QED
      BY <3>2, <3>3
  <2> QED
    BY <2>1, <2>2
<1> QED
  BY <1>3, <1>4 DEF Matches

\* Pieces that match are joined to what matches.
LEMMA MatchesFlat ==
  ASSUME NEW V, NEW W, NEW v \in Seq(Seq(V)), NEW w \in Seq(Seq(W)), Len(v) = Len(w),
         \A k \in 1 .. Len(v) : Matches(v[k], w[k])
  PROVE  Matches(FlattenSeq(v), FlattenSeq(w))
<1> DEFINE X == Seq(V)
           Y == Seq(W)
<1>0. X = Seq(V) /\ Y = Seq(W) /\ v \in Seq(X) /\ w \in Seq(Y) /\ << >> \in X /\ << >> \in Y
  OBVIOUS
<1> HIDE DEF X, Y
<1>1. PICK j : Joins(X, j, v) /\ FlattenSeq(v) = j[Len(v)]
  BY <1>0, JoinedIs
<1>2. PICK g : Joins(Y, g, w) /\ FlattenSeq(w) = g[Len(w)]
  BY <1>0, JoinedIs
<1> DEFINE S == {n \in Nat : n <= Len(v) => Matches(j[n], g[n])}
<1>3. 0 \in S
  BY <1>1, <1>2 DEF Joins, Matches
<1>4. ASSUME NEW n \in Nat, n \in S PROVE n + 1 \in S
  <2> SUFFICES ASSUME n + 1 <= Len(v) PROVE Matches(j[n + 1], g[n + 1])
    OBVIOUS
  <2>0. n + 1 \in 1 .. Len(v) /\ n <= Len(v) /\ n + 1 <= Len(w) /\ n + 1 \in 1 .. Len(w)
    BY <1>0
  <2>1. j[n + 1] = j[n] \o v[n + 1] /\ g[n + 1] = g[n] \o w[n + 1]
    BY <1>1, <1>2, <2>0 DEF Joins
  <2>2. j[n] \in X /\ g[n] \in Y /\ v[n + 1] \in X /\ w[n + 1] \in Y
    <3>1. v[n + 1] \in X /\ w[n + 1] \in Y
      BY <1>0, <2>0
    <3> QED
      BY <1>1, <1>2, <3>1 DEF Joins
  <2>3. Matches(j[n], g[n]) /\ Matches(v[n + 1], w[n + 1])
    BY <1>4, <2>0
  <2> DEFINE a == j[n]
             b == v[n + 1]
             d == g[n]
             e == w[n + 1]
  <2>4. a \in Seq(V) /\ b \in Seq(V) /\ d \in Seq(W) /\ e \in Seq(W) /\ Matches(a, d) /\ Matches(b, e)
    BY <1>0, <2>2, <2>3
  <2> HIDE DEF a, b, d, e
  <2>5. Matches(a \o b, d \o e)
    BY ONLY <2>4, MatchesJoin
  <2> QED
    BY <2>1, <2>5 DEF a, b, d, e
<1> HIDE DEF S
<1>5. \A n \in Nat : n \in S
  BY ONLY <1>3, <1>4, InductionOnNat
<1>6. Len(v) \in Nat
  OBVIOUS
<1> QED
  BY <1>1, <1>2, <1>5, <1>6 DEF S

-----------------------------------------------------------------------------
\* Texts, joined.

\* Texts are sequences.
LEMMA FlatType ==
  ASSUME NEW s \in Seq(Words)
  PROVE  FlattenSeq(s) \in Words
<1> DEFINE W == Words
<1>1. W = Seq(Kinds) /\ s \in Seq(W)
  BY DEF Words
<1> HIDE DEF W
<1>2. FlattenSeq(s) \in W
  BY <1>1, JoinedType
<1> QED
  BY <1>2 DEF W

\* One text more is joined at the end.
LEMMA FlatAppend ==
  ASSUME NEW s \in Seq(Words), NEW x \in Words
  PROVE  Append(s, x) \in Seq(Words) /\ FlattenSeq(Append(s, x)) = FlattenSeq(s) \o x
<1> DEFINE W == Words
<1>1. W = Seq(Kinds) /\ s \in Seq(W) /\ x \in W
  BY DEF Words
<1> HIDE DEF W
<1>2. Append(s, x) \in Seq(W) /\ FlattenSeq(Append(s, x)) = FlattenSeq(s) \o x
  BY <1>1, JoinedAppend
<1> QED
  BY <1>2 DEF W


-----------------------------------------------------------------------------
\* The texts of trees, level by level.

Levels(src) ==
  CHOOSE texts : texts = [levels \in Nat |->
    Texts(src, IF levels = 0 THEN << >> ELSE texts[levels - 1])]

\* What a node is written as is its text at a level no node of the source is above.
LEMMA WrittenIs ==
  \A src, node : Written(src, node) = Levels(src)[6 * Len(src)][node]
BY DEF Written, Levels

\* The levels up to any height exist.
LEMMA LevelsUpTo ==
  ASSUME NEW src, NEW n \in Nat
  PROVE  \E g : /\ g[0] = Texts(src, << >>)
                /\ \A m \in Nat : m < n => g[m + 1] = Texts(src, g[m])
<1> DEFINE Is(g, k) == /\ g[0] = Texts(src, << >>)
                       /\ \A m \in Nat : m < k => g[m + 1] = Texts(src, g[m])
           S == {k \in Nat : \E g : Is(g, k)}
<1>1. 0 \in S
  <2> DEFINE g == [m \in Nat |-> Texts(src, << >>)]
  <2>1. Is(g, 0)
    OBVIOUS
  <2> HIDE DEF Is
  <2> QED
    BY <2>1
<1>2. ASSUME NEW k \in Nat, k \in S
      PROVE  k + 1 \in S
  <2>1. PICK g : Is(g, k)
    BY <1>2
  <2> DEFINE h == [m \in Nat |-> IF m = k + 1 THEN Texts(src, g[k]) ELSE g[m]]
  <2>2. /\ h[0] = g[0] /\ h[k + 1] = Texts(src, g[k])
        /\ \A m \in Nat : m < k + 1 => h[m] = g[m] /\ (m < k => h[m + 1] = g[m + 1])
    OBVIOUS
  <2> HIDE DEF h
  <2>3. ASSUME NEW m \in Nat, m < k + 1
        PROVE  h[m + 1] = Texts(src, h[m])
    <3>1. CASE m < k
      BY <2>1, <2>2, <2>3, <3>1
    <3>2. CASE ~(m < k)
      <4>1. m = k
        BY <2>3, <3>2
      <4> QED
        BY <2>2, <4>1
    <3> QED
      BY <3>1, <3>2
  <2>4. Is(h, k + 1)
    BY <2>1, <2>2, <2>3
  <2> HIDE DEF Is
  <2> QED
    BY <2>4
<1> HIDE DEF S
<1>3. n \in S
  BY <1>1, <1>2, InductionOnNat
<1> QED
  BY <1>3 DEF S

\* Each level is made from the texts of the level below it.
LEMMA LevelsFacts ==
  ASSUME NEW src
  PROVE  /\ Levels(src)[0] = Texts(src, << >>)
         /\ \A n \in Nat : Levels(src)[n + 1] = Texts(src, Levels(src)[n])
<1> DEFINE Is(g, n) == /\ g[0] = Texts(src, << >>)
                       /\ \A m \in Nat : m < n => g[m + 1] = Texts(src, g[m])
           g(n) == CHOOSE e : Is(e, n)
           f    == [n \in Nat |-> g(n)[n]]
           Solves1(e) == e = [levels \in Nat |->
                               Texts(src, IF levels = 0 THEN << >> ELSE e[levels - 1])]
<1>1. ASSUME NEW n \in Nat
      PROVE  Is(g(n), n)
  <2>1. \E e : Is(e, n)
    BY LevelsUpTo
  <2> HIDE DEF Is
  <2> QED
    BY <2>1
<1> HIDE DEF g
<1>2. \A n \in Nat : \A m \in Nat : m <= n => g(n + 1)[m] = g(n)[m]
  <2> SUFFICES ASSUME NEW n \in Nat
               PROVE  \A m \in Nat : m <= n => g(n + 1)[m] = g(n)[m]
    OBVIOUS
  <2> DEFINE p == g(n + 1)
             q == g(n)
             S == {m \in Nat : m <= n => p[m] = q[m]}
  <2>1. Is(p, n + 1) /\ Is(q, n)
    BY <1>1
  <2> HIDE DEF p, q
  <2>2. 0 \in S
    BY <2>1
  <2>3. ASSUME NEW m \in Nat, m \in S PROVE m + 1 \in S
    <3> SUFFICES ASSUME m + 1 <= n PROVE p[m + 1] = q[m + 1]
      OBVIOUS
    <3>1. m <= n /\ m < n /\ m < n + 1
      OBVIOUS
    <3> QED
      BY <2>1, <2>3, <3>1
  <2> HIDE DEF S
  <2>4. \A m \in Nat : m \in S
    BY <2>2, <2>3, InductionOnNat
  <2> QED
    BY <2>4 DEF S, p, q
<1>3. /\ f[0] = Texts(src, << >>)
      /\ \A n \in Nat : f[n] = g(n)[n]
  BY <1>1
<1>4. \A n \in Nat : f[n + 1] = Texts(src, f[n])
  <2> SUFFICES ASSUME NEW n \in Nat
               PROVE  f[n + 1] = Texts(src, f[n])
    OBVIOUS
  <2>1. n + 1 \in Nat /\ n < n + 1 /\ n <= n
    OBVIOUS
  <2>2. g(n + 1)[n + 1] = Texts(src, g(n + 1)[n])
    BY <1>1, <2>1
  <2>3. g(n + 1)[n] = g(n)[n]
    BY <1>2, <2>1
  <2> HIDE DEF f
  <2> QED
    BY <1>3, <2>1, <2>2, <2>3
<1>5. Solves1(f)
  <2> DEFINE h == [levels \in Nat |-> Texts(src, IF levels = 0 THEN << >> ELSE f[levels - 1])]
  <2>1. ASSUME NEW n \in Nat PROVE f[n] = h[n]
    <3>1. CASE n = 0
      <4>1. h[0] = Texts(src, << >>)
        OBVIOUS
      <4> QED
        BY <1>3, <3>1, <4>1
    <3>2. CASE n # 0
      <4>1. PICK m \in Nat : m = n - 1 /\ n = m + 1
        BY <3>2
      <4>2. h[n] = Texts(src, f[m])
        <5> HIDE DEF f
        <5> QED
          BY <3>2, <4>1
      <4> QED
        BY <1>4, <4>1, <4>2
    <3> QED
      BY <3>1, <3>2
  <2>2. f = [n \in Nat |-> f[n]]
    OBVIOUS
  <2>3. h = [n \in Nat |-> h[n]]
    <3> HIDE DEF f
    <3> QED
      OBVIOUS
  <2>4. f = h
    <3> HIDE DEF f, h
    <3> QED
      BY <2>1, <2>2, <2>3
  <2> QED
    BY <2>4
<1> DEFINE t == Levels(src)
<1>6. t = CHOOSE e : Solves1(e)
  BY DEF Levels
<1> HIDE DEF t, f
<1>7. Solves1(t)
  <2> HIDE DEF Solves1
  <2> QED
    BY <1>5, <1>6
<1>8. t[0] = Texts(src, << >>)
  BY <1>7
<1>9. \A n \in Nat : t[n + 1] = Texts(src, t[n])
  <2> SUFFICES ASSUME NEW n \in Nat
               PROVE  t[n + 1] = Texts(src, t[n])
    OBVIOUS
  <2>1. n + 1 \in Nat /\ n + 1 # 0 /\ (n + 1) - 1 = n
    OBVIOUS
  <2> QED
    BY <1>7, <2>1
<1> QED
  BY <1>8, <1>9 DEF t

\* One table of texts says what the other does, and maybe more.
Extends(f, g) == DOMAIN f \subseteq DOMAIN g /\ \A x \in DOMAIN f : g[x] = f[x]

\* A level made from more texts has more texts.
LEMMA TextsGrow ==
  ASSUME NEW src, NEW f, NEW g, Extends(f, g)
  PROVE  Extends(Texts(src, f), Texts(src, g))
<1>1. DOMAIN Texts(src, f) = Trees(DOMAIN f) /\ DOMAIN Texts(src, g) = Trees(DOMAIN g)
  BY DEF Texts
<1>2. Seq(DOMAIN f) \subseteq Seq(DOMAIN g)
  BY SeqMonotonic DEF Extends
<1>3. Trees(DOMAIN f) \subseteq Trees(DOMAIN g)
  BY <1>2 DEF Trees
<1>4. ASSUME NEW tree \in Trees(DOMAIN f)
      PROVE  Texts(src, g)[tree] = Texts(src, f)[tree]
  <2> DEFINE Parts(t) == [i \in DOMAIN tree.kids |-> t[tree.kids[i]]]
  <2>1. Texts(src, f)[tree] = IF tree.fn = "token" THEN << src[tree.at] >>
                              ELSE Text(src, tree, Parts(f))
    BY <1>4 DEF Texts
  <2>2. Texts(src, g)[tree] = IF tree.fn = "token" THEN << src[tree.at] >>
                              ELSE Text(src, tree, Parts(g))
    BY <1>3, <1>4 DEF Texts
  <2>3. CASE tree.fn # "token"
    <3>1. tree.kids \in Seq(DOMAIN f)
      BY <1>4, <2>3 DEF Trees
    <3>2. \A i \in DOMAIN tree.kids : g[tree.kids[i]] = f[tree.kids[i]]
      BY <3>1 DEF Extends
    <3>3. Parts(f) = Parts(g)
      BY <3>2
    <3> QED
      BY <2>1, <2>2, <3>3
  <2> QED
    BY <2>1, <2>2, <2>3
<1> QED
  BY <1>1, <1>3, <1>4 DEF Extends

\* A text of a level is kept by the levels above it.
LEMMA LevelsGrow ==
  ASSUME NEW src, NEW n \in Nat, NEW m \in Nat, n <= m
  PROVE  Extends(Levels(src)[n], Levels(src)[m])
<1> DEFINE T == Levels(src)
           Up == {k \in Nat : Extends(T[k], T[k + 1])}
           S == {k \in Nat : Extends(T[n], T[n + k])}
<1>1. T[0] = Texts(src, << >>) /\ \A k \in Nat : T[k + 1] = Texts(src, T[k])
  BY LevelsFacts
<1> HIDE DEF T
<1>2. \A k \in Nat : k \in Up
  <2>1. 0 \in Up
    <3>1. Extends(<< >>, T[0])
      BY DEF Extends
    <3>2. T[0 + 1] = Texts(src, T[0])
      BY <1>1
    <3>3. Extends(T[0], T[0 + 1])
      BY <1>1, <3>1, <3>2, TextsGrow
    <3> QED
      BY <3>3
  <2>2. ASSUME NEW k \in Nat, k \in Up PROVE k + 1 \in Up
    <3>1. Extends(T[k], T[k + 1])
      BY <2>2
    <3>2. T[k + 1] = Texts(src, T[k]) /\ T[(k + 1) + 1] = Texts(src, T[k + 1]) /\ k + 1 \in Nat
      BY <1>1
    <3>3. Extends(T[k + 1], T[(k + 1) + 1])
      BY <3>1, <3>2, TextsGrow
    <3> QED
      BY <3>2, <3>3
  <2> HIDE DEF Up
  <2> QED
    BY <2>1, <2>2, InductionOnNat
<1>3. 0 \in S
  <2>1. n + 0 = n
    OBVIOUS
  <2> QED
    BY <2>1 DEF Extends
<1>4. ASSUME NEW k \in Nat, k \in S PROVE k + 1 \in S
  <2>1. Extends(T[n], T[n + k])
    BY <1>4
  <2>2. n + k \in Nat /\ n + (k + 1) = (n + k) + 1
    OBVIOUS
  <2>3. Extends(T[n + k], T[(n + k) + 1])
    BY <1>2, <2>2
  <2>4. Extends(T[n], T[n + (k + 1)])
    BY <2>1, <2>2, <2>3 DEF Extends
  <2> QED
    BY <2>4
<1> HIDE DEF S
<1>5. m - n \in S
  <2>1. m - n \in Nat
    OBVIOUS
  <2> QED
    BY <1>3, <1>4, <2>1, InductionOnNat
<1>6. n + (m - n) = m
  OBVIOUS
<1> QED
  BY <1>5, <1>6 DEF S, T

-----------------------------------------------------------------------------
\* Nodes.

\* A node is less high than six times its tokens: what starts at the same token as
\* the node it is in has a smaller rank.
Rank(fn) ==
  CASE fn \in {"type", "block", "statement_return", "function_header", "extern_block"} -> 1
    [] fn \in {"variable_declaration", "function_definition"} -> 2
    [] fn \in {"statement_expression_call", "variable_definition", "assignment",
               "unit_statement"} -> 3
    [] fn = "statement_expression" -> 4
    [] fn \in {"expression", "scope_statement"} -> 5
    [] fn = "token" -> 0

\* Every parse function has a rank; a token is below all of them.
LEMMA RankFacts ==
  /\ Rank("token") = 0 /\ "token" \notin Functions
  /\ \A fn \in Functions : Rank(fn) \in 1 .. 5
BY DEF Rank, Functions

Height(src, n) == 6 * (Len(src) - n.at) + Rank(n.fn)

IsNode(src, n) ==
  /\ n.fn \in Functions \cup {"token"} /\ n.at \in 1 .. Len(src)
  /\ n \in DOMAIN Levels(src)[Height(src, n)]
  /\ Written(src, n) \in Words

Under(n, fn, at) == n.at > at \/ (n.at = at /\ Rank(n.fn) < Rank(fn))

Spelled(src, kids) == [i \in DOMAIN kids |-> Written(src, kids[i])]

\* A sequence whose elements are in a set is a sequence over it.
LEMMA ElementsIn ==
  ASSUME NEW s, IsSeq(s), NEW S, \A i \in DOMAIN s : s[i] \in S
  PROVE  s \in Seq(S)
<1>1. PICK R : s \in Seq(R)
  BY DEF IsSeq
<1>2. Len(s) \in Nat /\ s \in [1 .. Len(s) -> R]
  BY <1>1
<1>3. PICK n \in Nat : s \in [1 .. n -> S]
  BY <1>2
<1>4. Seq(S) = UNION {[1 .. m -> S] : m \in Nat}
  BY SeqDef
<1>5. s \in UNION {[1 .. m -> S] : m \in Nat}
  BY <1>3
<1> QED
  BY <1>4, <1>5, Zenon

\* No node is higher than six times the number of tokens.
LEMMA HeightType ==
  ASSUME NEW src \in Words, NEW n, n.fn \in Functions \cup {"token"}, n.at \in 1 .. Len(src)
  PROVE  /\ Height(src, n) \in Nat /\ Height(src, n) <= 6 * Len(src) /\ 6 * Len(src) \in Nat
<1>1. Rank(n.fn) \in 0 .. 5
  BY RankFacts
<1>2. Len(src) \in Nat /\ n.at \in Nat /\ n.at >= 1 /\ n.at <= Len(src)
  BY DEF Words
<1> DEFINE r == Rank(n.fn)
           a == n.at
           L == Len(src)
<1>3. r \in 0 .. 5 /\ L \in Nat /\ a \in Nat /\ a >= 1 /\ a <= L
  BY <1>1, <1>2
<1> HIDE DEF r, a, L
<1>4. 6 * (L - a) + r \in Nat /\ 6 * (L - a) + r <= 6 * L /\ 6 * L \in Nat
  BY <1>3
<1> QED
  BY <1>4 DEF r, a, L, Height

\* A kid is less high than its node.
LEMMA HeightLess ==
  ASSUME NEW src \in Words, NEW n, n.fn \in Functions \cup {"token"}, n.at \in 1 .. Len(src),
         NEW k, k.fn \in Functions \cup {"token"}, k.at \in 1 .. Len(src), Under(k, n.fn, n.at)
  PROVE  Height(src, k) < Height(src, n)
<1>1. Rank(n.fn) \in 0 .. 5 /\ Rank(k.fn) \in 0 .. 5
  BY RankFacts
<1>2. Len(src) \in Nat /\ n.at \in Nat /\ k.at \in Nat /\ n.at <= Len(src) /\ k.at <= Len(src)
  BY DEF Words
<1>3. k.at > n.at \/ (k.at = n.at /\ Rank(k.fn) < Rank(n.fn))
  BY DEF Under
<1> DEFINE r == Rank(n.fn)
           a == n.at
           q == Rank(k.fn)
           b == k.at
           L == Len(src)
<1>4. /\ r \in 0 .. 5 /\ q \in 0 .. 5 /\ L \in Nat /\ a \in Nat /\ b \in Nat /\ a <= L /\ b <= L
      /\ b > a \/ (b = a /\ q < r)
  BY <1>1, <1>2, <1>3
<1> HIDE DEF r, a, L, q, b
<1>5. 6 * (L - b) + q < 6 * (L - a) + r
  BY <1>4
<1> QED
  BY <1>5 DEF r, a, L, q, b, Height

\* The text of a node is that of its lowest level.
LEMMA WrittenAt ==
  ASSUME NEW src \in Words, NEW n, n.fn \in Functions \cup {"token"}, n.at \in 1 .. Len(src),
         n \in DOMAIN Levels(src)[Height(src, n)], NEW m \in Nat, Height(src, n) <= m
  PROVE  /\ n \in DOMAIN Levels(src)[m]
         /\ Levels(src)[m][n] = Written(src, n)
<1> DEFINE T == Levels(src)
           h == Height(src, n)
           N == 6 * Len(src)
<1>1. h \in Nat /\ N \in Nat /\ h <= N
  BY HeightType
<1>2. n \in DOMAIN T[h] /\ h <= m
  OBVIOUS
<1>3. Written(src, n) = T[N][n]
  BY WrittenIs
<1> HIDE DEF h, N
<1>4. Extends(T[h], T[m]) /\ Extends(T[h], T[N])
  BY <1>1, <1>2, LevelsGrow
<1> HIDE DEF T
<1>5. n \in DOMAIN T[m] /\ T[m][n] = T[h][n] /\ T[N][n] = T[h][n]
  BY <1>2, <1>4 DEF Extends
<1> QED
  BY <1>3, <1>5 DEF T

\* A token is a node, written as itself.
LEMMA LeafFacts ==
  ASSUME NEW src \in Words, NEW i \in 1 .. Len(src)
  PROVE  /\ IsNode(src, Leaf(i)) /\ Written(src, Leaf(i)) = << src[i] >>
         /\ Leaf(i).fn = "token" /\ Leaf(i).at = i
<1> DEFINE n == Leaf(i)
           T == Levels(src)
<1>1. n.fn = "token" /\ n.at = i /\ i \in Nat /\ n \in [fn : {"token"}, at : Nat]
  BY DEF Leaf
<1>2. Len(src) \in Nat /\ src[i] \in Kinds
  BY DEF Words
<1> HIDE DEF n, T
<1>3. n \in DOMAIN T[0] /\ T[0][n] = << src[i] >>
  <2>1. T[0] = Texts(src, << >>)
    BY LevelsFacts DEF T
  <2>2. n \in Trees(DOMAIN << >>)
    BY <1>1 DEF Trees
  <2> QED
    BY <1>1, <2>1, <2>2 DEF Texts
<1>4. Height(src, n) \in Nat /\ 0 <= Height(src, n)
  BY <1>1, HeightType
<1>5. n \in DOMAIN T[Height(src, n)] /\ T[Height(src, n)][n] = T[0][n]
  <2>1. Extends(T[0], T[Height(src, n)])
    BY <1>4, LevelsGrow DEF T
  <2> QED
    BY <1>3, <2>1 DEF Extends
<1>6. Written(src, n) = << src[i] >>
  <2>1. T[Height(src, n)][n] = Written(src, n)
    <3>1. Height(src, n) <= Height(src, n)
      BY <1>4
    <3> QED
      BY <1>1, <1>4, <1>5, <3>1, WrittenAt DEF T
  <2> QED
    BY <1>3, <1>5, <2>1
<1>7. << src[i] >> \in Words
  BY <1>2 DEF Words
<1> QED
  BY <1>1, <1>5, <1>6, <1>7 DEF IsNode, n, T

\* A node whose kids are nodes is a node, written from what its kids are written as.
LEMMA NodeFacts ==
  ASSUME NEW src \in Words, NEW fn \in Functions, NEW at \in 1 .. Len(src),
         NEW kids, IsSeq(kids),
         \A i \in DOMAIN kids : IsNode(src, kids[i]) /\ Under(kids[i], fn, at),
         NEW n, n = [fn |-> fn, at |-> at, kids |-> kids],
         Text(src, n, Spelled(src, kids)) \in Words
  PROVE  /\ Written(src, n) = Text(src, n, Spelled(src, kids))
         /\ IsNode(src, n)
<1> DEFINE T == Levels(src)
           H == Height(src, n)
<1>1. n.fn = fn /\ n.at = at /\ n.kids = kids /\ n.fn # "token"
  BY RankFacts
<1>2. H \in Nat /\ H > 0
  <2>1. H \in Nat
    BY <1>1, HeightType
  <2>2. H > 0
    <3> DEFINE r == Rank(fn)
               L == Len(src)
    <3>1. r \in 1 .. 5 /\ L \in Nat /\ at \in Nat /\ at <= L
      BY RankFacts DEF Words
    <3> HIDE DEF r, L
    <3>2. 6 * (L - at) + r > 0
      BY <3>1
    <3> QED
      BY <1>1, <3>2 DEF r, L, Height
  <2> QED
    BY <2>1, <2>2
<1>3. ASSUME NEW i \in DOMAIN kids
      PROVE  /\ Height(src, kids[i]) < H /\ Height(src, kids[i]) \in Nat
             /\ kids[i].fn \in Functions \cup {"token"} /\ kids[i].at \in 1 .. Len(src)
             /\ kids[i] \in DOMAIN T[Height(src, kids[i])]
  <2>1. IsNode(src, kids[i]) /\ Under(kids[i], n.fn, n.at)
    BY <1>1, <1>3
  <2>2. /\ kids[i].fn \in Functions \cup {"token"} /\ kids[i].at \in 1 .. Len(src)
        /\ kids[i] \in DOMAIN T[Height(src, kids[i])]
    BY <2>1 DEF IsNode
  <2> DEFINE k == kids[i]
  <2> HIDE DEF k
  <2>3. Height(src, k) < Height(src, n) /\ Height(src, k) \in Nat
    BY <1>1, <2>1, <2>2, HeightLess, HeightType DEF k
  <2> QED
    BY <2>2, <2>3 DEF k
<1> HIDE DEF T, H
<1>4. PICK h \in Nat : H = h + 1
  <2>1. H - 1 \in Nat /\ H = (H - 1) + 1
    BY <1>2
  <2> QED
    BY <2>1
<1>5. \A i \in DOMAIN kids : kids[i] \in DOMAIN T[h] /\ T[h][kids[i]] = Written(src, kids[i])
  <2> SUFFICES ASSUME NEW i \in DOMAIN kids
               PROVE  kids[i] \in DOMAIN T[h] /\ T[h][kids[i]] = Written(src, kids[i])
    OBVIOUS
  <2> DEFINE k == kids[i]
  <2>1. Height(src, k) <= h
    BY <1>3, <1>4
  <2>2. /\ k.fn \in Functions \cup {"token"} /\ k.at \in 1 .. Len(src)
        /\ k \in DOMAIN T[Height(src, k)]
    BY <1>3
  <2> HIDE DEF k
  <2>3. k \in DOMAIN T[h] /\ T[h][k] = Written(src, k)
    BY <2>1, <2>2, WrittenAt DEF T
  <2> QED
    BY <2>3 DEF k
<1>6. kids \in Seq(DOMAIN T[h])
  <2> DEFINE S == DOMAIN T[h]
  <2>1. IsSeq(kids) /\ \A i \in DOMAIN kids : kids[i] \in S
    BY <1>5
  <2> HIDE DEF S
  <2>2. kids \in Seq(S)
    BY <2>1, ElementsIn
  <2> QED
    BY <2>2 DEF S
<1>7. n \in Trees(DOMAIN T[h])
  <2>1. at \in Nat
    OBVIOUS
  <2> QED
    BY <1>6, <2>1 DEF Trees
<1>8. T[H] = Texts(src, T[h])
  BY <1>4, LevelsFacts DEF T
<1>9. n \in DOMAIN T[H]
  BY <1>7, <1>8 DEF Texts
<1>10. T[H][n] = Text(src, n, [i \in DOMAIN kids |-> T[h][kids[i]]])
  <2>1. T[H][n] = Text(src, n, [i \in DOMAIN n.kids |-> T[h][n.kids[i]]])
    <3> DEFINE Parts == [i \in DOMAIN n.kids |-> T[h][n.kids[i]]]
    <3>1. Texts(src, T[h])[n] = IF n.fn = "token" THEN << src[n.at] >> ELSE Text(src, n, Parts)
      BY <1>7 DEF Texts
    <3> HIDE DEF Parts
    <3>2. T[H][n] = Text(src, n, Parts)
      BY <1>1, <1>8, <3>1
    <3> QED
      BY <3>2 DEF Parts
  <2> QED
    BY <1>1, <2>1
<1>11. [i \in DOMAIN kids |-> T[h][kids[i]]] = Spelled(src, kids)
  BY <1>5 DEF Spelled
<1>12. T[H][n] = Written(src, n)
  <2>1. H <= H
    BY <1>2
  <2>2. n.fn \in Functions \cup {"token"} /\ n.at \in 1 .. Len(src)
    BY <1>1
  <2> HIDE DEF H
  <2> QED
    BY <1>2, <1>9, <2>1, <2>2, WrittenAt DEF T, H
<1>13. Written(src, n) = Text(src, n, Spelled(src, kids))
  BY <1>10, <1>11, <1>12
<1> QED
  BY <1>1, <1>9, <1>13 DEF IsNode, T, H

-----------------------------------------------------------------------------
\* The text that is left of the first n tokens when the tokens d are dropped.

KeptOf(src, d, n) == [i \in 1 .. n |-> IF i \in d THEN << >> ELSE << src[i] >>]
KeptTo(src, d, n) == FlattenSeq(KeptOf(src, d, n))

\* Sequences of texts with the same texts are equal.
LEMMA PiecesEqual ==
  ASSUME NEW s \in Seq(Words), NEW t \in Seq(Words), Len(s) = Len(t),
         \A i \in 1 .. Len(s) : s[i] = t[i]
  PROVE  s = t
<1> HIDE DEF Words
<1> QED
  OBVIOUS

\* A sequence of texts with one text more.
LEMMA AppendType ==
  ASSUME NEW s \in Seq(Words), NEW x \in Words
  PROVE  /\ Append(s, x) \in Seq(Words) /\ Len(Append(s, x)) = Len(s) + 1 /\ Len(s) \in Nat
         /\ Append(s, x)[Len(s) + 1] = x
         /\ \A i \in 1 .. Len(s) : Append(s, x)[i] = s[i]
         /\ DOMAIN s = 1 .. Len(s) /\ DOMAIN Append(s, x) = 1 .. Len(s) + 1
<1> HIDE DEF Words
<1> QED
  OBVIOUS

\* A function on 1 .. n is a sequence of length n.
LEMMA MadeSeq ==
  ASSUME NEW S, NEW n \in Nat, NEW f \in [1 .. n -> S]
  PROVE  f \in Seq(S) /\ Len(f) = n
<1>1. f \in Seq(S)
  <2>1. f \in UNION {[1 .. m -> S] : m \in Nat}
    OBVIOUS
  <2>2. Seq(S) = UNION {[1 .. m -> S] : m \in Nat}
    BY SeqDef
  <2> QED
    BY <2>1, <2>2, Zenon
<1>2. DOMAIN f = 1 .. Len(f) /\ DOMAIN f = 1 .. n /\ Len(f) \in Nat
  BY <1>1
<1>3. \A i, j \in Nat : 1 .. i = 1 .. j => i = j
  <2> SUFFICES ASSUME NEW i \in Nat, NEW j \in Nat, 1 .. i = 1 .. j PROVE i = j
    OBVIOUS
  <2>1. i > 0 => i \in 1 .. j
    OBVIOUS
  <2>2. j > 0 => j \in 1 .. i
    OBVIOUS
  <2> QED
    BY <2>1, <2>2
<1> QED
  BY <1>1, <1>2, <1>3

\* One piece per token, empty where the token was dropped.
LEMMA KeptOfType ==
  ASSUME NEW src \in Words, NEW d, NEW n \in 0 .. Len(src)
  PROVE  KeptOf(src, d, n) \in Seq(Words) /\ Len(KeptOf(src, d, n)) = n
<1>1. Len(src) \in Nat /\ \A i \in 1 .. Len(src) : src[i] \in Kinds
  BY DEF Words
<1>2. \A i \in 1 .. n : << src[i] >> \in Words /\ << >> \in Words
  BY <1>1, JoinOne, JoinEmpty
<1>3. n \in Nat
  BY <1>1
<1> DEFINE f == KeptOf(src, d, n)
<1>4. f \in [1 .. n -> Words]
  BY <1>2 DEF KeptOf
<1> HIDE DEF f
<1> QED
  BY <1>3, <1>4, MadeSeq DEF f

\* The tokens that are kept are a text.
LEMMA KeptType ==
  ASSUME NEW src \in Words, NEW d, NEW n \in 0 .. Len(src)
  PROVE  KeptTo(src, d, n) \in Words
BY KeptOfType, FlatType DEF KeptTo

\* No token is kept of none.
LEMMA KeptNone ==
  ASSUME NEW src, NEW d
  PROVE  KeptTo(src, d, 0) = << >>
<1>1. KeptOf(src, d, 0) = << >>
  BY DEF KeptOf
<1> QED
  BY <1>1, FlatEmpty DEF KeptTo

\* The next token is kept unless it is dropped.
LEMMA KeptNext ==
  ASSUME NEW src \in Words, NEW d, NEW n \in Nat, n + 1 <= Len(src)
  PROVE  KeptTo(src, d, n + 1) = IF n + 1 \in d THEN KeptTo(src, d, n)
                                 ELSE KeptTo(src, d, n) \o << src[n + 1] >>
<1> DEFINE s == KeptOf(src, d, n)
           t == KeptOf(src, d, n + 1)
           x == IF n + 1 \in d THEN << >> ELSE << src[n + 1] >>
<1>1. Len(src) \in Nat /\ n \in 0 .. Len(src) /\ n + 1 \in 0 .. Len(src) /\ n + 1 \in 1 .. Len(src)
  BY DEF Words
<1>2. s \in Seq(Words) /\ t \in Seq(Words) /\ Len(s) = n /\ Len(t) = n + 1
  BY <1>1, KeptOfType
<1>3. x \in Words
  <2>1. src[n + 1] \in Kinds
    BY <1>1 DEF Words
  <2> QED
    BY <2>1, JoinOne, JoinEmpty
<1>4. /\ t[n + 1] = x
      /\ \A i \in 1 .. n : t[i] = s[i]
  BY <1>1 DEF KeptOf
<1> HIDE DEF s, t, x
<1>5. t = Append(s, x)
  <2> DEFINE a == Append(s, x)
  <2>1. a \in Seq(Words) /\ Len(a) = n + 1 /\ a[n + 1] = x /\ \A i \in 1 .. n : a[i] = s[i]
    BY <1>2, <1>3, AppendType
  <2> HIDE DEF a
  <2>2. \A i \in 1 .. n + 1 : i \in 1 .. n \/ i = n + 1
    BY <1>1
  <2>3. \A i \in 1 .. Len(t) : t[i] = a[i]
    BY <1>2, <1>4, <2>1, <2>2
  <2>4. t = a
    BY <1>2, <2>1, <2>3, PiecesEqual
  <2> QED
    BY <2>4 DEF a
<1>6. FlattenSeq(t) = FlattenSeq(s) \o x
  BY <1>2, <1>3, <1>5, FlatAppend
<1>7. FlattenSeq(s) \o << >> = FlattenSeq(s)
  BY <1>2, FlatType, JoinEmpty
<1>8. KeptTo(src, d, n + 1) = KeptTo(src, d, n) \o x
  BY <1>6 DEF KeptTo, s, t
<1>9. KeptTo(src, d, n) \o << >> = KeptTo(src, d, n)
  BY <1>7 DEF KeptTo, s
<1> QED
  BY <1>8, <1>9 DEF x

\* Only which of the first n tokens are dropped matters.
LEMMA KeptSame ==
  ASSUME NEW src, NEW d, NEW e, NEW n, \A i \in 1 .. n : i \in d <=> i \in e
  PROVE  KeptTo(src, d, n) = KeptTo(src, e, n)
<1>1. KeptOf(src, d, n) = KeptOf(src, e, n)
  BY DEF KeptOf
<1> QED
  BY <1>1 DEF KeptTo

\* Nothing is kept of a stretch of dropped tokens.
LEMMA KeptDropped ==
  ASSUME NEW src \in Words, NEW d, NEW a \in Nat, NEW b \in Nat, a <= b, b <= Len(src),
         \A i \in a + 1 .. b : i \in d
  PROVE  KeptTo(src, d, b) = KeptTo(src, d, a)
<1> DEFINE S == {k \in Nat : a + k <= b => KeptTo(src, d, a + k) = KeptTo(src, d, a)}
<1>0. Len(src) \in Nat
  BY DEF Words
<1>1. 0 \in S
  <2>1. a + 0 = a
    OBVIOUS
  <2> QED
    BY <2>1
<1>2. ASSUME NEW k \in Nat, k \in S PROVE k + 1 \in S
  <2> SUFFICES ASSUME a + (k + 1) <= b
               PROVE  KeptTo(src, d, a + (k + 1)) = KeptTo(src, d, a)
    OBVIOUS
  <2> DEFINE n == a + k
  <2>1. n \in Nat /\ n <= b /\ a + (k + 1) = n + 1 /\ n + 1 <= Len(src) /\ n + 1 \in a + 1 .. b
    BY <1>0
  <2>2. KeptTo(src, d, n) = KeptTo(src, d, a)
    BY <1>2, <2>1
  <2> HIDE DEF n
  <2>3. KeptTo(src, d, n + 1) = KeptTo(src, d, n)
    <3>1. n + 1 \in d
      BY <2>1
    <3> QED
      BY <2>1, <3>1, KeptNext
  <2> QED
    BY <2>1, <2>2, <2>3
<1> HIDE DEF S
<1>3. b - a \in Nat /\ a + (b - a) = b /\ b <= b
  OBVIOUS
<1>4. b - a \in S
  BY <1>1, <1>2, <1>3, InductionOnNat
<1> QED
  BY <1>3, <1>4 DEF S

-----------------------------------------------------------------------------
\* Lists of texts.

Separated(texts) ==
  [i \in DOMAIN texts |-> IF i = 1 THEN texts[i] ELSE << "," >> \o texts[i]]
Closing(texts) == [i \in DOMAIN texts |-> Append(texts[i], ";")]

\* A comma and a semicolon are texts.
LEMMA Punctuation ==
  << "," >> \in Words /\ << ";" >> \in Words
BY DEF Words, Kinds

\* Separating texts by commas leaves as many texts.
LEMMA SeparatedType ==
  ASSUME NEW s \in Seq(Words)
  PROVE  Separated(s) \in Seq(Words) /\ Len(Separated(s)) = Len(s)
<1>1. Len(s) \in Nat /\ DOMAIN s = 1 .. Len(s) /\ \A i \in 1 .. Len(s) : s[i] \in Words
  <2> HIDE DEF Words
  <2> QED
    OBVIOUS
<1>2. \A i \in 1 .. Len(s) : << "," >> \o s[i] \in Words
  BY <1>1, Punctuation, JoinType
<1> DEFINE f == Separated(s)
<1>3. f \in [1 .. Len(s) -> Words] /\ Len(s) \in Nat
  BY <1>1, <1>2 DEF Separated
<1> HIDE DEF f
<1> QED
  BY <1>3, MadeSeq DEF f

\* A comma-separated list is a text.
LEMMA CommasType ==
  ASSUME NEW s \in Seq(Words)
  PROVE  Commas(s) \in Words
<1>1. Commas(s) = FlattenSeq(Separated(s))
  BY DEF Commas, Separated
<1> QED
  BY <1>1, SeparatedType, FlatType

\* The list of nothing is empty.
LEMMA CommasEmpty == Commas(<< >>) = << >>
<1>1. [i \in DOMAIN << >> |-> IF i = 1 THEN << >>[i] ELSE << "," >> \o << >>[i]] = << >>
  OBVIOUS
<1> QED
  BY <1>1, FlatEmpty DEF Commas

\* An item more is preceded by a comma, unless it is the first.
LEMMA CommasAppend ==
  ASSUME NEW s \in Seq(Words), NEW x \in Words
  PROVE  /\ s = << >> => Commas(Append(s, x)) = x
         /\ s # << >> => Commas(Append(s, x)) = (Commas(s) \o << "," >>) \o x
<1> DEFINE a == Append(s, x)
           y == IF s = << >> THEN x ELSE << "," >> \o x
<1>1. /\ a \in Seq(Words) /\ Len(a) = Len(s) + 1 /\ Len(s) \in Nat
      /\ a[Len(s) + 1] = x /\ \A i \in 1 .. Len(s) : a[i] = s[i]
      /\ DOMAIN s = 1 .. Len(s) /\ DOMAIN a = 1 .. Len(s) + 1
  BY AppendType
<1>2. s = << >> <=> Len(s) = 0
  <2> HIDE DEF Words
  <2> QED
    OBVIOUS
<1>3. y \in Words
  BY Punctuation, JoinType
<1> HIDE DEF a
<1>4. /\ Separated(a)[Len(s) + 1] = y
      /\ \A i \in 1 .. Len(s) : Separated(a)[i] = Separated(s)[i]
  <2>1. Len(s) + 1 \in DOMAIN a /\ \A i \in 1 .. Len(s) : i \in DOMAIN a
    BY <1>1
  <2>2. Len(s) + 1 = 1 <=> s = << >>
    BY <1>1, <1>2
  <2> QED
    BY <1>1, <2>1, <2>2 DEF Separated
<1> HIDE DEF y
<1>5. Separated(a) = Append(Separated(s), y)
  <2> DEFINE p == Separated(a)
             b == Separated(s)
             q == Append(b, y)
             n == Len(s)
  <2>1. p \in Seq(Words) /\ Len(p) = n + 1 /\ b \in Seq(Words) /\ Len(b) = n
    BY <1>1, SeparatedType
  <2>2. q \in Seq(Words) /\ Len(q) = n + 1 /\ q[n + 1] = y /\ \A i \in 1 .. n : q[i] = b[i]
    <3> HIDE DEF b
    <3> QED
      BY <1>3, <2>1, AppendType
  <2>3. p[n + 1] = y /\ \A i \in 1 .. n : p[i] = b[i]
    BY <1>4
  <2>4. n \in Nat
    BY <1>1
  <2> HIDE DEF p, q, n, b
  <2>5. \A i \in 1 .. n + 1 : i \in 1 .. n \/ i = n + 1
    BY <2>4
  <2>6. \A i \in 1 .. Len(p) : p[i] = q[i]
    BY <2>1, <2>2, <2>3, <2>5
  <2>7. p = q
    BY <2>1, <2>2, <2>6, PiecesEqual
  <2> QED
    BY <2>7 DEF p, q, b
<1>6. Commas(a) = Commas(s) \o y
  <2>1. FlattenSeq(Append(Separated(s), y)) = FlattenSeq(Separated(s)) \o y
    BY <1>3, SeparatedType, FlatAppend
  <2>2. Commas(a) = FlattenSeq(Separated(a)) /\ Commas(s) = FlattenSeq(Separated(s))
    BY DEF Commas, Separated
  <2> QED
    BY <1>5, <2>1, <2>2
<1>7. ASSUME s = << >> PROVE Commas(a) = x
  <2>1. y = x /\ Commas(s) = << >>
    BY <1>7, CommasEmpty DEF y
  <2> QED
    BY <1>6, <2>1, JoinEmpty
<1>8. ASSUME s # << >> PROVE Commas(a) = (Commas(s) \o << "," >>) \o x
  <2>1. y = << "," >> \o x
    BY <1>8 DEF y
  <2> QED
    BY <1>6, <2>1, CommasType, Punctuation, JoinAssoc
<1> QED
  BY <1>7, <1>8 DEF a

\* Closing texts by semicolons leaves as many texts.
LEMMA ClosingType ==
  ASSUME NEW s \in Seq(Words)
  PROVE  Closing(s) \in Seq(Words) /\ Len(Closing(s)) = Len(s)
<1>1. Len(s) \in Nat /\ DOMAIN s = 1 .. Len(s) /\ \A i \in 1 .. Len(s) : s[i] \in Words
  <2> HIDE DEF Words
  <2> QED
    OBVIOUS
<1>2. \A i \in 1 .. Len(s) : Append(s[i], ";") \in Words
  <2> SUFFICES ASSUME NEW i \in 1 .. Len(s)
               PROVE  Append(s[i], ";") \in Words
    OBVIOUS
  <2>1. ";" \in Kinds
    BY DEF Kinds
  <2>2. s[i] \in Words
    BY <1>1
  <2>3. Append(s[i], ";") = s[i] \o << ";" >>
    BY <2>1, <2>2, JoinOne
  <2> QED
    BY <2>2, <2>3, Punctuation, JoinType
<1> DEFINE f == Closing(s)
<1>3. f \in [1 .. Len(s) -> Words] /\ Len(s) \in Nat
  BY <1>1, <1>2 DEF Closing
<1> HIDE DEF f
<1> QED
  BY <1>3, MadeSeq DEF f

\* A header more in an extern block is followed by a semicolon.
LEMMA ClosingAppend ==
  ASSUME NEW s \in Seq(Words), NEW x \in Words
  PROVE  FlattenSeq(Closing(Append(s, x))) = (FlattenSeq(Closing(s)) \o x) \o << ";" >>
<1> DEFINE a == Append(s, x)
           y == Append(x, ";")
<1>1. /\ a \in Seq(Words) /\ Len(a) = Len(s) + 1 /\ Len(s) \in Nat
      /\ a[Len(s) + 1] = x /\ \A i \in 1 .. Len(s) : a[i] = s[i]
      /\ DOMAIN s = 1 .. Len(s) /\ DOMAIN a = 1 .. Len(s) + 1
  BY AppendType
<1>2. y \in Words /\ y = x \o << ";" >>
  <2>1. ";" \in Kinds
    BY DEF Kinds
  <2> QED
    BY <2>1, JoinOne, JoinType, Punctuation
<1>3. y \in Words
  BY <1>2
<1> HIDE DEF a
<1>4. /\ Closing(a)[Len(s) + 1] = y
      /\ \A i \in 1 .. Len(s) : Closing(a)[i] = Closing(s)[i]
  <2>1. Len(s) + 1 \in DOMAIN a /\ \A i \in 1 .. Len(s) : i \in DOMAIN a
    BY <1>1
  <2> QED
    BY <1>1, <2>1 DEF Closing
<1> HIDE DEF y
<1>5. Closing(a) = Append(Closing(s), y)
  <2> DEFINE p == Closing(a)
             b == Closing(s)
             q == Append(b, y)
             n == Len(s)
  <2>1. p \in Seq(Words) /\ Len(p) = n + 1 /\ b \in Seq(Words) /\ Len(b) = n
    BY <1>1, ClosingType
  <2>2. q \in Seq(Words) /\ Len(q) = n + 1 /\ q[n + 1] = y /\ \A i \in 1 .. n : q[i] = b[i]
    <3> HIDE DEF b
    <3> QED
      BY <1>3, <2>1, AppendType
  <2>3. p[n + 1] = y /\ \A i \in 1 .. n : p[i] = b[i]
    BY <1>4
  <2>4. n \in Nat
    BY <1>1
  <2> HIDE DEF p, q, n, b
  <2>5. \A i \in 1 .. n + 1 : i \in 1 .. n \/ i = n + 1
    BY <2>4
  <2>6. \A i \in 1 .. Len(p) : p[i] = q[i]
    BY <2>1, <2>2, <2>3, <2>5
  <2>7. p = q
    BY <2>1, <2>2, <2>6, PiecesEqual
  <2> QED
    BY <2>7 DEF p, q, b
<1>6. FlattenSeq(Closing(a)) = FlattenSeq(Closing(s)) \o y
  BY <1>3, <1>5, ClosingType, FlatAppend
<1>7. FlattenSeq(Closing(s)) \o (x \o << ";" >>) = (FlattenSeq(Closing(s)) \o x) \o << ";" >>
  <2>1. FlattenSeq(Closing(s)) \in Words /\ << ";" >> \in Words
    BY ClosingType, FlatType, Punctuation
  <2> DEFINE q == FlattenSeq(Closing(s))
             r == << ";" >>
  <2> HIDE DEF q, r
  <2> QED
    BY <2>1, JoinAssoc, ZenonT(40) DEF q, r
<1> QED
  BY <1>2, <1>6, <1>7 DEF a

\* Nothing follows the only text.
LEMMA TailOfOne ==
  ASSUME NEW q \in Seq(Words), Len(q) = 1
  PROVE  Tail(q) = << >>
<1> HIDE DEF Words
<1>1. q # << >>
  <2>1. Len(q) > 0
    OBVIOUS
  <2>2. IsSeq(q)
    BY DEF IsSeq
  <2> QED
    BY <2>1, <2>2, SeqFacts
<1> DEFINE t == Tail(q)
<1>2. t \in Seq(Words)
  BY <1>1, HeadTailProperties
<1>3. Len(t) = Len(q) - 1
  BY <1>1, HeadTailProperties
<1> HIDE DEF t
<1>4. Len(t) = 0
  BY <1>3
<1>5. t = << >>
  BY <1>2, <1>4
<1> QED
  BY <1>5 DEF t

\* The ends of a sequence with one text more.
LEMMA ListFacts ==
  ASSUME NEW s \in Seq(Words), NEW x \in Words
  PROVE  /\ Front(Append(s, x)) = s /\ Last(Append(s, x)) = x
         /\ s # << >> => /\ Tail(Append(s, x)) = Append(Tail(s), x) /\ Tail(s) \in Seq(Words)
                         /\ Append(s, x)[1] = s[1] /\ s[1] \in Words
         /\ s = << >> => Tail(Append(s, x)) = << >> /\ Append(s, x)[1] = x
<1> DEFINE a == Append(s, x)
           n == Len(s)
<1>1. /\ a \in Seq(Words) /\ Len(a) = n + 1 /\ n \in Nat
      /\ a[n + 1] = x /\ \A i \in 1 .. n : a[i] = s[i]
      /\ DOMAIN s = 1 .. n /\ DOMAIN a = 1 .. n + 1
  BY AppendType
<1>2. s = << >> <=> n = 0
  <2> HIDE DEF Words
  <2> QED
    OBVIOUS
<1> HIDE DEF Words
<1>3. \A i \in 1 .. n : s[i] \in Words
  OBVIOUS
<1> HIDE DEF n
<1>4. Last(a) = x
  BY <1>1 DEF Last
<1>5. Front(a) = s
  <2> DEFINE f == SubSeq(a, 1, n)
  <2>1. f \in Seq(Words) /\ Len(f) = n /\ \A i \in 1 .. n : f[i] = a[i]
    <3> HIDE DEF a
    <3>1. n <= Len(a) /\ 1 \in Nat /\ 1 <= n + 1
      BY <1>1
    <3> QED
      BY <1>1, <3>1
  <2>2. Front(a) = f
    BY <1>1 DEF Front
  <2> HIDE DEF f, a
  <2>3. Len(s) = n
    BY DEF n
  <2>4. f = s
    BY <1>1, <2>1, <2>3, PiecesEqual
  <2> QED
    BY <2>2, <2>4
<1>6. ASSUME s # << >>
      PROVE  /\ Tail(a) = Append(Tail(s), x) /\ Tail(s) \in Seq(Words)
             /\ a[1] = s[1] /\ s[1] \in Words
  <2>1. n >= 1 /\ 1 \in 1 .. n
    BY <1>1, <1>2, <1>6
  <2>2. Len(s) = n
    BY DEF n
  <2> DEFINE p == Tail(a)
             t == Tail(s)
             q == Append(t, x)
  <2>3. t \in Seq(Words) /\ Len(t) = n - 1 /\ \A i \in 1 .. n - 1 : t[i] = s[i + 1]
    BY <1>6, <2>2
  <2>4. p \in Seq(Words) /\ Len(p) = n /\ \A i \in 1 .. n : p[i] = a[i + 1]
    <3> HIDE DEF a
    <3>1. a # << >>
      BY <1>1
    <3> QED
      BY <1>1, <3>1
  <2> HIDE DEF t, p, a
  <2>5. q \in Seq(Words) /\ Len(q) = n /\ q[n] = x /\ \A i \in 1 .. n - 1 : q[i] = t[i]
    <3>1. n - 1 + 1 = n
      BY <1>1
    <3> QED
      BY <2>3, <3>1, AppendType
  <2> HIDE DEF q
  <2>6. \A i \in 1 .. n : (i \in 1 .. n - 1 /\ i + 1 \in 1 .. n) \/ i = n
    BY <1>1
  <2>7. \A i \in 1 .. Len(p) : p[i] = q[i]
    BY <1>1, <2>3, <2>4, <2>5, <2>6
  <2>8. p = q
    BY <2>4, <2>5, <2>7, PiecesEqual
  <2> QED
    BY <1>1, <1>3, <2>1, <2>3, <2>8 DEF p, q, t
<1>7. ASSUME s = << >>
      PROVE  Tail(a) = << >> /\ a[1] = x
  <2>1. n = 0 /\ Len(a) = 1
    BY <1>1, <1>2, <1>7
  <2>2. Tail(a) = << >>
    <3>1. a \in Seq(Words) /\ Len(a) = 1
      BY <1>1, <2>1
    <3> HIDE DEF a
    <3> QED
      BY <3>1, TailOfOne
  <2> QED
    BY <1>1, <2>1, <2>2
<1> QED
  BY <1>4, <1>5, <1>6, <1>7 DEF a

-----------------------------------------------------------------------------
(***************************************************************************)
(* Tuples.                                                                 *)
(***************************************************************************)

\* Sequences with the same elements are equal.
LEMMA SameElements ==
  ASSUME NEW S, NEW s \in Seq(S), NEW t \in Seq(S), Len(s) = Len(t),
         \A i \in 1 .. Len(s) : s[i] = t[i]
  PROVE  s = t
OBVIOUS

\* The elements of a concatenation.
LEMMA JoinParts ==
  ASSUME NEW S, NEW q \in Seq(S), NEW r \in Seq(S)
  PROVE  /\ q \o r \in Seq(S) /\ Len(q \o r) = Len(q) + Len(r)
         /\ \A i \in 1 .. Len(q) + Len(r) :
              (q \o r)[i] = IF i <= Len(q) THEN q[i] ELSE r[i - Len(q)]
OBVIOUS

\* Nothing joined to nothing.
LEMMA Nothing == << >> \o << >> = << >>
OBVIOUS

\* Head and Tail of the short tuples the bodies are made of.
LEMMA End1 ==
  ASSUME NEW a
  PROVE  << a >> # << >> /\ Head(<< a >>) = a /\ Tail(<< a >>) = << >>
<1>1. << a >> # << >> /\ Head(<< a >>) = a
  OBVIOUS
<1>2. Tail(<< a >>) = << >>
  OBVIOUS
<1> QED
  BY <1>1, <1>2, Zenon

LEMMA End2 ==
  ASSUME NEW a, NEW b
  PROVE  << a, b >> # << >> /\ Head(<< a, b >>) = a /\ Tail(<< a, b >>) = << b >>
<1>1. << a, b >> # << >> /\ Head(<< a, b >>) = a
  OBVIOUS
<1>2. Tail(<< a, b >>) = << b >>
  OBVIOUS
<1> QED
  BY <1>1, <1>2, Zenon

LEMMA End3 ==
  ASSUME NEW a, NEW b, NEW d
  PROVE  << a, b, d >> # << >> /\ Head(<< a, b, d >>) = a /\ Tail(<< a, b, d >>) = << b, d >>
<1>1. << a, b, d >> # << >> /\ Head(<< a, b, d >>) = a
  OBVIOUS
<1>2. Tail(<< a, b, d >>) = << b, d >>
  OBVIOUS
<1> QED
  BY <1>1, <1>2, Zenon

LEMMA End4 ==
  ASSUME NEW a, NEW b, NEW d, NEW e
  PROVE  << a, b, d, e >> # << >> /\ Head(<< a, b, d, e >>) = a /\ Tail(<< a, b, d, e >>) = << b, d, e >>
<1>1. << a, b, d, e >> # << >> /\ Head(<< a, b, d, e >>) = a
  OBVIOUS
<1>2. Tail(<< a, b, d, e >>) = << b, d, e >>
  OBVIOUS
<1> QED
  BY <1>1, <1>2, Zenon

LEMMA End5 ==
  ASSUME NEW a, NEW b, NEW d, NEW e, NEW f
  PROVE  << a, b, d, e, f >> # << >> /\ Head(<< a, b, d, e, f >>) = a /\ Tail(<< a, b, d, e, f >>) = << b, d, e, f >>
<1>1. << a, b, d, e, f >> # << >> /\ Head(<< a, b, d, e, f >>) = a
  OBVIOUS
<1>2. Tail(<< a, b, d, e, f >>) = << b, d, e, f >>
  OBVIOUS
<1> QED
  BY <1>1, <1>2, Zenon

\* The empty tuple before a short one, as a branch that has nothing to add leaves it.
LEMMA Left1 ==
  ASSUME NEW a
  PROVE  << >> \o << a >> = << a >>
<1>1. << a >> \in Seq({a})
  OBVIOUS
<1> QED
  BY <1>1, ConcatEmptySeq, Zenon

LEMMA Left2 ==
  ASSUME NEW a, NEW b
  PROVE  << >> \o << a, b >> = << a, b >>
<1>1. << a, b >> \in Seq({a, b})
  OBVIOUS
<1> QED
  BY <1>1, ConcatEmptySeq, Zenon

LEMMA Left3 ==
  ASSUME NEW a, NEW b, NEW d
  PROVE  << >> \o << a, b, d >> = << a, b, d >>
<1>1. << a, b, d >> \in Seq({a, b, d})
  OBVIOUS
<1> QED
  BY <1>1, ConcatEmptySeq, Zenon

LEMMA Left4 ==
  ASSUME NEW a, NEW b, NEW d, NEW e
  PROVE  << >> \o << a, b, d, e >> = << a, b, d, e >>
<1>1. << a, b, d, e >> \in Seq({a, b, d, e})
  OBVIOUS
<1> QED
  BY <1>1, ConcatEmptySeq, Zenon

\* The concatenations of short tuples that branches and loops make of a body.
LEMMA Join11 ==
  ASSUME NEW a, NEW b
  PROVE  << a >> \o << b >> = << a, b >>
<1> DEFINE S == {a, b}
           q == << a >>
           r == << b >>
           s == << a, b >>
           u == q \o r
<1>1. q \in Seq(S) /\ r \in Seq(S) /\ s \in Seq(S) /\ Len(q) = 1 /\ Len(r) = 1 /\ Len(s) = 2
  OBVIOUS
<1>2. s[1] = a /\ s[2] = b
  OBVIOUS
<1>3. q[1] = a
  OBVIOUS
<1>4. r[1] = b
  OBVIOUS
<1> HIDE DEF S, q, r, s
<1>5. /\ u \in Seq(S) /\ Len(u) = Len(q) + Len(r)
      /\ \A i \in 1 .. Len(q) + Len(r) : u[i] = IF i <= Len(q) THEN q[i] ELSE r[i - Len(q)]
  BY <1>1, JoinParts, Zenon
<1> HIDE DEF u
<1>6. /\ Len(u) = 2
      /\ u[1] = a
      /\ u[2] = b
  BY <1>1, <1>3, <1>4, <1>5
<1>7. \A i \in 1 .. 2 : i = 1 \/ i = 2
  OBVIOUS
<1>8. \A i \in 1 .. 2 : u[i] = s[i]
  BY <1>2, <1>6, <1>7
<1>9. u = s
  BY <1>1, <1>5, <1>6, <1>8, SameElements
<1> QED
  BY <1>9 DEF u, q, r, s

LEMMA Join12 ==
  ASSUME NEW a, NEW b, NEW d
  PROVE  << a >> \o << b, d >> = << a, b, d >>
<1> DEFINE S == {a, b, d}
           q == << a >>
           r == << b, d >>
           s == << a, b, d >>
           u == q \o r
<1>1. q \in Seq(S) /\ r \in Seq(S) /\ s \in Seq(S) /\ Len(q) = 1 /\ Len(r) = 2 /\ Len(s) = 3
  OBVIOUS
<1>2. s[1] = a /\ s[2] = b /\ s[3] = d
  OBVIOUS
<1>3. q[1] = a
  OBVIOUS
<1>4. r[1] = b /\ r[2] = d
  OBVIOUS
<1> HIDE DEF S, q, r, s
<1>5. /\ u \in Seq(S) /\ Len(u) = Len(q) + Len(r)
      /\ \A i \in 1 .. Len(q) + Len(r) : u[i] = IF i <= Len(q) THEN q[i] ELSE r[i - Len(q)]
  BY <1>1, JoinParts, Zenon
<1> HIDE DEF u
<1>6. /\ Len(u) = 3
      /\ u[1] = a
      /\ u[2] = b
      /\ u[3] = d
  BY <1>1, <1>3, <1>4, <1>5
<1>7. \A i \in 1 .. 3 : i = 1 \/ i = 2 \/ i = 3
  OBVIOUS
<1>8. \A i \in 1 .. 3 : u[i] = s[i]
  BY <1>2, <1>6, <1>7
<1>9. u = s
  BY <1>1, <1>5, <1>6, <1>8, SameElements
<1> QED
  BY <1>9 DEF u, q, r, s

LEMMA Join22 ==
  ASSUME NEW a, NEW b, NEW d, NEW e
  PROVE  << a, b >> \o << d, e >> = << a, b, d, e >>
<1> DEFINE S == {a, b, d, e}
           q == << a, b >>
           r == << d, e >>
           s == << a, b, d, e >>
           u == q \o r
<1>1. q \in Seq(S) /\ r \in Seq(S) /\ s \in Seq(S) /\ Len(q) = 2 /\ Len(r) = 2 /\ Len(s) = 4
  OBVIOUS
<1>2. s[1] = a /\ s[2] = b /\ s[3] = d /\ s[4] = e
  OBVIOUS
<1>3. q[1] = a /\ q[2] = b
  OBVIOUS
<1>4. r[1] = d /\ r[2] = e
  OBVIOUS
<1> HIDE DEF S, q, r, s
<1>5. /\ u \in Seq(S) /\ Len(u) = Len(q) + Len(r)
      /\ \A i \in 1 .. Len(q) + Len(r) : u[i] = IF i <= Len(q) THEN q[i] ELSE r[i - Len(q)]
  BY <1>1, JoinParts, Zenon
<1> HIDE DEF u
<1>6. /\ Len(u) = 4
      /\ u[1] = a
      /\ u[2] = b
      /\ u[3] = d
      /\ u[4] = e
  BY <1>1, <1>3, <1>4, <1>5
<1>7. \A i \in 1 .. 4 : i = 1 \/ i = 2 \/ i = 3 \/ i = 4
  OBVIOUS
<1>8. \A i \in 1 .. 4 : u[i] = s[i]
  BY <1>2, <1>6, <1>7
<1>9. u = s
  BY <1>1, <1>5, <1>6, <1>8, SameElements
<1> QED
  BY <1>9 DEF u, q, r, s

LEMMA Join31 ==
  ASSUME NEW a, NEW b, NEW d, NEW e
  PROVE  << a, b, d >> \o << e >> = << a, b, d, e >>
<1> DEFINE S == {a, b, d, e}
           q == << a, b, d >>
           r == << e >>
           s == << a, b, d, e >>
           u == q \o r
<1>1. q \in Seq(S) /\ r \in Seq(S) /\ s \in Seq(S) /\ Len(q) = 3 /\ Len(r) = 1 /\ Len(s) = 4
  OBVIOUS
<1>2. s[1] = a /\ s[2] = b /\ s[3] = d /\ s[4] = e
  OBVIOUS
<1>3. q[1] = a /\ q[2] = b /\ q[3] = d
  OBVIOUS
<1>4. r[1] = e
  OBVIOUS
<1> HIDE DEF S, q, r, s
<1>5. /\ u \in Seq(S) /\ Len(u) = Len(q) + Len(r)
      /\ \A i \in 1 .. Len(q) + Len(r) : u[i] = IF i <= Len(q) THEN q[i] ELSE r[i - Len(q)]
  BY <1>1, JoinParts, Zenon
<1> HIDE DEF u
<1>6. /\ Len(u) = 4
      /\ u[1] = a
      /\ u[2] = b
      /\ u[3] = d
      /\ u[4] = e
  BY <1>1, <1>3, <1>4, <1>5
<1>7. \A i \in 1 .. 4 : i = 1 \/ i = 2 \/ i = 3 \/ i = 4
  OBVIOUS
<1>8. \A i \in 1 .. 4 : u[i] = s[i]
  BY <1>2, <1>6, <1>7
<1>9. u = s
  BY <1>1, <1>5, <1>6, <1>8, SameElements
<1> QED
  BY <1>9 DEF u, q, r, s

LEMMA Join23 ==
  ASSUME NEW a, NEW b, NEW d, NEW e, NEW f
  PROVE  << a, b >> \o << d, e, f >> = << a, b, d, e, f >>
<1> DEFINE S == {a, b, d, e, f}
           q == << a, b >>
           r == << d, e, f >>
           s == << a, b, d, e, f >>
           u == q \o r
<1>1. q \in Seq(S) /\ r \in Seq(S) /\ s \in Seq(S) /\ Len(q) = 2 /\ Len(r) = 3 /\ Len(s) = 5
  OBVIOUS
<1>2. s[1] = a /\ s[2] = b /\ s[3] = d /\ s[4] = e /\ s[5] = f
  OBVIOUS
<1>3. q[1] = a /\ q[2] = b
  OBVIOUS
<1>4. r[1] = d /\ r[2] = e /\ r[3] = f
  OBVIOUS
<1> HIDE DEF S, q, r, s
<1>5. /\ u \in Seq(S) /\ Len(u) = Len(q) + Len(r)
      /\ \A i \in 1 .. Len(q) + Len(r) : u[i] = IF i <= Len(q) THEN q[i] ELSE r[i - Len(q)]
  BY <1>1, JoinParts, Zenon
<1> HIDE DEF u
<1>6. /\ Len(u) = 5
      /\ u[1] = a
      /\ u[2] = b
      /\ u[3] = d
      /\ u[4] = e
      /\ u[5] = f
  BY <1>1, <1>3, <1>4, <1>5
<1>7. \A i \in 1 .. 5 : i = 1 \/ i = 2 \/ i = 3 \/ i = 4 \/ i = 5
  OBVIOUS
<1>8. \A i \in 1 .. 5 : u[i] = s[i]
  BY <1>2, <1>6, <1>7
<1>9. u = s
  BY <1>1, <1>5, <1>6, <1>8, SameElements
<1> QED
  BY <1>9 DEF u, q, r, s

\* The empty tuple behind a short one.
LEMMA Right3 ==
  ASSUME NEW a, NEW b, NEW d
  PROVE  << a, b, d >> \o << >> = << a, b, d >>
<1>1. << a, b, d >> \in Seq({a, b, d})
  OBVIOUS
<1> QED
  BY <1>1, ConcatEmptySeq, Zenon

\* What the items of a body say: the operation, the tokens or function, what follows.
LEMMA ItemFields ==
  /\ \A k : Tok(k).op = "token" /\ Tok(k).kinds = {k} /\ Tok(k).keep = FALSE
  /\ \A ks : Keep(ks).op = "token" /\ Keep(ks).kinds = ks /\ Keep(ks).keep = TRUE
  /\ \A f : /\ Call(f).op = "call" /\ Call(f).fn = f
            /\ CallOr(f).op = "call" /\ CallOr(f).fn = f
            /\ Must(f).op = "call" /\ Must(f).fn = f
  /\ \A f, s : Try(f, s).op = "try" /\ Try(f, s).fn = f /\ Try(f, s).then = s
  /\ \A ks, s : /\ When(ks, s).op = "when" /\ When(ks, s).kinds = ks /\ When(ks, s).then = s
                /\ While(ks, s).op = "while" /\ While(ks, s).kinds = ks /\ While(ks, s).then = s
BY DEF Tok, Keep, Call, CallOr, Must, Try, When, While

-----------------------------------------------------------------------------
(***************************************************************************)
(* What a list of things to do starts with, and what it leaves.            *)
(***************************************************************************)

Drops(todo, kind, r)   == todo # << >> /\ Head(todo) = Tok(kind) /\ Tail(todo) = r
Keeps(todo, kinds, r)  == todo # << >> /\ Head(todo) = Keep(kinds) /\ Tail(todo) = r
Needs(todo, fn, r) ==
  /\ todo # << >> /\ Tail(todo) = r /\ << >> \o r = r
  /\ Head(todo).op = "call" /\ Head(todo).fn = fn
MayCall(todo, fn, u, r) ==
  /\ todo # << >> /\ Tail(todo) = r /\ Head(todo).then \o r = u
  /\ Head(todo).op = "try" /\ Head(todo).fn = fn
Repeats(todo, kinds, u, r) ==
  /\ todo # << >> /\ Tail(todo) = r /\ Head(todo).then \o todo = u
  /\ Head(todo).op = "while" /\ Head(todo).kinds = kinds
Branches(todo, kinds, u, r) ==
  /\ todo # << >> /\ Tail(todo) = r /\ Head(todo).then \o r = u
  /\ Head(todo).op = "when" /\ Head(todo).kinds = kinds

\* A body that begins with a token that is not kept expects it and goes on behind it.
LEMMA Drop1 ==
  ASSUME NEW k
  PROVE  Drops(<< Tok(k) >>, k, << >>)
BY End1 DEF Drops

LEMMA Drop2 ==
  ASSUME NEW k, NEW b
  PROVE  Drops(<< Tok(k), b >>, k, << b >>)
BY End2 DEF Drops

LEMMA Drop3 ==
  ASSUME NEW k, NEW b, NEW d
  PROVE  Drops(<< Tok(k), b, d >>, k, << b, d >>)
BY End3 DEF Drops

LEMMA Drop4 ==
  ASSUME NEW k, NEW b, NEW d, NEW e
  PROVE  Drops(<< Tok(k), b, d, e >>, k, << b, d, e >>)
BY End4 DEF Drops

LEMMA Drop5 ==
  ASSUME NEW k, NEW b, NEW d, NEW e, NEW f
  PROVE  Drops(<< Tok(k), b, d, e, f >>, k, << b, d, e, f >>)
BY End5 DEF Drops

\* A body that begins with a token that is kept expects it and goes on behind it.
LEMMA Keep1 ==
  ASSUME NEW ks
  PROVE  Keeps(<< Keep(ks) >>, ks, << >>)
BY End1 DEF Keeps

LEMMA Keep3 ==
  ASSUME NEW ks, NEW b, NEW d
  PROVE  Keeps(<< Keep(ks), b, d >>, ks, << b, d >>)
BY End3 DEF Keeps

LEMMA Keep4 ==
  ASSUME NEW ks, NEW b, NEW d, NEW e
  PROVE  Keeps(<< Keep(ks), b, d, e >>, ks, << b, d, e >>)
BY End4 DEF Keeps

\* A body that begins with a call needs it and goes on behind it.
LEMMA Need1 ==
  ASSUME NEW fn
  PROVE  /\ Needs(<< Call(fn) >>, fn, << >>)
         /\ Needs(<< CallOr(fn) >>, fn, << >>)
         /\ Needs(<< Must(fn) >>, fn, << >>)
<1>1. ASSUME NEW a, a.op = "call", a.fn = fn
      PROVE  Needs(<< a >>, fn, << >>)
  <2>1. << a >> # << >> /\ Head(<< a >>) = a /\ Tail(<< a >>) = << >>
    BY End1
  <2>2. << >> \o << >> = << >>
    BY Nothing
  <2> QED
    BY <1>1, <2>1, <2>2, Zenon DEF Needs
<1> QED
  BY <1>1, ItemFields, Zenon

LEMMA Need2 ==
  ASSUME NEW fn, NEW b
  PROVE  /\ Needs(<< Call(fn), b >>, fn, << b >>)
         /\ Needs(<< CallOr(fn), b >>, fn, << b >>)
         /\ Needs(<< Must(fn), b >>, fn, << b >>)
<1>1. ASSUME NEW a, a.op = "call", a.fn = fn
      PROVE  Needs(<< a, b >>, fn, << b >>)
  <2>1. << a, b >> # << >> /\ Head(<< a, b >>) = a /\ Tail(<< a, b >>) = << b >>
    BY End2
  <2>2. << >> \o << b >> = << b >>
    BY Left1
  <2> QED
    BY <1>1, <2>1, <2>2, Zenon DEF Needs
<1> QED
  BY <1>1, ItemFields, Zenon

LEMMA Need3 ==
  ASSUME NEW fn, NEW b, NEW d
  PROVE  /\ Needs(<< Call(fn), b, d >>, fn, << b, d >>)
         /\ Needs(<< CallOr(fn), b, d >>, fn, << b, d >>)
         /\ Needs(<< Must(fn), b, d >>, fn, << b, d >>)
<1>1. ASSUME NEW a, a.op = "call", a.fn = fn
      PROVE  Needs(<< a, b, d >>, fn, << b, d >>)
  <2>1. << a, b, d >> # << >> /\ Head(<< a, b, d >>) = a /\ Tail(<< a, b, d >>) = << b, d >>
    BY End3
  <2>2. << >> \o << b, d >> = << b, d >>
    BY Left2
  <2> QED
    BY <1>1, <2>1, <2>2, Zenon DEF Needs
<1> QED
  BY <1>1, ItemFields, Zenon

LEMMA Need4 ==
  ASSUME NEW fn, NEW b, NEW d, NEW e
  PROVE  /\ Needs(<< Call(fn), b, d, e >>, fn, << b, d, e >>)
         /\ Needs(<< CallOr(fn), b, d, e >>, fn, << b, d, e >>)
         /\ Needs(<< Must(fn), b, d, e >>, fn, << b, d, e >>)
<1>1. ASSUME NEW a, a.op = "call", a.fn = fn
      PROVE  Needs(<< a, b, d, e >>, fn, << b, d, e >>)
  <2>1. << a, b, d, e >> # << >> /\ Head(<< a, b, d, e >>) = a /\ Tail(<< a, b, d, e >>) = << b, d, e >>
    BY End4
  <2>2. << >> \o << b, d, e >> = << b, d, e >>
    BY Left3
  <2> QED
    BY <1>1, <2>1, <2>2, Zenon DEF Needs
<1> QED
  BY <1>1, ItemFields, Zenon

call_more == While({","}, << Tok(","), CallOr("expression") >>)
call_args == Try("expression", << call_more >>)
call_open == << Tok("("), call_args, Tok(")") >>
call_first == << call_args, Tok(")") >>
call_next == << call_more, Tok(")") >>
call_comma == << Tok(","), CallOr("expression"), call_more, Tok(")") >>
call_arg == << CallOr("expression"), call_more, Tok(")") >>
call_close == << Tok(")") >>

\* The control points of parse_statement_expression_call, and what leads from one to the next.
LEMMA CallTodos ==
  /\ Keeps(parse_statement_expression_call, {"identifier"}, call_open)
  /\ Drops(call_open, "(", call_first)
  /\ MayCall(call_first, "expression", call_next, call_close)
  /\ Repeats(call_next, {","}, call_comma, call_close)
  /\ Drops(call_comma, ",", call_arg)
  /\ Needs(call_arg, "expression", call_next)
  /\ Drops(call_close, ")", << >>)
<1>1. Keeps(parse_statement_expression_call, {"identifier"}, call_open)
  <2>1. parse_statement_expression_call = << Keep({"identifier"}), Tok("("), call_args, Tok(")") >>
    BY DEF parse_statement_expression_call, call_args, call_more
  <2> QED
    BY <2>1, Keep4, Zenon DEF call_open
<1>2. Drops(call_open, "(", call_first)
  BY Drop3, Zenon DEF call_open, call_first
<1>3. MayCall(call_first, "expression", call_next, call_close)
  <2>1. call_first = << call_args, Tok(")") >>
    BY DEF call_first
  <2>2. << call_args, Tok(")") >> # << >> /\ Head(<< call_args, Tok(")") >>) = call_args /\ Tail(<< call_args, Tok(")") >>) = << Tok(")") >>
    BY End2
  <2>3. call_close = << Tok(")") >>
    BY DEF call_close
  <2>4. call_first # << >> /\ Head(call_first) = call_args /\ Tail(call_first) = call_close
    BY <2>1, <2>2, <2>3, Zenon
  <2>5. call_args.op = "try" /\ call_args.fn = "expression" /\ call_args.then = << call_more >>
    BY ItemFields DEF call_args
  <2>6. << call_more >> \o << Tok(")") >> = call_next
    BY Join11 DEF call_next
  <2> QED
    BY <2>4, <2>3, <2>5, <2>6, Zenon DEF MayCall
<1>4. Repeats(call_next, {","}, call_comma, call_close)
  <2>1. call_next = << call_more, Tok(")") >>
    BY DEF call_next
  <2>2. << call_more, Tok(")") >> # << >> /\ Head(<< call_more, Tok(")") >>) = call_more /\ Tail(<< call_more, Tok(")") >>) = << Tok(")") >>
    BY End2
  <2>3. call_close = << Tok(")") >>
    BY DEF call_close
  <2>4. call_next # << >> /\ Head(call_next) = call_more /\ Tail(call_next) = call_close
    BY <2>1, <2>2, <2>3, Zenon
  <2>5. call_more.op = "while" /\ call_more.kinds = {","} /\ call_more.then = << Tok(","), CallOr("expression") >>
    BY DEF call_more, While
  <2>6. << Tok(","), CallOr("expression") >> \o << call_more, Tok(")") >> = call_comma
    BY Join22 DEF call_comma
  <2> QED
    BY <2>1, <2>4, <2>5, <2>6, Zenon DEF Repeats
<1>5. Drops(call_comma, ",", call_arg)
  BY Drop4, Zenon DEF call_comma, call_arg
<1>6. Needs(call_arg, "expression", call_next)
  BY Need3, Zenon DEF call_arg, call_next
<1>7. Drops(call_close, ")", << >>)
  BY Drop1, Zenon DEF call_close
<1> QED
  BY <1>1, <1>2, <1>3, <1>4, <1>5, <1>6, <1>7

definition_first(first) == << first, Tok(":"), Tok("="), Call("expression") >>
definition_colon == << Tok(":"), Tok("="), Call("expression") >>
definition_equals == << Tok("="), Call("expression") >>
definition_value == << Call("expression") >>

\* The control points of parse_variable_definition and parse_assignment.
LEMMA DefinitionTodos ==
  /\ Needs(definition_first(Call("variable_declaration")), "variable_declaration", definition_colon)
  /\ Keeps(definition_first(Keep({"identifier"})), {"identifier"}, definition_colon)
  /\ Drops(definition_colon, ":", definition_equals)
  /\ Drops(definition_equals, "=", definition_value)
  /\ Needs(definition_value, "expression", << >>)
<1>1. Needs(definition_first(Call("variable_declaration")), "variable_declaration", definition_colon)
  BY Need4, Zenon DEF definition_first, definition_colon
<1>2. Keeps(definition_first(Keep({"identifier"})), {"identifier"}, definition_colon)
  BY Keep4, Zenon DEF definition_first, definition_colon
<1>3. Drops(definition_colon, ":", definition_equals)
  BY Drop3, Zenon DEF definition_colon, definition_equals
<1>4. Drops(definition_equals, "=", definition_value)
  BY Drop2, Zenon DEF definition_equals, definition_value
<1>5. Needs(definition_value, "expression", << >>)
  BY Need1, Zenon DEF definition_value
<1> QED
  BY <1>1, <1>2, <1>3, <1>4, <1>5

declaration_colon == << Tok(":"), Keep({"identifier"}) >>
declaration_name == << Keep({"identifier"}) >>

\* The control points of parse_variable_declaration.
LEMMA DeclarationTodos ==
  /\ Needs(parse_variable_declaration, "type", declaration_colon)
  /\ Drops(declaration_colon, ":", declaration_name)
  /\ Keeps(declaration_name, {"identifier"}, << >>)
<1>1. Needs(parse_variable_declaration, "type", declaration_colon)
  <2>1. parse_variable_declaration = << Call("type"), Tok(":"), Keep({"identifier"}) >>
    BY DEF parse_variable_declaration
  <2> QED
    BY <2>1, Need3, Zenon DEF declaration_colon
<1>2. Drops(declaration_colon, ":", declaration_name)
  BY Drop2, Zenon DEF declaration_colon, declaration_name
<1>3. Keeps(declaration_name, {"identifier"}, << >>)
  BY Keep1, Zenon DEF declaration_name
<1> QED
  BY <1>1, <1>2, <1>3

return_value == << Try("expression", << >>) >>

\* The control points of parse_statement_return.
LEMMA ReturnTodos ==
  /\ Drops(parse_statement_return, "return", return_value)
  /\ MayCall(return_value, "expression", << >>, << >>)
<1>1. Drops(parse_statement_return, "return", return_value)
  <2>1. parse_statement_return = << Tok("return"), Try("expression", << >>) >>
    BY DEF parse_statement_return
  <2> QED
    BY <2>1, Drop2, Zenon DEF return_value
<1>2. MayCall(return_value, "expression", << >>, << >>)
  <2>1. return_value = << Try("expression", << >>) >>
    BY DEF return_value
  <2>2. << Try("expression", << >>) >> # << >> /\ Head(<< Try("expression", << >>) >>) = Try("expression", << >>) /\ Tail(<< Try("expression", << >>) >>) = << >>
    BY End1
  <2>4. return_value # << >> /\ Head(return_value) = Try("expression", << >>) /\ Tail(return_value) = << >>
    BY <2>1, <2>2, Zenon
  <2>5. Try("expression", << >>).op = "try" /\ Try("expression", << >>).fn = "expression" /\ Try("expression", << >>).then = << >>
    BY ItemFields
  <2>6. << >> \o << >> = << >>
    BY Nothing
  <2> QED
    BY <2>4, <2>5, <2>6, Zenon DEF MayCall
<1> QED
  BY <1>1, <1>2

scope_return == << Call("statement_return"), Tok(";") >>
scope_block == << Call("block") >>
scope_expression == << CallOr("statement_expression"), Tok(";") >>
scope_close == << Tok(";") >>

\* The control points of parse_scope_statement.
LEMMA ScopeTodos ==
  /\ Needs(scope_return, "statement_return", scope_close)
  /\ Needs(scope_block, "block", << >>)
  /\ Needs(scope_expression, "statement_expression", scope_close)
  /\ Drops(scope_close, ";", << >>)
<1>1. Needs(scope_return, "statement_return", scope_close)
  BY Need2, Zenon DEF scope_return, scope_close
<1>2. Needs(scope_block, "block", << >>)
  BY Need1, Zenon DEF scope_block
<1>3. Needs(scope_expression, "statement_expression", scope_close)
  BY Need2, Zenon DEF scope_expression, scope_close
<1>4. Drops(scope_close, ";", << >>)
  BY Drop1, Zenon DEF scope_close
<1> QED
  BY <1>1, <1>2, <1>3, <1>4

block_loop == While(Unclosed, << Call("scope_statement") >>)
block_next == << block_loop, Tok("}") >>
block_statement == << Call("scope_statement"), block_loop, Tok("}") >>
block_close == << Tok("}") >>

\* The control points of parse_block.
LEMMA BlockTodos ==
  /\ Drops(parse_block, "{", block_next)
  /\ Repeats(block_next, Unclosed, block_statement, block_close)
  /\ Needs(block_statement, "scope_statement", block_next)
  /\ Drops(block_close, "}", << >>)
<1>1. Drops(parse_block, "{", block_next)
  <2>1. parse_block = << Tok("{"), block_loop, Tok("}") >>
    BY DEF parse_block, block_loop
  <2> QED
    BY <2>1, Drop3, Zenon DEF block_next
<1>2. Repeats(block_next, Unclosed, block_statement, block_close)
  <2>1. block_next = << block_loop, Tok("}") >>
    BY DEF block_next
  <2>2. << block_loop, Tok("}") >> # << >> /\ Head(<< block_loop, Tok("}") >>) = block_loop /\ Tail(<< block_loop, Tok("}") >>) = << Tok("}") >>
    BY End2
  <2>3. block_close = << Tok("}") >>
    BY DEF block_close
  <2>4. block_next # << >> /\ Head(block_next) = block_loop /\ Tail(block_next) = block_close
    BY <2>1, <2>2, <2>3, Zenon
  <2>5. block_loop.op = "while" /\ block_loop.kinds = Unclosed /\ block_loop.then = << Call("scope_statement") >>
    BY DEF block_loop, While
  <2>6. << Call("scope_statement") >> \o << block_loop, Tok("}") >> = block_statement
    BY Join12 DEF block_statement
  <2> QED
    BY <2>1, <2>4, <2>5, <2>6, Zenon DEF Repeats
<1>3. Needs(block_statement, "scope_statement", block_next)
  BY Need3, Zenon DEF block_statement, block_next
<1>4. Drops(block_close, "}", << >>)
  BY Drop1, Zenon DEF block_close
<1> QED
  BY <1>1, <1>2, <1>3, <1>4

extern_loop == While(Unclosed, << Must("function_header"), Tok(";") >>)
extern_open == << Tok("{"), extern_loop, Tok("}") >>
extern_next == << extern_loop, Tok("}") >>
extern_header == << Must("function_header"), Tok(";"), extern_loop, Tok("}") >>
extern_end == << Tok(";"), extern_loop, Tok("}") >>
extern_close == << Tok("}") >>

\* The control points of parse_extern_block.
LEMMA ExternTodos ==
  /\ Drops(parse_extern_block, "extern", extern_open)
  /\ Drops(extern_open, "{", extern_next)
  /\ Repeats(extern_next, Unclosed, extern_header, extern_close)
  /\ Needs(extern_header, "function_header", extern_end)
  /\ Drops(extern_end, ";", extern_next)
  /\ Drops(extern_close, "}", << >>)
<1>1. Drops(parse_extern_block, "extern", extern_open)
  <2>1. parse_extern_block = << Tok("extern"), Tok("{"), extern_loop, Tok("}") >>
    BY DEF parse_extern_block, extern_loop
  <2> QED
    BY <2>1, Drop4, Zenon DEF extern_open
<1>2. Drops(extern_open, "{", extern_next)
  BY Drop3, Zenon DEF extern_open, extern_next
<1>3. Repeats(extern_next, Unclosed, extern_header, extern_close)
  <2>1. extern_next = << extern_loop, Tok("}") >>
    BY DEF extern_next
  <2>2. << extern_loop, Tok("}") >> # << >> /\ Head(<< extern_loop, Tok("}") >>) = extern_loop /\ Tail(<< extern_loop, Tok("}") >>) = << Tok("}") >>
    BY End2
  <2>3. extern_close = << Tok("}") >>
    BY DEF extern_close
  <2>4. extern_next # << >> /\ Head(extern_next) = extern_loop /\ Tail(extern_next) = extern_close
    BY <2>1, <2>2, <2>3, Zenon
  <2>5. extern_loop.op = "while" /\ extern_loop.kinds = Unclosed /\ extern_loop.then = << Must("function_header"), Tok(";") >>
    BY DEF extern_loop, While
  <2>6. << Must("function_header"), Tok(";") >> \o << extern_loop, Tok("}") >> = extern_header
    BY Join22 DEF extern_header
  <2> QED
    BY <2>1, <2>4, <2>5, <2>6, Zenon DEF Repeats
<1>4. Needs(extern_header, "function_header", extern_end)
  BY Need4, Zenon DEF extern_header, extern_end
<1>5. Drops(extern_end, ";", extern_next)
  BY Drop3, Zenon DEF extern_end, extern_next
<1>6. Drops(extern_close, "}", << >>)
  BY Drop1, Zenon DEF extern_close
<1> QED
  BY <1>1, <1>2, <1>3, <1>4, <1>5, <1>6

header_more    == While({","}, << Tok(","), Call("variable_declaration") >>)
header_list    == Try("variable_declaration", << header_more >>)
header_params  == When({"("}, << Tok("("), header_list, Tok(")") >>)
header_returns == When({"-"}, << Tok("-"), Tok(">"), Must("type") >>)
header_name == << Keep({"identifier"}), header_params, header_returns >>
header_named == << header_params, header_returns >>
header_open == << Tok("("), header_list, Tok(")"), header_returns >>
header_first == << header_list, Tok(")"), header_returns >>
header_next == << header_more, Tok(")"), header_returns >>
header_comma == << Tok(","), Call("variable_declaration"), header_more, Tok(")"), header_returns >>
header_param == << Call("variable_declaration"), header_more, Tok(")"), header_returns >>
header_close == << Tok(")"), header_returns >>
header_listed == << header_returns >>
header_minus == << Tok("-"), Tok(">"), Must("type") >>
header_arrow == << Tok(">"), Must("type") >>
header_type == << Must("type") >>

\* The control points of parse_function_header.
LEMMA HeaderTodos ==
  /\ Drops(parse_function_header, "func", header_name)
  /\ Keeps(header_name, {"identifier"}, header_named)
  /\ Branches(header_named, {"("}, header_open, header_listed)
  /\ Drops(header_open, "(", header_first)
  /\ MayCall(header_first, "variable_declaration", header_next, header_close)
  /\ Repeats(header_next, {","}, header_comma, header_close)
  /\ Drops(header_comma, ",", header_param)
  /\ Needs(header_param, "variable_declaration", header_next)
  /\ Drops(header_close, ")", header_listed)
  /\ Branches(header_listed, {"-"}, header_minus, << >>)
  /\ Drops(header_minus, "-", header_arrow)
  /\ Drops(header_arrow, ">", header_type)
  /\ Needs(header_type, "type", << >>)
<1>1. Drops(parse_function_header, "func", header_name)
  <2>1. parse_function_header = << Tok("func"), Keep({"identifier"}), header_params, header_returns >>
    BY DEF parse_function_header, header_params, header_list, header_returns, header_more
  <2> QED
    BY <2>1, Drop4, Zenon DEF header_name
<1>2. Keeps(header_name, {"identifier"}, header_named)
  BY Keep3, Zenon DEF header_name, header_named
<1>3. Branches(header_named, {"("}, header_open, header_listed)
  <2>1. header_named = << header_params, header_returns >>
    BY DEF header_named
  <2>2. << header_params, header_returns >> # << >> /\ Head(<< header_params, header_returns >>) = header_params /\ Tail(<< header_params, header_returns >>) = << header_returns >>
    BY End2
  <2>3. header_listed = << header_returns >>
    BY DEF header_listed
  <2>4. header_named # << >> /\ Head(header_named) = header_params /\ Tail(header_named) = header_listed
    BY <2>1, <2>2, <2>3, Zenon
  <2>5. header_params.op = "when" /\ header_params.kinds = {"("} /\ header_params.then = << Tok("("), header_list, Tok(")") >>
    BY ItemFields DEF header_params
  <2>6. << Tok("("), header_list, Tok(")") >> \o << header_returns >> = header_open
    BY Join31 DEF header_open
  <2> QED
    BY <2>4, <2>3, <2>5, <2>6, Zenon DEF Branches
<1>4. Drops(header_open, "(", header_first)
  BY Drop4, Zenon DEF header_open, header_first
<1>5. MayCall(header_first, "variable_declaration", header_next, header_close)
  <2>1. header_first = << header_list, Tok(")"), header_returns >>
    BY DEF header_first
  <2>2. << header_list, Tok(")"), header_returns >> # << >> /\ Head(<< header_list, Tok(")"), header_returns >>) = header_list /\ Tail(<< header_list, Tok(")"), header_returns >>) = << Tok(")"), header_returns >>
    BY End3
  <2>3. header_close = << Tok(")"), header_returns >>
    BY DEF header_close
  <2>4. header_first # << >> /\ Head(header_first) = header_list /\ Tail(header_first) = header_close
    BY <2>1, <2>2, <2>3, Zenon
  <2>5. header_list.op = "try" /\ header_list.fn = "variable_declaration" /\ header_list.then = << header_more >>
    BY ItemFields DEF header_list
  <2>6. << header_more >> \o << Tok(")"), header_returns >> = header_next
    BY Join12 DEF header_next
  <2> QED
    BY <2>4, <2>3, <2>5, <2>6, Zenon DEF MayCall
<1>6. Repeats(header_next, {","}, header_comma, header_close)
  <2>1. header_next = << header_more, Tok(")"), header_returns >>
    BY DEF header_next
  <2>2. << header_more, Tok(")"), header_returns >> # << >> /\ Head(<< header_more, Tok(")"), header_returns >>) = header_more /\ Tail(<< header_more, Tok(")"), header_returns >>) = << Tok(")"), header_returns >>
    BY End3
  <2>3. header_close = << Tok(")"), header_returns >>
    BY DEF header_close
  <2>4. header_next # << >> /\ Head(header_next) = header_more /\ Tail(header_next) = header_close
    BY <2>1, <2>2, <2>3, Zenon
  <2>5. header_more.op = "while" /\ header_more.kinds = {","} /\ header_more.then = << Tok(","), Call("variable_declaration") >>
    BY DEF header_more, While
  <2>6. << Tok(","), Call("variable_declaration") >> \o << header_more, Tok(")"), header_returns >> = header_comma
    BY Join23 DEF header_comma
  <2> QED
    BY <2>1, <2>4, <2>5, <2>6, Zenon DEF Repeats
<1>7. Drops(header_comma, ",", header_param)
  BY Drop5, Zenon DEF header_comma, header_param
<1>8. Needs(header_param, "variable_declaration", header_next)
  BY Need4, Zenon DEF header_param, header_next
<1>9. Drops(header_close, ")", header_listed)
  BY Drop2, Zenon DEF header_close, header_listed
<1>10. Branches(header_listed, {"-"}, header_minus, << >>)
  <2>1. header_listed = << header_returns >>
    BY DEF header_listed
  <2>2. << header_returns >> # << >> /\ Head(<< header_returns >>) = header_returns /\ Tail(<< header_returns >>) = << >>
    BY End1
  <2>4. header_listed # << >> /\ Head(header_listed) = header_returns /\ Tail(header_listed) = << >>
    BY <2>1, <2>2, Zenon
  <2>5. header_returns.op = "when" /\ header_returns.kinds = {"-"} /\ header_returns.then = << Tok("-"), Tok(">"), Must("type") >>
    BY ItemFields DEF header_returns
  <2>6. << Tok("-"), Tok(">"), Must("type") >> \o << >> = header_minus
    BY Right3 DEF header_minus
  <2> QED
    BY <2>4, <2>5, <2>6, Zenon DEF Branches
<1>11. Drops(header_minus, "-", header_arrow)
  BY Drop3, Zenon DEF header_minus, header_arrow
<1>12. Drops(header_arrow, ">", header_type)
  BY Drop2, Zenon DEF header_arrow, header_type
<1>13. Needs(header_type, "type", << >>)
  BY Need1, Zenon DEF header_type
<1> QED
  BY <1>1, <1>2, <1>3, <1>4, <1>5, <1>6, <1>7, <1>8, <1>9, <1>10, <1>11, <1>12, <1>13

-----------------------------------------------------------------------------
(***************************************************************************)
(* The control points of the bodies: what is left to do, and the text that *)
(* has been written so far, from the texts of the kids.                    *)
(***************************************************************************)

\* lead ( args
Listed(lead, args) == (lead \o << "(" >>) \o Commas(args)

CallPoint(parts, todo, t) ==
  LET list == Listed(parts[1], Tail(parts))
  IN  \/ parts = << >> /\ t = << >> /\ todo = parse_statement_expression_call
      \/ Len(parts) = 1 /\ t = parts[1] /\ todo = call_open
      \/ Len(parts) = 1 /\ t = list /\ todo = call_first
      \/ Len(parts) > 1 /\ t = list /\ todo \in {call_next, call_comma}
      \/ Len(parts) > 1 /\ t = list \o << "," >> /\ todo = call_arg
      \/ Len(parts) > 0 /\ t = list /\ todo = call_close
      \/ Len(parts) > 0 /\ t = list \o << ")" >> /\ todo = << >>

DefinitionPoint(first, parts, todo, t) ==
  LET name == parts[1]
  IN  \/ parts = << >> /\ t = << >> /\ todo = definition_first(first)
      \/ Len(parts) = 1 /\ t = name /\ todo = definition_colon
      \/ Len(parts) = 1 /\ t = name \o << ":" >> /\ todo = definition_equals
      \/ Len(parts) = 1 /\ t = (name \o << ":" >>) \o << "=" >> /\ todo = definition_value
      \/ /\ Len(parts) = 2 /\ t = ((name \o << ":" >>) \o << "=" >>) \o parts[2]
         /\ todo = << >>

DeclarationPoint(parts, todo, t) ==
  \/ parts = << >> /\ t = << >> /\ todo = parse_variable_declaration
  \/ Len(parts) = 1 /\ t = parts[1] /\ todo = declaration_colon
  \/ Len(parts) = 1 /\ t = parts[1] \o << ":" >> /\ todo = declaration_name
  \/ Len(parts) = 2 /\ t = (parts[1] \o << ":" >>) \o parts[2] /\ todo = << >>

ReturnPoint(parts, todo, t) ==
  \/ parts = << >> /\ t = << >> /\ todo = parse_statement_return
  \/ parts = << >> /\ t = << "return" >> /\ todo = return_value
  \/ t = << "return" >> \o FlattenSeq(parts) /\ todo = << >>

ScopePoint(kids, parts, todo, t) ==
  LET all == FlattenSeq(parts)
  IN  \/ /\ parts = << >> /\ kids = << >> /\ t = << >>
         /\ todo \in {scope_return, scope_block, scope_expression}
      \/ kids[1].fn # "block" /\ t = all /\ todo = scope_close
      \/ kids[1].fn # "block" /\ t = all \o << ";" >> /\ todo = << >>
      \/ kids[1].fn = "block" /\ t = all /\ todo = << >>

BlockPoint(parts, todo, t) ==
  LET begun == << "{" >> \o FlattenSeq(parts)
  IN  \/ parts = << >> /\ t = << >> /\ todo = parse_block
      \/ t = begun /\ todo \in {block_next, block_statement, block_close}
      \/ t = begun \o << "}" >> /\ todo = << >>

Externs(parts) == << "extern", "{" >> \o FlattenSeq(Closing(parts))

ExternPoint(parts, todo, t) ==
  \/ parts = << >> /\ t = << >> /\ todo = parse_extern_block
  \/ parts = << >> /\ t = << "extern" >> /\ todo = extern_open
  \/ t = Externs(parts) /\ todo \in {extern_next, extern_header, extern_close}
  \/ \E before \in Seq(Words), w \in Words :
       parts = Append(before, w) /\ t = Externs(before) \o w /\ todo = extern_end
  \/ t = Externs(parts) \o << "}" >> /\ todo = << >>

Named(parts) == << "func" >> \o parts[1]

\* A header without its return type.
Unreturned(src, kids, parts) ==
  IF src[kids[1].at + 1] = "(" THEN Listed(Named(parts), Tail(parts)) \o << ")" >>
  ELSE Named(parts)

\* The parameters are being read.
ParameterPoint(parts, todo, t) ==
  LET list == Listed(Named(parts), Tail(parts))
  IN  \/ Len(parts) = 1 /\ t = Named(parts) /\ todo = header_open
      \/ Len(parts) = 1 /\ t = list /\ todo = header_first
      \/ Len(parts) > 1 /\ t = list /\ todo \in {header_next, header_comma}
      \/ Len(parts) > 1 /\ t = list \o << "," >> /\ todo = header_param
      \/ Len(parts) > 0 /\ t = list /\ todo = header_close

\* The return type is being read.
ResultPoint(before, todo, t) ==
  \/ t = before /\ todo \in {header_listed, header_minus, << >>}
  \/ t = before \o << "-" >> /\ todo = header_arrow
  \/ t = (before \o << "-" >>) \o << ">" >> /\ todo = header_type

HeaderPoint(src, kids, parts, todo, t, p) ==
  \/ /\ parts = << >> /\ kids = << >>
     /\ \/ t = << >> /\ todo = parse_function_header
        \/ t = << "func" >> /\ todo = header_name
  \/ /\ Len(parts) = 1 /\ Len(kids) = 1 /\ kids[1].fn # "type" /\ kids[1].at + 1 = p
     /\ t = Named(parts) /\ todo = header_named
  \/ /\ kids[Len(kids)].fn # "type" /\ src[kids[1].at + 1] = "("
     /\ ParameterPoint(parts, todo, t)
  \/ /\ Len(parts) > 0 /\ kids[Len(kids)].fn # "type"
     /\ ResultPoint(Unreturned(src, kids, parts), todo, t)
  \/ \E some, n : \E before \in Seq(Words), w \in Words :
       /\ IsSeq(some) /\ Len(some) = Len(before) /\ Len(before) > 0
       /\ kids = Append(some, n) /\ parts = Append(before, w) /\ n.fn = "type"
       /\ t = ((Unreturned(src, some, before) \o << "-" >>) \o << ">" >>) \o w
       /\ todo = << >>

\* Every token is kept, and the first call is of a function of a lower rank.
FlatItems(fn) ==
  {Reject} \cup {Keep(ks) : ks \in SUBSET Kinds}
    \cup {While(ks, << Keep(ls) >>) : ks \in SUBSET Kinds, ls \in SUBSET Kinds}
    \cup UNION {{Call(g), CallOr(g), Must(g)} : g \in {h \in Functions : Rank(h) < Rank(fn)}}

FlatPoint(fn, parts, todo, t) == t = FlattenSeq(parts) /\ todo \in Seq(FlatItems(fn))

Done(src, fn, kids, parts, todo, t, p) ==
  CASE fn = "statement_expression_call" -> CallPoint(parts, todo, t)
    [] fn = "variable_definition" ->
         DefinitionPoint(Call("variable_declaration"), parts, todo, t)
    [] fn = "assignment" -> DefinitionPoint(Keep({"identifier"}), parts, todo, t)
    [] fn = "variable_declaration" -> DeclarationPoint(parts, todo, t)
    [] fn = "statement_return" -> ReturnPoint(parts, todo, t)
    [] fn = "scope_statement" -> ScopePoint(kids, parts, todo, t)
    [] fn = "block" -> BlockPoint(parts, todo, t)
    [] fn = "extern_block" -> ExternPoint(parts, todo, t)
    [] fn = "function_header" -> HeaderPoint(src, kids, parts, todo, t, p)
    [] OTHER -> FlatPoint(fn, parts, todo, t)

-----------------------------------------------------------------------------
\* What may happen at a point, and the point it leads to.

Moves(src, fn, kids, parts, todo, t, p) ==
  LET x == Head(todo)
      r == Tail(todo)
  IN  /\ todo = << >> =>
           \A at : t = Text(src, [fn |-> fn, at |-> at, kids |-> kids], parts)
      /\ todo # << >> /\ x.op = "token" /\ src[p] \in x.kinds =>
           Done(src, fn, IF x.keep THEN Append(kids, Leaf(p)) ELSE kids,
                IF x.keep THEN Append(parts, << src[p] >>) ELSE parts, r, t \o << src[p] >>, p + 1)
      /\ todo # << >> /\ x.op \in {"when", "while"} =>
           Done(src, fn, kids, parts,
                IF src[p] \in x.kinds THEN x.then \o (IF x.op = "while" THEN todo ELSE r) ELSE r,
                t, p)
      /\ todo # << >> /\ x.op \in {"call", "try"} =>
           /\ Rank(x.fn) < Rank(fn) \/ Len(t) > 0
           /\ \A n, q : \A w \in Words : n.fn = x.fn =>
                Done(src, fn, Append(kids, n), Append(parts, w),
                     (IF x.op = "try" THEN x.then ELSE << >>) \o r, t \o w, q)
      /\ todo # << >> /\ x.op = "try" => \A q : Done(src, fn, kids, parts, r, t, q)

\* A body moves on rightly from its end when the text read is the node's.
LEMMA AtEnd ==
  ASSUME NEW src, NEW fn, NEW kids, NEW parts, NEW todo, NEW t, NEW p, todo = << >>,
         \A at : t = Text(src, [fn |-> fn, at |-> at, kids |-> kids], parts)
  PROVE  Moves(src, fn, kids, parts, todo, t, p)
BY DEF Moves

\* ... from a token that is not kept, when what follows is done for the longer text.
LEMMA AtDrop ==
  ASSUME NEW src, NEW fn, NEW kids, NEW parts, NEW todo, NEW t, NEW p, NEW kind, NEW r,
         Drops(todo, kind, r),
         Done(src, fn, kids, parts, r, t \o << kind >>, p + 1)
  PROVE  Moves(src, fn, kids, parts, todo, t, p)
<1>1. Tok(kind).op = "token" /\ Tok(kind).kinds = {kind} /\ Tok(kind).keep = FALSE
  BY ItemFields
<1> QED
  BY <1>1 DEF Moves, Drops

\* ... from a token that is kept, which also becomes a kid.
LEMMA AtKeep ==
  ASSUME NEW src, NEW fn, NEW kids, NEW parts, NEW todo, NEW t, NEW p, NEW kinds, NEW r,
         Keeps(todo, kinds, r),
         Done(src, fn, Append(kids, Leaf(p)), Append(parts, << src[p] >>),
              r, t \o << src[p] >>, p + 1)
  PROVE  Moves(src, fn, kids, parts, todo, t, p)
<1>1. Keep(kinds).op = "token" /\ Keep(kinds).keep = TRUE
  BY ItemFields
<1> QED
  BY <1>1 DEF Moves, Keeps

\* ... from a branch, when both sides are done for the text read so far.
LEMMA AtBranch ==
  ASSUME NEW src, NEW fn, NEW kids, NEW parts, NEW todo, NEW t, NEW p, NEW kinds, NEW r, NEW u,
         Branches(todo, kinds, u, r),
         src[p] \in kinds => Done(src, fn, kids, parts, u, t, p),
         src[p] \notin kinds => Done(src, fn, kids, parts, r, t, p)
  PROVE  Moves(src, fn, kids, parts, todo, t, p)
BY DEF Moves, Branches

\* ... from a loop, when its body and what follows it are.
LEMMA AtLoop ==
  ASSUME NEW src, NEW fn, NEW kids, NEW parts, NEW todo, NEW t, NEW p, NEW kinds, NEW r, NEW u,
         Repeats(todo, kinds, u, r),
         Done(src, fn, kids, parts, u, t, p), Done(src, fn, kids, parts, r, t, p)
  PROVE  Moves(src, fn, kids, parts, todo, t, p)
BY DEF Moves, Repeats

\* ... from a call, when what follows is done with the kid and its text added.
LEMMA AtCall ==
  ASSUME NEW src, NEW fn, NEW kids, NEW parts, NEW todo, NEW t, NEW p, NEW g, NEW r,
         Needs(todo, g, r), Rank(g) < Rank(fn) \/ Len(t) > 0,
         \A n, q : \A w \in Words : n.fn = g =>
           Done(src, fn, Append(kids, n), Append(parts, w), r, t \o w, q)
  PROVE  Moves(src, fn, kids, parts, todo, t, p)
BY DEF Moves, Needs

\* ... from a call that may return nothing, when what follows is done with and without the kid.
LEMMA AtTry ==
  ASSUME NEW src, NEW fn, NEW kids, NEW parts, NEW todo, NEW t, NEW p, NEW g, NEW r, NEW u,
         MayCall(todo, g, u, r), Rank(g) < Rank(fn) \/ Len(t) > 0,
         \A q : Done(src, fn, kids, parts, r, t, q),
         \A n, q : \A w \in Words : n.fn = g =>
           Done(src, fn, Append(kids, n), Append(parts, w), u, t \o w, q)
  PROVE  Moves(src, fn, kids, parts, todo, t, p)
BY DEF Moves, MayCall

\* The first kid's text.
LEMMA FirstPart ==
  ASSUME NEW w \in Words
  PROVE  /\ Append(<< >>, w) \in Seq(Words) /\ Len(Append(<< >>, w)) = 1
         /\ Append(<< >>, w)[1] = w /\ Tail(Append(<< >>, w)) = << >>
         /\ FlattenSeq(Append(<< >>, w)) = w /\ << >> \o w = w
<1>1. << >> \in Seq(Words) /\ Len(<< >>) = 0
  <2> HIDE DEF Words
  <2> QED
    OBVIOUS
<1>2. FlattenSeq(Append(<< >>, w)) = << >> \o w
  BY <1>1, FlatAppend, FlatEmpty
<1> QED
  BY <1>1, <1>2, AppendType, ListFacts, JoinEmpty

\* One kid's text more.
LEMMA NextPart ==
  ASSUME NEW parts \in Seq(Words), NEW w \in Words
  PROVE  /\ Append(parts, w) \in Seq(Words) /\ Len(Append(parts, w)) = Len(parts) + 1
         /\ Len(parts) \in Nat
         /\ Append(parts, w)[Len(parts) + 1] = w
         /\ Len(parts) > 0 => /\ Append(parts, w)[1] = parts[1] /\ parts[1] \in Words
                              /\ Tail(parts) \in Seq(Words)
                              /\ Tail(Append(parts, w)) = Append(Tail(parts), w)
         /\ FlattenSeq(Append(parts, w)) = FlattenSeq(parts) \o w
         /\ FlattenSeq(parts) \in Words
<1>1. Len(parts) > 0 => parts # << >>
  <2> HIDE DEF Words
  <2> QED
    OBVIOUS
<1> QED
  BY <1>1, AppendType, ListFacts, FlatAppend, FlatType

\* The first text and the others.
LEMMA PartFacts ==
  ASSUME NEW parts \in Seq(Words), Len(parts) > 0
  PROVE  /\ parts[1] \in Words /\ Tail(parts) \in Seq(Words)
         /\ Len(parts) = 1 => Tail(parts) = << >>
         /\ Len(parts) > 1 => Tail(parts) # << >>
<1> HIDE DEF Words
<1>1. parts[1] \in Words /\ Tail(parts) \in Seq(Words) /\ Len(Tail(parts)) = Len(parts) - 1
  OBVIOUS
<1>2. Len(<< >>) = 0
  OBVIOUS
<1>3. Len(parts) = 1 => Tail(parts) = << >>
  BY TailOfOne
<1>4. Len(parts) > 1 => Tail(parts) # << >>
  BY <1>1, <1>2
<1> QED
  BY <1>1, <1>3, <1>4

\* A list in parentheses with one item more.
LEMMA ListedFacts ==
  ASSUME NEW lead \in Words, NEW parts \in Seq(Words), Len(parts) > 0, NEW w \in Words
  PROVE  /\ Listed(lead, Tail(parts)) \in Words /\ Len(Listed(lead, Tail(parts))) > 0
         /\ Len(parts) = 1 =>
              /\ Listed(lead, Tail(parts)) = lead \o << "(" >>
              /\ Listed(lead, Tail(Append(parts, w))) = Listed(lead, Tail(parts)) \o w
         /\ Len(parts) > 1 =>
              Listed(lead, Tail(Append(parts, w))) = (Listed(lead, Tail(parts)) \o << "," >>) \o w
<1> DEFINE args == Tail(parts)
           open == lead \o << "(" >>
           more == Append(args, w)
<1>1. args \in Seq(Words) /\ Tail(Append(parts, w)) = more
      /\ (Len(parts) = 1 => args = << >>) /\ (Len(parts) > 1 => args # << >>)
  BY PartFacts, NextPart
<1>2. "(" \in Kinds
  BY DEF Kinds
<1>3. open \in Words /\ Len(open) > 0
  <2>1. << "(" >> \in Words /\ Len(<< "(" >>) = 1
    BY <1>2, JoinOne
  <2> QED
    BY <2>1, JoinType
<1> HIDE DEF args, open, more
<1>4. \A a : Listed(lead, a) = open \o Commas(a)
  BY DEF Listed, open
<1>5. Commas(args) \in Words
  BY <1>1, CommasType
<1>6. open \o Commas(args) \in Words /\ Len(open \o Commas(args)) > 0
  BY <1>3, <1>5, JoinType
<1>7. ASSUME Len(parts) = 1
      PROVE  Listed(lead, args) = open /\ Listed(lead, more) = open \o w
  <2>1. args = << >>
    BY <1>1, <1>7
  <2>2. Commas(args) = << >>
    BY <2>1, CommasEmpty
  <2>3. Commas(more) = w
    BY <1>1, <2>1, CommasAppend DEF more
  <2>4. open \o << >> = open
    BY <1>3, JoinEmpty
  <2> QED
    BY <1>4, <2>2, <2>3, <2>4
<1>8. ASSUME Len(parts) > 1
      PROVE  Listed(lead, more) = (Listed(lead, args) \o << "," >>) \o w
  <2>1. args # << >>
    BY <1>1, <1>8
  <2> DEFINE list == Commas(args)
             sep == list \o << "," >>
  <2>2. Commas(more) = sep \o w
    BY <1>1, <2>1, CommasAppend DEF more
  <2>3. list \in Words /\ << "," >> \in Words
    BY <1>5, Punctuation
  <2>4. sep \in Words
    BY <2>3, JoinType
  <2>5. open \o sep = (open \o list) \o << "," >>
    BY <1>3, <2>3, JoinAssoc
  <2> HIDE DEF sep, list
  <2>6. open \o (sep \o w) = (open \o sep) \o w
    BY <1>3, <2>4, JoinAssoc
  <2>7. Listed(lead, more) = open \o (sep \o w)
    BY <1>4, <2>2
  <2>8. Listed(lead, args) = open \o list
    BY <1>4 DEF list
  <2> QED
    BY <2>5, <2>6, <2>7, <2>8
<1> QED
  BY <1>1, <1>4, <1>6, <1>7, <1>8 DEF args, open

\* How many texts there are.
LEMMA SomeParts ==
  ASSUME NEW parts \in Seq(Words)
  PROVE  /\ Len(parts) \in Nat
         /\ Len(parts) = 1 => Len(parts) > 0 /\ ~(Len(parts) > 1)
         /\ Len(parts) > 1 => Len(parts) > 0 /\ Len(parts) # 1
         /\ Len(parts) > 0 => Len(parts) = 1 \/ Len(parts) > 1
<1>1. Len(parts) \in Nat
  OBVIOUS
<1> DEFINE n == Len(parts)
<1>2. n \in Nat
  BY <1>1
<1> HIDE DEF n
<1>3. /\ n = 1 => n > 0 /\ ~(n > 1)
      /\ n > 1 => n > 0 /\ n # 1
      /\ n > 0 => n = 1 \/ n > 1
  BY <1>2
<1> QED
  BY <1>2, <1>3 DEF n

\* A text with a token more is not empty.
LEMMA LongerText ==
  ASSUME NEW q \in Words, NEW k \in Kinds
  PROVE  q \o << k >> \in Words /\ Len(q \o << k >>) > 0
BY JoinOne, JoinType

\* A text is not empty once a comma is added.
LEMMA Comma ==
  ASSUME NEW q \in Words
  PROVE  q \o << "," >> \in Words /\ Len(q \o << "," >>) > 0
<1>1. "," \in Kinds
  BY DEF Kinds
<1> QED
  BY <1>1, LongerText

\* A call's control points follow each other, whatever is read.
LEMMA CallMoves ==
  ASSUME NEW src, NEW kids, NEW parts \in Seq(Words), NEW todo, NEW t \in Words, NEW p,
         src[p] \in Kinds, CallPoint(parts, todo, t)
  PROVE  Moves(src, "statement_expression_call", kids, parts, todo, t, p)
<1> DEFINE fn == "statement_expression_call"
           k == << src[p] >>
           list == Listed(parts[1], Tail(parts))
<1>1. \A ks, ps, td, u, q : Done(src, fn, ks, ps, td, u, q) <=> CallPoint(ps, td, u)
  BY DEF Done
<1>2. k \in Words
  BY JoinOne, JoinEmpty
<1>3. ASSUME Len(parts) > 0
      PROVE  /\ parts[1] \in Words /\ list \in Words /\ Len(list) > 0
             /\ Len(parts) = 1 => list = parts[1] \o << "(" >>
  BY <1>3, JoinEmpty, PartFacts, ListedFacts
<1>4. ASSUME Len(parts) > 0, NEW w \in Words
      PROVE  /\ Len(Append(parts, w)) > 1 /\ Append(parts, w)[1] = parts[1]
             /\ Listed(parts[1], Tail(Append(parts, w))) =
                  IF Len(parts) = 1 THEN list \o w ELSE (list \o << "," >>) \o w
  <2>1. Len(Append(parts, w)) > 1 /\ Append(parts, w)[1] = parts[1] /\ Len(parts) \in Nat
    BY <1>4, NextPart
  <2>2. parts[1] \in Words
    BY <1>3, <1>4
  <2>3. Len(parts) = 1 \/ Len(parts) > 1
    BY <1>4, SomeParts
  <2> QED
    BY <1>4, <2>1, <2>2, <2>3, ListedFacts
<1> HIDE DEF list, k
<1>5. CASE parts = << >> /\ t = << >> /\ todo = parse_statement_expression_call
  <2>1. Len(Append(parts, k)) = 1 /\ Append(parts, k)[1] = t \o k
    BY <1>2, <1>5, FirstPart
  <2>2. CallPoint(Append(parts, k), call_open, t \o k)
    BY <2>1 DEF CallPoint
  <2> QED
    BY <1>1, <1>5, <2>2, AtKeep, CallTodos DEF k
<1>6. CASE Len(parts) = 1 /\ t = parts[1] /\ todo = call_open
  <2>1. CallPoint(parts, call_first, t \o << "(" >>)
    BY <1>3, <1>6 DEF CallPoint, list
  <2> QED
    BY <1>1, <1>6, <2>1, AtDrop, CallTodos
<1>7. CASE Len(parts) = 1 /\ t = list /\ todo = call_first
  <2>1. CallPoint(parts, call_close, t)
    BY <1>7 DEF CallPoint, list
  <2>2. ASSUME NEW w \in Words
        PROVE  CallPoint(Append(parts, w), call_next, t \o w)
    <3>1. Len(Append(parts, w)) > 1 /\ Append(parts, w)[1] = parts[1]
          /\ Listed(parts[1], Tail(Append(parts, w))) = t \o w
      BY <1>4, <1>7
    <3> QED
      BY <3>1 DEF CallPoint
  <2>3. Len(t) > 0
    BY <1>3, <1>7
  <2> QED
    BY <1>1, <1>7, <2>1, <2>2, <2>3, AtTry, CallTodos
<1>8. CASE Len(parts) > 1 /\ t = list /\ todo = call_next
  <2>1. CallPoint(parts, call_comma, t) /\ CallPoint(parts, call_close, t)
    BY <1>8, SomeParts DEF CallPoint, list
  <2> QED
    BY <1>1, <1>8, <2>1, AtLoop, CallTodos
<1>9. CASE Len(parts) > 1 /\ t = list /\ todo = call_comma
  <2>1. CallPoint(parts, call_arg, t \o << "," >>)
    BY <1>9 DEF CallPoint, list
  <2> QED
    BY <1>1, <1>9, <2>1, AtDrop, CallTodos
<1>10. CASE Len(parts) > 1 /\ t = list \o << "," >> /\ todo = call_arg
  <2>1. ASSUME NEW w \in Words
        PROVE  CallPoint(Append(parts, w), call_next, t \o w)
    <3>1. Len(Append(parts, w)) > 1 /\ Append(parts, w)[1] = parts[1]
          /\ Listed(parts[1], Tail(Append(parts, w))) = t \o w
      BY <1>4, <1>10, SomeParts
    <3> QED
      BY <3>1 DEF CallPoint
  <2>2. Len(t) > 0
    BY <1>3, <1>10, SomeParts, Comma
  <2> QED
    BY <1>1, <1>10, <2>1, <2>2, AtCall, CallTodos
<1>11. CASE Len(parts) > 0 /\ t = list /\ todo = call_close
  <2>1. CallPoint(parts, << >>, t \o << ")" >>)
    BY <1>11 DEF CallPoint, list
  <2> QED
    BY <1>1, <1>11, <2>1, AtDrop, CallTodos
<1>12. CASE Len(parts) > 0 /\ t = list \o << ")" >> /\ todo = << >>
  <2>1. \A at : Text(src, [fn |-> fn, at |-> at, kids |-> kids], parts) = list \o << ")" >>
    BY DEF Text, Listed, list
  <2> QED
    BY <1>12, <2>1, AtEnd
<1> QED
  BY <1>5, <1>6, <1>7, <1>8, <1>9, <1>10, <1>11, <1>12 DEF CallPoint, list

\* The second kid's text.
LEMMA SecondPart ==
  ASSUME NEW parts \in Seq(Words), Len(parts) = 1, NEW w \in Words
  PROVE  /\ Len(Append(parts, w)) = 2 /\ Append(parts, w)[1] = parts[1] /\ Append(parts, w)[2] = w
         /\ parts[1] \in Words
<1>1. 1 + 1 = 2
  OBVIOUS
<1>2. /\ Len(Append(parts, w)) = Len(parts) + 1 /\ Append(parts, w)[Len(parts) + 1] = w
      /\ Append(parts, w)[1] = parts[1] /\ parts[1] \in Words
  BY NextPart, SomeParts
<1> QED
  BY <1>1, <1>2

\* The punctuation and the keywords are token kinds.
LEMMA Signs ==
  /\ ":" \in Kinds /\ "=" \in Kinds /\ ";" \in Kinds /\ "{" \in Kinds /\ "}" \in Kinds
  /\ "(" \in Kinds /\ ")" \in Kinds /\ "," \in Kinds /\ "-" \in Kinds /\ ">" \in Kinds
  /\ "func" \in Kinds /\ "extern" \in Kinds /\ "return" \in Kinds
BY DEF Kinds

\* One token is a text that is not empty.
LEMMA OneSign ==
  ASSUME NEW k \in Kinds
  PROVE  << k >> \in Words /\ Len(<< k >>) > 0 /\ << >> \o << k >> = << k >>
<1>1. << k >> \in Words /\ Len(<< k >>) = 1
  BY JoinOne, JoinEmpty
<1> QED
  BY <1>1, JoinEmpty

\* A text that begins with one that is not empty is not empty.
LEMMA LongerStart ==
  ASSUME NEW q \in Words, Len(q) > 0, NEW r \in Words
  PROVE  q \o r \in Words /\ Len(q \o r) > 0
<1> DEFINE u == q \o r
           m == Len(q)
           n == Len(r)
<1>1. u \in Words /\ Len(u) = m + n /\ m \in Nat /\ n \in Nat /\ m > 0
  BY JoinType
<1> HIDE DEF u, m, n
<1>2. Len(u) > 0
  BY <1>1
<1> QED
  BY <1>1, <1>2 DEF u

\* The ranks, one by one.
LEMMA Ranks ==
  /\ Rank("type") = 1 /\ Rank("block") = 1 /\ Rank("statement_return") = 1
  /\ Rank("function_header") = 1 /\ Rank("extern_block") = 1
  /\ Rank("variable_declaration") = 2 /\ Rank("function_definition") = 2
  /\ Rank("variable_definition") = 3 /\ Rank("statement_expression") = 4
  /\ Rank("scope_statement") = 5
BY DEF Rank

\* The control points of a definition or an assignment follow each other.
LEMMA DefinitionMoves ==
  ASSUME NEW src, NEW fn \in {"variable_definition", "assignment"},
         NEW kids, NEW parts \in Seq(Words), NEW todo, NEW t \in Words, NEW p, src[p] \in Kinds,
         Done(src, fn, kids, parts, todo, t, p)
  PROVE  Moves(src, fn, kids, parts, todo, t, p)
<1> DEFINE first == IF fn = "assignment" THEN Keep({"identifier"})
                    ELSE Call("variable_declaration")
           name == parts[1]
           k == << src[p] >>
<1>1. \A ks, ps, td, u, q : Done(src, fn, ks, ps, td, u, q) <=> DefinitionPoint(first, ps, td, u)
  BY DEF Done
<1>2. DefinitionPoint(first, parts, todo, t)
  BY <1>1
<1>3. k \in Words
  BY JoinOne, JoinEmpty
<1>4. CASE parts = << >> /\ t = << >> /\ todo = definition_first(first)
  <2>1. ASSUME NEW w \in Words
        PROVE  DefinitionPoint(first, Append(parts, w), definition_colon, t \o w)
    <3>1. Len(Append(parts, w)) = 1 /\ Append(parts, w)[1] = t \o w
      BY <1>4, FirstPart
    <3> HIDE DEF first
    <3> QED
      BY <3>1 DEF DefinitionPoint
  <2>2. CASE fn = "assignment"
    <3>1. Keeps(todo, {"identifier"}, definition_colon)
      BY <1>4, <2>2, DefinitionTodos
    <3>2. DefinitionPoint(first, Append(parts, k), definition_colon, t \o k)
      BY <1>3, <2>1
    <3> HIDE DEF first
    <3> QED
      BY <1>1, <3>1, <3>2, AtKeep
  <2>3. CASE fn = "variable_definition"
    <3>1. Needs(todo, "variable_declaration", definition_colon)
      BY <1>4, <2>3, DefinitionTodos
    <3>2. Rank("variable_declaration") < Rank(fn)
      BY <2>3, Ranks
    <3> HIDE DEF first
    <3> QED
      BY <1>1, <2>1, <3>1, <3>2, AtCall
  <2> QED
    BY <2>2, <2>3
<1> HIDE DEF first
<1>5. CASE Len(parts) = 1 /\ t = name /\ todo = definition_colon
  <2>1. DefinitionPoint(first, parts, definition_equals, t \o << ":" >>)
    BY <1>5 DEF DefinitionPoint
  <2> QED
    BY <1>1, <1>5, <2>1, AtDrop, DefinitionTodos
<1>6. CASE Len(parts) = 1 /\ t = name \o << ":" >> /\ todo = definition_equals
  <2>1. DefinitionPoint(first, parts, definition_value, t \o << "=" >>)
    BY <1>6 DEF DefinitionPoint
  <2> QED
    BY <1>1, <1>6, <2>1, AtDrop, DefinitionTodos
<1>7. CASE Len(parts) = 1 /\ t = (name \o << ":" >>) \o << "=" >> /\ todo = definition_value
  <2>1. ASSUME NEW w \in Words
        PROVE  DefinitionPoint(first, Append(parts, w), << >>, t \o w)
    <3>1. Len(Append(parts, w)) = 2 /\ Append(parts, w)[1] = name /\ Append(parts, w)[2] = w
      BY <1>7, SecondPart
    <3>2. t \o w = ((name \o << ":" >>) \o << "=" >>) \o w
      BY <1>7
    <3> QED
      BY <3>1, <3>2 DEF DefinitionPoint
  <2>2. Len(t) > 0
    <3>1. name \in Words
      BY <1>7, SecondPart, JoinEmpty
    <3>2. name \o << ":" >> \in Words
      BY <3>1, LongerText, Signs
    <3> QED
      BY <1>7, <3>2, LongerText, Signs
  <2> QED
    BY <1>1, <1>7, <2>1, <2>2, AtCall, DefinitionTodos
<1>8. CASE /\ Len(parts) = 2 /\ t = ((name \o << ":" >>) \o << "=" >>) \o parts[2]
           /\ todo = << >>
  <2>1. name \in Words
    BY <1>8, PartFacts
  <2>2. (name \o << ":" >>) \o << "=" >> = name \o << ":", "=" >>
    BY <2>1, JoinTwo, Signs
  <2>3. \A at : Text(src, [fn |-> fn, at |-> at, kids |-> kids], parts)
                  = (name \o << ":", "=" >>) \o parts[2]
    BY DEF Text
  <2> QED
    BY <1>8, <2>2, <2>3, AtEnd
<1> QED
  BY <1>2, <1>4, <1>5, <1>6, <1>7, <1>8 DEF DefinitionPoint

\* The control points of a declaration follow each other.
LEMMA DeclarationMoves ==
  ASSUME NEW src, NEW kids, NEW parts \in Seq(Words), NEW todo, NEW t \in Words, NEW p,
         src[p] \in Kinds, DeclarationPoint(parts, todo, t)
  PROVE  Moves(src, "variable_declaration", kids, parts, todo, t, p)
<1> DEFINE fn == "variable_declaration"
           k == << src[p] >>
<1>1. \A ks, ps, td, u, q : Done(src, fn, ks, ps, td, u, q) <=> DeclarationPoint(ps, td, u)
  BY DEF Done
<1>2. k \in Words
  BY JoinOne, JoinEmpty
<1> HIDE DEF k
<1>3. CASE parts = << >> /\ t = << >> /\ todo = parse_variable_declaration
  <2>1. ASSUME NEW w \in Words
        PROVE  DeclarationPoint(Append(parts, w), declaration_colon, t \o w)
    <3>1. Len(Append(parts, w)) = 1 /\ Append(parts, w)[1] = t \o w
      BY <1>3, FirstPart
    <3> QED
      BY <3>1 DEF DeclarationPoint
  <2>2. Rank("type") < Rank(fn)
    BY Ranks
  <2> QED
    BY <1>1, <1>3, <2>1, <2>2, AtCall, DeclarationTodos
<1>4. CASE Len(parts) = 1 /\ t = parts[1] /\ todo = declaration_colon
  <2>1. DeclarationPoint(parts, declaration_name, t \o << ":" >>)
    BY <1>4 DEF DeclarationPoint
  <2> QED
    BY <1>1, <1>4, <2>1, AtDrop, DeclarationTodos
<1>5. CASE Len(parts) = 1 /\ t = parts[1] \o << ":" >> /\ todo = declaration_name
  <2>1. DeclarationPoint(Append(parts, k), << >>, t \o k)
    <3>1. Len(Append(parts, k)) = 2 /\ Append(parts, k)[1] = parts[1] /\ Append(parts, k)[2] = k
      BY <1>2, <1>5, SecondPart
    <3>2. t \o k = (parts[1] \o << ":" >>) \o k
      BY <1>5
    <3> QED
      BY <3>1, <3>2 DEF DeclarationPoint
  <2> QED
    BY <1>1, <1>5, <2>1, AtKeep, DeclarationTodos DEF k
<1>6. CASE Len(parts) = 2 /\ t = (parts[1] \o << ":" >>) \o parts[2] /\ todo = << >>
  <2>1. \A at : Text(src, [fn |-> fn, at |-> at, kids |-> kids], parts)
                  = (parts[1] \o << ":" >>) \o parts[2]
    BY DEF Text
  <2> QED
    BY <1>6, <2>1, AtEnd
<1> QED
  BY <1>3, <1>4, <1>5, <1>6 DEF DeclarationPoint

\* The control points of a return statement follow each other.
LEMMA ReturnMoves ==
  ASSUME NEW src, NEW kids, NEW parts \in Seq(Words), NEW todo, NEW t \in Words, NEW p,
         src[p] \in Kinds, ReturnPoint(parts, todo, t)
  PROVE  Moves(src, "statement_return", kids, parts, todo, t, p)
<1> DEFINE fn == "statement_return"
<1>1. \A ks, ps, td, u, q : Done(src, fn, ks, ps, td, u, q) <=> ReturnPoint(ps, td, u)
  BY DEF Done
<1>2. << "return" >> \in Words /\ Len(<< "return" >>) > 0
  BY OneSign, Signs
<1>3. CASE parts = << >> /\ t = << >> /\ todo = parse_statement_return
  <2>1. t \o << "return" >> = << "return" >>
    BY <1>2, <1>3, JoinEmpty
  <2>2. ReturnPoint(parts, return_value, t \o << "return" >>)
    BY <1>3, <2>1 DEF ReturnPoint
  <2> QED
    BY <1>1, <1>3, <2>2, AtDrop, ReturnTodos
<1>4. CASE parts = << >> /\ t = << "return" >> /\ todo = return_value
  <2>1. ReturnPoint(parts, << >>, t)
    <3>1. t \o FlattenSeq(parts) = t
      BY <1>4, FlatEmpty, JoinEmpty
    <3> QED
      BY <1>4, <3>1 DEF ReturnPoint
  <2>2. ASSUME NEW w \in Words
        PROVE  ReturnPoint(Append(parts, w), << >>, t \o w)
    <3>1. FlattenSeq(Append(parts, w)) = w
      BY <1>4, FirstPart
    <3> QED
      BY <1>4, <3>1 DEF ReturnPoint
  <2> QED
    BY <1>1, <1>2, <1>4, <2>1, <2>2, AtTry, ReturnTodos
<1>5. CASE t = << "return" >> \o FlattenSeq(parts) /\ todo = << >>
  <2>1. \A at : Text(src, [fn |-> fn, at |-> at, kids |-> kids], parts)
                  = << "return" >> \o FlattenSeq(parts)
    BY DEF Text
  <2> QED
    BY <1>5, <2>1, AtEnd
<1> QED
  BY <1>3, <1>4, <1>5 DEF ReturnPoint

\* The control points of a scope statement follow each other.
LEMMA ScopeMoves ==
  ASSUME NEW src, NEW kids, IsSeq(kids), NEW parts \in Seq(Words), Len(kids) = Len(parts),
         NEW todo, NEW t \in Words, NEW p,
         src[p] \in Kinds, ScopePoint(kids, parts, todo, t)
  PROVE  Moves(src, "scope_statement", kids, parts, todo, t, p)
<1> DEFINE fn == "scope_statement"
           all == FlattenSeq(parts)
<1>1. \A ks, ps, td, u, q : Done(src, fn, ks, ps, td, u, q) <=> ScopePoint(ks, ps, td, u)
  BY DEF Done
<1>2. CASE /\ parts = << >> /\ kids = << >> /\ t = << >>
           /\ todo \in {scope_return, scope_block, scope_expression}
  <2>1. ASSUME NEW n, NEW w \in Words, n.fn # "block"
        PROVE  ScopePoint(Append(kids, n), Append(parts, w), scope_close, t \o w)
    <3>1. FlattenSeq(Append(parts, w)) = t \o w
      BY <1>2, FirstPart
    <3>2. Append(kids, n)[1] = n
      BY <1>2
    <3> QED
      BY <2>1, <3>1, <3>2 DEF ScopePoint
  <2>2. ASSUME NEW n, NEW w \in Words, n.fn = "block"
        PROVE  ScopePoint(Append(kids, n), Append(parts, w), << >>, t \o w)
    <3>1. FlattenSeq(Append(parts, w)) = t \o w
      BY <1>2, FirstPart
    <3>2. Append(kids, n)[1] = n
      BY <1>2
    <3> QED
      BY <2>2, <3>1, <3>2 DEF ScopePoint
  <2>3. CASE todo = scope_return
    <3>1. Rank("statement_return") < Rank(fn)
      BY Ranks
    <3> QED
      BY <1>1, <2>1, <2>3, <3>1, AtCall, ScopeTodos
  <2>4. CASE todo = scope_expression
    <3>1. Rank("statement_expression") < Rank(fn)
      BY Ranks
    <3> QED
      BY <1>1, <2>1, <2>4, <3>1, AtCall, ScopeTodos
  <2>5. CASE todo = scope_block
    <3>1. Rank("block") < Rank(fn)
      BY Ranks
    <3> QED
      BY <1>1, <2>2, <2>5, <3>1, AtCall, ScopeTodos
  <2> QED
    BY <1>2, <2>3, <2>4, <2>5
<1>3. CASE kids[1].fn # "block" /\ t = all /\ todo = scope_close
  <2>1. ScopePoint(kids, parts, << >>, t \o << ";" >>)
    BY <1>3 DEF ScopePoint
  <2> QED
    BY <1>1, <1>3, <2>1, AtDrop, ScopeTodos
<1>4. CASE kids[1].fn # "block" /\ t = all \o << ";" >> /\ todo = << >>
  <2>1. all \o << ";" >> = Append(all, ";")
    BY FlatType, JoinOne, Signs
  <2>2. \A at : Text(src, [fn |-> fn, at |-> at, kids |-> kids], parts)
                  = IF kids[1].fn = "block" THEN all ELSE Append(all, ";")
    BY DEF Text
  <2> QED
    BY <1>4, <2>1, <2>2, AtEnd
<1>5. CASE kids[1].fn = "block" /\ t = all /\ todo = << >>
  <2>1. \A at : Text(src, [fn |-> fn, at |-> at, kids |-> kids], parts)
                  = IF kids[1].fn = "block" THEN all ELSE Append(all, ";")
    BY DEF Text
  <2> QED
    BY <1>5, <2>1, AtEnd
<1> QED
  BY <1>2, <1>3, <1>4, <1>5 DEF ScopePoint

\* The control points of a block follow each other.
LEMMA BlockMoves ==
  ASSUME NEW src, NEW kids, NEW parts \in Seq(Words), NEW todo, NEW t \in Words, NEW p,
         src[p] \in Kinds, BlockPoint(parts, todo, t)
  PROVE  Moves(src, "block", kids, parts, todo, t, p)
<1> DEFINE fn == "block"
           begun == << "{" >> \o FlattenSeq(parts)
<1>1. \A ks, ps, td, u, q : Done(src, fn, ks, ps, td, u, q) <=> BlockPoint(ps, td, u)
  BY DEF Done
<1>2. << "{" >> \in Words /\ Len(<< "{" >>) > 0 /\ Len(<< "{" >>) = 1
  BY OneSign, Signs
<1>3. begun \in Words /\ Len(begun) > 0
  BY <1>2, FlatType, LongerStart
<1>4. CASE parts = << >> /\ t = << >> /\ todo = parse_block
  <2>1. t \o << "{" >> = begun
    BY <1>2, <1>4, FlatEmpty, JoinEmpty
  <2>2. BlockPoint(parts, block_next, t \o << "{" >>)
    BY <2>1 DEF BlockPoint
  <2> QED
    BY <1>1, <1>4, <2>2, AtDrop, BlockTodos
<1>5. CASE t = begun /\ todo = block_next
  <2>1. BlockPoint(parts, block_statement, t) /\ BlockPoint(parts, block_close, t)
    BY <1>5 DEF BlockPoint
  <2> QED
    BY <1>1, <1>5, <2>1, AtLoop, BlockTodos
<1>6. CASE t = begun /\ todo = block_statement
  <2>1. ASSUME NEW w \in Words
        PROVE  BlockPoint(Append(parts, w), block_next, t \o w)
    <3>1. FlattenSeq(Append(parts, w)) = FlattenSeq(parts) \o w /\ FlattenSeq(parts) \in Words
      BY NextPart
    <3>2. << "{" >> \o (FlattenSeq(parts) \o w) = (<< "{" >> \o FlattenSeq(parts)) \o w
      BY <1>2, <3>1, JoinAssoc
    <3> QED
      BY <1>6, <3>1, <3>2 DEF BlockPoint
  <2> QED
    BY <1>1, <1>3, <1>6, <2>1, AtCall, BlockTodos
<1>7. CASE t = begun /\ todo = block_close
  <2>1. BlockPoint(parts, << >>, t \o << "}" >>)
    BY <1>7 DEF BlockPoint
  <2> QED
    BY <1>1, <1>7, <2>1, AtDrop, BlockTodos
<1>8. CASE t = begun \o << "}" >> /\ todo = << >>
  <2>1. \A at : Text(src, [fn |-> fn, at |-> at, kids |-> kids], parts) = begun \o << "}" >>
    BY DEF Text
  <2> QED
    BY <1>8, <2>1, AtEnd
<1> QED
  BY <1>4, <1>5, <1>6, <1>7, <1>8 DEF BlockPoint

\* The control points of an extern block follow each other.
LEMMA ExternMoves ==
  ASSUME NEW src, NEW kids, NEW parts \in Seq(Words), NEW todo, NEW t \in Words, NEW p,
         src[p] \in Kinds, ExternPoint(parts, todo, t)
  PROVE  Moves(src, "extern_block", kids, parts, todo, t, p)
<1> DEFINE fn == "extern_block"
           lead == << "extern", "{" >>
<1>1. \A ks, ps, td, u, q : Done(src, fn, ks, ps, td, u, q) <=> ExternPoint(ps, td, u)
  BY DEF Done
<1>2. lead \in Words /\ Len(lead) = 2 /\ << "extern" >> \o << "{" >> = lead
  <2>1. lead \in Words /\ Len(lead) = 2 /\ (<< >> \o << "extern" >>) \o << "{" >> = << >> \o lead
    BY JoinEmpty, JoinTwo, Signs, ZenonT(40)
  <2>2. << >> \o << "extern" >> = << "extern" >>
    BY OneSign, Signs
  <2>3. << >> \o lead = lead
    BY <2>1, JoinEmpty
  <2> QED
    BY <2>1, <2>2, <2>3
<1> HIDE DEF lead
<1>3. \A ps \in Seq(Words) : FlattenSeq(Closing(ps)) \in Words /\ Externs(ps) \in Words
                              /\ Len(Externs(ps)) > 0
  <2>1. ASSUME NEW ps \in Seq(Words)
        PROVE  FlattenSeq(Closing(ps)) \in Words /\ Externs(ps) \in Words /\ Len(Externs(ps)) > 0
    <3>1. FlattenSeq(Closing(ps)) \in Words
      BY ClosingType, FlatType
    <3>2. Externs(ps) = lead \o FlattenSeq(Closing(ps))
      BY DEF Externs, lead
    <3>3. Len(lead) > 0
      <4>1. Len(lead) = 2
        BY <1>2
      <4> QED
        BY <4>1
    <3> QED
      BY <1>2, <3>1, <3>2, <3>3, LongerStart
  <2> QED
    BY <2>1
<1>4. CASE parts = << >> /\ t = << >> /\ todo = parse_extern_block
  <2>1. t \o << "extern" >> = << "extern" >>
    BY <1>4, OneSign, Signs
  <2>2. ExternPoint(parts, extern_open, t \o << "extern" >>)
    BY <1>4, <2>1 DEF ExternPoint
  <2> QED
    BY <1>1, <1>4, <2>2, AtDrop, ExternTodos
<1>5. CASE parts = << >> /\ t = << "extern" >> /\ todo = extern_open
  <2>1. FlattenSeq(Closing(parts)) = << >>
    <3>1. Closing(<< >>) = << >>
      BY DEF Closing
    <3> QED
      BY <1>5, <3>1, FlatEmpty
  <2>2. t \o << "{" >> = Externs(parts)
    BY <1>2, <1>5, <2>1, JoinEmpty DEF Externs, lead
  <2>3. ExternPoint(parts, extern_next, t \o << "{" >>)
    BY <2>2 DEF ExternPoint
  <2> QED
    BY <1>1, <1>5, <2>3, AtDrop, ExternTodos
<1>6. CASE t = Externs(parts) /\ todo = extern_next
  <2>1. ExternPoint(parts, extern_header, t) /\ ExternPoint(parts, extern_close, t)
    BY <1>6 DEF ExternPoint
  <2> QED
    BY <1>1, <1>6, <2>1, AtLoop, ExternTodos
<1>7. CASE t = Externs(parts) /\ todo = extern_header
  <2>1. ASSUME NEW w \in Words
        PROVE  ExternPoint(Append(parts, w), extern_end, t \o w)
    BY <1>7 DEF ExternPoint
  <2>2. Len(t) > 0
    BY <1>3, <1>7
  <2> QED
    BY <1>1, <1>7, <2>1, <2>2, AtCall, ExternTodos
<1>8. ASSUME NEW before \in Seq(Words), NEW w \in Words,
             parts = Append(before, w), t = Externs(before) \o w, todo = extern_end
      PROVE  Moves(src, fn, kids, parts, todo, t, p)
  <2> DEFINE f == FlattenSeq(Closing(before))
             g == FlattenSeq(Closing(Append(before, w)))
  <2>1. g = (f \o w) \o << ";" >> /\ f \in Words /\ << ";" >> \in Words
    BY <1>3, ClosingAppend, Punctuation
  <2>2. Externs(before) = lead \o f /\ Externs(Append(before, w)) = lead \o g
    BY DEF Externs, lead
  <2> HIDE DEF f, g
  <2>3. f \o w \in Words
    BY <2>1, JoinType
  <2>4. lead \o ((f \o w) \o << ";" >>) = (lead \o (f \o w)) \o << ";" >>
    BY <1>2, <2>1, <2>3, JoinAssoc, ZenonT(40)
  <2>5. lead \o (f \o w) = (lead \o f) \o w
    BY <1>2, <2>1, JoinAssoc
  <2>6. Externs(Append(before, w)) = (Externs(before) \o w) \o << ";" >>
    BY <2>1, <2>2, <2>4, <2>5
  <2>7. t \o << ";" >> = Externs(parts)
    BY <1>8, <2>6
  <2>8. ExternPoint(parts, extern_next, t \o << ";" >>)
    BY <2>7 DEF ExternPoint
  <2> QED
    BY <1>1, <1>8, <2>8, AtDrop, ExternTodos
<1>9. CASE t = Externs(parts) /\ todo = extern_close
  <2>1. ExternPoint(parts, << >>, t \o << "}" >>)
    BY <1>9 DEF ExternPoint
  <2> QED
    BY <1>1, <1>9, <2>1, AtDrop, ExternTodos
<1>10. CASE t = Externs(parts) \o << "}" >> /\ todo = << >>
  <2>1. \A at : Text(src, [fn |-> fn, at |-> at, kids |-> kids], parts) = Externs(parts) \o << "}" >>
    BY DEF Text, Externs, Closing
  <2> QED
    BY <1>10, <2>1, AtEnd
<1> QED
  BY <1>4, <1>5, <1>6, <1>7, <1>8, <1>9, <1>10 DEF ExternPoint

JoinedFunctions == {"expression", "type", "statement_expression", "function_definition", "unit_statement"}

\* The functions whose node's text is its kids' texts joined.
LEMMA FlatMoves ==
  ASSUME NEW src, NEW fn \in JoinedFunctions, NEW kids, NEW parts \in Seq(Words), NEW todo,
         NEW t \in Words, NEW p, src[p] \in Kinds, FlatPoint(fn, parts, todo, t)
  PROVE  Moves(src, fn, kids, parts, todo, t, p)
<1> DEFINE S == FlatItems(fn)
           x == Head(todo)
           r == Tail(todo)
           k == << src[p] >>
<1>1. \A ks, ps, td, u, q : Done(src, fn, ks, ps, td, u, q) <=> FlatPoint(fn, ps, td, u)
  BY DEF Done, JoinedFunctions
<1>2. k \in Words
  BY OneSign
<1>3. ASSUME NEW w \in Words, NEW u \in Seq(S)
      PROVE  FlatPoint(fn, Append(parts, w), u, t \o w)
  <2>1. FlattenSeq(Append(parts, w)) = t \o w
    BY NextPart DEF FlatPoint
  <2> QED
    BY <2>1 DEF FlatPoint
<1>4. ASSUME NEW u \in Seq(S)
      PROVE  FlatPoint(fn, parts, u, t)
  BY DEF FlatPoint
<1>5. CASE todo = << >>
  <2>1. \A at : Text(src, [fn |-> fn, at |-> at, kids |-> kids], parts) = FlattenSeq(parts)
    BY DEF Text, JoinedFunctions
  <2>2. t = FlattenSeq(parts)
    BY DEF FlatPoint
  <2> QED
    BY <1>5, <2>1, <2>2, AtEnd
<1>6. CASE todo # << >>
  <2>1. x \in S /\ r \in Seq(S) /\ todo \in Seq(S) /\ << >> \o r = r
    <3>1. todo \in Seq(S)
      BY DEF FlatPoint
    <3> HIDE DEF S
    <3>2. x \in S /\ r \in Seq(S)
      BY <1>6, <3>1
    <3> QED
      BY <3>1, <3>2, ConcatEmptySeq
  <2>2. \/ x = Reject
        \/ \E ks : x = Keep(ks)
        \/ \E ks, ls : ls \in SUBSET Kinds /\ x = While(ks, << Keep(ls) >>)
        \/ \E g : Rank(g) < Rank(fn) /\ x \in {Call(g), CallOr(g), Must(g)}
    <3> DEFINE kept   == {Keep(ks) : ks \in SUBSET Kinds}
               Loop(ks, ls) == While(ks, << Keep(ls) >>)
               loops  == {Loop(ks, ls) : ks \in SUBSET Kinds, ls \in SUBSET Kinds}
               Of(g)  == {Call(g), CallOr(g), Must(g)}
               under  == {h \in Functions : Rank(h) < Rank(fn)}
               called == UNION {Of(g) : g \in under}
    <3>1. x = Reject \/ x \in kept \/ x \in loops \/ x \in called
      <4>1. S = {Reject} \cup kept \cup loops \cup called
        BY DEF FlatItems
      <4> HIDE DEF S, kept, loops, called, x
      <4> QED
        BY <2>1, <4>1
    <3>2. x \in kept => \E ks : x = Keep(ks)
      OBVIOUS
    <3>3. x \in loops => \E ks, ls : ls \in SUBSET Kinds /\ x = Loop(ks, ls)
      <4> HIDE DEF Loop
      <4> QED
        OBVIOUS
    <3>4. x \in called => \E g : Rank(g) < Rank(fn) /\ x \in Of(g)
      <4>1. \A g : g \in under => Rank(g) < Rank(fn)
        OBVIOUS
      <4> HIDE DEF x, Of, under
      <4>2. x \in called => \E g : g \in under /\ x \in Of(g)
        OBVIOUS
      <4> QED
        BY <4>1, <4>2
    <3> HIDE DEF kept, loops, called, x
    <3> QED
      BY <3>1, <3>2, <3>3, <3>4
  <2>3. CASE x = Reject
    <3>1. x.op = "token" /\ x.kinds = {}
      BY <2>3 DEF Reject
    <3> HIDE DEF x
    <3> QED
      BY <1>6, <3>1 DEF Moves, x
  <2>4. ASSUME NEW ks, x = Keep(ks)
        PROVE  Moves(src, fn, kids, parts, todo, t, p)
    <3>1. Keeps(todo, ks, r)
      BY <1>6, <2>4 DEF Keeps
    <3>2. FlatPoint(fn, Append(parts, k), r, t \o k)
      BY <1>2, <1>3, <2>1
    <3> HIDE DEF r
    <3> QED
      BY <1>1, <3>1, <3>2, AtKeep
  <2>5. ASSUME NEW ks, NEW ls \in SUBSET Kinds, x = While(ks, << Keep(ls) >>)
        PROVE  Moves(src, fn, kids, parts, todo, t, p)
    <3> DEFINE s == << Keep(ls) >>
               u == s \o todo
    <3>1. Repeats(todo, ks, u, r)
      <4> HIDE DEF s
      <4>1. While(ks, s).op = "while" /\ While(ks, s).kinds = ks /\ While(ks, s).then = s
        BY ItemFields
      <4>2. x = While(ks, s)
        BY <2>5 DEF s
      <4> QED
        BY <1>6, <4>1, <4>2 DEF Repeats
    <3>2. u \in Seq(S)
      <4>1. Keep(ls) \in S
        BY DEF FlatItems
      <4> HIDE DEF S
      <4>2. << Keep(ls) >> \in Seq(S)
        BY <4>1
      <4> QED
        BY <2>1, <4>2, ConcatProperties
    <3> HIDE DEF u, r
    <3> QED
      BY <1>1, <1>4, <2>1, <3>1, <3>2, AtLoop
  <2>6. ASSUME NEW g, Rank(g) < Rank(fn), x \in {Call(g), CallOr(g), Must(g)}
        PROVE  Moves(src, fn, kids, parts, todo, t, p)
    <3>1. Needs(todo, g, r)
      <4>1. x.op = "call" /\ x.fn = g
        BY <2>6, ItemFields
      <4> QED
        BY <1>6, <2>1, <4>1 DEF Needs
    <3>2. \A w \in Words : FlatPoint(fn, Append(parts, w), r, t \o w)
      BY <1>3, <2>1
    <3> HIDE DEF r
    <3> QED
      BY <1>1, <2>6, <3>1, <3>2, AtCall
  <2> QED
    BY <2>2, <2>3, <2>4, <2>5, <2>6
<1> QED
  BY <1>5, <1>6

\* One kid more.
LEMMA KidFacts ==
  ASSUME NEW kids, IsSeq(kids), NEW n
  PROVE  /\ IsSeq(Append(kids, n)) /\ Len(Append(kids, n)) = Len(kids) + 1
         /\ Append(kids, n)[Len(Append(kids, n))] = n
         /\ Len(kids) \in Nat
         /\ Len(kids) > 0 => Append(kids, n)[1] = kids[1]
         /\ Len(kids) = 0 => Append(kids, n)[1] = n
<1>1. /\ IsSeq(Append(kids, n)) /\ Len(Append(kids, n)) = Len(kids) + 1
      /\ Append(kids, n)[Len(kids) + 1] = n /\ Len(kids) \in Nat
      /\ \A i \in 1 .. Len(kids) : Append(kids, n)[i] = kids[i]
  BY SeqFacts, AppendFacts
<1>2. Len(kids) > 0 => 1 \in 1 .. Len(kids)
  BY <1>1
<1>3. Len(kids) = 0 => Len(kids) + 1 = 1
  OBVIOUS
<1> QED
  BY <1>1, <1>2, <1>3

\* What a header begins with is a text.
LEMMA NamedFacts ==
  ASSUME NEW parts \in Seq(Words), Len(parts) > 0
  PROVE  Named(parts) \in Words /\ Len(Named(parts)) > 0
<1>1. << "func" >> \in Words /\ Len(<< "func" >>) > 0 /\ parts[1] \in Words
  BY OneSign, Signs, PartFacts
<1> QED
  BY <1>1, LongerStart DEF Named

\* What a header without a return type is written as.
LEMMA UnreturnedFacts ==
  ASSUME NEW src, NEW kids, NEW parts \in Seq(Words), Len(parts) > 0
  PROVE  /\ Unreturned(src, kids, parts) \in Words /\ Len(Unreturned(src, kids, parts)) > 0
         /\ Unreturned(src, kids, parts) =
              Named(parts) \o (IF src[kids[1].at + 1] = "("
                               THEN << "(" >> \o Commas(Tail(parts)) \o << ")" >> ELSE << >>)
<1> DEFINE lead == Named(parts)
           args == Commas(Tail(parts))
           open == << "(" >>
           shut == << ")" >>
<1>1. /\ lead \in Words /\ Len(lead) > 0 /\ args \in Words /\ open \in Words /\ shut \in Words
      /\ Len(open) > 0
  BY NamedFacts, PartFacts, CommasType, OneSign, Signs
<1>2. Unreturned(src, kids, parts) =
        IF src[kids[1].at + 1] = "(" THEN ((lead \o open) \o args) \o shut ELSE lead
  BY DEF Unreturned, Listed
<1> HIDE DEF lead, args, open, shut
<1>3. open \o args \in Words /\ lead \o open \in Words /\ Len(lead \o open) > 0
  BY <1>1, JoinType, LongerStart
<1>4. (lead \o open) \o args = lead \o (open \o args)
  BY <1>1, JoinAssoc
<1>5. (lead \o (open \o args)) \o shut = lead \o ((open \o args) \o shut)
  BY <1>1, <1>3, JoinAssoc
<1>6. (lead \o open) \o args \in Words /\ Len((lead \o open) \o args) > 0
  BY <1>1, <1>3, LongerStart
<1>7. ((lead \o open) \o args) \o shut \in Words /\ Len(((lead \o open) \o args) \o shut) > 0
  BY <1>1, <1>6, LongerStart
<1>8. lead \o << >> = lead
  BY <1>1, JoinEmpty
<1>9. Unreturned(src, kids, parts) =
        lead \o (IF src[kids[1].at + 1] = "(" THEN (open \o args) \o shut ELSE << >>)
  BY <1>2, <1>4, <1>5, <1>8
<1>10. Unreturned(src, kids, parts) \in Words /\ Len(Unreturned(src, kids, parts)) > 0
  BY <1>1, <1>2, <1>7
<1> QED
  BY <1>9, <1>10 DEF lead, args, open, shut

\* The text of a header whose last kid is not a type.
LEMMA HeaderEnd ==
  ASSUME NEW src, NEW kids, NEW parts \in Seq(Words), Len(parts) > 0,
         Len(kids) = Len(parts), kids[Len(kids)].fn # "type", NEW at
  PROVE  Text(src, [fn |-> "function_header", at |-> at, kids |-> kids], parts)
           = Unreturned(src, kids, parts)
<1> DEFINE h == [fn |-> "function_header", at |-> at, kids |-> kids]
           body == Named(parts) \o (IF src[kids[1].at + 1] = "("
                                    THEN << "(" >> \o Commas(Tail(parts)) \o << ")" >> ELSE << >>)
<1>1. h.kids = kids /\ h.fn = "function_header"
  OBVIOUS
<1> HIDE DEF h
<1>2. Text(src, h, parts) = header_text(src, h, parts)
  BY <1>1 DEF Text
<1>3. ~(Len(parts) > 1 /\ h.kids[Len(parts)].fn = "type")
  BY <1>1
<1>4. header_text(src, h, parts) = body \o << >>
  BY <1>1, <1>3 DEF header_text, HasParentheses, Named
<1>5. body = Unreturned(src, kids, parts) /\ Unreturned(src, kids, parts) \in Words
  BY UnreturnedFacts
<1> HIDE DEF body
<1>6. body \o << >> = body
  BY <1>5, JoinEmpty
<1> QED
  BY <1>2, <1>4, <1>5, <1>6 DEF h

\* The text of a header whose last kid is the type it returns.
LEMMA HeaderEndReturns ==
  ASSUME NEW src, NEW some, IsSeq(some), NEW n, NEW before \in Seq(Words), NEW w \in Words,
         Len(some) = Len(before), Len(before) > 0, n.fn = "type", NEW at
  PROVE  Text(src, [fn |-> "function_header", at |-> at, kids |-> Append(some, n)],
              Append(before, w))
           = ((Unreturned(src, some, before) \o << "-" >>) \o << ">" >>) \o w
<1> DEFINE kids == Append(some, n)
           parts == Append(before, w)
           h == [fn |-> "function_header", at |-> at, kids |-> kids]
           body == Named(before) \o (IF src[some[1].at + 1] = "("
                                     THEN << "(" >> \o Commas(Tail(before)) \o << ")" >> ELSE << >>)
           two == << "-", ">" >>
           u == Unreturned(src, some, before)
<1>1. h.kids = kids /\ h.fn = "function_header"
  OBVIOUS
<1>2. Len(parts) > 1 /\ parts[1] = before[1] /\ Front(parts) = before /\ Last(parts) = w
      /\ Len(parts) = Len(kids) /\ kids[Len(kids)] = n /\ kids[1] = some[1]
  <2>1. Len(parts) = Len(before) + 1 /\ Len(before) \in Nat /\ parts[1] = before[1]
    BY NextPart
  <2>2. Front(parts) = before /\ Last(parts) = w
    BY ListFacts
  <2>3. Len(kids) = Len(some) + 1 /\ kids[Len(kids)] = n /\ kids[1] = some[1]
    BY KidFacts
  <2> HIDE DEF parts, kids
  <2>4. Len(parts) > 1
    BY <2>1
  <2> QED
    BY <2>1, <2>2, <2>3, <2>4
<1> HIDE DEF h, parts, kids
<1>3. Text(src, h, parts) = header_text(src, h, parts)
  BY <1>1 DEF Text
<1>4. h.kids[Len(parts)].fn = "type"
  BY <1>1, <1>2
<1>5. header_text(src, h, parts) = body \o (two \o w)
  <2>1. HasParentheses(src, h) <=> src[some[1].at + 1] = "("
    BY <1>1, <1>2 DEF HasParentheses
  <2>2. << "func" >> \o parts[1] = Named(before)
    BY <1>2 DEF Named
  <2> QED
    BY <1>1, <1>2, <1>4, <2>1, <2>2 DEF header_text
<1>6. body = u /\ u \in Words
  BY UnreturnedFacts
<1>7. two \in Words /\ (u \o << "-" >>) \o << ">" >> = u \o two
  BY <1>6, JoinTwo, Signs
<1> HIDE DEF body, two, u
<1>8. u \o (two \o w) = (u \o two) \o w
  BY <1>6, <1>7, JoinAssoc
<1>9. Text(src, h, parts) = ((u \o << "-" >>) \o << ">" >>) \o w
  BY <1>3, <1>5, <1>6, <1>7, <1>8
<1> QED
  BY <1>9 DEF h, parts, kids, u

\* The same, for kids and texts given by name.
LEMMA HeaderEndIs ==
  ASSUME NEW src, NEW kids, NEW parts, NEW t,
         NEW some, IsSeq(some), NEW n, NEW before \in Seq(Words), NEW w \in Words,
         Len(some) = Len(before), Len(before) > 0, n.fn = "type",
         kids = Append(some, n), parts = Append(before, w),
         t = ((Unreturned(src, some, before) \o << "-" >>) \o << ">" >>) \o w
  PROVE  \A at : Text(src, [fn |-> "function_header", at |-> at, kids |-> kids], parts) = t
<1> SUFFICES ASSUME NEW at
             PROVE  Text(src, [fn |-> "function_header", at |-> at, kids |-> kids], parts) = t
  OBVIOUS
<1> DEFINE ks == Append(some, n)
           ps == Append(before, w)
           u == ((Unreturned(src, some, before) \o << "-" >>) \o << ">" >>) \o w
<1>1. Text(src, [fn |-> "function_header", at |-> at, kids |-> ks], ps) = u
  BY HeaderEndReturns
<1>2. kids = ks /\ parts = ps /\ t = u
  OBVIOUS
<1> HIDE DEF ks, ps, u
<1> QED
  BY <1>1, <1>2

\* The control points of a function header follow each other.
LEMMA HeaderMoves ==
  ASSUME NEW src, NEW kids, IsSeq(kids), NEW parts \in Seq(Words), Len(kids) = Len(parts),
         NEW todo, NEW t \in Words, NEW p, p \in Nat, src[p] \in Kinds,
         HeaderPoint(src, kids, parts, todo, t, p)
  PROVE  Moves(src, "function_header", kids, parts, todo, t, p)
<1> DEFINE fn == "function_header"
           k == << src[p] >>
           named == Named(parts)
           list == Listed(Named(parts), Tail(parts))
           before == Unreturned(src, kids, parts)
           parenthesised == src[kids[1].at + 1] = "("
           untyped == kids[Len(kids)].fn # "type"
           Point(todo_, t_) == HeaderPoint(src, kids, parts, todo_, t_, p)
<1>1. \A ks, ps, td, u, q : Done(src, fn, ks, ps, td, u, q) <=> HeaderPoint(src, ks, ps, td, u, q)
  BY DEF Done
<1>2. k \in Words
  BY OneSign
<1>3. ASSUME Len(parts) > 0
      PROVE  /\ named \in Words /\ Len(named) > 0 /\ list \in Words /\ Len(list) > 0
             /\ Len(parts) = 1 => list = named \o << "(" >>
             /\ before \in Words /\ Len(before) > 0
  BY <1>2, <1>3, NamedFacts, ListedFacts, UnreturnedFacts
<1>4. ASSUME Len(parts) > 0, NEW n, n.fn = "variable_declaration", NEW w \in Words
      PROVE  /\ Len(Append(parts, w)) > 1
             /\ Append(kids, n)[Len(Append(kids, n))].fn # "type"
             /\ Append(kids, n)[1] = kids[1]
             /\ Listed(Named(Append(parts, w)), Tail(Append(parts, w))) =
                  IF Len(parts) = 1 THEN list \o w ELSE (list \o << "," >>) \o w
  <2>1. Len(Append(parts, w)) > 1 /\ Append(parts, w)[1] = parts[1] /\ Len(parts) \in Nat
    BY <1>4, NextPart
  <2>2. named \in Words
    BY <1>3, <1>4
  <2>3. Len(parts) = 1 \/ Len(parts) > 1
    BY <1>4, SomeParts
  <2>4. Named(Append(parts, w)) = named
    BY <2>1 DEF Named
  <2>5. Listed(named, Tail(Append(parts, w))) =
          IF Len(parts) = 1 THEN list \o w ELSE (list \o << "," >>) \o w
    BY <1>4, <2>2, <2>3, ListedFacts
  <2>6. /\ Append(kids, n)[Len(Append(kids, n))] = n
        /\ Append(kids, n)[1] = kids[1]
    BY <1>4, KidFacts
  <2> QED
    BY <1>4, <2>1, <2>4, <2>5, <2>6
<1>5. ASSUME Len(parts) > 0, NEW n, n.fn = "variable_declaration", NEW w \in Words,
             parenthesised, NEW u,
             u = IF Len(parts) = 1 THEN list \o w ELSE (list \o << "," >>) \o w, NEW q
      PROVE  HeaderPoint(src, Append(kids, n), Append(parts, w), header_next, u, q)
  <2>1. /\ Len(Append(parts, w)) > 1
        /\ Append(kids, n)[Len(Append(kids, n))].fn # "type"
        /\ src[Append(kids, n)[1].at + 1] = "("
        /\ Listed(Named(Append(parts, w)), Tail(Append(parts, w))) = u
    BY <1>4, <1>5
  <2>2. ParameterPoint(Append(parts, w), header_next, u)
    BY <2>1 DEF ParameterPoint
  <2> QED
    BY <2>1, <2>2 DEF HeaderPoint
<1>6. ASSUME Len(parts) > 0, untyped, NEW td, NEW u, ResultPoint(before, td, u)
      PROVE  Point(td, u)
  BY <1>6 DEF HeaderPoint
<1>7. ASSUME untyped, parenthesised, NEW td, NEW u, ParameterPoint(parts, td, u), NEW q
      PROVE  HeaderPoint(src, kids, parts, td, u, q)
  BY <1>7 DEF HeaderPoint
<1>8. /\ parenthesised => before = list \o << ")" >>
      /\ ~parenthesised => before = named
  BY DEF Unreturned
<1> HIDE DEF list, k, named, before, parenthesised, untyped
<1>9. CASE parts = << >> /\ kids = << >> /\ t = << >> /\ todo = parse_function_header
  <2>1. t \o << "func" >> = << "func" >>
    BY <1>9, OneSign, Signs
  <2>2. HeaderPoint(src, kids, parts, header_name, t \o << "func" >>, p + 1)
    BY <1>9, <2>1 DEF HeaderPoint
  <2> QED
    BY <1>1, <1>9, <2>2, AtDrop, HeaderTodos
<1>10. CASE parts = << >> /\ kids = << >> /\ t = << "func" >> /\ todo = header_name
  <2> DEFINE ks == Append(kids, Leaf(p))
             ps == Append(parts, k)
  <2>1. Len(ps) = 1 /\ ps[1] = k
    BY <1>2, <1>10, FirstPart
  <2>2. Len(ks) = 1 /\ ks[1] = Leaf(p)
    <3>1. Len(kids) = 0
      BY <1>10
    <3> QED
      BY <3>1, KidFacts
  <2>3. Leaf(p).fn # "type" /\ Leaf(p).at = p
    BY DEF Leaf
  <2>4. Named(ps) = t \o k
    BY <1>10, <2>1 DEF Named
  <2> HIDE DEF ks, ps
  <2>5. HeaderPoint(src, ks, ps, header_named, t \o k, p + 1)
    BY <2>1, <2>2, <2>3, <2>4 DEF HeaderPoint
  <2> QED
    BY <1>1, <1>10, <2>5, AtKeep, HeaderTodos DEF k, ks, ps
<1>11. CASE /\ Len(parts) = 1 /\ Len(kids) = 1 /\ kids[1].fn # "type" /\ kids[1].at + 1 = p
            /\ t = named /\ todo = header_named
  <2>1. Len(parts) > 0 /\ untyped
    BY <1>11, SomeParts DEF untyped
  <2>2. src[p] \in {"("} => HeaderPoint(src, kids, parts, header_open, t, p)
    <3>1. ParameterPoint(parts, header_open, t)
      BY <1>11 DEF ParameterPoint, named
    <3>2. src[p] \in {"("} => parenthesised
      BY <1>11 DEF parenthesised
    <3> QED
      BY <1>7, <2>1, <3>1, <3>2
  <2>3. src[p] \notin {"("} => HeaderPoint(src, kids, parts, header_listed, t, p)
    <3> SUFFICES ASSUME src[p] \notin {"("}
                 PROVE  HeaderPoint(src, kids, parts, header_listed, t, p)
      OBVIOUS
    <3>1. ~parenthesised
      BY <1>11 DEF parenthesised
    <3>2. ResultPoint(before, header_listed, t)
      BY <1>8, <1>11, <3>1 DEF ResultPoint
    <3> QED
      BY <1>6, <2>1, <3>2
  <2> QED
    BY <1>1, <1>11, <2>2, <2>3, AtBranch, HeaderTodos
<1>12. CASE untyped /\ parenthesised /\ ParameterPoint(parts, todo, t)
  <2>1. CASE Len(parts) = 1 /\ t = named /\ todo = header_open
    <3>1. t \o << "(" >> = list
      BY <1>3, <2>1, SomeParts
    <3>2. ParameterPoint(parts, header_first, t \o << "(" >>)
      BY <2>1, <3>1 DEF ParameterPoint, list
    <3> QED
      BY <1>1, <1>7, <1>12, <2>1, <3>2, AtDrop, HeaderTodos
  <2>2. CASE Len(parts) = 1 /\ t = list /\ todo = header_first
    <3>1. Len(parts) > 0 /\ Len(t) > 0
      BY <1>3, <2>2, SomeParts
    <3>2. ParameterPoint(parts, header_close, t)
      BY <2>2, <3>1 DEF ParameterPoint, list
    <3>3. \A q : HeaderPoint(src, kids, parts, header_close, t, q)
      BY <1>7, <1>12, <3>2
    <3>4. \A n, q : \A w \in Words : n.fn = "variable_declaration" =>
            HeaderPoint(src, Append(kids, n), Append(parts, w), header_next, t \o w, q)
      BY <1>5, <1>12, <2>2, <3>1
    <3> QED
      BY <1>1, <2>2, <3>1, <3>3, <3>4, AtTry, HeaderTodos
  <2>3. CASE Len(parts) > 1 /\ t = list /\ todo = header_next
    <3>1. ParameterPoint(parts, header_comma, t) /\ ParameterPoint(parts, header_close, t)
      BY <2>3, SomeParts DEF ParameterPoint, list
    <3> QED
      BY <1>1, <1>7, <1>12, <2>3, <3>1, AtLoop, HeaderTodos
  <2>4. CASE Len(parts) > 1 /\ t = list /\ todo = header_comma
    <3>1. ParameterPoint(parts, header_param, t \o << "," >>)
      BY <2>4 DEF ParameterPoint, list
    <3> QED
      BY <1>1, <1>7, <1>12, <2>4, <3>1, AtDrop, HeaderTodos
  <2>5. CASE Len(parts) > 1 /\ t = list \o << "," >> /\ todo = header_param
    <3>1. Len(parts) > 0 /\ Len(parts) # 1
      BY <2>5, SomeParts
    <3>2. Len(t) > 0
      BY <1>3, <2>5, <3>1, Comma
    <3>3. \A n, q : \A w \in Words : n.fn = "variable_declaration" =>
            HeaderPoint(src, Append(kids, n), Append(parts, w), header_next, t \o w, q)
      BY <1>5, <1>12, <2>5, <3>1
    <3> QED
      BY <1>1, <2>5, <3>2, <3>3, AtCall, HeaderTodos
  <2>6. CASE Len(parts) > 0 /\ t = list /\ todo = header_close
    <3>1. t \o << ")" >> = before
      BY <1>8, <1>12, <2>6
    <3>2. ResultPoint(before, header_listed, t \o << ")" >>)
      BY <3>1 DEF ResultPoint
    <3>3. HeaderPoint(src, kids, parts, header_listed, t \o << ")" >>, p + 1)
      BY <1>12, <2>6, <3>2 DEF HeaderPoint, before, untyped
    <3> QED
      BY <1>1, <2>6, <3>3, AtDrop, HeaderTodos
  <2> QED
    BY <1>12, <2>1, <2>2, <2>3, <2>4, <2>5, <2>6 DEF ParameterPoint, list, named
<1>13. CASE Len(parts) > 0 /\ untyped /\ ResultPoint(before, todo, t)
  <2>0. ASSUME NEW td, NEW u, ResultPoint(before, td, u), NEW q
        PROVE  HeaderPoint(src, kids, parts, td, u, q)
    BY <1>13, <2>0 DEF HeaderPoint, before, untyped
  <2>1. CASE t = before /\ todo = header_listed
    <3>1. ResultPoint(before, header_minus, t) /\ ResultPoint(before, << >>, t)
      BY <2>1 DEF ResultPoint
    <3> QED
      BY <1>1, <2>0, <2>1, <3>1, AtBranch, HeaderTodos
  <2>2. CASE t = before /\ todo = header_minus
    <3>1. ResultPoint(before, header_arrow, t \o << "-" >>)
      BY <2>2 DEF ResultPoint
    <3> QED
      BY <1>1, <2>0, <2>2, <3>1, AtDrop, HeaderTodos
  <2>3. CASE t = before /\ todo = << >>
    <3>1. \A at : Text(src, [fn |-> fn, at |-> at, kids |-> kids], parts) = before
      BY <1>13, HeaderEnd DEF before, untyped
    <3> QED
      BY <2>3, <3>1, AtEnd
  <2>4. CASE t = before \o << "-" >> /\ todo = header_arrow
    <3>1. ResultPoint(before, header_type, t \o << ">" >>)
      BY <2>4 DEF ResultPoint
    <3> QED
      BY <1>1, <2>0, <2>4, <3>1, AtDrop, HeaderTodos
  <2>5. CASE t = (before \o << "-" >>) \o << ">" >> /\ todo = header_type
    <3>1. \A n, q : \A w \in Words : n.fn = "type" =>
            HeaderPoint(src, Append(kids, n), Append(parts, w), << >>, t \o w, q)
      <4> SUFFICES ASSUME NEW n, NEW q, NEW w \in Words, n.fn = "type"
                   PROVE  HeaderPoint(src, Append(kids, n), Append(parts, w), << >>, t \o w, q)
        OBVIOUS
      <4>1. t \o w = ((Unreturned(src, kids, parts) \o << "-" >>) \o << ">" >>) \o w
        BY <2>5 DEF before
      <4>2. \E before_ \in Seq(Words), w_ \in Words :
              /\ IsSeq(kids) /\ Len(kids) = Len(before_) /\ Len(before_) > 0
              /\ Append(kids, n) = Append(kids, n) /\ Append(parts, w) = Append(before_, w_)
              /\ n.fn = "type"
              /\ t \o w = ((Unreturned(src, kids, before_) \o << "-" >>) \o << ">" >>) \o w_
              /\ << >> = << >>
        BY <1>13, <4>1
      <4> QED
        BY <4>2 DEF HeaderPoint
    <3>2. Rank("type") < Rank(fn) \/ Len(t) > 0
      <4>1. before \in Words /\ Len(before) > 0
        BY <1>3, <1>13
      <4> QED
        BY <2>5, <4>1, LongerText, Signs, LongerStart, OneSign
    <3> QED
      BY <1>1, <2>5, <3>1, <3>2, AtCall, HeaderTodos
  <2> QED
    BY <1>13, <2>1, <2>2, <2>3, <2>4, <2>5 DEF ResultPoint
<1>14. ASSUME NEW some, NEW n, NEW prior \in Seq(Words), NEW w \in Words,
              IsSeq(some), Len(some) = Len(prior), Len(prior) > 0,
              kids = Append(some, n), parts = Append(prior, w), n.fn = "type",
              t = ((Unreturned(src, some, prior) \o << "-" >>) \o << ">" >>) \o w,
              todo = << >>
       PROVE  Moves(src, fn, kids, parts, todo, t, p)
  <2>1. \A at : Text(src, [fn |-> fn, at |-> at, kids |-> kids], parts) = t
    BY <1>14, HeaderEndIs
  <2> QED
    BY <1>14, <2>1, AtEnd
<1> QED
  BY <1>9, <1>10, <1>11, <1>12, <1>13, <1>14
     DEF HeaderPoint, named, before, untyped, parenthesised

-----------------------------------------------------------------------------
\* All functions.

\* From every control point of every function, each thing the parser may do leads to a control
\* point of that function for the longer text.
LEMMA AllMoves ==
  ASSUME NEW src, NEW fn \in Functions, NEW kids, IsSeq(kids), NEW parts \in Seq(Words),
         Len(kids) = Len(parts), NEW todo, NEW t \in Words, NEW p, p \in Nat, src[p] \in Kinds,
         Done(src, fn, kids, parts, todo, t, p)
  PROVE  Moves(src, fn, kids, parts, todo, t, p)
<1>1. CASE fn = "statement_expression_call"
  <2>1. CallPoint(parts, todo, t)
    BY <1>1 DEF Done
  <2> QED
    BY <1>1, <2>1, CallMoves
<1>2. CASE fn \in {"variable_definition", "assignment"}
  BY <1>2, DefinitionMoves
<1>3. CASE fn = "variable_declaration"
  <2>1. DeclarationPoint(parts, todo, t)
    BY <1>3 DEF Done
  <2> QED
    BY <1>3, <2>1, DeclarationMoves
<1>4. CASE fn = "statement_return"
  <2>1. ReturnPoint(parts, todo, t)
    BY <1>4 DEF Done
  <2> QED
    BY <1>4, <2>1, ReturnMoves
<1>5. CASE fn = "scope_statement"
  <2>1. ScopePoint(kids, parts, todo, t)
    BY <1>5 DEF Done
  <2> QED
    BY <1>5, <2>1, ScopeMoves
<1>6. CASE fn = "block"
  <2>1. BlockPoint(parts, todo, t)
    BY <1>6 DEF Done
  <2> QED
    BY <1>6, <2>1, BlockMoves
<1>7. CASE fn = "extern_block"
  <2>1. ExternPoint(parts, todo, t)
    BY <1>7 DEF Done
  <2> QED
    BY <1>7, <2>1, ExternMoves
<1>8. CASE fn = "function_header"
  <2>1. HeaderPoint(src, kids, parts, todo, t, p)
    BY <1>8 DEF Done
  <2> QED
    BY <1>8, <2>1, HeaderMoves
<1>9. CASE fn \in JoinedFunctions
  <2>1. FlatPoint(fn, parts, todo, t)
    BY <1>9 DEF Done, JoinedFunctions
  <2> QED
    BY <1>9, <2>1, FlatMoves
<1>10. fn \in {"statement_expression_call", "variable_definition", "assignment",
              "variable_declaration", "statement_return", "scope_statement", "block",
              "extern_block", "function_header"} \cup JoinedFunctions
  BY DEF Functions, JoinedFunctions
<1> QED
  BY <1>1, <1>2, <1>3, <1>4, <1>5, <1>6, <1>7, <1>8, <1>9, <1>10

\* The bodies of the functions whose kids' texts are joined hold calls and kept tokens only.
LEMMA FlatBodies ==
  ASSUME NEW fn \in JoinedFunctions
  PROVE  Body(fn) \in Seq(FlatItems(fn))
<1> DEFINE S == FlatItems(fn)
<1>1. /\ Reject \in S /\ \A ks \in SUBSET Kinds : Keep(ks) \in S
      /\ \A ks \in SUBSET Kinds, ls \in SUBSET Kinds : While(ks, << Keep(ls) >>) \in S
      /\ \A g \in Functions : Rank(g) < Rank(fn) => Call(g) \in S /\ CallOr(g) \in S /\ Must(g) \in S
  <2> DEFINE kept   == {Keep(ks) : ks \in SUBSET Kinds}
             Loop(ks, ls) == While(ks, << Keep(ls) >>)
             loops  == {Loop(ks, ls) : ks \in SUBSET Kinds, ls \in SUBSET Kinds}
             Of(g)  == {Call(g), CallOr(g), Must(g)}
             under  == {h \in Functions : Rank(h) < Rank(fn)}
             called == UNION {Of(g) : g \in under}
  <2>1. S = {Reject} \cup kept \cup loops \cup called
    BY DEF FlatItems
  <2>2. \A ks \in SUBSET Kinds : Keep(ks) \in kept
    OBVIOUS
  <2>3. \A ks \in SUBSET Kinds, ls \in SUBSET Kinds : Loop(ks, ls) \in loops
    <3> HIDE DEF Loop
    <3> QED
      OBVIOUS
  <2>4. \A g \in Functions : Rank(g) < Rank(fn) =>
          Call(g) \in called /\ CallOr(g) \in called /\ Must(g) \in called
    OBVIOUS
  <2> HIDE DEF S, kept, loops, called
  <2> QED
    BY <2>1, <2>2, <2>3, <2>4
<1>2. \A f \in Functions : Rank(f) < Rank(fn) => Rank(f) < Rank(fn)
  OBVIOUS
<1> HIDE DEF S
<1>3. /\ {"identifier"} \in SUBSET Kinds /\ {"&"} \in SUBSET Kinds /\ {"*"} \in SUBSET Kinds
      /\ {"str_literal"} \in SUBSET Kinds /\ {"int_literal"} \in SUBSET Kinds
      /\ {"identifier", "u8", "i32"} \in SUBSET Kinds
  BY DEF Kinds
<1>4. CASE fn = "expression"
  <2>1. Rank("statement_expression") < Rank(fn) /\ "statement_expression" \in Functions
    BY <1>4 DEF Rank, Functions
  <2>2. Call("statement_expression") \in S
    BY <1>1, <2>1
  <2>3. \A kind, next : parse_expression(kind, next) \in Seq(S)
    <3> SUFFICES ASSUME NEW kind, NEW next PROVE parse_expression(kind, next) \in Seq(S)
      OBVIOUS
    <3>1. kind \in {"str_literal", "int_literal"} => << Keep({kind}) >> \in Seq(S)
      BY <1>1, <1>3
    <3>2. /\ << Keep({"&"}), Keep({"identifier"}) >> \in Seq(S)
          /\ << Call("statement_expression") >> \in Seq(S)
          /\ << Keep({"identifier"}) >> \in Seq(S) /\ << Reject >> \in Seq(S)
      BY <1>1, <1>3, <2>2, Tuples
    <3> QED
      BY <3>1, <3>2 DEF parse_expression
  <2> QED
    BY <1>4, <2>3 DEF Body, S
<1>5. CASE fn = "type"
  <2>1. parse_type \in Seq(S)
    <3>1. While({"*"}, << Keep({"*"}) >>) \in S /\ Keep({"identifier", "u8", "i32"}) \in S
      BY <1>1, <1>3
    <3> QED
      BY <3>1, Tuples DEF parse_type
  <2> QED
    BY <1>5, <2>1 DEF Body, S
<1>6. CASE fn = "statement_expression"
  <2>1. /\ Rank("statement_expression_call") < Rank(fn) /\ Rank("assignment") < Rank(fn)
        /\ Rank("variable_definition") < Rank(fn)
        /\ "statement_expression_call" \in Functions /\ "assignment" \in Functions
        /\ "variable_definition" \in Functions
    BY <1>6 DEF Rank, Functions
  <2>2. Call("statement_expression_call") \in S /\ Call("assignment") \in S
        /\ CallOr("variable_definition") \in S
    BY <1>1, <2>1
  <2>3. \A kind, next : parse_statement_expression(kind, next) \in Seq(S)
    BY <2>2, Tuples DEF parse_statement_expression
  <2> QED
    BY <1>6, <2>3 DEF Body, S
<1>7. CASE fn = "function_definition"
  <2>1. /\ Rank("function_header") < Rank(fn) /\ Rank("block") < Rank(fn)
        /\ "function_header" \in Functions /\ "block" \in Functions
    BY <1>7 DEF Rank, Functions
  <2>2. Call("function_header") \in S /\ Must("block") \in S
    BY <1>1, <2>1
  <2>3. parse_function_definition \in Seq(S)
    BY <2>2, Tuples DEF parse_function_definition
  <2> QED
    BY <1>7, <2>3 DEF Body, S
<1>8. CASE fn = "unit_statement"
  <2>1. /\ Rank("function_definition") < Rank(fn) /\ Rank("extern_block") < Rank(fn)
        /\ "function_definition" \in Functions /\ "extern_block" \in Functions
    BY <1>8 DEF Rank, Functions
  <2>2. Must("function_definition") \in S /\ Must("extern_block") \in S
    BY <1>1, <2>1
  <2>3. \A kind : parse_unit_statement(kind) \in Seq(S)
    BY <1>1, <2>2, Tuples DEF parse_unit_statement
  <2> QED
    BY <1>8, <2>3 DEF Body, S
<1> QED
  BY <1>4, <1>5, <1>6, <1>7, <1>8 DEF JoinedFunctions

\* Every function begins at a control point, with nothing read.
LEMMA Start ==
  ASSUME NEW fn \in Functions, NEW src, NEW q
  PROVE  Done(src, fn, << >>, << >>, Body(fn), << >>, q)
<1>1. CASE fn = "statement_expression_call"
  <2>1. CallPoint(<< >>, parse_statement_expression_call, << >>)
    BY DEF CallPoint
  <2> QED
    BY <1>1, <2>1 DEF Body, Done
<1>2. CASE fn = "variable_definition"
  <2>1. DefinitionPoint(Call("variable_declaration"), << >>, parse_variable_definition, << >>)
    BY DEF DefinitionPoint, parse_variable_definition, definition_first
  <2> QED
    BY <1>2, <2>1 DEF Body, Done
<1>3. CASE fn = "assignment"
  <2>1. DefinitionPoint(Keep({"identifier"}), << >>, parse_assignment, << >>)
    BY DEF DefinitionPoint, parse_assignment, definition_first
  <2> QED
    BY <1>3, <2>1 DEF Body, Done
<1>4. CASE fn = "variable_declaration"
  <2>1. DeclarationPoint(<< >>, parse_variable_declaration, << >>)
    BY DEF DeclarationPoint
  <2> QED
    BY <1>4, <2>1 DEF Body, Done
<1>5. CASE fn = "statement_return"
  <2>1. ReturnPoint(<< >>, parse_statement_return, << >>)
    BY DEF ReturnPoint
  <2> QED
    BY <1>5, <2>1 DEF Body, Done
<1>6. CASE fn = "scope_statement"
  <2>1. \A kind : ScopePoint(<< >>, << >>, parse_scope_statement(kind), << >>)
    <3>1. \A kind : parse_scope_statement(kind) \in {scope_return, scope_block, scope_expression}
      BY DEF parse_scope_statement, scope_return, scope_block, scope_expression
    <3> QED
      BY <3>1 DEF ScopePoint
  <2> QED
    BY <1>6, <2>1 DEF Body, Done
<1>7. CASE fn = "block"
  <2>1. BlockPoint(<< >>, parse_block, << >>)
    BY DEF BlockPoint
  <2> QED
    BY <1>7, <2>1 DEF Body, Done
<1>8. CASE fn = "extern_block"
  <2>1. ExternPoint(<< >>, parse_extern_block, << >>)
    BY DEF ExternPoint
  <2> QED
    BY <1>8, <2>1 DEF Body, Done
<1>9. CASE fn = "function_header"
  <2>1. HeaderPoint(src, << >>, << >>, parse_function_header, << >>, q)
    BY DEF HeaderPoint
  <2> QED
    BY <1>9, <2>1 DEF Body, Done
<1>10. CASE fn \in JoinedFunctions
  <2>1. Body(fn) \in Seq(FlatItems(fn))
    BY <1>10, FlatBodies
  <2>2. FlatPoint(fn, << >>, Body(fn), << >>)
    BY <2>1, FlatEmpty DEF FlatPoint
  <2> QED
    BY <1>10, <2>2 DEF Done, JoinedFunctions
<1>11. fn \in {"statement_expression_call", "variable_definition", "assignment",
              "variable_declaration", "statement_return", "scope_statement", "block",
              "extern_block", "function_header"} \cup JoinedFunctions
  BY DEF Functions, JoinedFunctions
<1> QED
  BY <1>1, <1>2, <1>3, <1>4, <1>5, <1>6, <1>7, <1>8, <1>9, <1>10, <1>11

-----------------------------------------------------------------------------
\* The frames.

AreNodes(src, kids) == IsSeq(kids) /\ \A i \in DOMAIN kids : IsNode(src, kids[i])

\* Nodes that may be the kids of an activation of fn that has started at a token.
KidsOf(src, kids, fn, at) ==
  AreNodes(src, kids) /\ \A i \in DOMAIN kids : Under(kids[i], fn, at)

\* The frame has read the tokens up to q.
Begun(src, d, f, q) ==
  /\ KidsOf(src, f.kids, f.fn, f.start)
  /\ \E t \in Words : /\ Done(src, f.fn, f.kids, Spelled(src, f.kids), f.todo, t, q)
                      /\ KeptTo(src, d, f.start - 1) \o t = KeptTo(src, d, q - 1)

\* Frame f has called frame g.
Called(f, g) ==
  /\ g.fn = Head(f.todo).fn
  /\ g.start > f.start \/ (g.start = f.start /\ Rank(g.fn) < Rank(f.fn))

\* What the kids are written as is a text for each of them.
LEMMA SpelledType ==
  ASSUME NEW src, NEW kids, AreNodes(src, kids)
  PROVE  /\ Spelled(src, kids) \in Seq(Words) /\ Len(Spelled(src, kids)) = Len(kids)
<1>1. Len(kids) \in Nat /\ DOMAIN kids = 1 .. Len(kids)
  BY SeqFacts DEF AreNodes
<1>2. \A i \in 1 .. Len(kids) : Written(src, kids[i]) \in Words
  BY <1>1 DEF AreNodes, IsNode
<1> DEFINE f == Spelled(src, kids)
<1>3. f \in [1 .. Len(kids) -> Words]
  BY <1>1, <1>2 DEF Spelled
<1> HIDE DEF f
<1> QED
  BY <1>1, <1>3, MadeSeq DEF f

\* No kids, no texts.
LEMMA SpelledNone ==
  ASSUME NEW src
  PROVE  Spelled(src, << >>) = << >>
BY DEF Spelled

\* One kid more is one text more.
LEMMA NodesAppend ==
  ASSUME NEW src, NEW kids, AreNodes(src, kids), NEW n, IsNode(src, n)
  PROVE  /\ Spelled(src, Append(kids, n)) = Append(Spelled(src, kids), Written(src, n))
         /\ AreNodes(src, Append(kids, n))
         /\ \A i \in DOMAIN Append(kids, n) :
              Append(kids, n)[i] = n \/ (i \in DOMAIN kids /\ Append(kids, n)[i] = kids[i])
<1> DEFINE ks == Append(kids, n)
           w == Written(src, n)
<1>1. /\ IsSeq(ks) /\ Len(ks) = Len(kids) + 1 /\ Len(kids) \in Nat
      /\ ks[Len(kids) + 1] = n /\ \A i \in 1 .. Len(kids) : ks[i] = kids[i]
      /\ DOMAIN kids = 1 .. Len(kids) /\ DOMAIN ks = 1 .. Len(kids) + 1
  <2>1. IsSeq(ks) /\ Len(ks) = Len(kids) + 1 /\ ks[Len(kids) + 1] = n
        /\ \A i \in 1 .. Len(kids) : ks[i] = kids[i]
    BY AppendFacts DEF AreNodes
  <2>2. Len(kids) \in Nat /\ DOMAIN kids = 1 .. Len(kids)
    BY SeqFacts DEF AreNodes
  <2>3. DOMAIN ks = 1 .. Len(ks)
    BY <2>1, SeqFacts
  <2> QED
    BY <2>1, <2>2, <2>3
<1>2. w \in Words
  BY DEF IsNode
<1> HIDE DEF ks, w
<1>3. \A i \in 1 .. Len(kids) + 1 : i \in 1 .. Len(kids) \/ i = Len(kids) + 1
  BY <1>1
<1>4. \A i \in DOMAIN ks : ks[i] = n \/ (i \in DOMAIN kids /\ ks[i] = kids[i])
  BY <1>1, <1>3
<1>5. AreNodes(src, ks)
  BY <1>1, <1>4 DEF AreNodes
<1> DEFINE s == Spelled(src, kids)
           a == Append(s, w)
           b == Spelled(src, ks)
<1>6. s \in Seq(Words) /\ Len(s) = Len(kids)
  BY SpelledType
<1>7. a \in Seq(Words) /\ Len(a) = Len(kids) + 1 /\ a[Len(kids) + 1] = w
      /\ \A i \in 1 .. Len(kids) : a[i] = s[i]
  <2> HIDE DEF s
  <2> QED
    BY <1>2, <1>6, AppendType
<1>8. b \in Seq(Words) /\ Len(b) = Len(kids) + 1
  BY <1>1, <1>5, SpelledType
<1>9. \A i \in 1 .. Len(kids) + 1 : b[i] = Written(src, ks[i])
  BY <1>1 DEF Spelled
<1>10. \A i \in 1 .. Len(kids) : s[i] = Written(src, kids[i])
  BY <1>1 DEF Spelled
<1> HIDE DEF s, a, b
<1>11. \A i \in 1 .. Len(kids) + 1 : b[i] = a[i]
  BY <1>1, <1>3, <1>7, <1>9, <1>10 DEF w
<1>12. b = a
  BY <1>7, <1>8, <1>11, PiecesEqual
<1> QED
  BY <1>1, <1>4, <1>5, <1>12 DEF a, b, s, ks, w

\* A kid that may stand under fn leaves kids that may.
LEMMA KidsAppend ==
  ASSUME NEW src, NEW kids, NEW fn, NEW at, KidsOf(src, kids, fn, at),
         NEW n, IsNode(src, n)
  PROVE  /\ Spelled(src, Append(kids, n)) = Append(Spelled(src, kids), Written(src, n))
         /\ Under(n, fn, at) => KidsOf(src, Append(kids, n), fn, at)
<1>1. AreNodes(src, kids) /\ \A i \in DOMAIN kids : Under(kids[i], fn, at)
  BY DEF KidsOf
<1> DEFINE ks == Append(kids, n)
<1>2. /\ Spelled(src, ks) = Append(Spelled(src, kids), Written(src, n))
      /\ AreNodes(src, ks)
      /\ \A i \in DOMAIN ks : ks[i] = n \/ (i \in DOMAIN kids /\ ks[i] = kids[i])
  BY <1>1, NodesAppend
<1> HIDE DEF ks
<1>3. Under(n, fn, at) => KidsOf(src, ks, fn, at)
  BY <1>1, <1>2 DEF KidsOf
<1> QED
  BY <1>2, <1>3 DEF ks

\* What the text of a frame is, and what it does next.
LEMMA BegunMoves ==
  ASSUME NEW src \in Words, NEW d, NEW f, NEW q \in 1 .. Len(src), f.fn \in Functions,
         Begun(src, d, f, q)
  PROVE  \E t \in Words :
           /\ KeptTo(src, d, f.start - 1) \o t = KeptTo(src, d, q - 1)
           /\ Done(src, f.fn, f.kids, Spelled(src, f.kids), f.todo, t, q)
           /\ Moves(src, f.fn, f.kids, Spelled(src, f.kids), f.todo, t, q)
<1>1. AreNodes(src, f.kids) /\ IsSeq(f.kids)
  BY DEF Begun, KidsOf, AreNodes
<1>2. Spelled(src, f.kids) \in Seq(Words) /\ Len(f.kids) = Len(Spelled(src, f.kids))
  BY <1>1, SpelledType
<1>3. PICK t \in Words : /\ KeptTo(src, d, f.start - 1) \o t = KeptTo(src, d, q - 1)
                         /\ Done(src, f.fn, f.kids, Spelled(src, f.kids), f.todo, t, q)
  BY DEF Begun
<1>4. src[q] \in Kinds /\ q \in Nat
  BY DEF Words
<1>5. Moves(src, f.fn, f.kids, Spelled(src, f.kids), f.todo, t, q)
  <2> DEFINE s == Spelled(src, f.kids)
  <2>1. s \in Seq(Words) /\ Len(f.kids) = Len(s)
        /\ Done(src, f.fn, f.kids, s, f.todo, t, q)
    BY <1>2, <1>3
  <2> HIDE DEF s
  <2>2. Moves(src, f.fn, f.kids, s, f.todo, t, q)
    BY <1>1, <1>4, <2>1, AllMoves
  <2> QED
    BY <2>2 DEF s
<1> QED
  BY <1>3, <1>5

\* The text of the tokens before a place is that of those before an earlier one and of
\* what lies between.
LEMMA KeptUpTo ==
  ASSUME NEW src \in Words, NEW d, NEW a \in 1 .. Len(src)
  PROVE  KeptTo(src, d, a - 1) \in Words
<1>1. a - 1 \in 0 .. Len(src)
  BY DEF Words
<1> QED
  BY <1>1, KeptType

\* A token is taken.
LEMMA TokenTaken ==
  ASSUME NEW src \in Words, NEW d, NEW f, NEW q \in 1 .. Len(src), f.fn \in Functions,
         Begun(src, d, f, q), f.start \in 1 .. q, q \notin d,
         f.todo # << >>, Head(f.todo).op = "token", src[q] \in Head(f.todo).kinds,
         NEW g, g.fn = f.fn, g.start = f.start, g.todo = Tail(f.todo),
         g.kids = IF Head(f.todo).keep THEN Append(f.kids, Leaf(q)) ELSE f.kids
  PROVE  Begun(src, d, g, q + 1)
<1>1. PICK t \in Words :
        /\ KeptTo(src, d, f.start - 1) \o t = KeptTo(src, d, q - 1)
        /\ Moves(src, f.fn, f.kids, Spelled(src, f.kids), f.todo, t, q)
  BY BegunMoves
<1>2. src[q] \in Kinds /\ q \in Nat /\ q - 1 \in Nat /\ q - 1 + 1 = q /\ q + 1 - 1 = q
      /\ q <= Len(src) /\ Len(src) \in Nat
  BY DEF Words
<1>3. KidsOf(src, f.kids, f.fn, f.start)
  BY DEF Begun
<1>4. IsNode(src, Leaf(q)) /\ Written(src, Leaf(q)) = << src[q] >>
      /\ Leaf(q).fn = "token" /\ Leaf(q).at = q
  BY LeafFacts
<1>5. Under(Leaf(q), f.fn, f.start)
  <2>1. f.start = q \/ q > f.start
    BY <1>2
  <2>2. Rank("token") = 0 /\ Rank(f.fn) \in 1 .. 5
    BY RankFacts
  <2> QED
    BY <1>4, <2>1, <2>2 DEF Under
<1>6. /\ KidsOf(src, g.kids, g.fn, g.start)
      /\ Spelled(src, g.kids) = IF Head(f.todo).keep THEN Append(Spelled(src, f.kids), << src[q] >>)
                                ELSE Spelled(src, f.kids)
  <2> DEFINE ks == Append(f.kids, Leaf(q))
  <2>1. KidsOf(src, ks, f.fn, f.start)
        /\ Spelled(src, ks) = Append(Spelled(src, f.kids), << src[q] >>)
    <3>1. Spelled(src, ks) = Append(Spelled(src, f.kids), Written(src, Leaf(q)))
          /\ KidsOf(src, ks, f.fn, f.start)
      BY <1>3, <1>4, <1>5, KidsAppend
    <3> HIDE DEF ks
    <3> QED
      BY <1>4, <3>1
  <2>2. g.fn = f.fn /\ g.start = f.start
        /\ g.kids = IF Head(f.todo).keep THEN ks ELSE f.kids
    OBVIOUS
  <2> HIDE DEF ks
  <2> QED
    BY <1>3, <2>1, <2>2
<1>7. Done(src, g.fn, g.kids, Spelled(src, g.kids), g.todo, t \o << src[q] >>, q + 1)
  BY <1>1, <1>6 DEF Moves
<1>8. t \o << src[q] >> \in Words
  BY <1>2, LongerText
<1>9. KeptTo(src, d, g.start - 1) \o (t \o << src[q] >>) = KeptTo(src, d, q + 1 - 1)
  <2> DEFINE a == KeptTo(src, d, f.start - 1)
             k == << src[q] >>
  <2>1. a \in Words
    <3>1. f.start \in 1 .. Len(src)
      BY <1>2
    <3> QED
      BY <3>1, KeptUpTo
  <2>2. k \in Words
    BY <1>2, JoinOne, JoinEmpty
  <2>3. KeptTo(src, d, q) = KeptTo(src, d, q - 1) \o k
    <3> DEFINE n == q - 1
    <3>1. n \in Nat /\ n + 1 = q /\ n + 1 <= Len(src) /\ n + 1 \notin d
      BY <1>2
    <3> HIDE DEF n
    <3>2. KeptTo(src, d, n + 1) = IF n + 1 \in d THEN KeptTo(src, d, n)
                                  ELSE KeptTo(src, d, n) \o << src[n + 1] >>
      <4>1. n \in Nat /\ n + 1 <= Len(src)
        BY <3>1
      <4> QED
        BY ONLY src \in Words, <4>1, KeptNext
    <3> QED
      BY <3>1, <3>2 DEF n
  <2> HIDE DEF a, k
  <2>4. (a \o t) \o k = a \o (t \o k)
    BY <2>1, <2>2, JoinAssoc
  <2>5. a \o t = KeptTo(src, d, q - 1)
    BY <1>1 DEF a
  <2>6. a \o (t \o k) = KeptTo(src, d, q)
    BY <2>3, <2>4, <2>5
  <2> QED
    BY <1>2, <2>6 DEF a, k
<1> DEFINE u == t \o << src[q] >>
<1>10. /\ u \in Words /\ Done(src, g.fn, g.kids, Spelled(src, g.kids), g.todo, u, q + 1)
       /\ KeptTo(src, d, g.start - 1) \o u = KeptTo(src, d, q + 1 - 1)
       /\ KidsOf(src, g.kids, g.fn, g.start)
  BY <1>6, <1>7, <1>8, <1>9
<1> HIDE DEF u
<1>11. \E x \in Words : /\ Done(src, g.fn, g.kids, Spelled(src, g.kids), g.todo, x, q + 1)
                        /\ KeptTo(src, d, g.start - 1) \o x = KeptTo(src, d, q + 1 - 1)
  BY <1>10, Zenon
<1> QED
  BY ONLY <1>10, <1>11 DEF Begun

\* A branch or a loop is taken, or not.
LEMMA BranchTaken ==
  ASSUME NEW src \in Words, NEW d, NEW f, NEW q \in 1 .. Len(src), f.fn \in Functions,
         Begun(src, d, f, q), f.todo # << >>, Head(f.todo).op \in {"when", "while"},
         NEW g, g.fn = f.fn, g.start = f.start, g.kids = f.kids,
         g.todo = IF src[q] \in Head(f.todo).kinds
                  THEN Head(f.todo).then
                         \o (IF Head(f.todo).op = "while" THEN f.todo ELSE Tail(f.todo))
                  ELSE Tail(f.todo)
  PROVE  Begun(src, d, g, q)
<1>1. PICK t \in Words :
        /\ KeptTo(src, d, f.start - 1) \o t = KeptTo(src, d, q - 1)
        /\ Moves(src, f.fn, f.kids, Spelled(src, f.kids), f.todo, t, q)
  BY BegunMoves
<1>2. KidsOf(src, f.kids, f.fn, f.start)
  BY DEF Begun
<1>3. Done(src, g.fn, g.kids, Spelled(src, g.kids), g.todo, t, q)
  BY <1>1 DEF Moves
<1> QED
  BY <1>1, <1>2, <1>3 DEF Begun

\* A function is called: the frame of the callee is under that of the caller.
LEMMA CallTaken ==
  ASSUME NEW src \in Words, NEW d, NEW f, NEW q \in 1 .. Len(src), f.fn \in Functions,
         Begun(src, d, f, q), f.start \in 1 .. q,
         f.todo # << >>, Head(f.todo).op \in {"call", "try"},
         NEW g, g.fn = Head(f.todo).fn, g.start = q
  PROVE  Called(f, g)
<1>1. PICK t \in Words :
        /\ KeptTo(src, d, f.start - 1) \o t = KeptTo(src, d, q - 1)
        /\ Moves(src, f.fn, f.kids, Spelled(src, f.kids), f.todo, t, q)
  BY BegunMoves
<1>2. Rank(Head(f.todo).fn) < Rank(f.fn) \/ Len(t) > 0
  BY <1>1 DEF Moves
<1>3. ASSUME Len(t) > 0
      PROVE  f.start # q
  <2> SUFFICES ASSUME f.start = q PROVE FALSE
    OBVIOUS
  <2> DEFINE a == KeptTo(src, d, q - 1)
             m == Len(a)
             n == Len(t)
  <2>1. a \in Words /\ a \o t = a
    BY <1>1, KeptUpTo
  <2>2. Len(a \o t) = m + n /\ m \in Nat /\ n \in Nat
    BY <2>1, JoinType
  <2>3. m = m + n
    BY <2>1, <2>2
  <2>4. n > 0
    BY <1>3
  <2> HIDE DEF a, m, n
  <2> QED
    BY <2>2, <2>3, <2>4
<1>4. f.start = q \/ q > f.start
  BY DEF Words
<1> QED
  BY <1>2, <1>3, <1>4 DEF Called

\* A function that has returned true has a node, whose text is what it has read.
LEMMA NodeMade ==
  ASSUME NEW src \in Words, NEW d, NEW f, NEW q \in 1 .. Len(src), f.fn \in Functions,
         Begun(src, d, f, q), f.start \in 1 .. q, f.todo = << >>
  PROVE  /\ IsNode(src, Node(f)) /\ Written(src, Node(f)) \in Words
         /\ KeptTo(src, d, f.start - 1) \o Written(src, Node(f)) = KeptTo(src, d, q - 1)
         /\ Node(f).fn = f.fn /\ Node(f).at = f.start
<1>1. PICK t \in Words :
        /\ KeptTo(src, d, f.start - 1) \o t = KeptTo(src, d, q - 1)
        /\ Moves(src, f.fn, f.kids, Spelled(src, f.kids), f.todo, t, q)
  BY BegunMoves
<1>2. KidsOf(src, f.kids, f.fn, f.start) /\ f.start \in 1 .. Len(src)
  BY DEF Begun, Words
<1>3. Node(f) = [fn |-> f.fn, at |-> f.start, kids |-> f.kids]
  BY DEF Node
<1>4. Text(src, Node(f), Spelled(src, f.kids)) = t
  BY <1>1, <1>3 DEF Moves
<1>5. Written(src, Node(f)) = t /\ IsNode(src, Node(f))
  <2>1. IsSeq(f.kids) /\ \A i \in DOMAIN f.kids : IsNode(src, f.kids[i]) /\ Under(f.kids[i], f.fn, f.start)
    BY <1>2 DEF KidsOf, AreNodes
  <2> DEFINE n == Node(f)
  <2>2. n = [fn |-> f.fn, at |-> f.start, kids |-> f.kids] /\ Text(src, n, Spelled(src, f.kids)) \in Words
    BY <1>3, <1>4
  <2> HIDE DEF n
  <2>3. Written(src, n) = Text(src, n, Spelled(src, f.kids)) /\ IsNode(src, n)
    BY <1>2, <2>1, <2>2, NodeFacts
  <2> QED
    BY <1>4, <2>3 DEF n
<1>6. Node(f).fn = f.fn /\ Node(f).at = f.start
  BY <1>3
<1> QED
  BY <1>1, <1>5, <1>6

\* The caller takes the node.
LEMMA NodeTaken ==
  ASSUME NEW src \in Words, NEW d, NEW f, NEW g, f.fn \in Functions, g.fn \in Functions,
         NEW q \in 1 .. Len(src), g.start \in 1 .. q, f.start \in 1 .. g.start,
         Begun(src, d, f, g.start), Called(f, g), Begun(src, d, g, q), g.todo = << >>,
         f.todo # << >>, Head(f.todo).op \in {"call", "try"},
         NEW h, h.fn = f.fn, h.start = f.start, h.kids = Append(f.kids, Node(g)),
         h.todo = (IF Head(f.todo).op = "try" THEN Head(f.todo).then ELSE << >>) \o Tail(f.todo)
  PROVE  Begun(src, d, h, q)
<1>1. g.start \in 1 .. Len(src) /\ f.start \in 1 .. Len(src)
  BY DEF Words
<1>2. PICK t \in Words :
        /\ KeptTo(src, d, f.start - 1) \o t = KeptTo(src, d, g.start - 1)
        /\ Moves(src, f.fn, f.kids, Spelled(src, f.kids), f.todo, t, g.start)
  BY <1>1, BegunMoves
<1> DEFINE n == Node(g)
           w == Written(src, n)
<1>3. /\ IsNode(src, n) /\ w \in Words
      /\ KeptTo(src, d, g.start - 1) \o w = KeptTo(src, d, q - 1)
      /\ n.fn = g.fn /\ n.at = g.start
  BY NodeMade
<1> HIDE DEF n, w
<1>4. KidsOf(src, f.kids, f.fn, f.start)
  BY DEF Begun
<1>5. Under(n, f.fn, f.start) /\ n.fn = Head(f.todo).fn
  BY <1>3 DEF Called, Under
<1>6. KidsOf(src, h.kids, h.fn, h.start)
      /\ Spelled(src, h.kids) = Append(Spelled(src, f.kids), w)
  BY <1>3, <1>4, <1>5, KidsAppend DEF n, w
<1>7. Done(src, h.fn, h.kids, Spelled(src, h.kids), h.todo, t \o w, q)
  <2>1. Done(src, f.fn, Append(f.kids, n), Append(Spelled(src, f.kids), w), h.todo, t \o w, q)
    BY <1>2, <1>3, <1>5 DEF Moves
  <2> QED
    BY <1>6, <2>1 DEF n
<1>8. t \o w \in Words
  BY <1>3, JoinType
<1>9. KeptTo(src, d, h.start - 1) \o (t \o w) = KeptTo(src, d, q - 1)
  <2> DEFINE a == KeptTo(src, d, f.start - 1)
  <2>1. a \in Words
    BY <1>1, KeptUpTo
  <2>2. a \o t = KeptTo(src, d, g.start - 1)
    BY <1>2
  <2> HIDE DEF a
  <2>3. (a \o t) \o w = a \o (t \o w)
    BY <1>3, <2>1, JoinAssoc
  <2>4. a \o (t \o w) = KeptTo(src, d, q - 1)
    BY <1>3, <2>2, <2>3
  <2> QED
    BY <2>4 DEF a
<1> QED
  BY <1>6, <1>7, <1>8, <1>9 DEF Begun

\* What is dropped behind a frame does not matter to it.
LEMMA DropBehind ==
  ASSUME NEW src \in Words, NEW d, NEW a \in Nat, NEW b, NEW f, NEW q \in 1 .. a,
         f.start \in 1 .. q, Begun(src, d, f, q)
  PROVE  Begun(src, d \cup (a .. b), f, q)
<1> DEFINE e == d \cup (a .. b)
<1>1. ASSUME NEW n \in 0 .. a - 1
      PROVE  KeptTo(src, d, n) = KeptTo(src, e, n)
  <2>1. \A i \in 1 .. n : i \in d <=> i \in e
    OBVIOUS
  <2> HIDE DEF e
  <2> QED
    BY <2>1, KeptSame
<1>2. f.start - 1 \in 0 .. a - 1 /\ q - 1 \in 0 .. a - 1
  OBVIOUS
<1>3. KeptTo(src, d, f.start - 1) = KeptTo(src, e, f.start - 1)
      /\ KeptTo(src, d, q - 1) = KeptTo(src, e, q - 1)
  BY <1>1, <1>2
<1> HIDE DEF e
<1> QED
  BY <1>3 DEF Begun, e

\* An optional callee has returned false, and what it has read is dropped.
LEMMA NothingTaken ==
  ASSUME NEW src \in Words, NEW d, NEW f, NEW a \in 1 .. Len(src), f.fn \in Functions,
         f.start \in 1 .. a, Begun(src, d, f, a), f.todo # << >>, Head(f.todo).op = "try",
         NEW q \in a .. Len(src),
         NEW h, h.fn = f.fn, h.start = f.start, h.kids = f.kids, h.todo = Tail(f.todo)
  PROVE  Begun(src, d \cup (a .. (q - 1)), h, q)
<1> DEFINE e == d \cup (a .. (q - 1))
<1>1. a \in Nat /\ a \in 1 .. a /\ a - 1 \in Nat /\ q - 1 \in Nat /\ a - 1 <= q - 1 /\ q - 1 <= Len(src)
      /\ a - 1 + 1 = a /\ Len(src) \in Nat
  BY DEF Words
<1>2. Begun(src, e, f, a)
  BY <1>1, DropBehind
<1>3. KeptTo(src, e, q - 1) = KeptTo(src, e, a - 1)
  <2> DEFINE m == a - 1
             n == q - 1
  <2>1. m \in Nat /\ n \in Nat /\ m <= n /\ n <= Len(src) /\ \A i \in m + 1 .. n : i \in e
    BY <1>1
  <2> HIDE DEF m, n, e
  <2>2. KeptTo(src, e, n) = KeptTo(src, e, m)
    BY <2>1, KeptDropped
  <2> QED
    BY <2>2 DEF m, n
<1> HIDE DEF e
<1>4. PICK t \in Words :
        /\ KeptTo(src, e, f.start - 1) \o t = KeptTo(src, e, a - 1)
        /\ Moves(src, f.fn, f.kids, Spelled(src, f.kids), f.todo, t, a)
  BY <1>2, BegunMoves
<1>5. Done(src, h.fn, h.kids, Spelled(src, h.kids), h.todo, t, q)
  BY <1>4 DEF Moves
<1>6. KidsOf(src, h.kids, h.fn, h.start)
  BY DEF Begun
<1> QED
  BY <1>3, <1>4, <1>5, <1>6 DEF Begun, e

\* A function has been called.
LEMMA FrameBegun ==
  ASSUME NEW src \in Words, NEW d, NEW fn \in Functions, NEW required, c \in 1 .. Len(src)
  PROVE  /\ Begun(src, d, Frame(fn, required), c)
         /\ Frame(fn, required).fn = fn /\ Frame(fn, required).start = c
<1> DEFINE f == Frame(fn, required)
<1>1. f.fn = fn /\ f.start = c /\ f.kids = << >> /\ f.todo = Body(fn)
  BY DEF Frame
<1> HIDE DEF f
<1>2. KidsOf(src, << >>, fn, c)
  <2>1. << >> \in Seq({})
    OBVIOUS
  <2> QED
    BY <2>1 DEF KidsOf, AreNodes, IsSeq
<1>3. Done(src, fn, << >>, Spelled(src, << >>), Body(fn), << >>, c)
  BY Start, SpelledNone
<1>4. << >> \in Words /\ KeptTo(src, d, c - 1) \o << >> = KeptTo(src, d, c - 1)
  BY KeptUpTo, JoinEmpty
<1>5. Begun(src, d, f, c)
  BY <1>1, <1>2, <1>3, <1>4 DEF Begun
<1> QED
  BY <1>1, <1>5 DEF f

-----------------------------------------------------------------------------
\* The stack.

Chain(src, d, s) ==
  /\ \A i \in 1 .. Len(s) - 1 : Begun(src, d, s[i], s[i + 1].start) /\ Called(s[i], s[i + 1])
  /\ \A i, j \in 1 .. Len(s) : i <= j => s[i].start <= s[j].start

\* The stack's frames stay linked when the top one moves on ...
LEMMA ChainReplace ==
  ASSUME NEW src, NEW d, NEW s, IsSeq(s), s # << >>, Chain(src, d, s),
         NEW f, f.fn = s[Len(s)].fn, f.start = s[Len(s)].start
  PROVE  /\ Chain(src, d, Replace(s, f))
         /\ Replace(s, f)[1].start = s[1].start /\ Replace(s, f) # << >>
         /\ Replace(s, f)[Len(Replace(s, f))] = f
<1> DEFINE r == Replace(s, f)
<1>1. Len(s) \in Nat /\ Len(s) > 0
  BY SeqFacts
<1>2. /\ IsSeq(r) /\ Len(r) = Len(s) /\ r # << >>
      /\ r[Len(s)] = f /\ \A i \in 1 .. Len(s) - 1 : r[i] = s[i]
  BY ReplaceFacts
<1> HIDE DEF r
<1>3. \A i \in 1 .. Len(s) : r[i].fn = s[i].fn /\ r[i].start = s[i].start
  BY <1>1, <1>2
<1>4. ASSUME NEW i \in 1 .. Len(r) - 1
      PROVE  Begun(src, d, r[i], r[i + 1].start) /\ Called(r[i], r[i + 1])
  <2>1. /\ r[i] = s[i] /\ r[i + 1].start = s[i + 1].start /\ r[i + 1].fn = s[i + 1].fn
        /\ i \in 1 .. Len(s) - 1
    BY <1>1, <1>2, <1>3
  <2>2. Begun(src, d, s[i], s[i + 1].start) /\ Called(s[i], s[i + 1])
    BY <2>1 DEF Chain
  <2> QED
    BY <2>1, <2>2 DEF Called
<1>5. \A i, j \in 1 .. Len(r) : i <= j => r[i].start <= r[j].start
  BY <1>2, <1>3 DEF Chain
<1>6. r[1].start = s[1].start
  BY <1>1, <1>3
<1> QED
  BY <1>2, <1>4, <1>5, <1>6 DEF Chain, r

\* ... when it calls a function ...
LEMMA ChainPush ==
  ASSUME NEW src, NEW d, NEW s, IsSeq(s), s # << >>, Chain(src, d, s),
         NEW f, f.start \in Nat, \A i \in 1 .. Len(s) : s[i].start \in 1 .. f.start,
         Begun(src, d, s[Len(s)], f.start), Called(s[Len(s)], f)
  PROVE  /\ Chain(src, d, Append(s, f))
         /\ Append(s, f)[1] = s[1] /\ Append(s, f) # << >>
         /\ Append(s, f)[Len(Append(s, f))] = f
<1> DEFINE r == Append(s, f)
<1>1. Len(s) \in Nat /\ Len(s) > 0
  BY SeqFacts
<1>2. /\ IsSeq(r) /\ Len(r) = Len(s) + 1 /\ r # << >>
      /\ r[Len(s) + 1] = f /\ \A i \in 1 .. Len(s) : r[i] = s[i]
  BY AppendFacts
<1> HIDE DEF r
<1>3. ASSUME NEW i \in 1 .. Len(r) - 1
      PROVE  Begun(src, d, r[i], r[i + 1].start) /\ Called(r[i], r[i + 1])
  <2>1. CASE i = Len(s)
    BY <1>1, <1>2, <2>1
  <2>2. CASE i # Len(s)
    <3>1. i \in 1 .. Len(s) - 1 /\ r[i] = s[i] /\ r[i + 1] = s[i + 1]
      BY <1>1, <1>2, <2>2
    <3>2. Begun(src, d, s[i], s[i + 1].start) /\ Called(s[i], s[i + 1])
      BY <3>1 DEF Chain
    <3> QED
      BY <3>1, <3>2
  <2> QED
    BY <2>1, <2>2
<1>4. ASSUME NEW i \in 1 .. Len(r), NEW j \in 1 .. Len(r), i <= j
      PROVE  r[i].start <= r[j].start
  <2>1. CASE j = Len(s) + 1
    <3>1. r[j] = f
      BY <1>2, <2>1
    <3>2. r[i] = f \/ r[i].start \in 1 .. f.start
      <4>1. i = Len(s) + 1 \/ i \in 1 .. Len(s)
        BY <1>1, <1>2
      <4> QED
        BY <1>2, <4>1
    <3> QED
      BY <3>1, <3>2
  <2>2. CASE j # Len(s) + 1
    <3>1. i \in 1 .. Len(s) /\ j \in 1 .. Len(s) /\ r[i] = s[i] /\ r[j] = s[j]
      BY <1>1, <1>2, <1>4, <2>2
    <3> QED
      BY <1>4, <3>1 DEF Chain
  <2> QED
    BY <2>1, <2>2
<1>5. r[1] = s[1] /\ r[Len(r)] = f
  BY <1>1, <1>2
<1> QED
  BY <1>2, <1>3, <1>4, <1>5 DEF Chain, r

Popped(s) == SubSeq(s, 1, Len(s) - 1)

\* ... when it returns ...
LEMMA ChainPop ==
  ASSUME NEW src, NEW d, NEW s, IsSeq(s), Len(s) > 1, Chain(src, d, s)
  PROVE  /\ Chain(src, d, Popped(s)) /\ Popped(s)[1] = s[1] /\ Popped(s) # << >>
         /\ IsSeq(Popped(s)) /\ Popped(s)[Len(Popped(s))] = s[Len(s) - 1]
         /\ \A i \in 1 .. Len(Popped(s)) : i \in 1 .. Len(s) /\ Popped(s)[i] = s[i]
         /\ Begun(src, d, s[Len(s) - 1], s[Len(s)].start) /\ Called(s[Len(s) - 1], s[Len(s)])
         /\ s[Len(s) - 1].start <= s[Len(s)].start
         /\ \A i \in 1 .. Len(s) : s[i].start <= s[Len(s)].start
<1> DEFINE r == Popped(s)
<1>1. Len(s) \in Nat /\ Len(s) > 1
  BY SeqFacts
<1>2. IsSeq(r) /\ Len(r) = Len(s) - 1 /\ r # << >> /\ \A i \in 1 .. Len(s) - 1 : r[i] = s[i]
  BY PopFacts DEF Popped
<1> HIDE DEF r
<1>3. ASSUME NEW i \in 1 .. Len(r) - 1
      PROVE  Begun(src, d, r[i], r[i + 1].start) /\ Called(r[i], r[i + 1])
  <2>1. i \in 1 .. Len(s) - 1 /\ r[i] = s[i] /\ r[i + 1] = s[i + 1]
    BY <1>1, <1>2
  <2>2. Begun(src, d, s[i], s[i + 1].start) /\ Called(s[i], s[i + 1])
    BY <2>1 DEF Chain
  <2> QED
    BY <2>1, <2>2
<1>4. \A i \in 1 .. Len(r) : i \in 1 .. Len(s) /\ r[i] = s[i]
  BY <1>1, <1>2
<1>5. \A i, j \in 1 .. Len(r) : i <= j => r[i].start <= r[j].start
  BY <1>4 DEF Chain
<1>6. r[1] = s[1] /\ r[Len(r)] = s[Len(s) - 1]
  BY <1>1, <1>2
<1>7. /\ Begun(src, d, s[Len(s) - 1], s[Len(s)].start) /\ Called(s[Len(s) - 1], s[Len(s)])
  <2> DEFINE m == Len(s) - 1
  <2>1. m \in 1 .. Len(s) - 1 /\ m + 1 = Len(s)
    BY <1>1
  <2>2. Begun(src, d, s[m], s[m + 1].start) /\ Called(s[m], s[m + 1])
    BY <2>1 DEF Chain
  <2> QED
    BY <2>1, <2>2
<1>8. \A i \in 1 .. Len(s) : s[i].start <= s[Len(s)].start
  BY <1>1 DEF Chain
<1>9. Len(s) - 1 \in 1 .. Len(s)
  BY <1>1
<1>10. Chain(src, d, r)
  BY <1>3, <1>5 DEF Chain
<1> QED
  BY <1>2, <1>4, <1>6, <1>7, <1>8, <1>9, <1>10 DEF r

\* ... and when tokens are dropped behind them all.
LEMMA ChainDrop ==
  ASSUME NEW src \in Words, NEW d, NEW s, IsSeq(s), Chain(src, d, s), NEW a \in Nat, NEW b,
         \A i \in 1 .. Len(s) : s[i].start \in 1 .. a
  PROVE  Chain(src, d \cup (a .. b), s)
<1> DEFINE e == d \cup (a .. b)
<1>1. Len(s) \in Nat
  BY SeqFacts
<1>2. ASSUME NEW i \in 1 .. Len(s) - 1
      PROVE  Begun(src, e, s[i], s[i + 1].start) /\ Called(s[i], s[i + 1])
  <2>1. i \in 1 .. Len(s) /\ i + 1 \in 1 .. Len(s) /\ i <= i + 1
    BY <1>1
  <2>2. Begun(src, d, s[i], s[i + 1].start) /\ Called(s[i], s[i + 1])
    BY DEF Chain
  <2>3. s[i + 1].start \in 1 .. a /\ s[i].start \in 1 .. s[i + 1].start
    <3>1. s[i].start \in 1 .. a /\ s[i + 1].start \in 1 .. a /\ s[i].start <= s[i + 1].start
      BY <2>1 DEF Chain
    <3> QED
      BY <3>1
  <2> QED
    BY <2>2, <2>3, DropBehind
<1> HIDE DEF e
<1> QED
  BY <1>2 DEF Chain, e

-----------------------------------------------------------------------------
\* The invariant.

UnitText(q) ==
  /\ AreNodes(tokens, unit)
  /\ KeptTo(tokens, dropped, q - 1) = FlattenSeq(Spelled(tokens, unit))

TextInv ==
  /\ Chain(tokens, dropped, stack)
  /\ mode = "parse" => Begun(tokens, dropped, top, c)
  /\ success => UnitText(IF stack = << >> THEN c ELSE stack[1].start)

\* The source is a text.
LEMMA TokensAreWords ==
  ASSUME tokens \in TokenStreams
  PROVE  tokens \in Words
BY StreamFacts DEF Words

\* An empty stack is linked.
LEMMA NoChain ==
  ASSUME NEW src, NEW d
  PROVE  Chain(src, d, << >>)
<1>1. Len(<< >>) = 0
  OBVIOUS
<1> QED
  BY <1>1 DEF Chain

\* TextInv holds at the start.
LEMMA InitText ==
  ASSUME Init
  PROVE  TextInv
<1>1. stack = << >> /\ mode = "unit" /\ unit = << >> /\ c = 1 /\ dropped = {}
  BY DEF Init
<1>2. UnitText(c)
  <2>1. << >> \in Seq({}) /\ c - 1 = 0
    BY <1>1
  <2>2. KeptTo(tokens, dropped, c - 1) = << >>
    BY <2>1, KeptNone
  <2>3. FlattenSeq(Spelled(tokens, << >>)) = << >>
    BY SpelledNone, FlatEmpty
  <2> QED
    BY <1>1, <2>1, <2>2, <2>3 DEF UnitText, AreNodes, IsSeq
<1> QED
  BY <1>1, <1>2, NoChain DEF TextInv

\* What every step starts from.
LEMMA TextFacts ==
  ASSUME IInv
  PROVE  /\ tokens \in Words /\ c \in Nat /\ c \in 1 .. Len(tokens) /\ c \notin dropped
         /\ IsSeq(stack) /\ Len(stack) \in Nat
         /\ \A i \in 1 .. Len(stack) : stack[i].start \in 1 .. c /\ stack[i].fn \in Functions
                                      /\ IsFrame(stack[i])
         /\ stack # << >> => /\ top.fn \in Functions /\ top.start \in 1 .. c
                             /\ IsFrame(top) /\ Len(stack) \in 1 .. Len(stack)
                             /\ stack[1].start \in 1 .. c
         /\ stack # << >> <=> mode \in {"parse", "fail"}
<1>1. tokens \in Words /\ c \in Nat /\ c \in 1 .. Len(tokens)
  BY Facts, TokensAreWords DEF IInv
<1>2. c \notin dropped
  <2>1. dropped \subseteq 1 .. (c - 1)
    BY DEF IInv, TypeOK
  <2>2. c \notin 1 .. (c - 1)
    BY <1>1
  <2> QED
    BY <2>1, <2>2
<1>3. StackOK(stack, c)
  BY Facts
<1>4. IsSeq(stack) /\ Len(stack) \in Nat
      /\ \A i \in 1 .. Len(stack) : stack[i].start \in 1 .. c /\ stack[i].fn \in Functions
                                   /\ IsFrame(stack[i])
  BY <1>3, SeqFacts DEF StackOK, Layered
<1>5. stack # << >> => 1 \in 1 .. Len(stack) /\ Len(stack) \in 1 .. Len(stack)
  BY <1>4, SeqFacts
<1>6. stack # << >> <=> mode \in {"parse", "fail"}
  BY DEF IInv, StackInv
<1> QED
  BY <1>1, <1>2, <1>4, <1>5, <1>6 DEF top

-----------------------------------------------------------------------------
\* One lemma per action.

\* A frame whose work or kids are replaced.
LEMMA NewTodoKids ==
  ASSUME NEW f, IsFrame(f), NEW t, NEW k
  PROVE  /\ LET g == [f EXCEPT !.todo = t]
            IN  g.fn = f.fn /\ g.start = f.start /\ g.kids = f.kids /\ g.todo = t
         /\ LET g == [f EXCEPT !.todo = t, !.kids = k]
            IN  g.fn = f.fn /\ g.start = f.start /\ g.kids = k /\ g.todo = t
<1>1. PICK fn, todo, required, kids, start :
        f = [fn |-> fn, todo |-> todo, required |-> required, kids |-> kids, start |-> start]
  BY DEF IsFrame
<1> QED
  BY <1>1

\* The statements finished so far stay written as they are.
LEMMA UnitKept ==
  ASSUME NEW q, UnitText(q), UNCHANGED << tokens, dropped, unit >>
  PROVE  UnitText(q)'
BY DEF UnitText

\* The next statement's frame is pushed on an empty stack.
LEMMA ParseStatementText ==
  ASSUME IInv, TextInv, ParseStatement
  PROVE  TextInv'
<1> DEFINE f == Frame("unit_statement", TRUE)
<1>1. /\ mode = "unit" /\ stack = << >> /\ stack' = << f >> /\ mode' = "parse"
      /\ UNCHANGED << tokens, c, unit, success, dropped >>
      /\ tokens \in Words /\ c \in Nat /\ c \in 1 .. Len(tokens)
  BY TextFacts DEF ParseStatement
<1>2. Begun(tokens, dropped, f, c) /\ f.start = c
  <2>1. "unit_statement" \in Functions
    BY DEF Functions
  <2> QED
    BY <1>1, <2>1, FrameBegun
<1> HIDE DEF f
<1>3. Len(stack') = 1 /\ stack'[1] = f /\ stack' # << >> /\ top' = f
  BY <1>1 DEF top
<1>4. Chain(tokens, dropped, stack')
  BY <1>1, <1>2, <1>3 DEF Chain
<1>5. success => UnitText(c)
  BY <1>1 DEF TextInv
<1>6. success' => UnitText(c)'
  BY <1>1, <1>5, UnitKept
<1> QED
  BY <1>1, <1>2, <1>3, <1>4, <1>6 DEF TextInv

\* Skipping tokens between two steps of a statement, and the end of the input.
LEMMA IdleText ==
  ASSUME IInv, TextInv, Finish \/ SkipToken \/ SkipClose \/ SkipEof
  PROVE  TextInv'
<1>1. /\ stack = << >> /\ stack' = << >> /\ mode' # "parse"
      /\ UNCHANGED << tokens, dropped, success >>
      /\ mode \in {"unit", "skip"}
  BY TextFacts DEF Finish, SkipToken, SkipClose, SkipEof
<1>2. success => UNCHANGED << c, unit >>
  BY DEF IInv, DiagInv, Finish, SkipToken, SkipClose, SkipEof
<1>3. ASSUME success
      PROVE  UnitText(c)'
  <2>1. UnitText(c)
    BY <1>1, <1>3 DEF TextInv
  <2> QED
    BY <1>1, <1>2, <1>3, <2>1 DEF UnitText
<1>4. Chain(tokens', dropped', stack')
  BY <1>1, NoChain
<1> QED
  BY <1>1, <1>3, <1>4 DEF TextInv

\* The frame that runs has done an item, and nothing is dropped.
LEMMA TopReplaced ==
  ASSUME IInv, TextInv, mode = "parse", NEW f, f.fn = top.fn, f.start = top.start,
         stack' = Replace(stack, f), UNCHANGED << tokens, unit, success, dropped >>,
         Begun(tokens, dropped, f, c')
  PROVE  TextInv'
<1>1. IsSeq(stack) /\ stack # << >> /\ Chain(tokens, dropped, stack)
  BY TextFacts DEF TextInv
<1>2. /\ Chain(tokens, dropped, stack')
      /\ stack'[1].start = stack[1].start /\ stack' # << >> /\ stack'[Len(stack')] = f
  BY <1>1, ChainReplace DEF top
<1>3. top' = f
  BY <1>2 DEF top
<1>4. success => UnitText(stack[1].start)
  BY <1>1 DEF TextInv
<1>5. success' => UnitText(stack[1].start)'
  BY <1>2, <1>4 DEF UnitText
<1> QED
  BY <1>2, <1>3, <1>5 DEF TextInv

\* The expected token is taken.
LEMMA ExpectText ==
  ASSUME IInv, TextInv, Expect
  PROVE  TextInv'
<1> DEFINE k == IF item.keep THEN Append(top.kids, Leaf(c)) ELSE top.kids
           f == [top EXCEPT !.todo = rest, !.kids = k]
<1>1. /\ mode = "parse" /\ top.todo # << >> /\ item.op = "token" /\ Kind \in item.kinds
      /\ c' = c + 1 /\ stack' = Replace(stack, f)
      /\ UNCHANGED << tokens, unit, success, dropped >>
  BY DEF Expect, Running
<1>2. /\ tokens \in Words /\ c \in 1 .. Len(tokens) /\ c \notin dropped
      /\ top.fn \in Functions /\ top.start \in 1 .. c /\ IsFrame(top)
  BY <1>1, TextFacts
<1>3. f.fn = top.fn /\ f.start = top.start /\ f.kids = k /\ f.todo = rest
  <2> HIDE DEF k
  <2> QED
    BY <1>2, NewTodoKids
<1> HIDE DEF f
<1>4. Begun(tokens, dropped, top, c)
  BY <1>1 DEF TextInv
<1>5. Begun(tokens, dropped, f, c + 1)
  BY <1>1, <1>2, <1>3, <1>4, TokenTaken DEF item, rest, Kind
<1> QED
  BY <1>1, <1>3, <1>5, TopReplaced

\* The expected token is missing: the activation is marked as failed.
LEMMA ExpectFailsText ==
  ASSUME IInv, TextInv, ExpectFails
  PROVE  TextInv'
<1>1. mode' = "fail" /\ UNCHANGED << tokens, c, stack, unit, success, dropped >>
  BY DEF ExpectFails
<1> QED
  BY <1>1 DEF TextInv, UnitText

\* A branch or a loop looks at the token ahead.
LEMMA BranchText ==
  ASSUME IInv, TextInv, Branch
  PROVE  TextInv'
<1> DEFINE again == IF item.op = "while" THEN top.todo ELSE rest
           todo == IF Kind \in item.kinds THEN item.then \o again ELSE rest
           f == [top EXCEPT !.todo = todo]
<1>1. /\ mode = "parse" /\ top.todo # << >> /\ item.op \in {"when", "while"}
      /\ stack' = Replace(stack, f) /\ UNCHANGED << tokens, c, unit, success, dropped >>
  BY DEF Branch, Running
<1>2. /\ tokens \in Words /\ c \in 1 .. Len(tokens)
      /\ top.fn \in Functions /\ IsFrame(top)
  BY <1>1, TextFacts
<1>3. f.fn = top.fn /\ f.start = top.start /\ f.kids = top.kids /\ f.todo = todo
  <2> HIDE DEF todo
  <2> QED
    BY <1>2, NewTodoKids
<1> HIDE DEF f
<1>4. Begun(tokens, dropped, top, c)
  BY <1>1 DEF TextInv
<1>5. Begun(tokens, dropped, f, c)
  BY <1>1, <1>2, <1>3, <1>4, BranchTaken DEF item, rest, Kind
<1> QED
  BY <1>1, <1>3, <1>5, TopReplaced

\* A parse function is called.
LEMMA CallParseText ==
  ASSUME IInv, TextInv, CallParse
  PROVE  TextInv'
<1> DEFINE required == item.op = "call" /\ (item.force \/ top.required)
           f == Frame(item.fn, required)
<1>1. /\ mode = "parse" /\ mode' = "parse" /\ top.todo # << >> /\ item.op \in {"call", "try"}
      /\ stack' = Append(stack, f) /\ UNCHANGED << tokens, c, unit, success, dropped >>
  BY DEF CallParse, Running
<1>2. /\ tokens \in Words /\ c \in 1 .. Len(tokens) /\ c \in Nat
      /\ top.fn \in Functions /\ IsFrame(top) /\ top.start \in 1 .. c
      /\ IsSeq(stack) /\ stack # << >>
      /\ \A i \in 1 .. Len(stack) : stack[i].start \in 1 .. c
  BY <1>1, TextFacts
<1>3. item.fn \in Functions
  <2>1. Layered(top)
    BY <1>2, Facts
  <2> QED
    BY <1>1, <2>1, HeadFacts, Layers DEF item
<1>4. Begun(tokens, dropped, f, c) /\ f.fn = item.fn /\ f.start = c
  <2> HIDE DEF required
  <2> QED
    BY <1>2, <1>3, FrameBegun
<1> HIDE DEF f
<1>5. Begun(tokens, dropped, top, c) /\ Chain(tokens, dropped, stack)
  BY <1>1 DEF TextInv
<1>6. Called(top, f)
  BY <1>1, <1>2, <1>4, <1>5, CallTaken DEF item
<1>7. /\ Chain(tokens, dropped, stack')
      /\ stack'[1] = stack[1] /\ stack' # << >> /\ stack'[Len(stack')] = f
  BY <1>1, <1>2, <1>4, <1>5, <1>6, ChainPush DEF top
<1>8. top' = f
  BY <1>7 DEF top
<1>9. success => UnitText(stack[1].start)
  BY <1>2 DEF TextInv
<1>10. success' => UnitText(stack[1].start)'
  BY <1>1, <1>7, <1>9 DEF UnitText
<1> QED
  BY <1>1, <1>4, <1>7, <1>8, <1>10 DEF TextInv

\* What the caller of the frame that runs is, and the stack without that frame.
LEMMA CallerText ==
  ASSUME IInv, TextInv, Len(stack) > 1, NEW f, f = stack[Len(stack) - 1]
  PROVE  /\ IsFrame(f) /\ f.fn \in Functions /\ f.start \in 1 .. top.start /\ top.start \in 1 .. c
         /\ Begun(tokens, dropped, f, top.start) /\ Called(f, top)
         /\ f.todo # << >> /\ Head(f.todo).op \in {"call", "try"}
         /\ Chain(tokens, dropped, Pop) /\ IsSeq(Pop) /\ Pop # << >>
         /\ Pop[1] = stack[1] /\ Pop[Len(Pop)] = f
         /\ \A i \in 1 .. Len(Pop) : Pop[i].start \in 1 .. top.start
<1>1. /\ IsSeq(stack) /\ Len(stack) \in Nat /\ Chain(tokens, dropped, stack)
      /\ \A i \in 1 .. Len(stack) : stack[i].start \in 1 .. c /\ stack[i].fn \in Functions
                                   /\ IsFrame(stack[i])
  BY TextFacts DEF TextInv
<1>2. StackOK(stack, c) /\ c \in Nat
  BY Facts
<1>3. Len(stack) - 1 \in 1 .. Len(stack) /\ Len(stack) \in 1 .. Len(stack)
  BY <1>1
<1>4. Calls(f, stack[Len(stack)])
  BY <1>2, CallerFacts
<1>5. f.todo # << >> /\ Head(f.todo).op \in {"call", "try"}
  BY <1>4 DEF Calls
<1>6. /\ Chain(tokens, dropped, Pop) /\ Pop[1] = stack[1] /\ Pop # << >> /\ IsSeq(Pop)
      /\ Pop[Len(Pop)] = f
      /\ \A i \in 1 .. Len(Pop) : i \in 1 .. Len(stack) /\ Pop[i] = stack[i]
      /\ Begun(tokens, dropped, f, top.start) /\ Called(f, top)
      /\ f.start <= top.start
      /\ \A i \in 1 .. Len(stack) : stack[i].start <= top.start
  <2>1. Pop = Popped(stack)
    BY DEF Pop, Popped
  <2>2. Begun(tokens, dropped, stack[Len(stack) - 1], stack[Len(stack)].start)
        /\ Called(stack[Len(stack) - 1], stack[Len(stack)])
        /\ stack[Len(stack) - 1].start <= stack[Len(stack)].start
        /\ Popped(stack)[Len(Popped(stack))] = stack[Len(stack) - 1]
    BY <1>1, ChainPop
  <2>3. /\ Chain(tokens, dropped, Popped(stack)) /\ Popped(stack)[1] = stack[1]
        /\ Popped(stack) # << >> /\ IsSeq(Popped(stack))
    BY <1>1, ChainPop
  <2>4. \A i \in 1 .. Len(Popped(stack)) : i \in 1 .. Len(stack) /\ Popped(stack)[i] = stack[i]
    <3>1. IsSeq(stack) /\ Len(stack) > 1 /\ Len(stack) \in Nat
      BY <1>1
    <3>2. /\ Len(Popped(stack)) = Len(stack) - 1
          /\ \A i \in 1 .. Len(stack) - 1 : Popped(stack)[i] = stack[i]
      BY ONLY <3>1, PopFacts DEF Popped
    <3> QED
      BY ONLY <3>1, <3>2
  <2>5. \A i \in 1 .. Len(stack) : stack[i].start <= stack[Len(stack)].start
    BY <1>1, ChainPop
  <2> QED
    BY <2>1, <2>2, <2>3, <2>4, <2>5 DEF top
<1>7. top.start \in 1 .. c /\ f.start \in 1 .. c /\ IsFrame(f) /\ f.fn \in Functions
  BY <1>1, <1>3 DEF top
<1>8. f.start \in 1 .. top.start
  BY <1>6, <1>7
<1>9. \A i \in 1 .. Len(Pop) : Pop[i].start \in 1 .. top.start
  <2> SUFFICES ASSUME NEW i \in 1 .. Len(Pop) PROVE Pop[i].start \in 1 .. top.start
    OBVIOUS
  <2>1. Pop[i].start \in 1 .. c /\ Pop[i].start <= top.start
    BY <1>1, <1>6
  <2> QED
    BY <1>7, <2>1
<1> QED
  BY <1>5, <1>6, <1>7, <1>8, <1>9

\* A parse function returns a node, to its caller or as a statement of the unit.
LEMMA ReturnTrueText ==
  ASSUME IInv, TextInv, ReturnTrue
  PROVE  TextInv'
<1> DEFINE caller == stack[Len(stack) - 1]
           then == IF Head(caller.todo).op = "try" THEN Head(caller.todo).then ELSE << >>
           k == Append(caller.kids, Node(top))
           t == then \o Tail(caller.todo)
           f == [caller EXCEPT !.todo = t, !.kids = k]
<1>1. /\ mode = "parse" /\ stack # << >> /\ top.todo = << >>
      /\ stack' = IF Len(stack) = 1 THEN << >> ELSE Replace(Pop, f)
      /\ unit' = IF Len(stack) = 1 THEN Append(unit, Node(top)) ELSE unit
      /\ mode' = IF Len(stack) = 1 THEN "unit" ELSE "parse"
      /\ UNCHANGED << tokens, c, success, dropped >>
  BY DEF ReturnTrue, IInv, StackInv
<1>2. /\ tokens \in Words /\ c \in 1 .. Len(tokens)
      /\ top.fn \in Functions /\ top.start \in 1 .. c /\ Len(stack) \in Nat /\ IsSeq(stack)
      /\ Len(stack) \in 1 .. Len(stack)
  BY <1>1, TextFacts
<1>3. Begun(tokens, dropped, top, c)
  BY <1>1 DEF TextInv
<1>4. CASE Len(stack) = 1
  <2>1. /\ stack' = << >> /\ mode' = "unit" /\ unit' = Append(unit, Node(top))
    BY <1>1, <1>4
  <2>2. Chain(tokens', dropped', stack')
    BY <2>1, NoChain
  <2>3. ASSUME success
        PROVE  UnitText(c)'
    <3>1. UnitText(top.start)
      BY <1>1, <1>4, <2>3 DEF TextInv, top
    <3> DEFINE n == Node(top)
               w == Written(tokens, n)
               s == Spelled(tokens, unit)
    <3>2. /\ IsNode(tokens, n) /\ w \in Words
          /\ KeptTo(tokens, dropped, top.start - 1) \o w = KeptTo(tokens, dropped, c - 1)
      BY <1>1, <1>2, <1>3, NodeMade
    <3>3. /\ AreNodes(tokens, unit)
          /\ KeptTo(tokens, dropped, top.start - 1) = FlattenSeq(s)
      BY <3>1 DEF UnitText
    <3>4. s \in Seq(Words)
      BY <3>3, SpelledType
    <3> HIDE DEF n
    <3>5. /\ Spelled(tokens, Append(unit, n)) = Append(s, w)
          /\ AreNodes(tokens, Append(unit, n))
      BY <3>2, <3>3, NodesAppend
    <3> HIDE DEF s, w
    <3>6. FlattenSeq(Append(s, w)) = KeptTo(tokens, dropped, c - 1)
      BY <3>2, <3>3, <3>4, FlatAppend
    <3>7. unit' = Append(unit, n)
      BY <2>1 DEF n
    <3> HIDE DEF n
    <3> QED
      BY <1>1, <3>5, <3>6, <3>7 DEF UnitText
  <2> QED
    BY <1>1, <2>1, <2>2, <2>3 DEF TextInv
<1>5. CASE Len(stack) # 1
  <2>1. Len(stack) > 1
    <3> DEFINE m == Len(stack)
    <3>1. m \in Nat /\ m \in 1 .. m /\ m # 1
      BY <1>2, <1>5
    <3> HIDE DEF m
    <3>2. m > 1
      BY <3>1
    <3> QED
      BY <3>2 DEF m
  <2>2. stack' = Replace(Pop, f) /\ mode' = "parse" /\ unit' = unit
    <3> HIDE DEF f
    <3> QED
      BY <1>1, <1>5
  <2> HIDE DEF then
  <2>3. /\ IsFrame(caller) /\ caller.fn \in Functions /\ caller.start \in 1 .. top.start
        /\ Begun(tokens, dropped, caller, top.start) /\ Called(caller, top)
        /\ caller.todo # << >> /\ Head(caller.todo).op \in {"call", "try"}
        /\ Chain(tokens, dropped, Pop) /\ IsSeq(Pop) /\ Pop # << >>
        /\ Pop[1] = stack[1] /\ Pop[Len(Pop)] = caller
    BY <2>1, CallerText
  <2>4. f.fn = caller.fn /\ f.start = caller.start /\ f.kids = k /\ f.todo = t
    <3> HIDE DEF k, t, caller
    <3> QED
      BY <2>3, NewTodoKids
  <2> HIDE DEF f, caller
  <2>5. Begun(tokens, dropped, f, c)
    BY <1>1, <1>2, <1>3, <2>3, <2>4, NodeTaken DEF then
  <2>6. /\ Chain(tokens, dropped, stack')
        /\ stack'[1].start = stack[1].start /\ stack' # << >> /\ stack'[Len(stack')] = f
    BY <2>2, <2>3, <2>4, ChainReplace
  <2>7. top' = f
    BY <2>6 DEF top
  <2>8. success => UnitText(stack[1].start)
    BY <1>1 DEF TextInv
  <2>9. success' => UnitText(stack[1].start)'
    BY <1>1, <2>2, <2>6, <2>8 DEF UnitText
  <2> QED
    BY <1>1, <2>2, <2>5, <2>6, <2>7, <2>9 DEF TextInv
<1> QED
  BY <1>4, <1>5

\* A parse function fails, and so does its caller.
LEMMA ReturnFalseText ==
  ASSUME IInv, TextInv, ReturnFalse
  PROVE  TextInv'
<1>1. /\ mode' = "fail" /\ Len(stack) > 1 /\ stack' = Pop
      /\ UNCHANGED << tokens, c, unit, success, dropped >>
  BY DEF ReturnFalse
<1>2. Chain(tokens, dropped, Pop) /\ Pop # << >> /\ Pop[1] = stack[1]
  BY <1>1, CallerText
<1>3. stack # << >>
  BY <1>1, TextFacts DEF ReturnFalse
<1>4. success => UnitText(stack[1].start)
  BY <1>3 DEF TextInv
<1>5. success' => UnitText(stack[1].start)'
  BY <1>1, <1>2, <1>4 DEF UnitText
<1> QED
  BY <1>1, <1>2, <1>5 DEF TextInv

\* A parse function returns nothing where its caller may do without.
LEMMA ReturnNothingText ==
  ASSUME IInv, TextInv, ReturnNothing
  PROVE  TextInv'
<1> DEFINE caller == stack[Len(stack) - 1]
           f == [caller EXCEPT !.todo = Tail(caller.todo)]
           a == top.start
           e == dropped \cup (a .. (c - 1))
<1>1. /\ mode = "fail" /\ mode' = "parse" /\ Len(stack) > 1 /\ Head(caller.todo).op = "try"
      /\ stack' = Replace(Pop, f) /\ dropped' = e
      /\ UNCHANGED << tokens, c, unit, success >>
  BY DEF ReturnNothing
<1>2. /\ tokens \in Words /\ c \in 1 .. Len(tokens) /\ a \in 1 .. c /\ stack # << >>
  BY <1>1, TextFacts
<1>3. /\ IsFrame(caller) /\ caller.fn \in Functions /\ caller.start \in 1 .. a
      /\ Begun(tokens, dropped, caller, a)
      /\ caller.todo # << >>
      /\ Chain(tokens, dropped, Pop) /\ IsSeq(Pop) /\ Pop # << >>
      /\ Pop[1] = stack[1] /\ Pop[Len(Pop)] = caller
      /\ \A i \in 1 .. Len(Pop) : Pop[i].start \in 1 .. a
  BY <1>1, CallerText
<1>4. f.fn = caller.fn /\ f.start = caller.start /\ f.kids = caller.kids
      /\ f.todo = Tail(caller.todo)
  <2> HIDE DEF caller
  <2> QED
    BY <1>3, NewTodoKids
<1> HIDE DEF f, caller, a
<1>5. Begun(tokens, e, f, c)
  <2>1. a \in 1 .. Len(tokens) /\ c \in a .. Len(tokens)
    BY <1>2 DEF Words
  <2> QED
    BY <1>1, <1>2, <1>3, <1>4, <2>1, NothingTaken
<1>6. a \in Nat
  BY <1>2
<1>7. Chain(tokens, e, Pop)
  BY <1>2, <1>3, <1>6, ChainDrop
<1>8. /\ Chain(tokens, e, stack')
      /\ stack'[1].start = stack[1].start /\ stack' # << >> /\ stack'[Len(stack')] = f
  <2> HIDE DEF e
  <2> QED
    BY <1>1, <1>3, <1>4, <1>7, ChainReplace
<1>9. top' = f
  BY <1>8 DEF top
<1>10. ASSUME success
       PROVE  UnitText(stack[1].start)'
  <2> DEFINE m == stack[1].start
  <2>1. UnitText(m)
    BY <1>2, <1>10 DEF TextInv
  <2>2. m \in 1 .. a
    <3>1. 1 \in 1 .. Len(Pop)
      BY <1>3, SeqFacts
    <3> QED
      BY <1>3, <3>1
  <2>3. KeptTo(tokens, e, m - 1) = KeptTo(tokens, dropped, m - 1)
    <3>1. \A i \in 1 .. m - 1 : i \in dropped <=> i \in e
      BY <1>6, <2>2
    <3> HIDE DEF e, m
    <3> QED
      BY <3>1, KeptSame
  <2>4. stack'[1].start = m
    BY <1>8
  <2> HIDE DEF e, m
  <2>5. /\ AreNodes(tokens, unit)
        /\ KeptTo(tokens, e, m - 1) = FlattenSeq(Spelled(tokens, unit))
    BY <2>1, <2>3 DEF UnitText
  <2> QED
    BY <1>1, <2>4, <2>5 DEF UnitText
<1> QED
  BY <1>1, <1>5, <1>8, <1>9, <1>10 DEF TextInv

\* A statement fails: the input is skipped, and the parser has not succeeded.
LEMMA StatementFailsText ==
  ASSUME IInv, TextInv, StatementFails
  PROVE  TextInv'
<1>1. mode' = "skip" /\ success' = FALSE /\ stack' = << >>
  BY DEF StatementFails
<1> QED
  BY <1>1, NoChain DEF TextInv

\* Every step keeps TextInv.
LEMMA StepText ==
  ASSUME IInv, TextInv, [Next]_vars
  PROVE  TextInv'
<1>1. CASE Next
  BY <1>1, ParseStatementText, IdleText, ExpectText, ExpectFailsText, BranchText, CallParseText,
     ReturnTrueText, ReturnFalseText, ReturnNothingText, StatementFailsText DEF Next
<1>2. CASE UNCHANGED vars
  <2>1. top' = top
    BY <1>2 DEF vars, top
  <2> QED
    BY <1>2, <2>1 DEF vars, TextInv, UnitText
<1> QED
  BY <1>1, <1>2

\* TextInv holds in every state.
LEMMA TextInvariance == Spec => []TextInv
<1>1. Init => TextInv
  BY InitText
<1>2. IInv /\ TextInv /\ [Next]_vars => TextInv'
  BY StepText
<1> QED
  BY <1>1, <1>2, Invariance, PTL DEF Spec

\* The tokens AstIsTheSource compares with are those kept before the end of the input.
LEMMA KeptTokensAre == KeptTokens = KeptTo(tokens, dropped, Len(tokens) - 1)
BY DEF KeptTokens, KeptTo, KeptOf

\* Accepted, the parser stands on EOF, the last token.
AtEof == mode = "accepted" => c = Len(tokens) /\ success /\ stack = << >>

\* Accepted, the parser stays at the end.
LEMMA AtEofStep ==
  ASSUME IInv, AtEof, [Next]_vars
  PROVE  AtEof'
<1>1. CASE Finish
  <2>1. mode = "unit" /\ tokens[c] = "EOF" /\ UNCHANGED << tokens, c, stack, success >>
        /\ (mode' = "accepted" => success)
    BY <1>1 DEF Finish, is_eof, Kind
  <2>2. stack = << >> /\ c \in 1 .. Len(tokens)
    BY <2>1, TextFacts
  <2>3. c = Len(tokens)
    BY <2>1, <2>2, StreamFacts DEF IInv
  <2> QED
    BY <2>1, <2>2, <2>3 DEF AtEof
<1>2. CASE UNCHANGED vars
  BY <1>2 DEF vars, AtEof
<1>3. CASE Next /\ ~Finish
  <2>1. mode' # "accepted"
    BY <1>3 DEF Next, ParseStatement, Expect, ExpectFails, Branch, CallParse, ReturnTrue,
                ReturnFalse, ReturnNothing, StatementFails, SkipToken, SkipClose, SkipEof, Running
  <2> QED
    BY <2>1 DEF AtEof
<1> QED
  BY <1>1, <1>2, <1>3

\* Whatever the source, the AST of a unit that is accepted is the source's: written out by the
\* productions the parser follows - those of docs/GRAMMAR.md, and empty parentheses - it gives
\* back the tokens, in order, each once, but for those a failed optional parse has swallowed (jac_parse_unit and the parse functions it calls).
THEOREM AstCorrect == Spec => []AstIsTheSource
<1>1. Init => AtEof
  BY DEF Init, AtEof
<1>2. IInv /\ AtEof /\ [Next]_vars => AtEof'
  BY AtEofStep
<1>3. IInv /\ TextInv /\ AtEof => AstIsTheSource
  <2> SUFFICES ASSUME TextInv, AtEof, mode = "accepted"
               PROVE  FlattenSeq([i \in DOMAIN unit |-> Written(tokens, unit[i])]) = KeptTokens
    BY DEF AstIsTheSource
  <2>1. UnitText(Len(tokens))
    BY DEF TextInv, AtEof
  <2> QED
    BY <2>1, KeptTokensAre DEF UnitText, Spelled
<1> QED
  BY <1>1, <1>2, <1>3, Invariance, TextInvariance, PTL DEF Spec

====
