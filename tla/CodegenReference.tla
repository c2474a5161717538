-------------------------- MODULE CodegenReference --------------------------
(***************************************************************************)
(* What the code of Codegen does when it runs, and what its source says.   *)
(* For TLC only (recursive).                                               *)
(***************************************************************************)
EXTENDS Codegen

LOCAL INSTANCE FiniteSets
LOCAL INSTANCE TLC
LOCAL DG == INSTANCE Graphs

-----------------------------------------------------------------------------
(***************************************************************************)
(* The code of a function, run: words of the stack are numbered from rbp,  *)
(* downwards.  A callee returns a value of its own and leaves nothing in   *)
(* the argument registers nor in the words below the stack pointer.        *)
(***************************************************************************)

Garbage == <<"garbage">>

Start == [sp |-> 0, frame |-> 0, high |-> -1, words |-> <<>>, rax |-> Garbage,
          registers |-> [k \in 0 .. Registers - 1 |-> Garbage], calls |-> <<>>, left |-> FALSE]

Word(m, w)   == IF w \in DOMAIN m.words THEN m.words[w] ELSE Garbage
Store(m, w, value) == [m EXCEPT !.words = (w :> value) @@ @]
PushWord(m, value) == [Store(m, m.sp - 1, value) EXCEPT !.sp = @ - 1]

\* high: the highest word that has been popped
PopWord(m) == [m EXCEPT !.sp = @ + 1, !.high = IF m.sp > m.high THEN m.sp ELSE @]

Target(m, value) ==
  IF value[1] = "address" THEN Word(m, -value[2] - 1) ELSE Garbage

Called(m, f) ==
  [m EXCEPT !.calls = Append(@, [id |-> f, args |-> m.registers,
                                 targets |-> [k \in DOMAIN m.registers |->
                                                Target(m, m.registers[k])]]),
            !.registers = [k \in DOMAIN @ |-> Garbage],
            !.rax = <<"result", Len(m.calls) + 1>>,
            !.words = [w \in {v \in DOMAIN @ : v >= m.sp} |-> @[w]]]

Run(m, ins) ==
  CASE m.left \/ ins.op \in {"label", "extern", "xor"} -> m
    [] ins.op = "enter" -> [m EXCEPT !.sp = -ins.a, !.high = -ins.a - 1, !.frame = ins.a]
    [] ins.op = "push" -> PushWord(m, IF ins.a = "rax" THEN m.rax ELSE <<"int", ins.a>>)
    [] ins.op = "push string" ->
         PushWord(m, <<"str", cstr(rodata[CHOOSE k \in DOMAIN rodata : rodata[k].label = ins.a].bytes)>>)
    [] ins.op = "pop" -> [PopWord(m) EXCEPT !.rax = Word(m, m.sp)]
    [] ins.op = "pop argument" -> [PopWord(m) EXCEPT !.registers[ins.a] = Word(m, m.sp)]
    [] ins.op = "store" -> Store(m, -ins.a - 1, m.rax)
    [] ins.op = "store argument" -> Store(m, -ins.a - 1, <<"parameter", ins.a>>)
    [] ins.op = "lea" -> [m EXCEPT !.rax = <<"address", ins.a>>]
    [] ins.op = "call" -> Called(m, ins.a)
    [] ins.op = "jmp" -> [m EXCEPT !.left = TRUE]
    [] OTHER -> m

\* The functions that have been begun, and the code of the k-th of them.
Begun   == SelectSeq(SubSeq(unit, 1, u - 1), LAMBDA st : st.holds = "function_definition")
Code(k) ==
  LET starts == SetToSortSeq({j \in DOMAIN text : text[j].op = "enter"}, <)
  IN  SubSeq(text, starts[k], IF k = Len(starts) THEN Len(text) ELSE starts[k + 1] - 2)

Outcome(k) == FoldLeft(Run, Start, Code(k))

-----------------------------------------------------------------------------
(***************************************************************************)
(* The source.                                                             *)
(***************************************************************************)

\* The expressions and statements within a node, itself among them, in order.
RECURSIVE Within(_)
Within(e) ==
  Append(CASE e.holds = "call"  -> FlattenSeq([k \in DOMAIN e.args |-> Within(e.args[k])])
           [] e.holds = "block" -> FlattenSeq([k \in DOMAIN e.statements |-> Within(e.statements[k])])
           [] e.holds \in {"variable_definition", "assignment", "return"} -> Within(e.expression)
           [] OTHER -> <<>>, e)

Nodes(e)        == ToSet(Within(e))
Kinds(e)        == {x.holds : x \in Nodes(e)}
Body(function)  == Block(function.block)
Bindings(e)     == {x \in Nodes(e) : x.holds \in {"variable_definition", "assignment"}}

\* No definition is an operand.
Operands(e) ==
  {x.expression : x \in {y \in Nodes(e) : y.holds \in {"variable_definition", "assignment", "return"}}}
    \cup UNION {ToSet(x.args) : x \in {y \in Nodes(e) : y.holds = "call"}}
DefinesOutside(e) == \A x \in Operands(e) : x.holds # "variable_definition"

\* Every name used is defined before, once a variable has been; no call or function has
\* more arguments than there are registers, and every return an expression.
Uses(x) == x.holds \in {"identifier", "addrof", "assignment"}
Broken  == {"?"}
RECURSIVE Defined(_, _)
Defined(e, names) ==
  \* the names defined behind e, or Broken
  LET then(done, x) == IF done = Broken THEN done ELSE Defined(x, done)
      all(xs)       == FoldLeft(then, names, xs)
      below         == CASE e.holds = "call" -> all(e.args)
                         [] e.holds = "block" -> all(e.statements)
                         [] e.holds \in {"variable_definition", "assignment", "return"} ->
                              Defined(e.expression, names)
                         [] OTHER -> names
  IN  IF \/ Uses(e) /\ e.id \notin names
         \/ e = NULL
         \/ e.holds = "call" /\ Len(e.args) > Registers
      THEN Broken
      ELSE IF e.holds = "variable_definition" /\ below # Broken THEN below \cup {e.id} ELSE below

Sound(function) == function.params <= Registers /\ Defined(Body(function), {}) # Broken

\* A variable depends on those in its expressions.
Depends(function) ==
  LET bindings == Bindings(Body(function))
  IN  [node |-> {b.id : b \in bindings} \cup {x.id : x \in {y \in Nodes(Body(function)) : y.holds = "identifier"}},
       edge |-> UNION {{<<b.id, x.id>> : x \in {y \in Nodes(b.expression) : y.holds = "identifier"}} :
                         b \in bindings}]

\* Variables have names of their own and hold what has no effect and does not change.
Simple(function) ==
  LET body == Body(function)
  IN  /\ DefinesOutside(body)
      /\ \A b \in Bindings(body) : b.expression.holds \in {"int_literal", "str_literal", "addrof"}
      /\ LET defs == SelectSeq(Within(body), LAMBDA x : x.holds = "variable_definition")
         IN  \A j, k \in DOMAIN defs : defs[j].id = defs[k].id => j = k

\* Evaluation, with variables that hold values.  s: the variables in order of their
\* definition, with the value they had there; the value of each now; the calls made; is
\* the function left; and the value of the last expression.
RECURSIVE Eval(_, _)
Eval(s, e) ==
  LET value(v) == [s EXCEPT !.value = v]
      slot(x)  == SelectInSeq(s.variables, LAMBDA y : y.id = x) - 1
  IN  IF s.left THEN s ELSE
      CASE e.holds = "int_literal" -> value(<<"int", e.value>>)
        [] e.holds = "str_literal" -> value(<<"str", cstr(e.value)>>)
        [] e.holds = "identifier"  -> value(s.now[e.id])
        [] e.holds = "addrof"      -> value(<<"address", slot(e.id)>>)
        [] e.holds = "variable_definition" ->
             LET t == Eval(s, e.expression)
             IN  [t EXCEPT !.variables = Append(@, [id |-> e.id, value |-> t.value]),
                           !.now = (e.id :> t.value) @@ @]
        [] e.holds = "assignment" ->
             LET t == Eval(s, e.expression) IN [t EXCEPT !.now = (e.id :> t.value) @@ @]
        [] e.holds = "call" ->
             LET arg(t, x) == LET r == Eval(t, x) IN [r EXCEPT !.args = Append(t.args, r.value)]
                 t == FoldLeft(arg, [s EXCEPT !.args = <<>>], e.args)
             IN  [t EXCEPT !.calls = Append(@, [id |-> e.id, args |-> t.args, node |-> e]),
                           !.value = <<"result", Len(t.calls) + 1>>, !.args = s.args]
        [] e.holds = "block"  -> FoldLeft(Eval, s, e.statements)
        [] e.holds = "return" -> [Eval(s, e.expression) EXCEPT !.left = TRUE]

Meaning(function) ==
  Eval([variables |-> <<>>, now |-> <<>>, calls |-> <<>>, args |-> <<>>, value |-> Garbage,
        left |-> FALSE], Body(function))

-----------------------------------------------------------------------------
(***************************************************************************)
(* Properties.                                                             *)
(***************************************************************************)

Ended == mode # "running"

\* A label stands for one literal, which stands in one place of .rodata, and every push
\* of a label for the literal it was generated from, as far as strcmp can tell them
\* apart: of two that differ behind a NUL the first is taken (generate_literal).
StringsDefinedOnce ==
  /\ \A j, k \in DOMAIN rodata :
       rodata[j].label = rodata[k].label \/ cstr(rodata[j].bytes) = cstr(rodata[k].bytes) => j = k
  /\ \A t \in DOMAIN text :
       text[t].op = "push string" =>
         \E k \in DOMAIN rodata : /\ rodata[k].label = text[t].a
                                  /\ cstr(rodata[k].bytes) = cstr(text[t].of)

\* The statements of a block and of those in it; a call and an assignment leave a value.
RECURSIVE Flat(_)
Flat(statements) ==
  FlattenSeq([k \in DOMAIN statements |->
    IF statements[k].holds = "block" THEN Flat(statements[k].statements) ELSE <<statements[k]>>])

Leftover(function) ==
  Len(SelectSeq(Flat(function.block), LAMBDA st : st.holds \in {"call", "assignment"}))

\* The code of a function never pops a word of its frame, or above it, and ends with
\* what its statements have left, as long as no definition is an operand: that pushes
\* nothing where a value is popped (generate_variable_definition).  A return pops its own.
StackKept ==
  Ended =>
    \A k \in DOMAIN Begun :
      DefinesOutside(Body(Begun[k])) =>
        LET m == Outcome(k)
        IN  /\ m.high < -m.frame
            /\ mode = "done" /\ "return" \notin Kinds(Body(Begun[k])) =>
                 m.sp = -m.frame - Leftover(Begun[k])

\* The generator comes through exactly with sources in which each variable is defined
\* before it is used, and a parameter never - unless variables are defined by each
\* other, as an expression is generated again at each use of its variable
\* (generate_identifier, generate_assignment).
GeneratedIff ==
  LET functions == ToSet(SelectSeq(unit, LAMBDA st : st.holds = "function_definition"))
      acyclic   == \A f \in functions : DG!IsDag(Depends(f))
  IN  /\ mode = "done" => \A f \in functions : Sound(f)
      /\ mode = "overflow" => ~acyclic
      /\ mode \in {"aborted", "crashed", "overrun"} => \E f \in functions : ~Sound(f)

\* Run, the code of a function makes the calls of its source, with the arguments and
\* results of the source, and returns its value - but an argument is lost in the call
\* of a later one, and what a reference points to is what the variable was defined
\* with, if that is in the frame (generate_statement_expression_call, _reference).
CallsAreTheSource ==
  mode = "done" =>
    \A k \in DOMAIN Begun :
      Simple(Begun[k]) =>
        LET m == Outcome(k)
            s == Meaning(Begun[k])
            Lost(call, a) == \E b \in a + 1 .. Len(call.args) : "call" \in Kinds(call.node.args[b])
            Arrives(j, a) == m.calls[j].args[a - 1] = s.calls[j].args[a]
        IN  /\ Len(m.calls) = Len(s.calls)
            /\ \A j \in DOMAIN m.calls :
                 /\ m.calls[j].id = s.calls[j].id
                 /\ \A a \in DOMAIN s.calls[j].args :
                      /\ Arrives(j, a) <=> ~Lost(s.calls[j], a)
                      /\ LET v == s.calls[j].args[a]
                         IN  v[1] = "address" /\ v[2] < m.frame /\ ~Lost(s.calls[j], a) =>
                               m.calls[j].targets[a - 1] = s.variables[v[2] + 1].value
            /\ s.left => m.rax = s.value
=============================================================================
