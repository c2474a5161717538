---------------------------- MODULE CheckerProofs ----------------------------
(***************************************************************************)
(* The checker on every unit: its pointer into the IR is current, names    *)
(* are declared once, blocks lie in order, and it implements SymbolTable.  *)
(***************************************************************************)
EXTENDS Checker, TLAPS

-----------------------------------------------------------------------------
(***************************************************************************)
(* Sequences of whatever there is.                                         *)
(***************************************************************************)

IsSeq(q) == \E S : q \in Seq(S)

LEMMA SeqFacts ==
  ASSUME NEW q, IsSeq(q)
  PROVE  Len(q) \in Nat /\ DOMAIN q = 1 .. Len(q)
BY DEF IsSeq

LEMMA EmptyFacts == IsSeq(<<>>) /\ Len(<<>>) = 0 /\ DOMAIN <<>> = 1 .. 0
<1>1. <<>> \in Seq({})
  OBVIOUS
<1> QED
  BY <1>1 DEF IsSeq

LEMMA AppendFacts ==
  ASSUME NEW q, IsSeq(q), NEW e
  PROVE  /\ IsSeq(Append(q, e))
         /\ Len(Append(q, e)) = Len(q) + 1
         /\ DOMAIN Append(q, e) = 1 .. Len(q) + 1
         /\ \A k \in 1 .. Len(q) : Append(q, e)[k] = q[k]
         /\ Append(q, e)[Len(q) + 1] = e
         /\ Append(q, e) # <<>>
<1>1. PICK S : q \in Seq(S)
  BY DEF IsSeq
<1>2. q \in Seq(S \cup {e}) /\ e \in S \cup {e}
  BY <1>1
<1>3. Append(q, e) \in Seq(S \cup {e})
  BY <1>2
<1>4. /\ Len(Append(q, e)) = Len(q) + 1
      /\ \A k \in 1 .. Len(q) : Append(q, e)[k] = q[k]
      /\ Append(q, e)[Len(q) + 1] = e
  BY <1>2
<1> QED
  BY <1>2, <1>3, <1>4 DEF IsSeq

LEMMA ExceptFacts ==
  ASSUME NEW q, IsSeq(q), NEW n \in 1 .. Len(q), NEW e
  PROVE  LET r == [q EXCEPT ![n] = e]
         IN  /\ IsSeq(r)
             /\ Len(r) = Len(q)
             /\ DOMAIN r = 1 .. Len(q)
             /\ \A k \in 1 .. Len(q) : k # n => r[k] = q[k]
             /\ r[n] = e
<1>1. PICK S : q \in Seq(S)
  BY DEF IsSeq
<1>2. q \in Seq(S \cup {e}) /\ e \in S \cup {e} /\ DOMAIN q = 1 .. Len(q) /\ Len(q) \in Nat
  BY <1>1
<1>3. [q EXCEPT ![n] = e] \in Seq(S \cup {e})
  BY <1>2
<1>4. Len([q EXCEPT ![n] = e]) = Len(q)
  BY <1>2
<1> QED
  BY <1>2, <1>3, <1>4 DEF IsSeq

\* A growth by one element counts it.
LEMMA GrowFacts ==
  ASSUME NEW h \in Headers
  PROVE  grow_impl(h, 1) \in Headers /\ grow_impl(h, 1).count = h.count + 1
<1>1. PICK n \in Nat, m \in Nat, r \in Nat : h = [count |-> n, capacity |-> m, room |-> r]
  BY DEF Headers
<1>2. Grown(1 * m) \in Nat
  BY <1>1 DEF Grown
<1>3. CASE Grows(h, 1)
  <2>1. grow_impl(h, 1) = [count |-> n + 1, capacity |-> Grown(1 * m), room |-> Grown(1 * m)]
    BY <1>1, <1>3 DEF grow_impl, resize_impl
  <2> QED
    BY <1>1, <1>2, <2>1 DEF Headers
<1>4. CASE ~Grows(h, 1)
  <2>1. grow_impl(h, 1) = [count |-> n + 1, capacity |-> m, room |-> r]
    BY <1>1, <1>4 DEF grow_impl
  <2> QED
    BY <1>1, <2>1 DEF Headers
<1> QED
  BY <1>3, <1>4

-----------------------------------------------------------------------------
(***************************************************************************)
(* The inductive invariant.                                                *)
(***************************************************************************)

\* What is in a function whose body is finished, and in the one whose body is not.
Numbered(fn) ==
  \A b \in 1 .. Len(fn.blocks) : /\ fn.blocks[b].id = b - 1
                                 /\ Len(fn.blocks[b].instructions) <= 1

Finished(fn) ==
  /\ Numbered(fn)
  /\ \A b \in 1 .. Len(fn.blocks) : b < Len(fn.blocks) => Len(fn.blocks[b].instructions) = 1
  /\ fn.tmp_counter = Len(fn.blocks)
  /\ fn.is_declaration => Len(fn.blocks) = 0

Unfinished(fn) ==
  /\ Numbered(fn)
  /\ \A b \in 1 .. Len(fn.blocks) : Len(fn.blocks[b].instructions) = 1
  /\ fn.tmp_counter = Len(fn.blocks) + 1
  /\ fn.is_declaration => Len(fn.blocks) = 0

Open(f) == mode \in {"block", "aborted", "crashed"} /\ f = Len(functions)

\* On entering a body, nothing has been written yet.
Fresh == mode = "enter" => parent.blocks = <<>> /\ parent.tmp_counter = 0

IInv ==
  /\ unit \in Units
  /\ IsSeq(functions)
  /\ \A f \in 1 .. Len(functions) : IsSeq(functions[f].blocks)
  /\ InBody => s <= Len(unit) /\ Len(functions) > 0
  /\ mode = "unit" => s <= Len(unit) + 1
  /\ Fresh
  /\ TypeOK
  /\ ParentIsCurrent
  /\ DeclaredOnce
  /\ BlocksInOrder

LEMMA BlocksByFunction ==
  BlocksInOrder <=>
    \A f \in DOMAIN functions :
      /\ ~Open(f) => Finished(functions[f])
      /\ Open(f) => /\ Unfinished(functions[f])
                    /\ new_block = EmptyBlock(Len(functions[f].blocks))
BY DEF BlocksInOrder, Numbered, Finished, Unfinished, Open

LEMMA BlocksPrimed ==
  BlocksInOrder' <=>
    \A f \in DOMAIN functions' :
      /\ ~Open(f)' => Finished(functions'[f])
      /\ Open(f)' => /\ Unfinished(functions'[f])
                     /\ new_block' = EmptyBlock(Len(functions'[f].blocks))
BY DEF BlocksInOrder, Numbered, Finished, Unfinished, Open

LEMMA InitIInv == Init => IInv
<1> SUFFICES ASSUME Init PROVE IInv
  OBVIOUS
<1>1. /\ functions = <<>> /\ IsSeq(functions) /\ Len(functions) = 0 /\ DOMAIN functions = 1 .. 0
      /\ 1 .. 0 = {}
  BY EmptyFacts DEF Init
<1>2. array \in Headers /\ array.count = 0
  BY DEF Init, new_impl, Grown, Headers
<1>3. unit \in Units /\ Len(unit) \in Nat
  BY UnitAssumption DEF Init
<1>4. TypeOK
  BY <1>1, <1>2, <1>3 DEF Init, TypeOK, Final
<1>5. ParentIsCurrent /\ DeclaredOnce /\ BlocksInOrder /\ Fresh
  BY <1>1 DEF Init, ParentIsCurrent, DeclaredOnce, BlocksInOrder, InBody, Fresh
<1> QED
  BY <1>1, <1>3, <1>4, <1>5 DEF IInv, Init, InBody

\* What the parts of the invariant say together of the state a step starts from.
LEMMA Facts ==
  ASSUME IInv
  PROVE  /\ Len(functions) \in Nat /\ DOMAIN functions = 1 .. Len(functions)
         /\ Len(unit) \in Nat /\ s \in Nat /\ i \in Nat /\ i > 0 /\ diags \in Nat
         /\ mode # "unit" /\ InBody => is_definition
         /\ s <= Len(unit) /\ is_definition => Len(statement.headers) = 1
         /\ s <= Len(unit) => Len(statement.headers) \in Nat
<1>1. Len(functions) \in Nat /\ DOMAIN functions = 1 .. Len(functions)
  BY SeqFacts DEF IInv
<1>2. Len(unit) \in Nat
  BY UnitAssumption DEF IInv
<1>3. s \in 1 .. Len(unit) + 1 /\ i \in Nat /\ i > 0 /\ diags \in Nat
  BY DEF IInv, TypeOK
<1>4. s <= Len(unit) => s \in 1 .. Len(unit)
  BY <1>2, <1>3
<1>5. s <= Len(unit) => /\ Len(statement.headers) \in Nat
                        /\ is_definition => Len(statement.headers) = 1
  BY <1>4, UnitAssumption DEF IInv, statement, is_definition
<1>6. InBody => is_definition
  BY DEF IInv, ParentIsCurrent
<1> QED
  BY <1>1, <1>2, <1>3, <1>5, <1>6

\* A header with a new name: the function that is pushed is the last one, empty,
\* and parent_fn points to it.
LEMMA DeclareStep == ASSUME IInv, Declare PROVE IInv'
<1> DEFINE fn == [header |-> header, is_declaration |-> ~is_definition,
                  blocks |-> <<>>, tmp_counter |-> 0]
           n  == Len(functions)
<1>1. /\ AtHeader /\ ~Redeclares
      /\ functions' = Append(functions, fn)
      /\ array' = grow_impl(array, 1)
      /\ place' \in {place, place + 1}
      /\ parent_fn' = [place |-> place', at |-> Len(functions')]
      /\ mode' = IF is_definition THEN "enter" ELSE "unit"
      /\ i' = IF is_definition THEN 1 ELSE i + 1
      /\ UNCHANGED <<unit, s, new_block, success, diags>>
  BY DEF Declare
<1>2. /\ n \in Nat /\ DOMAIN functions = 1 .. n /\ Len(unit) \in Nat /\ s \in Nat /\ i \in Nat /\ i > 0
      /\ is_definition => Len(statement.headers) = 1
      /\ s <= Len(unit) /\ mode = "unit" /\ i <= Len(statement.headers)
  BY <1>1, Facts DEF AtHeader
<1>3. /\ IsSeq(functions') /\ Len(functions') = n + 1 /\ DOMAIN functions' = 1 .. n + 1
      /\ \A k \in 1 .. n : functions'[k] = functions[k]
      /\ functions'[n + 1] = fn
  <2>1. IsSeq(functions)
    BY DEF IInv
  <2> HIDE DEF fn
  <2> QED
    BY <1>1, <2>1, AppendFacts
<1>4. fn.header = header /\ fn.is_declaration = ~is_definition /\ fn.blocks = <<>> /\ fn.tmp_counter = 0
  OBVIOUS
<1>5. \A k \in 1 .. n + 1 : k \in 1 .. n \/ k = n + 1
  BY <1>2
<1>6. is_definition => i = 1 /\ header = statement.headers[1]
  <2>1. is_definition => i <= 1
    BY <1>2
  <2>2. is_definition => i = 1
    BY <1>2, <2>1
  <2> QED
    BY <2>2 DEF header
<1>7. IsSeq(<<>>) /\ Len(<<>>) = 0
  BY EmptyFacts
<1>8. \A k \in 1 .. Len(functions') : IsSeq(functions'[k].blocks)
  BY <1>3, <1>4, <1>5, <1>7 DEF IInv
<1>9. TypeOK'
  <2>1. array' \in Headers /\ array'.count = n + 1
    BY <1>1, GrowFacts DEF IInv, TypeOK
  <2>2. place' \in Nat /\ parent_fn'.place = place' /\ parent_fn'.at = n + 1
    BY <1>1, <1>3 DEF IInv, TypeOK
  <2>3. \A f \in DOMAIN functions' : /\ functions'[f].is_declaration \in BOOLEAN
                                     /\ functions'[f].tmp_counter \in Nat
    <3>1. (~is_definition) \in BOOLEAN /\ 0 \in Nat
      BY DEF is_definition
    <3>2. functions'[n + 1].is_declaration \in BOOLEAN /\ functions'[n + 1].tmp_counter \in Nat
      BY <1>3, <1>4, <3>1
    <3>3. \A f \in 1 .. n : functions[f].is_declaration \in BOOLEAN /\ functions[f].tmp_counter \in Nat
      BY <1>2 DEF IInv, TypeOK
    <3> HIDE DEF fn
    <3> QED
      BY <1>3, <1>5, <3>2, <3>3
  <2>4. mode' \in {"unit", "enter"} /\ i' \in Nat \ {0}
    BY <1>1, <1>2
  <2> QED
    BY <1>1, <1>2, <1>3, <2>1, <2>2, <2>3, <2>4 DEF IInv, TypeOK
<1>10. ParentIsCurrent' /\ Fresh'
  <2>1. CASE ~is_definition
    BY <1>1, <2>1 DEF ParentIsCurrent, Fresh, InBody
  <2>2. CASE is_definition
    <3>1. parent' = fn /\ parent_fn'.at = n + 1 /\ parent_fn' = [place |-> place', at |-> n + 1]
      BY <1>1, <1>3 DEF parent
    <3>2. is_definition' /\ statement' = statement
      BY <1>1, <2>2 DEF is_definition, statement
    <3> QED
      BY <1>3, <1>4, <1>6, <2>2, <3>1, <3>2 DEF ParentIsCurrent, Fresh
  <2> QED
    BY <2>1, <2>2
<1>11. DeclaredOnce'
  <2>1. \A f \in 1 .. n : functions[f].header.mangled # fn.header.mangled
    BY <1>1, <1>2, <1>4 DEF Redeclares
  <2>2. ASSUME NEW f \in 1 .. n + 1, NEW g \in 1 .. n + 1,
               functions'[f].header.mangled = functions'[g].header.mangled
        PROVE  f = g
    <3>1. CASE f \in 1 .. n /\ g \in 1 .. n
      BY <1>2, <1>3, <2>2, <3>1 DEF IInv, DeclaredOnce
    <3>2. CASE f = n + 1 \/ g = n + 1
      BY <1>3, <1>5, <2>1, <2>2, <3>2
    <3> QED
      BY <1>5, <3>1, <3>2
  <2>3. mode' \notin {"passed", "failed"}
    BY <1>1
  <2> HIDE DEF fn
  <2> QED
    BY <1>1, <1>3, <2>2, <2>3 DEF IInv, DeclaredOnce
<1>12. BlocksInOrder'
  <2>1. \A f \in 1 .. n + 1 : ~Open(f)'
    BY <1>1 DEF Open
  <2>2. \A f \in 1 .. n : Finished(functions[f])
    BY <1>2, BlocksByFunction DEF IInv, Open
  <2>3. Finished(fn)
    BY <1>4, <1>7 DEF Finished, Numbered
  <2>4. \A f \in 1 .. n + 1 : Finished(functions'[f])
    <3> HIDE DEF fn
    <3> QED
      BY <1>3, <1>5, <2>2, <2>3
  <2> QED
    BY <1>3, <2>1, <2>4, BlocksPrimed
<1>13. unit' \in Units /\ (InBody => s <= Len(unit) /\ Len(functions) > 0)' /\ (mode = "unit" => s <= Len(unit) + 1)'
  BY <1>1, <1>2, <1>3 DEF IInv
<1> QED
  BY <1>3, <1>8, <1>9, <1>10, <1>11, <1>12, <1>13 DEF IInv

\* A step that leaves the IR and the pointer alone, in a mode that has the same
\* block open.
LEMMA QuietStep ==
  ASSUME IInv, UNCHANGED <<unit, functions, array, place, parent_fn, new_block>>,
         mode' \in {"unit", "enter", "block"} \cup Final,
         mode' \in {"unit", "passed", "failed"} <=> mode = "unit",
         mode' \in {"block", "aborted", "crashed"} <=> mode = "block",
         InBody' => InBody /\ s' = s,
         mode' = "unit" => s' <= Len(unit) + 1,
         s' \in 1 .. Len(unit) + 1, i' \in Nat \ {0},
         success' \in BOOLEAN, diags' \in Nat, success' <=> diags' = 0,
         mode' = "passed" => success', mode' = "failed" => ~success',
         mode \notin Final
  PROVE  IInv'
<1>1. functions' = functions /\ DOMAIN functions = 1 .. Len(functions) /\ Len(functions) \in Nat
  BY Facts
<1>2. TypeOK'
  BY <1>1 DEF IInv, TypeOK
<1>3. ParentIsCurrent' /\ Fresh'
  <2>1. CASE InBody'
    <3>1. /\ is_definition /\ is_definition' = is_definition /\ statement' = statement
          /\ parent' = parent
      BY <2>1 DEF IInv, ParentIsCurrent, is_definition, statement, parent
    <3>2. mode' = "enter" => mode = "enter"
      BY <2>1 DEF InBody
    <3> QED
      BY <1>1, <2>1, <3>1, <3>2 DEF IInv, ParentIsCurrent, Fresh
  <2>2. CASE ~InBody'
    BY <2>2 DEF ParentIsCurrent, Fresh, InBody
  <2> QED
    BY <2>1, <2>2
<1>4. DeclaredOnce'
  BY <1>1 DEF IInv, DeclaredOnce
<1>5. BlocksInOrder'
  <2>1. \A f : Open(f)' <=> Open(f)
    BY <1>1 DEF Open, Final
  <2> QED
    BY <1>1, <2>1, BlocksByFunction, BlocksPrimed DEF IInv
<1> QED
  BY <1>1, <1>2, <1>3, <1>4, <1>5 DEF IInv

\* A step of check_block that writes through parent_fn.
LEMMA WriteFacts ==
  ASSUME IInv, InBody, NEW blocks, NEW counter, functions' = Parent(blocks, counter)
  PROVE  LET n  == Len(functions)
             fn == [header |-> parent.header, is_declaration |-> parent.is_declaration,
                    blocks |-> blocks, tmp_counter |-> counter]
         IN  /\ n \in Nat /\ n > 0 /\ parent_fn.at = n /\ parent = functions[n]
             /\ IsSeq(functions') /\ Len(functions') = n /\ DOMAIN functions' = 1 .. n
             /\ DOMAIN functions = 1 .. n
             /\ \A k \in 1 .. n : k # n => functions'[k] = functions[k]
             /\ functions'[n] = fn
             /\ ~parent.is_declaration
<1> DEFINE n  == Len(functions)
           fn == [header |-> parent.header, is_declaration |-> parent.is_declaration,
                  blocks |-> blocks, tmp_counter |-> counter]
<1>1. n \in Nat /\ n > 0 /\ DOMAIN functions = 1 .. n /\ IsSeq(functions)
  BY Facts DEF IInv
<1>2. parent_fn.at = n /\ parent = functions[n] /\ ~parent.is_declaration
  BY DEF IInv, ParentIsCurrent, parent
<1>3. functions' = [functions EXCEPT ![n] = fn]
  BY <1>2 DEF Parent
<1>4. n \in 1 .. n
  BY <1>1
<1>5. /\ IsSeq(functions') /\ Len(functions') = n /\ DOMAIN functions' = 1 .. n
      /\ \A k \in 1 .. n : k # n => functions'[k] = functions[k]
      /\ functions'[n] = fn
  <2> HIDE DEF fn, n
  <2>1. n = Len(functions)
    BY DEF n
  <2>2. IsSeq(functions) /\ n \in 1 .. Len(functions)
    BY <1>1, <1>4, <2>1
  <2>3. LET r == [functions EXCEPT ![n] = fn]
        IN  /\ IsSeq(r) /\ Len(r) = Len(functions) /\ DOMAIN r = 1 .. Len(functions)
            /\ \A k \in 1 .. Len(functions) : k # n => r[k] = functions[k]
            /\ r[n] = fn
    BY <2>2, ExceptFacts
  <2> QED
    BY <1>3, <2>1, <2>3
<1> QED
  BY <1>1, <1>2, <1>5

\* What such a step keeps, if it leaves the blocks a sequence.
LEMMA WriteStep ==
  ASSUME IInv, InBody, NEW blocks, NEW counter, functions' = Parent(blocks, counter),
         IsSeq(blocks), counter \in Nat,
         UNCHANGED <<unit, array, place, parent_fn, success, diags>>,
         mode' \in {"unit", "block"}, mode' = "block" => s' = s,
         s' \in 1 .. Len(unit) + 1, i' \in Nat \ {0},
         mode' = "unit" => Finished([header |-> parent.header, is_declaration |-> FALSE,
                                     blocks |-> blocks, tmp_counter |-> counter]),
         mode' = "block" => /\ Unfinished([header |-> parent.header, is_declaration |-> FALSE,
                                           blocks |-> blocks, tmp_counter |-> counter])
                            /\ new_block' = EmptyBlock(Len(blocks))
  PROVE  IInv'
<1> DEFINE n  == Len(functions)
           fn == [header |-> parent.header, is_declaration |-> parent.is_declaration,
                  blocks |-> blocks, tmp_counter |-> counter]
<1>1. /\ n \in Nat /\ n > 0 /\ parent_fn.at = n /\ parent = functions[n]
      /\ IsSeq(functions') /\ Len(functions') = n /\ DOMAIN functions' = 1 .. n
      /\ DOMAIN functions = 1 .. n
      /\ \A k \in 1 .. n : k # n => functions'[k] = functions[k]
      /\ functions'[n] = fn
      /\ ~parent.is_declaration
  BY WriteFacts
<1>2. parent.is_declaration = FALSE /\ n \in 1 .. n
  <2>0. n \in Nat /\ n > 0
    BY <1>1
  <2>1. n \in 1 .. n
    BY <2>0
  <2>2. functions[n].is_declaration \in BOOLEAN
    BY <1>1, <2>1 DEF IInv, TypeOK
  <2>3. ~functions[n].is_declaration
    BY <1>1
  <2>4. functions[n].is_declaration = FALSE
    BY <2>2, <2>3
  <2> QED
    BY <1>1, <2>1, <2>4
<1>3. /\ fn.header = functions[n].header /\ fn.blocks = blocks /\ fn.tmp_counter = counter
      /\ fn.is_declaration = FALSE
  BY <1>1, <1>2
<1>4. fn = [header |-> parent.header, is_declaration |-> FALSE,
            blocks |-> blocks, tmp_counter |-> counter]
  BY <1>2
<1>5. s <= Len(unit) /\ Len(unit) \in Nat /\ mode \in {"enter", "block"}
  BY Facts DEF IInv, InBody
<1> HIDE DEF fn
<1>6. TypeOK'
  <2>1. \A f \in DOMAIN functions' : /\ functions'[f].is_declaration \in BOOLEAN
                                     /\ functions'[f].tmp_counter \in Nat
    <3>1. \A f \in 1 .. n : functions[f].is_declaration \in BOOLEAN /\ functions[f].tmp_counter \in Nat
      BY <1>1 DEF IInv, TypeOK
    <3> QED
      BY <1>1, <1>3, <3>1
  <2> QED
    BY <1>1, <2>1 DEF IInv, TypeOK
<1>7. \A k \in 1 .. Len(functions') : IsSeq(functions'[k].blocks)
  BY <1>1, <1>3 DEF IInv
<1>8. ParentIsCurrent' /\ Fresh'
  <2>1. CASE mode' = "unit"
    BY <2>1 DEF ParentIsCurrent, Fresh, InBody
  <2>2. CASE mode' = "block"
    <3>1. is_definition' = is_definition /\ statement' = statement /\ is_definition
      BY <2>2 DEF IInv, ParentIsCurrent, is_definition, statement
    <3>2. parent' = fn /\ parent_fn' = [place |-> place', at |-> n]
      BY <1>1 DEF IInv, ParentIsCurrent, parent
    <3>3. parent.header = statement.headers[1]
      BY DEF IInv, ParentIsCurrent
    <3>4. fn.header = parent.header /\ ~fn.is_declaration
      BY <1>1, <1>3
    <3> QED
      BY <1>1, <2>2, <3>1, <3>2, <3>3, <3>4 DEF ParentIsCurrent, Fresh
  <2> QED
    BY <2>1, <2>2
<1>9. DeclaredOnce'
  <2>1. \A f \in 1 .. n : functions'[f].header = functions[f].header
    BY <1>1, <1>3
  <2>2. mode' \notin {"passed", "failed"}
    OBVIOUS
  <2> QED
    BY <1>1, <2>1, <2>2, ZenonT(40) DEF IInv, DeclaredOnce
<1>10. BlocksInOrder'
  <2>1. \A f \in 1 .. n : f # n => Finished(functions[f])
    BY <1>1, BlocksByFunction DEF IInv, Open
  <2>2. \A f \in 1 .. n : f # n => ~Open(f)' /\ Finished(functions'[f])
    BY <1>1, <2>1 DEF Open
  <2>3. CASE mode' = "unit"
    <3>1. \A f : ~Open(f)'
      BY <2>3 DEF Open
    <3>2. Finished(functions'[n])
      BY <1>1, <1>4, <2>3
    <3> QED
      BY <1>1, <2>2, <3>1, <3>2, BlocksPrimed
  <2>4. CASE mode' = "block"
    <3>1. Open(n)'
      BY <1>1, <2>4 DEF Open
    <3>2. Unfinished(functions'[n]) /\ new_block' = EmptyBlock(Len(functions'[n].blocks))
      BY <1>1, <1>3, <1>4, <2>4
    <3> QED
      BY <1>1, <2>2, <3>1, <3>2, BlocksPrimed
  <2> QED
    BY <2>3, <2>4
<1>11. /\ unit' \in Units
       /\ InBody' => s' <= Len(unit') /\ Len(functions') > 0
       /\ mode' = "unit" => s' <= Len(unit') + 1
  <2>1. unit' = unit /\ unit \in Units /\ s' \in 1 .. Len(unit) + 1 /\ Len(functions') > 0
    BY <1>1 DEF IInv
  <2>2. mode' = "block" => s' <= Len(unit)
    BY <1>5
  <2> QED
    BY <1>5, <2>1, <2>2 DEF InBody
<1> QED
  BY <1>1, <1>6, <1>7, <1>8, <1>9, <1>10, <1>11 DEF IInv

\* The open function, as check_block finds it.
LEMMA OpenFacts ==
  ASSUME IInv, InBody
  PROVE  /\ IsSeq(parent.blocks) /\ Len(parent.blocks) \in Nat
         /\ mode = "enter" => parent.blocks = <<>> /\ parent.tmp_counter = 0
         /\ mode = "block" => /\ Unfinished(parent)
                              /\ new_block = EmptyBlock(Len(parent.blocks))
<1>1. Len(functions) \in Nat /\ Len(functions) > 0 /\ DOMAIN functions = 1 .. Len(functions)
  BY Facts DEF IInv
<1>2. parent = functions[Len(functions)] /\ Len(functions) \in 1 .. Len(functions)
  BY <1>1 DEF IInv, ParentIsCurrent, parent
<1>3. IsSeq(parent.blocks)
  BY <1>2 DEF IInv
<1>4. mode = "block" => Open(Len(functions))
  BY DEF Open
<1> QED
  BY <1>1, <1>2, <1>3, <1>4, SeqFacts, BlocksByFunction DEF IInv, Fresh

LEMMA EnterStep == ASSUME IInv, Enter PROVE IInv'
<1>1. /\ mode = "enter" /\ InBody /\ IsSeq(parent.blocks)
      /\ parent.blocks = <<>> /\ parent.tmp_counter = 0
  BY OpenFacts DEF Enter, InBody
<1>2. functions' = Parent(<<>>, 1) /\ new_block' = EmptyBlock(0) /\ mode' = "block"
  BY <1>1 DEF Enter
<1>3. IsSeq(<<>>) /\ Len(<<>>) = 0
  BY EmptyFacts
<1>4. Unfinished([header |-> parent.header, is_declaration |-> FALSE,
                  blocks |-> <<>>, tmp_counter |-> 1])
  BY <1>3 DEF Unfinished, Numbered
<1>5. UNCHANGED <<unit, s, i, array, place, parent_fn, success, diags>>
  BY DEF Enter
<1>6. s' \in 1 .. Len(unit) + 1 /\ i' \in Nat \ {0}
  BY <1>5 DEF IInv, TypeOK
<1> QED
  BY <1>1, <1>2, <1>3, <1>4, <1>5, <1>6, WriteStep

\* A block pushed behind those that are there.
LEMMA PushBlock ==
  ASSUME NEW blocks, IsSeq(blocks), NEW counter, NEW head, NEW block,
         Unfinished([header |-> head, is_declaration |-> FALSE,
                     blocks |-> blocks, tmp_counter |-> counter]),
         block.id = Len(blocks)
  PROVE  LET more == Append(blocks, block)
         IN  /\ IsSeq(more) /\ Len(more) = Len(blocks) + 1 /\ counter = Len(blocks) + 1
             /\ Len(block.instructions) = 1 =>
                  Unfinished([header |-> head, is_declaration |-> FALSE,
                              blocks |-> more, tmp_counter |-> counter + 1])
             /\ Len(block.instructions) = 0 =>
                  Finished([header |-> head, is_declaration |-> FALSE,
                            blocks |-> more, tmp_counter |-> counter])
<1> DEFINE n    == Len(blocks)
           more == Append(blocks, block)
<1>1. /\ n \in Nat /\ IsSeq(more) /\ Len(more) = n + 1
      /\ \A k \in 1 .. n : more[k] = blocks[k]
      /\ more[n + 1] = block
  BY SeqFacts, AppendFacts
<1>2. /\ \A b \in 1 .. n : blocks[b].id = b - 1 /\ Len(blocks[b].instructions) = 1
      /\ counter = n + 1
  BY DEF Unfinished, Numbered
<1>3. \A b \in 1 .. n + 1 : b \in 1 .. n \/ b = n + 1
  BY <1>1
<1> HIDE DEF n, more
<1>4. /\ \A b \in 1 .. n + 1 : more[b].id = b - 1
      /\ \A b \in 1 .. n : Len(more[b].instructions) = 1
      /\ Len(more[n + 1].instructions) = Len(block.instructions)
  <2>1. more[n + 1].id = n
    BY <1>1 DEF n
  <2>2. \A b \in 1 .. n : more[b].id = b - 1 /\ Len(more[b].instructions) = 1
    BY <1>1, <1>2
  <2> QED
    BY <1>1, <1>3, <2>1, <2>2
<1>5. ASSUME Len(block.instructions) = 1
      PROVE  Unfinished([header |-> head, is_declaration |-> FALSE,
                         blocks |-> more, tmp_counter |-> counter + 1])
  <2>1. \A b \in 1 .. n + 1 : Len(more[b].instructions) = 1
    BY <1>3, <1>4, <1>5
  <2>0. \A x : x = 1 => x <= 1
    OBVIOUS
  <2>2. \A b \in 1 .. n + 1 : Len(more[b].instructions) <= 1
    BY <2>0, <2>1, Zenon
  <2> QED
    BY <1>1, <1>2, <1>4, <2>1, <2>2 DEF Unfinished, Numbered
<1>6. ASSUME Len(block.instructions) = 0
      PROVE  Finished([header |-> head, is_declaration |-> FALSE,
                       blocks |-> more, tmp_counter |-> counter])
  <2>1. \A b \in 1 .. n + 1 : Len(more[b].instructions) <= 1
    <3>0. \A x : x = 1 => x <= 1
      OBVIOUS
    <3>1. \A b \in 1 .. n : Len(more[b].instructions) <= 1
      BY <1>4, <3>0, Zenon
    <3>2. Len(more[n + 1].instructions) <= 1
      BY <1>4, <1>6
    <3> QED
      BY <1>3, <3>1, <3>2
  <2>2. \A b \in 1 .. n + 1 : b < n + 1 => b \in 1 .. n
    BY <1>1
  <2> QED
    BY <1>1, <1>2, <1>4, <2>1, <2>2 DEF Finished, Numbered
<1> QED
  BY <1>1, <1>2, <1>5, <1>6 DEF n, more

LEMMA UnfinishedParent ==
  ASSUME IInv, mode = "block"
  PROVE  Unfinished([header |-> parent.header, is_declaration |-> FALSE,
                     blocks |-> parent.blocks, tmp_counter |-> parent.tmp_counter])
<1>1. Unfinished(parent)
  BY OpenFacts DEF InBody
<1> QED
  BY <1>1 DEF Unfinished, Numbered

LEMMA CheckReturnStep == ASSUME IInv, CheckReturn PROVE IInv'
<1>1. /\ mode = "block" /\ InBody /\ IsSeq(parent.blocks) /\ Len(parent.blocks) \in Nat
      /\ new_block = EmptyBlock(Len(parent.blocks))
  BY OpenFacts DEF CheckReturn, InLoop, InBody
<1>2. Closed.id = Len(parent.blocks) /\ Len(Closed.instructions) = 1
  <2>1. new_block = [id |-> Len(parent.blocks), instructions |-> <<>>]
    BY <1>1 DEF EmptyBlock
  <2>2. \A e : Len(Append(<<>>, e)) = 1
    BY EmptyFacts, AppendFacts
  <2>3. Closed = [id |-> Len(parent.blocks),
                  instructions |-> Append(<<>>, [op |-> "RET",
                                                 operands |-> <<scope.expression.token>>])]
    BY <2>1 DEF Closed
  <2> QED
    BY <2>2, <2>3
<1>3. LET more == Append(parent.blocks, Closed)
      IN  /\ IsSeq(more) /\ Len(more) = Len(parent.blocks) + 1
          /\ parent.tmp_counter = Len(parent.blocks) + 1
          /\ Unfinished([header |-> parent.header, is_declaration |-> FALSE,
                         blocks |-> more, tmp_counter |-> parent.tmp_counter + 1])
  BY <1>1, <1>2, UnfinishedParent, PushBlock
<1>4. /\ functions' = Parent(Append(parent.blocks, Closed), parent.tmp_counter + 1)
      /\ new_block' = EmptyBlock(Len(Append(parent.blocks, Closed)))
      /\ mode' = "block" /\ i' = i + 1
      /\ UNCHANGED <<unit, s, array, place, parent_fn, success, diags>>
  BY <1>1, <1>3 DEF CheckReturn
<1>5. s' \in 1 .. Len(unit) + 1 /\ i' \in Nat \ {0} /\ parent.tmp_counter + 1 \in Nat
  BY <1>1, <1>3, <1>4 DEF IInv, TypeOK
<1> QED
  BY <1>1, <1>3, <1>4, <1>5, WriteStep

LEMMA EndBlockStep == ASSUME IInv, EndBlock PROVE IInv'
<1>1. /\ mode = "block" /\ InBody /\ IsSeq(parent.blocks) /\ Len(parent.blocks) \in Nat
      /\ new_block = EmptyBlock(Len(parent.blocks))
  BY OpenFacts DEF EndBlock, InBody
<1>2. new_block.id = Len(parent.blocks) /\ Len(new_block.instructions) = 0
  BY <1>1, EmptyFacts DEF EmptyBlock
<1>3. LET more == Append(parent.blocks, new_block)
      IN  /\ IsSeq(more)
          /\ parent.tmp_counter = Len(parent.blocks) + 1
          /\ Finished([header |-> parent.header, is_declaration |-> FALSE,
                       blocks |-> more, tmp_counter |-> parent.tmp_counter])
  BY <1>1, <1>2, UnfinishedParent, PushBlock, ZenonT(40)
<1>4. /\ functions' = Parent(Append(parent.blocks, new_block), parent.tmp_counter)
      /\ mode' = "unit" /\ s' = s + 1 /\ i' = 1
      /\ UNCHANGED <<unit, array, place, parent_fn, success, diags>>
  BY DEF EndBlock
<1>5. s \in Nat /\ s <= Len(unit) /\ Len(unit) \in Nat /\ s > 0
  BY <1>1, Facts DEF IInv, TypeOK
<1>6. s' \in 1 .. Len(unit) + 1 /\ i' \in Nat \ {0} /\ parent.tmp_counter \in Nat
  BY <1>1, <1>3, <1>4, <1>5
<1> QED
  BY <1>1, <1>3, <1>4, <1>6, WriteStep

LEMMA NextIInv == IInv /\ [Next]_vars => IInv'
<1> SUFFICES ASSUME IInv, [Next]_vars PROVE IInv'
  OBVIOUS
<1>1. /\ Len(unit) \in Nat /\ s \in Nat /\ i \in Nat /\ i > 0 /\ diags \in Nat
      /\ s \in 1 .. Len(unit) + 1 /\ success \in BOOLEAN /\ (success <=> diags = 0)
  BY Facts DEF IInv, TypeOK, DeclaredOnce
<1>2. CASE Declare
  BY <1>2, DeclareStep
<1>3. CASE Redeclare
  <2>1. /\ mode = "unit" /\ mode' = "unit" /\ s' = s /\ i' = i + 1
        /\ success' = FALSE /\ diags' = diags + 1
        /\ UNCHANGED <<unit, functions, array, place, parent_fn, new_block>>
    BY <1>3 DEF Redeclare, AtHeader
  <2>2. i' \in Nat \ {0} /\ diags' \in Nat /\ diags' # 0
    BY <1>1, <2>1
  <2>3. success' \in BOOLEAN /\ (success' <=> diags' = 0)
    BY <2>1, <2>2, Zenon
  <2> QED
    BY <1>1, <2>1, <2>2, <2>3, QuietStep DEF Final, InBody
<1>4. CASE NextStatement
  <2>1. /\ mode = "unit" /\ mode' = "unit" /\ s' = s + 1 /\ i' = 1 /\ s <= Len(unit)
        /\ UNCHANGED <<unit, functions, array, place, parent_fn, new_block, success, diags>>
    BY <1>4 DEF NextStatement
  <2> QED
    BY <1>1, <2>1, QuietStep DEF Final, InBody
<1>5. CASE Finish
  <2>1. /\ mode = "unit" /\ mode' = (IF success THEN "passed" ELSE "failed")
        /\ UNCHANGED <<unit, s, i, functions, array, place, parent_fn, new_block, success, diags>>
    BY <1>5 DEF Finish
  <2> QED
    BY <1>1, <2>1, QuietStep DEF Final, InBody
<1>6. CASE Enter
  BY <1>6, EnterStep
<1>7. CASE CheckReturn
  BY <1>7, CheckReturnStep
<1>8. CASE NullExpression \/ Unreachable
  <2>1. /\ mode = "block" /\ mode' \in {"aborted", "crashed"}
        /\ UNCHANGED <<unit, s, i, functions, array, place, parent_fn, new_block, success, diags>>
    BY <1>8 DEF NullExpression, Unreachable, InLoop
  <2> QED
    BY <1>1, <2>1, QuietStep DEF Final, InBody
<1>9. CASE EndBlock
  BY <1>9, EndBlockStep
<1>10. CASE UNCHANGED vars
  BY <1>10 DEF vars, IInv, Fresh, TypeOK, ParentIsCurrent, DeclaredOnce, BlocksInOrder, InBody,
               parent, is_definition, statement
<1> QED
  BY <1>2, <1>3, <1>4, <1>5, <1>6, <1>7, <1>8, <1>9, <1>10 DEF Next

LEMMA Invariance == Spec => []IInv
BY InitIInv, NextIInv, PTL DEF Spec

\* The variables of the checker keep their types, and the array of functions its
\* count (jac_check_unit).
THEOREM TypeCorrect == Spec => []TypeOK
<1>1. IInv => TypeOK
  BY DEF IInv
<1> QED
  BY Invariance, <1>1, PTL

\* parent_fn is current whenever check_block uses it, for every unit
\* (check_function_header).
THEOREM ParentCorrect == Spec => []ParentIsCurrent
<1>1. IInv => ParentIsCurrent
  BY DEF IInv
<1> QED
  BY Invariance, <1>1, PTL

\* Names are declared once and a unit passes exactly if none was turned away
\* (jac_check_unit).
THEOREM DeclaredCorrect == Spec => []DeclaredOnce
<1>1. IInv => DeclaredOnce
  BY DEF IInv
<1> QED
  BY Invariance, <1>1, PTL

\* Blocks are numbered as they lie and end in one return each (check_block).
THEOREM BlocksCorrect == Spec => []BlocksInOrder
<1>1. IInv => BlocksInOrder
  BY DEF IInv
<1> QED
  BY Invariance, <1>1, PTL

-----------------------------------------------------------------------------
(***************************************************************************)
(* The checker implements SymbolTable.  Entries and Verdict are what its   *)
(* variables are mapped to; each step of the checker is one of the table   *)
(* or leaves all three alone.                                              *)
(***************************************************************************)

Entries == [f \in DOMAIN functions |->
              [name |-> functions[f].header.mangled, body |-> functions[f].blocks]]

Verdict == CASE mode \in {"passed", "failed"}   -> mode
             [] mode \in {"aborted", "crashed"} -> "stopped"
             [] OTHER                          -> "open"

LEMMA EntriesOf ==
  ASSUME NEW q, IsSeq(q), NEW entries,
         entries = [f \in DOMAIN q |-> [name |-> q[f].header.mangled, body |-> q[f].blocks]]
  PROVE  /\ Len(entries) = Len(q)
         /\ \A k \in 1 .. Len(q) : entries[k] = [name |-> q[k].header.mangled, body |-> q[k].blocks]
         /\ entries = <<>> => Len(q) = 0
<1> DEFINE n == Len(q)
<1>1. n \in Nat /\ DOMAIN q = 1 .. n
  BY SeqFacts
<1> HIDE DEF n
<1>2. entries = [f \in 1 .. n |-> [name |-> q[f].header.mangled, body |-> q[f].blocks]]
  BY <1>1
<1>3. entries \in Seq({entries[k] : k \in 1 .. n})
  BY <1>1, <1>2
<1>4. Len(entries) = n
  BY <1>1, <1>2, <1>3
<1>5. \A k \in 1 .. n : entries[k] = [name |-> q[k].header.mangled, body |-> q[k].blocks]
  BY <1>2
<1>6. entries = <<>> => n = 0
  BY <1>4, EmptyFacts
<1> QED
  BY <1>4, <1>5, <1>6 DEF n

LEMMA EntriesFacts ==
  ASSUME IInv, IInv'
  PROVE  /\ Len(Entries) = Len(functions) /\ Len(Entries') = Len(functions')
         /\ \A k \in 1 .. Len(functions) :
              Entries[k] = [name |-> functions[k].header.mangled, body |-> functions[k].blocks]
         /\ \A k \in 1 .. Len(functions') :
              Entries'[k] = [name |-> functions'[k].header.mangled, body |-> functions'[k].blocks]
         /\ Entries = <<>> => Len(functions) = 0
<1>1. IsSeq(functions) /\ IsSeq(functions')
  BY DEF IInv
<1>2. /\ Entries = [f \in DOMAIN functions |-> [name |-> functions[f].header.mangled,
                                                body |-> functions[f].blocks]]
      /\ Entries' = [f \in DOMAIN functions' |-> [name |-> functions'[f].header.mangled,
                                                  body |-> functions'[f].blocks]]
  BY DEF Entries
<1> QED
  BY <1>1, <1>2, EntriesOf

LEMMA InitTable == Init => Table!Init
<1> SUFFICES ASSUME Init PROVE Table!Init
  OBVIOUS
<1>1. functions = <<>> /\ success = TRUE /\ mode = "unit"
  BY DEF Init
<1>2. [f \in DOMAIN functions |-> [name |-> functions[f].header.mangled,
                                   body |-> functions[f].blocks]] = <<>>
  BY <1>1
<1> QED
  BY <1>1, <1>2 DEF Table!Init

\* The actions of the table, in terms of Entries and Verdict.
LEMMA TableEnter ==
  ASSUME Len(Entries') = Len(Entries) + 1,
         \A k \in 1 .. Len(Entries) : /\ Entries'[k] = Entries[k]
                                      /\ Entries[k].name # Entries'[Len(Entries) + 1].name,
         Entries'[Len(Entries) + 1].body = <<>>,
         UNCHANGED success, Verdict = "open", Verdict' = "open"
  PROVE  Table!Next
BY DEF Table!Next, Table!Enter, Table!last, Entries, Verdict

LEMMA TableWrite ==
  ASSUME Len(Entries) > 0, Len(Entries') = Len(Entries),
         \A k \in 1 .. Len(Entries) - 1 : Entries'[k] = Entries[k],
         Entries'[Len(Entries)].name = Entries[Len(Entries)].name,
         NEW e, Entries'[Len(Entries)].body = Append(Entries[Len(Entries)].body, e),
         Entries'[Len(Entries)].body # <<>>,
         e = Entries'[Len(Entries)].body[Len(Entries'[Len(Entries)].body)],
         UNCHANGED success, Verdict = "open", Verdict' = "open"
  PROVE  Table!Next
BY DEF Table!Next, Table!Write, Table!last, Entries, Verdict

LEMMA TableTurnAway ==
  ASSUME Entries # <<>>, success' = FALSE, Entries' = Entries,
         Verdict = "open", Verdict' = "open"
  PROVE  Table!Next
BY DEF Table!Next, Table!TurnAway, Entries, Verdict

LEMMA TableEnd ==
  ASSUME Verdict = "open", Entries' = Entries, success' = success,
         \/ Verdict' = "stopped"
         \/ Verdict' = IF ~success THEN "failed" ELSE "passed"
  PROVE  Table!Next
BY DEF Table!Next, Table!Release, Table!GiveUp, Entries, Verdict

LEMMA TableStutter ==
  ASSUME Entries' = Entries, success' = success, Verdict' = Verdict
  PROVE  UNCHANGED Table!vars
BY DEF Table!vars, Entries, Verdict

\* A block pushed behind those of the running function.
LEMMA WriteTable ==
  ASSUME IInv, IInv', InBody, mode' \in {"unit", "block"}, NEW block, NEW counter,
         functions' = Parent(Append(parent.blocks, block), counter), success' = success
  PROVE  Table!Next
<1> DEFINE n    == Len(functions)
           more == Append(parent.blocks, block)
<1>1. /\ n \in Nat /\ n > 0 /\ parent = functions[n] /\ Len(functions') = n
      /\ \A k \in 1 .. n : k # n => functions'[k] = functions[k]
      /\ functions'[n].header = functions[n].header /\ functions'[n].blocks = more
  <2>1. /\ n \in Nat /\ n > 0 /\ parent = functions[n] /\ Len(functions') = n
        /\ \A k \in 1 .. n : k # n => functions'[k] = functions[k]
        /\ functions'[n] = [header |-> parent.header, is_declaration |-> parent.is_declaration,
                            blocks |-> more, tmp_counter |-> counter]
    BY WriteFacts
  <2>2. functions'[n].header = parent.header /\ functions'[n].blocks = more
    BY <2>1
  <2> QED
    BY <2>1, <2>2
<1>2. IsSeq(parent.blocks)
  BY OpenFacts
<1>3. more[Len(more)] = block /\ more # <<>>
  BY <1>2, AppendFacts
<1>4. /\ Len(Entries) = n /\ Len(Entries') = n
      /\ \A k \in 1 .. n :
           /\ Entries[k] = [name |-> functions[k].header.mangled, body |-> functions[k].blocks]
           /\ Entries'[k] = [name |-> functions'[k].header.mangled, body |-> functions'[k].blocks]
  BY <1>1, EntriesFacts
<1>5. n \in 1 .. n /\ \A k \in 1 .. n - 1 : k \in 1 .. n /\ k # n
  BY <1>1
<1> HIDE DEF n
<1>6. \A k \in 1 .. n - 1 : Entries'[k] = Entries[k]
  BY <1>1, <1>4, <1>5
<1>7. /\ Entries'[n].name = Entries[n].name
      /\ Entries'[n].body = more /\ Entries[n].body = parent.blocks
  BY <1>1, <1>4, <1>5
<1>8. Verdict = "open" /\ Verdict' = "open"
  BY DEF Verdict, InBody
<1> QED
  BY <1>1, <1>3, <1>4, <1>6, <1>7, <1>8, TableWrite

LEMMA DeclareTable == ASSUME IInv, IInv', Declare PROVE Table!Next
<1> DEFINE n  == Len(functions)
           fn == [header |-> header, is_declaration |-> ~is_definition,
                  blocks |-> <<>>, tmp_counter |-> 0]
<1>1. /\ mode = "unit" /\ mode' \in {"unit", "enter"} /\ ~Redeclares
      /\ functions' = Append(functions, fn) /\ success' = success
  BY DEF Declare, AtHeader
<1>2. n \in Nat /\ DOMAIN functions = 1 .. n /\ IsSeq(functions)
  BY Facts DEF IInv
<1>3. fn.header = header /\ fn.blocks = <<>>
  OBVIOUS
<1> HIDE DEF fn
<1>4. /\ Len(functions') = n + 1
      /\ \A k \in 1 .. n : functions'[k] = functions[k]
      /\ functions'[n + 1] = fn
  BY <1>1, <1>2, AppendFacts
<1>5. /\ Len(Entries) = n /\ Len(Entries') = n + 1
      /\ \A k \in 1 .. n :
           Entries[k] = [name |-> functions[k].header.mangled, body |-> functions[k].blocks]
      /\ \A k \in 1 .. n + 1 :
           Entries'[k] = [name |-> functions'[k].header.mangled, body |-> functions'[k].blocks]
  BY <1>4, EntriesFacts
<1>6. n + 1 \in 1 .. n + 1 /\ \A k \in 1 .. n : k \in 1 .. n + 1
  BY <1>2
<1>7. \A k \in 1 .. n : functions[k].header.mangled # header.mangled
  BY <1>1, <1>2 DEF Redeclares
<1> HIDE DEF n
<1>8. Entries'[n + 1].name = header.mangled /\ Entries'[n + 1].body = <<>>
  BY <1>3, <1>4, <1>5, <1>6
<1>9. \A k \in 1 .. n : Entries'[k] = Entries[k] /\ Entries[k].name # header.mangled
  BY <1>4, <1>5, <1>6, <1>7
<1>10. Verdict = "open" /\ Verdict' = "open"
  BY <1>1 DEF Verdict
<1> QED
  BY <1>1, <1>5, <1>8, <1>9, <1>10, TableEnter

LEMMA EnterTable == ASSUME IInv, IInv', Enter PROVE UNCHANGED Table!vars
<1> DEFINE n == Len(functions)
<1>1. /\ InBody /\ mode = "enter" /\ mode' = "block" /\ success' = success
      /\ functions' = Parent(parent.blocks, parent.tmp_counter + 1)
  BY DEF Enter, InBody
<1>2. /\ DOMAIN functions = 1 .. n /\ DOMAIN functions' = 1 .. n
      /\ \A k \in 1 .. n : k # n => functions'[k] = functions[k]
      /\ functions'[n].header = functions[n].header /\ functions'[n].blocks = functions[n].blocks
  <2>1. /\ DOMAIN functions = 1 .. n /\ DOMAIN functions' = 1 .. n /\ parent = functions[n]
        /\ \A k \in 1 .. n : k # n => functions'[k] = functions[k]
        /\ functions'[n] = [header |-> parent.header, is_declaration |-> parent.is_declaration,
                            blocks |-> parent.blocks, tmp_counter |-> parent.tmp_counter + 1]
    BY <1>1, WriteFacts
  <2> DEFINE fn == functions'[n]
  <2>2. fn.header = parent.header /\ fn.blocks = parent.blocks
    <3>1. fn = [header |-> parent.header, is_declaration |-> parent.is_declaration,
                blocks |-> parent.blocks, tmp_counter |-> parent.tmp_counter + 1]
      BY <2>1
    <3> HIDE DEF fn
    <3> QED
      BY <3>1
  <2> QED
    BY <2>1, <2>2
<1> HIDE DEF n
<1>3. \A k \in 1 .. n : /\ functions'[k].header = functions[k].header
                        /\ functions'[k].blocks = functions[k].blocks
  BY <1>2
<1>4. Entries' = Entries
  BY <1>2, <1>3 DEF Entries
<1>5. Verdict' = Verdict
  BY <1>1 DEF Verdict
<1> QED
  BY <1>1, <1>4, <1>5, TableStutter

LEMMA NextTable == IInv /\ IInv' /\ [Next]_vars => [Table!Next]_(Table!vars)
<1> SUFFICES ASSUME IInv, IInv', [Next]_vars PROVE [Table!Next]_(Table!vars)
  OBVIOUS
<1>1. CASE Declare
  BY <1>1, DeclareTable
<1>2. CASE Redeclare
  <2>1. /\ mode = "unit" /\ mode' = "unit" /\ success' = FALSE /\ functions' = functions
        /\ DOMAIN functions # {}
    BY <1>2 DEF Redeclare, Redeclares, AtHeader
  <2>2. DOMAIN functions = 1 .. Len(functions) /\ Len(functions) \in Nat
    BY Facts
  <2>3. Entries # <<>>
    BY <2>1, <2>2, EntriesFacts
  <2>4. Entries' = Entries /\ Verdict = "open" /\ Verdict' = "open"
    BY <2>1 DEF Entries, Verdict
  <2> QED
    BY <2>1, <2>3, <2>4, TableTurnAway
<1>3. CASE NextStatement
  <2>1. Entries' = Entries /\ success' = success /\ Verdict' = Verdict
    BY <1>3 DEF NextStatement, Entries, Verdict
  <2> QED
    BY <2>1, TableStutter
<1>4. CASE Finish \/ NullExpression \/ Unreachable
  <2>1. /\ mode \in {"unit", "block"} /\ functions' = functions /\ success' = success
        /\ \/ mode' \in {"aborted", "crashed"}
           \/ mode' = IF success THEN "passed" ELSE "failed"
    BY <1>4 DEF Finish, NullExpression, Unreachable, InLoop
  <2>2. Entries' = Entries /\ Verdict = "open"
    BY <2>1 DEF Entries, Verdict
  <2>3. \/ Verdict' = "stopped"
        \/ Verdict' = IF ~success THEN "failed" ELSE "passed"
    BY <2>1 DEF Verdict
  <2> QED
    BY <2>1, <2>2, <2>3, TableEnd
<1>5. CASE Enter
  BY <1>5, EnterTable
<1>6. CASE CheckReturn
  <2>1. /\ InBody /\ mode' = "block" /\ success' = success
        /\ functions' = Parent(Append(parent.blocks, Closed), parent.tmp_counter + 1)
    BY <1>6 DEF CheckReturn, InLoop, InBody
  <2> QED
    BY <2>1, WriteTable
<1>7. CASE EndBlock
  <2>1. /\ InBody /\ mode' = "unit" /\ success' = success
        /\ functions' = Parent(Append(parent.blocks, new_block), parent.tmp_counter)
    BY <1>7 DEF EndBlock, InBody
  <2> QED
    BY <2>1, WriteTable
<1>8. CASE UNCHANGED vars
  <2>1. Entries' = Entries /\ success' = success /\ Verdict' = Verdict
    BY <1>8 DEF vars, Entries, Verdict
  <2> QED
    BY <2>1, TableStutter
<1> QED
  BY <1>1, <1>2, <1>3, <1>4, <1>5, <1>6, <1>7, <1>8 DEF Next

\* Whatever the unit, the IR is a table that only gains names and the body of the
\* newest one, and the unit passes only if no name was turned away (jac_check_unit).
THEOREM RefinementCorrect == Spec => ImplementsSymbolTable
<1>1. Init => Table!Init
  BY InitTable
<1>2. IInv /\ IInv' /\ [Next]_vars => [Table!Next]_(Table!vars)
  BY NextTable
<1> QED
  BY <1>1, <1>2, Invariance, PTL DEF Spec, ImplementsSymbolTable, Table!Spec
-----------------------------------------------------------------------------
(***************************************************************************)
(* The IR is the unit's.  At every step the functions stand at the first   *)
(* headers of their names among those that the cursor has passed.          *)
(***************************************************************************)

Seen(p)    == p[1] < s \/ (p[1] = s /\ (mode # "unit" \/ p[2] < i))
Current(f) == InBody /\ f = Len(functions)

\* The functions stand at these places.
Reads(at) ==
  /\ at \in [1 .. Len(functions) -> FirstOfName]
  /\ \A f \in 1 .. Len(functions) : Seen(at[f])
  /\ \A p \in FirstOfName : Seen(p) => \E f \in 1 .. Len(functions) : at[f] = p
  /\ \A f, g \in 1 .. Len(functions) : f < g => Before(at[f], at[g])
  /\ \A f \in 1 .. Len(functions) : ~Current(f) => functions[f] = Function(at[f])
  /\ InBody => at[Len(functions)] = <<s, 1>>

\* A function that has a header, and no more than n blocks of its body.
Partial(head, block, n, counter) ==
  [header |-> head, is_declaration |-> FALSE, blocks |-> Returned(block, n), tmp_counter |-> counter]

Running ==
  /\ i <= Len(statement.block) + 1
  /\ parent = Partial(statement.headers[1], statement.block, i - 1, IF mode = "enter" THEN 0 ELSE i)
  /\ mode = "enter" => i = 1
  /\ mode = "block" => new_block = EmptyBlock(i - 1)

Named == \A p \in Places : Seen(p) =>
           \E f \in 1 .. Len(functions) : functions[f].header.mangled = HeaderAt(p).mangled

SourceInv ==
  mode \notin {"aborted", "crashed"} =>
    /\ \E at : Reads(at)
    /\ Named
    /\ InBody => Running
    /\ mode \in {"passed", "failed"} => s = Len(unit) + 1

LEMMA PlaceFacts ==
  ASSUME unit \in Units
  PROVE  /\ \A p \in Places : /\ p[1] \in 1 .. Len(unit) /\ p[1] \in Nat
                              /\ p[2] \in 1 .. Len(unit[p[1]].headers) /\ p[2] \in Nat /\ p[2] > 0
                              /\ p = <<p[1], p[2]>>
         /\ \A k \in 1 .. Len(unit) : \A h \in 1 .. Len(unit[k].headers) : <<k, h>> \in Places
         /\ FirstOfName \subseteq Places
<1>1. \A k \in 1 .. Len(unit) : Len(unit[k].headers) \in Nat
  BY UnitAssumption
<1>2. Len(unit) \in Nat
  BY UnitAssumption
<1> QED
  BY <1>1, <1>2 DEF Places, FirstOfName

\* The source does not change.
LEMMA SameSource ==
  ASSUME unit' = unit
  PROVE  /\ Places' = Places /\ FirstOfName' = FirstOfName
         /\ \A p : HeaderAt(p)' = HeaderAt(p) /\ Function(p)' = Function(p)
BY DEF Places, FirstOfName, HeaderAt, Function

LEMMA ReturnedFacts ==
  ASSUME NEW block, NEW n \in Nat
  PROVE  /\ IsSeq(Returned(block, n)) /\ Len(Returned(block, n)) = n
         /\ Returned(block, 0) = <<>>
         /\ Append(Returned(block, n),
                   [id |-> n, instructions |->
                      <<[op |-> "RET", operands |-> <<block[n + 1].expression.token>>]>>])
              = Returned(block, n + 1)
<1> DEFINE B(b) == [id |-> b - 1, instructions |->
                      <<[op |-> "RET", operands |-> <<block[b].expression.token>>]>>]
<1>1. \A m \in Nat : Returned(block, m) = [b \in 1 .. m |-> B(b)]
  BY DEF Returned
<1>2. B(n + 1) = [id |-> n, instructions |->
                    <<[op |-> "RET", operands |-> <<block[n + 1].expression.token>>]>>]
  OBVIOUS
<1> HIDE DEF B
<1>3. Returned(block, n) \in Seq({B(b) : b \in 1 .. n})
  BY <1>1
<1>4. Len(Returned(block, n)) = n
  BY <1>1
<1>5. Append(Returned(block, n), B(n + 1)) = Returned(block, n + 1)
  BY <1>1, <1>3, <1>4
<1>6. Returned(block, 0) = <<>>
  BY <1>1
<1> QED
  BY <1>2, <1>3, <1>4, <1>5, <1>6 DEF IsSeq

LEMMA InitSource == Init => SourceInv
<1> SUFFICES ASSUME Init PROVE SourceInv
  OBVIOUS
<1>1. Len(functions) = 0 /\ s = 1 /\ i = 1 /\ mode = "unit" /\ unit \in Units /\ 1 .. 0 = {}
  BY EmptyFacts DEF Init
<1>2. \A p \in Places : ~Seen(p)
  BY <1>1, PlaceFacts DEF Seen
<1>3. Named
  BY <1>2 DEF Named
<1>4. Reads([f \in {} |-> 0])
  BY <1>1, <1>2, PlaceFacts DEF Reads, InBody
<1> QED
  BY <1>1, <1>3, <1>4 DEF SourceInv, InBody
\* A step of check_block that goes on with the body, or ends it.
LEMMA BodyStep ==
  ASSUME IInv, SourceInv, InBody, NEW blocks, NEW counter,
         functions' = Parent(blocks, counter), UNCHANGED <<unit, parent_fn>>,
         LET fn == [header |-> parent.header, is_declaration |-> parent.is_declaration,
                    blocks |-> blocks, tmp_counter |-> counter]
         IN  \/ mode' = "unit" /\ s' = s + 1 /\ i' = 1 /\ fn = Function(<<s, 1>>)
             \/ /\ mode' = "block" /\ s' = s /\ i' <= Len(statement.block) + 1
                /\ fn = Partial(statement.headers[1], statement.block, i' - 1, i')
                /\ new_block' = EmptyBlock(i' - 1)
  PROVE  SourceInv'
<1> DEFINE n  == Len(functions)
           fn == [header |-> parent.header, is_declaration |-> parent.is_declaration,
                  blocks |-> blocks, tmp_counter |-> counter]
<1>1. /\ n \in Nat /\ n > 0 /\ n \in 1 .. n /\ parent = functions[n] /\ Len(functions') = n
      /\ parent_fn.at = n /\ parent' = fn
      /\ \A k \in 1 .. n : k # n => functions'[k] = functions[k]
      /\ functions'[n] = fn
  <2>1. /\ n \in Nat /\ n > 0 /\ parent = functions[n] /\ Len(functions') = n
        /\ parent_fn.at = n
        /\ \A k \in 1 .. n : k # n => functions'[k] = functions[k]
        /\ functions'[n] = fn
    BY WriteFacts
  <2>2. parent' = functions'[n]
    BY <2>1 DEF parent
  <2> QED
    BY <2>1, <2>2
<1>2. fn.header = functions[n].header
  BY <1>1
<1>3. /\ s \in Nat /\ mode # "unit" /\ is_definition /\ unit \in Units /\ s \in 1 .. Len(unit)
      /\ Len(statement.headers) = 1
  BY Facts DEF IInv, InBody, TypeOK
<1>4. /\ Places' = Places /\ FirstOfName' = FirstOfName
      /\ \A p : HeaderAt(p)' = HeaderAt(p) /\ Function(p)' = Function(p)
  BY SameSource
<1>5. \A p \in Places : Seen(p)' <=> Seen(p)
  BY <1>3, PlaceFacts DEF Seen
<1>6. PICK at : Reads(at)
  BY DEF SourceInv, InBody
<1>7. \A k \in 1 .. n : functions'[k].header = functions[k].header
  BY <1>1, <1>2
<1>8. Named'
  BY <1>1, <1>4, <1>5, <1>7 DEF SourceInv, Named, InBody
<1>9. CASE mode' = "unit"
  <2>1. ~InBody' /\ mode' = "unit" /\ fn = Function(<<s, 1>>)
    BY <1>9 DEF InBody
  <2>2. at[n] = <<s, 1>>
    BY <1>6 DEF Reads
  <2>3. \A k \in 1 .. n : functions'[k] = Function(at[k])
    BY <1>1, <1>6, <2>1, <2>2 DEF Reads, Current
  <2>4. Reads(at)'
    BY <1>1, <1>4, <1>5, <1>6, <2>1, <2>3, PlaceFacts, <1>3 DEF Reads, Before
  <2> QED
    BY <1>8, <2>1, <2>4 DEF SourceInv
<1>10. CASE mode' = "block"
  <2>1. InBody' /\ s' = s /\ statement' = statement
    BY <1>10 DEF InBody, statement
  <2>2. Running'
    BY <1>1, <1>10, <2>1 DEF Running
  <2>3. \A k \in 1 .. n : ~Current(k)' => functions'[k] = Function(at[k])
    BY <1>1, <1>6, <2>1 DEF Reads, Current
  <2>4. Reads(at)'
    BY <1>1, <1>4, <1>5, <1>6, <2>1, <2>3, PlaceFacts, <1>3 DEF Reads, Before
  <2> QED
    BY <1>8, <1>10, <2>2, <2>4 DEF SourceInv
<1> QED
  BY <1>9, <1>10

LEMMA BodySource ==
  ASSUME IInv, SourceInv, Enter \/ CheckReturn \/ EndBlock
  PROVE  SourceInv'
<1> DEFINE block == statement.block
           head  == statement.headers[1]
<1>1. InBody /\ Running /\ is_definition
  BY DEF SourceInv, Enter, CheckReturn, EndBlock, InLoop, InBody, IInv, ParentIsCurrent
<1>2. /\ Len(block) \in Nat /\ i \in Nat /\ i > 0 /\ i - 1 \in Nat
      /\ unit[s] = statement /\ i - 1 + 1 = i /\ i + 1 - 1 = i
  <2>1. s \in 1 .. Len(unit) /\ unit \in Units
    BY <1>1, Facts DEF IInv, TypeOK
  <2> QED
    BY <1>1, <2>1, Facts, UnitAssumption DEF statement, is_definition
<1>3. parent = Partial(head, block, i - 1, IF mode = "enter" THEN 0 ELSE i)
  BY <1>1 DEF Running
<1>4. /\ parent.header = head /\ parent.is_declaration = FALSE
      /\ parent.blocks = Returned(block, i - 1)
      /\ parent.tmp_counter = IF mode = "enter" THEN 0 ELSE i
  BY <1>3 DEF Partial
<1> HIDE DEF block, head
<1>5. CASE Enter
  <2>1. /\ functions' = Parent(parent.blocks, 1) /\ mode' = "block" /\ i = 1
        /\ new_block' = EmptyBlock(0) /\ UNCHANGED <<unit, s, i, parent_fn>>
    BY <1>1, <1>4, <1>5 DEF Enter, Running
  <2>2. [header |-> parent.header, is_declaration |-> parent.is_declaration,
         blocks |-> parent.blocks, tmp_counter |-> 1] = Partial(head, block, i' - 1, i')
    BY <1>4, <2>1 DEF Partial
  <2> QED
    BY <1>1, <1>2, <2>1, <2>2, BodyStep DEF block, head
<1>6. CASE CheckReturn
  <2>1. /\ functions' = Parent(Append(parent.blocks, Closed), parent.tmp_counter + 1)
        /\ new_block' = EmptyBlock(parent.tmp_counter) /\ mode' = "block" /\ i' = i + 1
        /\ UNCHANGED <<unit, s, parent_fn>> /\ mode = "block" /\ i <= Len(block)
    BY <1>6 DEF CheckReturn, InLoop, block
  <2>2. new_block = [id |-> i - 1, instructions |-> <<>>]
    BY <1>1, <2>1 DEF Running, EmptyBlock
  <2>3. Closed = [id |-> i - 1, instructions |->
                    <<[op |-> "RET", operands |-> <<block[i].expression.token>>]>>]
    <3>1. \A e : Append(<<>>, e) = <<e>>
      OBVIOUS
    <3>2. Closed = [id |-> i - 1, instructions |->
                      Append(<<>>, [op |-> "RET", operands |-> <<scope.expression.token>>])]
      BY <2>2 DEF Closed
    <3> QED
      BY <3>1, <3>2 DEF scope, block
  <2>4. Append(parent.blocks, Closed) = Returned(block, i)
    <3>1. Append(Returned(block, i - 1),
                 [id |-> i - 1, instructions |->
                    <<[op |-> "RET", operands |-> <<block[i - 1 + 1].expression.token>>]>>])
            = Returned(block, i - 1 + 1)
      BY <1>2, ReturnedFacts
    <3> QED
      BY <1>2, <1>4, <2>3, <3>1
  <2>5. parent.tmp_counter = i
    BY <1>4, <2>1
  <2>6. [header |-> parent.header, is_declaration |-> parent.is_declaration,
         blocks |-> Append(parent.blocks, Closed), tmp_counter |-> parent.tmp_counter + 1]
          = Partial(head, block, i' - 1, i')
    <3>1. i' - 1 = i /\ parent.tmp_counter + 1 = i'
      BY <1>2, <2>1, <2>5
    <3> QED
      BY <1>4, <2>4, <3>1 DEF Partial
  <2>7. i' <= Len(block) + 1 /\ new_block' = EmptyBlock(i' - 1)
    BY <1>2, <2>1, <2>5
  <2> QED
    BY <1>1, <2>1, <2>6, <2>7, BodyStep DEF block, head
<1>7. CASE EndBlock
  <2>1. /\ functions' = Parent(Append(parent.blocks, new_block), parent.tmp_counter)
        /\ mode' = "unit" /\ s' = s + 1 /\ i' = 1 /\ mode = "block" /\ i > Len(block)
        /\ UNCHANGED <<unit, parent_fn>>
    BY <1>7 DEF EndBlock, block
  <2>2. i = Len(block) + 1 /\ i - 1 = Len(block)
    BY <1>1, <1>2, <2>1 DEF Running, block
  <2>3. new_block = EmptyBlock(Len(block)) /\ parent.tmp_counter = Len(block) + 1
    BY <1>1, <1>4, <2>1, <2>2 DEF Running
  <2>4. Append(parent.blocks, new_block) = Blocks(block)
    BY <1>4, <2>2, <2>3 DEF Blocks
  <2>5. Len(Blocks(block)) = Len(block) + 1
    <3>1. IsSeq(Returned(block, Len(block))) /\ Len(Returned(block, Len(block))) = Len(block)
      BY <1>2, ReturnedFacts
    <3>2. Len(Append(Returned(block, Len(block)), EmptyBlock(Len(block))))
            = Len(Returned(block, Len(block))) + 1
      BY <3>1, AppendFacts
    <3> QED
      BY <3>1, <3>2 DEF Blocks
  <2>6. HeaderAt(<<s, 1>>) = head /\ unit[s].holds = "func_def" /\ unit[s].block = block
    BY <1>1, <1>2 DEF HeaderAt, head, block, is_definition
  <2>7. Function(<<s, 1>>) = [header |-> head, is_declaration |-> FALSE,
                              blocks |-> Blocks(block), tmp_counter |-> Len(block) + 1]
    BY <2>5, <2>6 DEF Function
  <2>8. [header |-> parent.header, is_declaration |-> parent.is_declaration,
         blocks |-> Append(parent.blocks, new_block), tmp_counter |-> parent.tmp_counter]
          = Function(<<s, 1>>)
    BY <1>4, <2>3, <2>4, <2>7
  <2> QED
    BY <1>1, <2>1, <2>8, BodyStep
<1> QED
  BY <1>5, <1>6, <1>7
LEMMA DeclareSource == ASSUME IInv, SourceInv, Declare PROVE SourceInv'
<1> DEFINE n  == Len(functions)
           fn == [header |-> header, is_declaration |-> ~is_definition,
                  blocks |-> <<>>, tmp_counter |-> 0]
<1>1. /\ AtHeader /\ ~Redeclares /\ mode = "unit" /\ ~InBody
      /\ functions' = Append(functions, fn)
      /\ parent_fn'.at = Len(functions')
      /\ mode' = IF is_definition THEN "enter" ELSE "unit"
      /\ i' = IF is_definition THEN 1 ELSE i + 1
      /\ UNCHANGED <<unit, s, new_block>>
  BY DEF Declare, AtHeader, InBody
<1>2. /\ n \in Nat /\ DOMAIN functions = 1 .. n /\ IsSeq(functions) /\ unit \in Units
      /\ s \in Nat /\ i \in Nat /\ i > 0 /\ s \in 1 .. Len(unit) /\ i \in 1 .. Len(unit[s].headers)
      /\ is_definition => Len(unit[s].headers) = 1
  BY <1>1, Facts DEF IInv, TypeOK, AtHeader, statement
<1>3. /\ fn.header = header /\ fn.is_declaration = ~is_definition
      /\ fn.blocks = <<>> /\ fn.tmp_counter = 0
  OBVIOUS
<1>4. /\ Len(functions') = n + 1 /\ functions'[n + 1] = fn
      /\ \A k \in 1 .. n : functions'[k] = functions[k]
  <2> HIDE DEF fn
  <2> QED
    BY <1>1, <1>2, AppendFacts
<1>0. is_definition => i = 1
  <2>1. is_definition => i <= 1
    <3>1. i <= Len(unit[s].headers)
      BY <1>1 DEF AtHeader, statement
    <3> QED
      BY <1>2, <3>1
  <2> QED
    BY <1>2, <2>1
<1>5. PICK p0 : /\ p0 = <<s, i>> /\ p0 \in Places /\ p0[1] = s /\ p0[2] = i
                /\ HeaderAt(p0) = header
  BY <1>2, PlaceFacts DEF HeaderAt, header, statement
<1>6. /\ Places' = Places /\ FirstOfName' = FirstOfName
      /\ \A p : HeaderAt(p)' = HeaderAt(p) /\ Function(p)' = Function(p)
  BY <1>1, SameSource
<1>7. \A p \in Places : /\ Seen(p) <=> Before(p, p0)
                        /\ Seen(p)' <=> Seen(p) \/ p = p0
  <2> SUFFICES ASSUME NEW p \in Places
               PROVE  (Seen(p) <=> Before(p, p0)) /\ (Seen(p)' <=> Seen(p) \/ p = p0)
    OBVIOUS
  <2>1. /\ p[1] \in Nat /\ p[2] \in Nat /\ p[2] > 0 /\ p = <<p[1], p[2]>>
        /\ p[1] = s => p[2] \in 1 .. Len(unit[s].headers)
    BY <1>2, PlaceFacts
  <2>2. p = p0 <=> p[1] = s /\ p[2] = i
    BY <2>1, <1>5
  <2>3. Seen(p) <=> Before(p, p0)
    BY <1>1, <1>5 DEF Seen, Before
  <2>4. CASE is_definition
    <3>0. p[1] = s => p[2] \in 1 .. 1
      BY <1>2, <2>1, <2>4
    <3>1. p[1] = s => p[2] = 1 /\ i = 1
      BY <1>0, <2>1, <2>4, <3>0
    <3> QED
      BY <1>1, <1>2, <2>1, <2>2, <2>3, <2>4, <3>1 DEF Seen
  <2>5. CASE ~is_definition
    BY <1>1, <1>2, <2>1, <2>2, <2>3, <2>5 DEF Seen
  <2> QED
    BY <2>3, <2>4, <2>5
<1>8. PICK at : Reads(at)
  BY <1>1 DEF SourceInv
<1>9. Named /\ \A k \in 1 .. n : functions[k].header.mangled # header.mangled
  BY <1>1, <1>2 DEF SourceInv, Redeclares
<1>10. p0 \in FirstOfName
  <2>1. \A q \in Places : Before(q, p0) => HeaderAt(q).mangled # HeaderAt(p0).mangled
    BY <1>5, <1>7, <1>9 DEF Named
  <2> QED
    BY <1>5, <2>1 DEF FirstOfName
<1>11. PICK to :
       /\ to \in [1 .. n + 1 -> FirstOfName] /\ to[n + 1] = p0
       /\ \A f \in 1 .. n : to[f] = at[f] /\ f \in 1 .. n + 1
       /\ \A f \in 1 .. n + 1 : f \in 1 .. n \/ f = n + 1
       /\ n + 1 \in 1 .. n + 1
       /\ \A f \in 1 .. n : f < n + 1 /\ ~(n + 1 < f)
  <2> DEFINE to == [f \in 1 .. n + 1 |-> IF f = n + 1 THEN p0 ELSE at[f]]
  <2>1. /\ to \in [1 .. n + 1 -> FirstOfName] /\ to[n + 1] = p0
        /\ \A f \in 1 .. n : to[f] = at[f]
    BY <1>2, <1>8, <1>10 DEF Reads
  <2> HIDE DEF to
  <2> QED
    BY <1>2, <2>1
<1> HIDE DEF fn, n
<1>12. FirstOfName \subseteq Places
  BY <1>2, PlaceFacts
<1>13. \A f \in 1 .. n : at[f] \in FirstOfName /\ Seen(at[f])
  BY <1>8 DEF Reads, n
<1>14. \A f \in 1 .. n + 1 : Seen(to[f])'
  BY <1>5, <1>7, <1>11, <1>12, <1>13
<1>15. \A p \in FirstOfName : Seen(p)' => \E f \in 1 .. n + 1 : to[f] = p
  <2> SUFFICES ASSUME NEW p \in FirstOfName, Seen(p)'
               PROVE  \E f \in 1 .. n + 1 : to[f] = p
    OBVIOUS
  <2>1. CASE p = p0
    BY <1>11, <2>1
  <2>2. CASE Seen(p)
    <3>1. PICK f \in 1 .. n : at[f] = p
      BY <1>8, <2>2 DEF Reads, n
    <3> QED
      BY <1>11, <3>1
  <2> QED
    BY <1>7, <1>12, <2>1, <2>2
<1>16. \A f, g \in 1 .. n + 1 : f < g => Before(to[f], to[g])
  <2> SUFFICES ASSUME NEW f \in 1 .. n + 1, NEW g \in 1 .. n + 1, f < g
               PROVE  Before(to[f], to[g])
    OBVIOUS
  <2>1. f \in 1 .. n
    BY <1>2, <1>11 DEF n
  <2>2. CASE g \in 1 .. n
    BY <1>8, <1>11, <2>1, <2>2 DEF Reads, n
  <2>3. CASE g = n + 1
    BY <1>7, <1>11, <1>12, <1>13, <2>1, <2>3
  <2> QED
    BY <1>11, <2>2, <2>3
<1>17. \A f \in 1 .. n + 1 : ~Current(f)' => functions'[f] = Function(to[f])
  <2> SUFFICES ASSUME NEW f \in 1 .. n + 1, ~Current(f)'
               PROVE  functions'[f] = Function(to[f])
    OBVIOUS
  <2>1. CASE f \in 1 .. n
    <3>1. functions[f] = Function(at[f])
      BY <1>1, <1>8, <2>1 DEF Reads, Current, n
    <3> QED
      BY <1>4, <1>11, <2>1, <3>1
  <2>2. CASE f = n + 1
    <3>1. ~is_definition
      BY <1>1, <1>4, <2>2 DEF Current, InBody
    <3>2. unit[p0[1]].holds # "func_def"
      BY <1>5, <3>1 DEF is_definition, statement
    <3>3. Function(p0) = [header |-> header, is_declaration |-> TRUE,
                          blocks |-> <<>>, tmp_counter |-> 0]
      BY <1>5, <3>2, EmptyFacts DEF Function
    <3> QED
      BY <1>4, <1>11, <2>2, <3>1, <3>3 DEF fn
  <2> QED
    BY <1>11, <2>1, <2>2
<1>18. InBody' => to[n + 1] = <<s', 1>>
  <2>1. InBody' => is_definition
    BY <1>1 DEF InBody
  <2> QED
    BY <1>0, <1>1, <1>5, <1>11, <2>1
<1>19. Reads(to)'
  BY <1>4, <1>6, <1>11, <1>14, <1>15, <1>16, <1>17, <1>18 DEF Reads, Before
<1>20. Named'
  <2> SUFFICES ASSUME NEW p \in Places, Seen(p)'
               PROVE  \E f \in 1 .. n + 1 : functions'[f].header.mangled = HeaderAt(p).mangled
    BY <1>4, <1>6 DEF Named
  <2>1. CASE p = p0
    BY <1>3, <1>4, <1>5, <1>11, <2>1
  <2>2. CASE Seen(p)
    <3>1. PICK f \in 1 .. n : functions[f].header.mangled = HeaderAt(p).mangled
      BY <1>9, <2>2 DEF Named, n
    <3> QED
      BY <1>4, <1>11, <3>1
  <2> QED
    BY <1>7, <2>1, <2>2
<1>21. InBody' => Running'
  <2> SUFFICES ASSUME is_definition, mode' = "enter", i' = 1
               PROVE  Running'
    BY <1>1 DEF InBody
  <2>1. parent' = fn /\ statement' = statement /\ statement = unit[s] /\ i = 1
    BY <1>0, <1>1, <1>4 DEF parent, statement
  <2>2. Len(statement.block) \in Nat
    BY <1>2, <2>1, UnitAssumption DEF is_definition
  <2>3. fn = Partial(statement.headers[1], statement.block, 0, 0)
    BY <2>1, ReturnedFacts DEF fn, Partial, header
  <2>4. 1 <= Len(statement.block) + 1 /\ 1 - 1 = 0
    BY <2>2
  <2> QED
    BY <2>1, <2>3, <2>4 DEF Running
<1> QED
  BY <1>1, <1>19, <1>20, <1>21 DEF SourceInv

\* A step of the cursor that leaves the functions alone.
LEMMA CursorSource ==
  ASSUME IInv, SourceInv, UNCHANGED <<unit, functions>>, mode = "unit",
         mode' \in {"unit", "passed", "failed"},
         \A p \in FirstOfName : Seen(p)' <=> Seen(p),
         \A p \in Places : Seen(p)' =>
           Seen(p) \/ \E f \in DOMAIN functions : functions[f].header.mangled = HeaderAt(p).mangled,
         mode' \in {"passed", "failed"} => s' = Len(unit) + 1
  PROVE  SourceInv'
<1>1. /\ Places' = Places /\ FirstOfName' = FirstOfName
      /\ \A p : HeaderAt(p)' = HeaderAt(p) /\ Function(p)' = Function(p)
      /\ FirstOfName \subseteq Places
  BY SameSource, PlaceFacts DEF IInv
<1>2. DOMAIN functions = 1 .. Len(functions) /\ ~InBody /\ ~InBody'
  BY Facts DEF InBody
<1>3. PICK at : Reads(at)
  BY DEF SourceInv
<1>4. Reads(at)'
  BY <1>1, <1>2, <1>3 DEF Reads, Current, Before
<1>5. Named'
  BY <1>1, <1>2 DEF SourceInv, Named
<1> QED
  BY <1>2, <1>4, <1>5 DEF SourceInv

LEMMA NextSource == IInv /\ SourceInv /\ [Next]_vars => SourceInv'
<1> SUFFICES ASSUME IInv, SourceInv, [Next]_vars PROVE SourceInv'
  OBVIOUS
<1>1. /\ Len(unit) \in Nat /\ s \in Nat /\ i \in Nat /\ i > 0 /\ unit \in Units
      /\ s \in 1 .. Len(unit) + 1 /\ DOMAIN functions = 1 .. Len(functions)
  BY Facts DEF IInv, TypeOK
<1>2. CASE Declare
  BY <1>2, DeclareSource
<1>3. CASE Redeclare
  <2> DEFINE p0 == <<s, i>>
  <2>1. /\ mode = "unit" /\ mode' = "unit" /\ s' = s /\ i' = i + 1 /\ Redeclares /\ AtHeader
        /\ UNCHANGED <<unit, functions>>
    BY <1>3 DEF Redeclare, AtHeader
  <2>2. p0 \in Places /\ HeaderAt(p0) = header
    BY <1>1, <2>1, PlaceFacts DEF AtHeader, statement, HeaderAt, header
  <2>3. \A p \in Places : Seen(p)' <=> Seen(p) \/ p = p0
    BY <1>1, <2>1, PlaceFacts DEF Seen
  <2>4. PICK f \in DOMAIN functions : functions[f].header.mangled = header.mangled
    BY <2>1 DEF Redeclares
  <2>5. PICK at : Reads(at)
    BY <2>1 DEF SourceInv
  <2>6. at[f] \in FirstOfName /\ Seen(at[f]) /\ functions[f] = Function(at[f])
    BY <1>1, <2>1, <2>5 DEF Reads, Current, InBody
  <2>7. HeaderAt(at[f]).mangled = HeaderAt(p0).mangled
    BY <2>2, <2>4, <2>6 DEF Function
  <2>8. at[f] \in Places /\ Before(at[f], p0)
    BY <1>1, <2>1, <2>6, PlaceFacts DEF Seen, Before
  <2>9. p0 \notin FirstOfName
    BY <2>7, <2>8 DEF FirstOfName
  <2>10. \A p \in FirstOfName : Seen(p)' <=> Seen(p)
    BY <1>1, <2>3, <2>9, PlaceFacts
  <2> HIDE DEF p0
  <2> QED
    BY <2>1, <2>2, <2>3, <2>4, <2>10, CursorSource
<1>4. CASE NextStatement
  <2>1. /\ mode = "unit" /\ mode' = "unit" /\ s' = s + 1 /\ i' = 1 /\ s <= Len(unit)
        /\ i > Len(unit[s].headers) /\ UNCHANGED <<unit, functions>>
    BY <1>4 DEF NextStatement, statement
  <2>2. \A p \in Places : Seen(p)' <=> Seen(p)
    <3>1. Len(unit[s].headers) \in Nat
      BY <1>1, <2>1, UnitAssumption
    <3> QED
      BY <1>1, <2>1, <3>1, PlaceFacts DEF Seen
  <2> QED
    BY <1>1, <2>1, <2>2, CursorSource, PlaceFacts
<1>5. CASE Finish
  <2>1. /\ mode = "unit" /\ mode' \in {"passed", "failed"} /\ s > Len(unit) /\ s' = s
        /\ UNCHANGED <<unit, functions>>
    BY <1>5 DEF Finish
  <2>2. \A p \in Places : Seen(p)' <=> Seen(p)
    BY <1>1, <2>1, PlaceFacts DEF Seen
  <2> QED
    BY <1>1, <2>1, <2>2, CursorSource, PlaceFacts
<1>6. CASE Enter \/ CheckReturn \/ EndBlock
  BY <1>6, BodySource
<1>7. CASE NullExpression \/ Unreachable
  BY <1>7 DEF NullExpression, Unreachable, SourceInv
<1>8. CASE UNCHANGED vars
  <2>1. /\ UNCHANGED <<unit, s, i, mode, functions, parent_fn, new_block>>
        /\ parent' = parent /\ statement' = statement /\ (InBody' <=> InBody)
    BY <1>8 DEF vars, parent, statement, InBody
  <2>2. /\ Places' = Places /\ FirstOfName' = FirstOfName
        /\ \A p : HeaderAt(p)' = HeaderAt(p) /\ Function(p)' = Function(p)
        /\ \A p : Seen(p)' <=> Seen(p)
        /\ \A f : Current(f)' <=> Current(f)
    BY <2>1, SameSource DEF Seen, Current
  <2>3. \A at : Reads(at) => Reads(at)'
    BY <2>1, <2>2 DEF Reads, Before
  <2>4. (Named => Named') /\ (Running => Running')
    BY <2>1, <2>2 DEF Named, Running
  <2> QED
    BY <2>1, <2>3, <2>4 DEF SourceInv
<1> QED
  BY <1>2, <1>3, <1>4, <1>5, <1>6, <1>7, <1>8 DEF Next

\* The IR that the checker leaves has the function of each name's first header, in
\* the order of the source, with that header's body (jac_check_unit).
THEOREM IRCorrect == Spec => []IRIsTheUnit
<1>1. IInv /\ SourceInv => IRIsTheUnit
  <2> SUFFICES ASSUME IInv, SourceInv, mode \in {"passed", "failed"}
               PROVE  \E at \in [DOMAIN functions -> FirstOfName] :
                        /\ \A f, g \in DOMAIN functions : f < g => Before(at[f], at[g])
                        /\ \A p \in FirstOfName : \E f \in DOMAIN functions : at[f] = p
                        /\ \A f \in DOMAIN functions : functions[f] = Function(at[f])
    BY DEF IRIsTheUnit
  <2>1. PICK at : Reads(at)
    BY DEF SourceInv
  <2>2. /\ DOMAIN functions = 1 .. Len(functions) /\ ~InBody
        /\ s = Len(unit) + 1 /\ Len(unit) \in Nat /\ unit \in Units
    BY Facts DEF IInv, InBody, SourceInv
  <2>3. \A p \in FirstOfName : Seen(p)
    BY <2>2, PlaceFacts DEF Seen
  <2> QED
    BY <2>1, <2>2, <2>3 DEF Reads, Current
<1>2. Init => SourceInv
  BY InitSource
<1>3. IInv /\ SourceInv /\ [Next]_vars => SourceInv'
  BY NextSource
<1> QED
  BY <1>1, <1>2, <1>3, Invariance, PTL DEF Spec
=============================================================================
