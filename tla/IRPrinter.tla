----------------------------- MODULE IRPrinter -----------------------------
(***************************************************************************)
(* jac_print_ir of src/ir.c.  What print_function reads of a header is     *)
(* followed to the object it lies in: the token of a return type that was  *)
(* never set, the local `arg' before its first assignment, the elements    *)
(* behind an empty array.  Such a read finds anything, or stops the        *)
(* program.                                                                *)
(***************************************************************************)
EXTENDS Integers, SequencesExt

CONSTANTS
  IRs,       \* sequences of functions [args, returns, is_declaration, blocks]:
             \* the indirection of each argument, is there a return type, and
             \* for each block the tokens its returns show
  Size,      \* the values of a size_t are 0 .. Size - 1
  Mapped,    \* the elements behind an array that still lie in the program's memory
  MaxStars   \* what a byte read at random may hold

VARIABLES
  functions,  \* the functions of the unit that is printed
  f,          \* the one the loop of jac_print_ir is at
  at,         \* what print_function comes to next in it; or how the program has ended
  i,          \* its loop variable
  arg,        \* its local `arg', as the number of an argument; 0 before it is set
  out,        \* what has been printed, an item per piece
  undefined   \* history: the functions for which something unset has been read

vars == <<functions, f, at, i, arg, out, undefined>>

Final == {"printed", "crashed"}

function == functions[f]
n        == Len(function.args)

\* darray_count(args) - 1, in a size_t
bound == (n - 1) % Size

Header(g)    == [piece |-> "header", of |-> g, extern |-> functions[g].is_declaration]
Arg(k, s)    == [piece |-> "arg", k |-> k, stars |-> s]
Label(id, e) == [piece |-> "label", id |-> id, end |-> e]
Ret(token)   == [piece |-> "ret", token |-> token]

Init ==
  /\ functions \in IRs
  /\ f = 1 /\ at = "function" /\ i = 0 /\ arg = 0
  /\ out = <<>> /\ undefined = {}

AtHeader   == at = "function" /\ f <= Len(functions)
\* Mutant of InArgs: the loop runs up to the last argument.
InArgs_All == at = "args" /\ i <= bound

InArgs     == at = "args" /\ i < bound
ReadsUnset == \/ AtHeader /\ ~function.returns
              \/ InArgs /\ (arg = 0 \/ i >= n)

Crash ==
  /\ ReadsUnset
  /\ at' = "crashed"
  /\ undefined' = undefined \cup {f}
  /\ UNCHANGED <<functions, f, i, arg, out>>

\* `extern', the return type and the mangled name.
PrintHeader ==
  /\ AtHeader
  /\ out' = Append(out, Header(f))
  /\ at' = "args" /\ i' = 0 /\ arg' = 0
  /\ undefined' = IF ReadsUnset THEN undefined \cup {f} ELSE undefined
  /\ UNCHANGED <<functions, f>>

\* The stars that are printed for what `arg' points to.
Stars(a) == IF a \in 1 .. n THEN {function.args[a]} ELSE 0 .. MaxStars

\* The loop prints the stars of the argument before, and then this one.
PrintArgument ==
  /\ InArgs /\ i < n + Mapped
  /\ \E stars \in Stars(arg) : out' = Append(out, Arg(i + 1, stars))
  /\ arg' = i + 1 /\ i' = i + 1
  /\ undefined' = IF ReadsUnset THEN undefined \cup {f} ELSE undefined
  /\ UNCHANGED <<functions, f, at>>

\* The id of block b is b - 1 (BlocksInOrder of module Checker).
print_block(rets, b) ==
  <<Label(b - 1, 0)>> \o [k \in DOMAIN rets |-> Ret(rets[k])] \o <<Label(b - 1, 1)>>

\* Mutant of PrintLast: the last argument is taken for one of the loop.
PrintLast_InLoop ==
  /\ at = "args" /\ i >= bound
  /\ \E stars \in Stars(arg) : out' = Append(out, Arg(n, stars)) \o
       (IF function.is_declaration THEN <<>>
        ELSE FlattenSeq([b \in DOMAIN function.blocks |-> print_block(function.blocks[b], b)]))
  /\ arg' = n
  /\ at' = "function" /\ f' = f + 1
  /\ UNCHANGED <<functions, i, undefined>>

\* darray_last behind the loop, and the blocks of a definition.
PrintLast ==
  /\ at = "args" /\ i >= bound
  /\ out' = Append(out, Arg(n, function.args[n])) \o
       (IF function.is_declaration THEN <<>>
        ELSE FlattenSeq([b \in DOMAIN function.blocks |-> print_block(function.blocks[b], b)]))
  /\ arg' = n
  /\ at' = "function" /\ f' = f + 1
  /\ UNCHANGED <<functions, i, undefined>>

Finish ==
  /\ at = "function" /\ f > Len(functions)
  /\ at' = "printed"
  /\ UNCHANGED <<functions, f, i, arg, out, undefined>>

Next == Crash \/ PrintHeader \/ PrintArgument \/ PrintLast \/ Finish

-----------------------------------------------------------------------------
(***************************************************************************)
(* Properties.                                                             *)
(***************************************************************************)

\* A function is printed from its own header alone exactly if it has a return type
\* and one argument; of one without arguments the loop runs out of the array until
\* the program stops (print_function: `arg' is unset, count - 1 wraps around).
UnsetReads ==
  LET Sound(g) == functions[g].returns /\ Len(functions[g].args) = 1
  IN  /\ \A g \in 1 .. f - 1 : g \in undefined <=> ~Sound(g)
      /\ \A g \in undefined : ~Sound(g)
      /\ \A g \in 1 .. f - 1 : functions[g].args # <<>>

\* What may stand before argument k of function g: its own stars only before the
\* last one, those of the argument before it elsewhere, anything before the first.
ArgItems(g, k) ==
  LET args == functions[g].args
  IN  {Arg(k, stars) : stars \in CASE k = Len(args) -> {args[k]}
                                   [] k # Len(args) /\ k \in 2 .. Len(args) -> {args[k - 1]}
                                   [] OTHER -> 0 .. MaxStars}

\* A function's pieces, as a sequence of sets; without arguments, what lies behind
\* its array.
Lines(g) ==
  LET count  == Len(functions[g].args)
      blocks == IF functions[g].is_declaration THEN <<>> ELSE functions[g].blocks
  IN  <<{Header(g)}>>
      \o [k \in 1 .. (IF count = 0 THEN Mapped ELSE count) |-> ArgItems(g, k)]
      \o FlattenSeq([b \in DOMAIN blocks |->
           [k \in 1 .. Len(blocks[b]) + 2 |-> {print_block(blocks[b], b)[k]}]])

\* What is printed is a beginning of the listing, and all of it in the end: every
\* function, each argument once and in order, though of several arguments only the
\* last one is sure to have its own stars (jac_print_ir, print_function).
OutIsTheListing ==
  LET listing == FlattenSeq([g \in DOMAIN functions |-> Lines(g)])
  IN  /\ Len(out) <= Len(listing)
      /\ \A k \in DOMAIN out : out[k] \in listing[k]
      /\ at = "printed" => Len(out) = Len(listing)
=============================================================================
