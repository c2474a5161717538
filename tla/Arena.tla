------------------------------- MODULE Arena -------------------------------
(***************************************************************************)
(* The arena that holds the AST nodes: include/arena.h on the array of     *)
(* bytes that src/main.c reserves.  darray_grow_impl counts the bytes of   *)
(* a node before darray_last is taken, so a node starts one byte before    *)
(* the bytes it was given; for the first node that byte is the last one of *)
(* the header, the top byte of the `stride' field (little endian).         *)
(***************************************************************************)
EXTENDS DArrayHeader, Integers, Sequences

CONSTANTS
  Reserve,     \* the bytes src/main.c reserves: 1024 * 2
  Sizes,       \* the sizes of the AST nodes
  FirstBytes,  \* the first byte of a node: the low byte of a pointer, NULL and unset ones too
  MaxBytes     \* bound on the bytes handed out

ASSUME ReserveAssumption == Reserve \in Nat /\ Reserve > 1
ASSUME NodeAssumption    == Sizes \subseteq Nat \ {0} /\ FirstBytes \subseteq 0..255
ASSUME BoundAssumption   == MaxBytes \in Nat

VARIABLES
  memory,   \* the header of arena->memory; its stride is 1 but for its top byte
  top,      \* the top byte of the stride field
  objects,  \* the nodes handed out: first and last byte, and the block they are in
  block,    \* which block memory is in: realloc may move it
  pc        \* "live", "aborted" by an assertion of darray.h, or "freed"

vars == <<memory, top, objects, block, pc>>

Init ==
  /\ memory = new_impl(Reserve)
  /\ top = 0
  /\ objects = <<>>
  /\ block = 0
  /\ pc = "live"

\* The size passed to realloc, new_capacity * stride, is new_capacity if the top
\* byte of the product is 0, and else more than any machine has.
Obtainable(new_capacity) == (new_capacity * top) % 256 = 0

\* Mutant of jac_arena_alloc: the array grows by one byte for a whole node.
jac_arena_alloc_OneByte(size, first_byte) ==
  /\ pc = "live"
  /\ LET grown == grow_impl(memory, 1)
         from  == grown.count - 2
     IN  /\ Grows(memory, 1) => Obtainable(grown.capacity)
         /\ memory' = grown
         /\ block' \in IF Grows(memory, 1) THEN {block, block + 1} ELSE {block}
         /\ objects' = Append(objects, [from |-> from, to |-> from + size - 1,
                                        block |-> block'])
         /\ top' = IF from < 0 THEN first_byte ELSE top
  /\ UNCHANGED pc

\* jac_arena_alloc, and the store of the node that follows it in every caller.
jac_arena_alloc(size, first_byte) ==
  /\ pc = "live"
  /\ LET grown == grow_impl(memory, size)
         from  == grown.count - 1 - size
     IN  /\ Grows(memory, size) => Obtainable(grown.capacity)
         /\ memory' = grown
         /\ block' \in IF Grows(memory, size) THEN {block, block + 1} ELSE {block}
         /\ objects' = Append(objects, [from |-> from, to |-> from + size - 1,
                                        block |-> block'])
         /\ top' = IF from < 0 THEN first_byte ELSE top
  /\ UNCHANGED pc

\* DARRAY_ASSERT(new_head != NULL, "no memory to reallocate array.")
ReallocFails(size) ==
  /\ pc = "live"
  /\ Grows(memory, size) /\ ~Obtainable(grow_impl(memory, size).capacity)
  /\ pc' = "aborted"
  /\ UNCHANGED <<memory, top, objects, block>>

jac_free_arena ==
  /\ pc = "live"
  /\ pc' = "freed"
  /\ UNCHANGED <<memory, top, objects, block>>

Next ==
  \/ \E size \in Sizes :
       /\ memory.count + size <= MaxBytes
       /\ (\E first_byte \in FirstBytes : jac_arena_alloc(size, first_byte)) \/ ReallocFails(size)
  \/ jac_free_arena

Spec == Init /\ [][Next]_vars

-----------------------------------------------------------------------------
(***************************************************************************)
(* Properties.                                                             *)
(***************************************************************************)

TypeOK ==
  /\ memory \in Headers
  /\ top \in 0..255
  /\ objects \in Seq([from : Int, to : Int, block : Nat])
  /\ block \in Nat
  /\ pc \in {"live", "aborted", "freed"}

\* No two nodes share a byte, off by one as their places are, and only the first
\* one reaches into the header (jac_arena_alloc_impl).
Disjoint ==
  \A i, j \in DOMAIN objects :
    /\ objects[i].from <= objects[i].to
    /\ i < j => objects[i].to < objects[j].from
    /\ objects[i].from < 0 => i = 1 /\ objects[i].from = -1

\* As long as the nodes need no more than what src/main.c reserves, plus the two
\* bytes the arithmetic leaves spare, all of them are inside the block and none has
\* been moved (src/main.c, jac_arena_alloc_impl).
SafeWithinReserve ==
  memory.count <= Reserve + 2 =>
    /\ block = 0
    /\ \A i \in DOMAIN objects : objects[i].to < Reserve + 1 /\ objects[i].block = 0

\* Once the array has grown it has room for every node, those handed out before
\* and those to come: only between the reserved size and the first growth may a
\* node lie outside the block (darray_new_impl, darray_grow_impl).
RoomAfterGrowth ==
  memory.room # Reserve + 1 =>
    \A i \in DOMAIN objects : objects[i].to < memory.room

\* The allocator of the model never refuses what a machine could give, so the
\* assertion of darray_resize_impl, "no memory to reallocate array.", has no
\* reason to fire (include/darray.h:109).
NoAssertionFires == pc # "aborted"
=============================================================================
