---------------------------- MODULE DArrayHeader ----------------------------
(***************************************************************************)
(* The bookkeeping of a dynamic array (include/darray.h): the count and    *)
(* the capacity its header holds, and `room', the number of elements that  *)
(* the allocator was last asked for, which the header does not hold.       *)
(* Arithmetic is exact: sizes beyond 2^24, where the float of              *)
(* DARRAY_GROWTH_FACTOR rounds, are out of scope.                          *)
(***************************************************************************)
EXTENDS Naturals

\* n * DARRAY_GROWTH_FACTOR + 0.5f, converted to size_t
Grown(n) == (3 * n + 1) \div 2

\* Mutant of new_impl: the capacity is what was allocated, nothing spare.
new_impl_Exact(count) == [count |-> 0, capacity |-> count + 1, room |-> count + 1]

new_impl(count) == [count |-> 0, capacity |-> Grown(count + 1), room |-> count + 1]

resize_impl(h, new_capacity) ==
  [count    |-> IF new_capacity < h.count THEN new_capacity ELSE h.count,
   capacity |-> new_capacity,
   room     |-> new_capacity]

\* Mutant of Grows: the last element that fits is one too many.
Grows_Late(h, amount) == h.count + amount > h.capacity

Grows(h, amount) == h.count + amount >= h.capacity

\* Mutant of grow_impl: the growth factor is left out.
grow_impl_NoFactor(h, amount) ==
  LET sized == IF Grows(h, amount) THEN resize_impl(h, amount * h.capacity) ELSE h
  IN  [sized EXCEPT !.count = h.count + amount]

grow_impl(h, amount) ==
  LET sized == IF Grows(h, amount) THEN resize_impl(h, Grown(amount * h.capacity)) ELSE h
  IN  [sized EXCEPT !.count = h.count + amount]

Headers == [count : Nat, capacity : Nat, room : Nat]
=============================================================================
