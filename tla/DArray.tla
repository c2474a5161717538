------------------------------- MODULE DArray -------------------------------
(***************************************************************************)
(* A dynamic array of include/darray.h and the client calls made on it.    *)
(* The block is a function from byte offsets to bytes, so that a memmove   *)
(* moves exactly the bytes the code names.  A call that writes outside the *)
(* block is undefined behaviour; the model stops there.                    *)
(***************************************************************************)
EXTENDS DArrayHeader, Integers, Sequences

CONSTANTS
  Values,      \* the element values a client stores
  Stride,      \* sizeof(type)
  Reserved,    \* the counts given to darray_new_reserved (0: darray_new)
  Capacities,  \* the arguments of darray_resize
  Clients,     \* sets of macros of the API: what a client uses
  MaxCount,    \* bound on the number of elements
  MaxMixed     \* the same for a client that is not plain

ASSUME StrideAssumption  == Stride \in Nat \ {0}
ASSUME SizesAssumption   == Reserved \subseteq Nat /\ Capacities \subseteq Nat
ASSUME MaxCountAssumption == MaxCount \in Nat

VARIABLES
  header,  \* count, capacity and room of the block
  mem,     \* the bytes of the elements the block has room for
  pc,      \* "live", "freed", or "overflow" / "underflow" of the block
  client   \* the macros that the client of this array uses

vars == <<header, mem, pc, client>>

Byte(v, k) == <<v, k>>
Garbage    == <<"garbage", 0>>

Offsets(h) == 0 .. (h.room * Stride - 1)

\* Mutant of Resized: malloc in place of realloc, the bytes are not kept.
Resized_Fresh(h) == [k \in Offsets(h) |-> Garbage]

\* realloc: the bytes that are kept, garbage behind them.
Resized(h) == [k \in Offsets(h) |-> IF k \in DOMAIN mem THEN mem[k] ELSE Garbage]

\* The bytes of element i overwritten by v.
Stored(m, i, v) ==
  [k \in DOMAIN m |-> IF k \in i * Stride .. (i + 1) * Stride - 1
                      THEN Byte(v, k - i * Stride) ELSE m[k]]

\* memmove(block + to, block + from, n)
memmove(m, to, from, n) ==
  [k \in DOMAIN m |-> IF k \in to .. to + n - 1 THEN m[k - to + from] ELSE m[k]]

\* Calls that shift no elements and never leave a capacity of 0.
Plain == client \cap {"shrink", "insert", "remove_span"} = {}
Bound == IF Plain THEN MaxCount ELSE MaxMixed

Can(call) == pc = "live" /\ call \in client

Stop(why) == pc' = why /\ UNCHANGED <<header, mem>>

-----------------------------------------------------------------------------

Init ==
  \E n \in Reserved :
    /\ client \in Clients
    /\ header = new_impl(n)
    /\ mem = [k \in Offsets(new_impl(n)) |-> Garbage]
    /\ pc = "live"

darray_push(v) ==
  /\ Can("push") /\ header.count < Bound
  /\ LET h == grow_impl(header, 1)
     IN  IF h.count > h.room THEN Stop("overflow")
         ELSE /\ header' = h
              /\ mem' = Stored(Resized(h), h.count - 1, v)
              /\ UNCHANGED pc

\* Undefined for an empty array, where the count wraps around.
darray_pop ==
  /\ Can("pop") /\ header.count > 0
  /\ header' = [header EXCEPT !.count = @ - 1]
  /\ UNCHANGED <<mem, pc>>

darray_clear ==
  /\ Can("clear")
  /\ header' = [header EXCEPT !.count = 0]
  /\ UNCHANGED <<mem, pc>>

\* also darray_shrink and darray_reserve
darray_resize(capacity) ==
  /\ header' = resize_impl(header, capacity)
  /\ mem' = Resized(resize_impl(header, capacity))
  /\ UNCHANGED pc

Resize  == Can("resize") /\ \E n \in Capacities : darray_resize(n)
Shrink  == Can("shrink") /\ darray_resize(header.count)
Reserve == Can("reserve") /\ \E n \in Capacities : header.count + n <= Bound
                                                   /\ darray_resize(header.count + n)

\* Mutant of darray_insert: the value is stored before the bytes are moved.
darray_insert_StoreFirst(index, v) ==
  /\ Can("insert") /\ index < header.count /\ header.count < Bound
  /\ LET h     == grow_impl(header, 1)
         first == index * Stride
     IN  IF h.count > h.room THEN Stop("overflow")
         ELSE /\ header' = h
              /\ mem' = memmove(Stored(Resized(h), index, v), first + 1, first, 1 * Stride)
              /\ UNCHANGED pc

\* darray_shift_up_impl by one, then a memcpy of the value.
darray_insert(index, v) ==
  /\ Can("insert") /\ index < header.count /\ header.count < Bound
  /\ LET h     == grow_impl(header, 1)
         first == index * Stride
     IN  IF h.count > h.room THEN Stop("overflow")
         ELSE /\ header' = h
              /\ mem' = Stored(memmove(Resized(h), first + 1, first, 1 * Stride), index, v)
              /\ UNCHANGED pc

\* darray_shift_down_impl
darray_remove_span(index, amount) ==
  /\ Can("remove_span") /\ index < header.count /\ index + amount <= header.count
  /\ LET first == index * Stride
     IN  IF first < amount THEN Stop("underflow")
         ELSE /\ header' = [header EXCEPT !.count = @ - amount]
              /\ mem' = memmove(mem, first - amount, first, amount * Stride)
              /\ UNCHANGED pc

darray_free ==
  /\ Can("free")
  /\ pc' = "freed"
  /\ header' = [count |-> 0, capacity |-> 0, room |-> 0]
  /\ mem' = <<>>

Next ==
  /\ \/ \E v \in Values : darray_push(v)
     \/ darray_pop \/ darray_clear
     \/ Resize \/ Shrink \/ Reserve
     \/ \E i \in 0..MaxCount, v \in Values : darray_insert(i, v)
     \/ \E i \in 0..MaxCount, n \in 1..MaxCount : darray_remove_span(i, n)
     \/ darray_free
  /\ UNCHANGED client

Spec == Init /\ [][Next]_vars

-----------------------------------------------------------------------------
(***************************************************************************)
(* Properties.                                                             *)
(***************************************************************************)

TypeOK ==
  /\ header \in Headers
  /\ DOMAIN mem = IF pc = "freed" THEN {} ELSE Offsets(header)
  /\ pc \in {"live", "freed", "overflow", "underflow"}

\* No call writes outside the block: the header promises a capacity that the
\* allocation does not have (darray_new_impl), and yet every element that a
\* client of darray_new has pushed lies inside it (darray_grow_impl), unless it calls
\* darray_shrink or removes a span, as nothing in src/ does.
InBounds ==
  client \cap {"shrink", "remove_span"} = {} =>
    pc \in {"live", "freed"} /\ header.count <= header.room

Element(i) == [k \in 0 .. Stride - 1 |-> mem[i * Stride + k]]
Items      == [i \in 1 .. header.count |-> Element(i - 1)]

\* Whatever the calls, the elements of an array that darray_new created lie in
\* its block; a push leaves it only once the capacity has been shrunk to 0, which
\* no growth factor multiplies back (darray_grow_impl, darray_shrink).
OverflowsOnlyFromZero ==
  /\ header.count <= header.room
  /\ pc = "overflow" => header.capacity = 0

\* The array of a client that is not plain is not followed.
Abstract == INSTANCE Array WITH
  Value <- {[k \in 0 .. Stride - 1 |-> Byte(v, k)] : v \in Values},
  items <- IF Plain THEN Items ELSE <<>>,
  state <- IF Plain THEN pc ELSE "live"

\* The array of a plain client is the sequence of the values pushed and not popped:
\* growing and shrinking the block keeps them (include/darray.h).
ImplementsArray == Abstract!Spec

\* An insertion stores its value at the index, adds one element and keeps those
\* before the index, even when the block grows (darray_insert_impl).
InsertStores ==
  [][\A i \in 0..MaxCount, v \in Values :
       darray_insert(i, v) /\ pc' = "live" =>
         /\ SubSeq(Items', 1, i) = SubSeq(Items, 1, i)
         /\ Items'[i + 1] = [k \in 0 .. Stride - 1 |-> Byte(v, k)]
         /\ Len(Items') = Len(Items) + 1]_vars

\* "move all elements above 'index' up 'amount' places" and "... down 'amount' places",
\* the comments above the two shifts (include/darray.h:142, 157); no span at the start
\* of the array is removed, where the bytes would be moved into the header.
ShiftsElements ==
  [][/\ \A i \in 0..MaxCount, v \in Values : darray_insert(i, v) =>
          \A j \in i + 1 .. header.count - 1 : Items'[j + 2] = Items[j + 1]
     /\ \A i, n \in 1..MaxCount : darray_remove_span(i, n) /\ pc' = "live" =>
          \A j \in i + n .. header.count - 1 : Items'[j - n + 1] = Items[j + 1]]_vars
=============================================================================
