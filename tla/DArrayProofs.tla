---------------------------- MODULE DArrayProofs ----------------------------
(***************************************************************************)
(* The bounds of a dynamic array, for elements of any size and any number  *)
(* of them.                                                                *)
(***************************************************************************)
EXTENDS DArray, TLAPS

\* The growth factor at least keeps a capacity, and enlarges all but 0.
LEMMA GrownBounds ==
  ASSUME NEW n \in Nat
  PROVE  /\ Grown(n) \in Nat
         /\ n <= Grown(n)
         /\ n > 0 => n + 1 <= Grown(n)
         /\ n = 0 => Grown(n) = 0
BY DEF Grown

\* An array that darray_new created has its capacity as room, or is the first
\* block, of one element, whose header says two.
RoomInv ==
  /\ header \in Headers
  /\ header.count <= header.room
  /\ header.room = header.capacity \/ (header.room = 1 /\ header.capacity = 2)

LEMMA GrowStep ==
  ASSUME RoomInv
  PROVE  LET h == grow_impl(header, 1)
         IN  /\ h \in Headers
             /\ h.count = header.count + 1
             /\ h.count <= h.room => h.room = h.capacity \/ (h.room = 1 /\ h.capacity = 2)
             /\ h.count > h.room => header.capacity = 0
<1>1. /\ header.count \in Nat /\ header.capacity \in Nat /\ header.room \in Nat
      /\ header = [count |-> header.count, capacity |-> header.capacity, room |-> header.room]
  BY DEF RoomInv, Headers
<1>2. /\ Grown(header.capacity) \in Nat
      /\ header.capacity > 0 => header.capacity + 1 <= Grown(header.capacity)
  BY <1>1, GrownBounds
<1>3. 1 * header.capacity = header.capacity
  BY <1>1
<1>4. CASE Grows(header, 1)
  <2>1. grow_impl(header, 1) =
          [count |-> header.count + 1, capacity |-> Grown(header.capacity),
           room |-> Grown(header.capacity)]
    BY <1>3, <1>4 DEF grow_impl, resize_impl
  <2> QED
    BY <1>1, <1>2, <2>1 DEF RoomInv, Headers
<1>5. CASE ~Grows(header, 1)
  <2>1. grow_impl(header, 1) =
          [count |-> header.count + 1, capacity |-> header.capacity, room |-> header.room]
    BY <1>1, <1>5 DEF grow_impl
  <2> QED
    BY <1>1, <1>5, <2>1 DEF RoomInv, Headers, Grows
<1> QED
  BY <1>4, <1>5

IInv == TypeOK /\ RoomInv /\ (pc = "overflow" => header.capacity = 0)

LEMMA InitIInv == ASSUME Reserved = {0}, Init PROVE IInv
<1>1. header = [count |-> 0, capacity |-> 2, room |-> 1] /\ pc = "live"
  BY DEF Init, new_impl, Grown
<1>2. DOMAIN mem = Offsets(header)
  BY DEF Init
<1> QED
  BY <1>1, <1>2 DEF IInv, TypeOK, RoomInv, Headers

LEMMA ResizeStep ==
  ASSUME RoomInv, NEW n \in Nat
  PROVE  LET h == resize_impl(header, n)
         IN  h \in Headers /\ h.count <= h.room /\ h.room = h.capacity /\ h.capacity = n
BY DEF resize_impl, RoomInv, Headers

\* What the operations on bytes leave alone: which bytes there are.
LEMMA Domains ==
  /\ \A h : DOMAIN Resized(h) = Offsets(h)
  /\ \A m, i, v : DOMAIN Stored(m, i, v) = DOMAIN m
  /\ \A m, to, from, n : DOMAIN memmove(m, to, from, n) = DOMAIN m
BY DEF Resized, Stored, memmove

\* A call that adds an element: it grows the block or stops.
LEMMA AddStep ==
  ASSUME IInv, pc = "live", NEW m, DOMAIN m = Offsets(grow_impl(header, 1)),
         LET h == grow_impl(header, 1)
         IN  IF h.count > h.room THEN Stop("overflow")
             ELSE header' = h /\ mem' = m /\ UNCHANGED pc
  PROVE  IInv'
<1> DEFINE h == grow_impl(header, 1)
<1>1. /\ h \in Headers /\ h.count \in Nat /\ h.room \in Nat
      /\ h.count <= h.room => h.room = h.capacity \/ (h.room = 1 /\ h.capacity = 2)
      /\ h.count > h.room => header.capacity = 0
  BY GrowStep DEF IInv, Headers
<1>2. CASE h.count > h.room
  BY <1>1, <1>2 DEF IInv, TypeOK, RoomInv, Stop, Offsets
<1>3. CASE ~(h.count > h.room)
  <2>1. header' = h /\ mem' = m /\ pc' = "live"
    BY <1>3
  <2>2. DOMAIN mem' = Offsets(h)
    BY <2>1
  <2> HIDE DEF h
  <2> QED
    BY <1>1, <1>3, <2>1, <2>2 DEF IInv, TypeOK, RoomInv, Offsets
<1> QED
  BY <1>2, <1>3

LEMMA NextIInv == IInv /\ [Next]_vars => IInv'
<1> SUFFICES ASSUME IInv, [Next]_vars
             PROVE  IInv'
  OBVIOUS
<1>0. /\ header.count \in Nat /\ header.capacity \in Nat /\ header.room \in Nat
      /\ header = [count |-> header.count, capacity |-> header.capacity, room |-> header.room]
  BY DEF IInv, TypeOK, Headers
<1>1. CASE \E v \in Values : darray_push(v)
  <2>1. PICK v \in Values : darray_push(v)
    BY <1>1
  <2> DEFINE m == Stored(Resized(grow_impl(header, 1)), grow_impl(header, 1).count - 1, v)
  <2>2. DOMAIN m = Offsets(grow_impl(header, 1))
    BY Domains
  <2>3. pc = "live" /\ LET h == grow_impl(header, 1)
                       IN  IF h.count > h.room THEN Stop("overflow")
                           ELSE header' = h /\ mem' = m /\ UNCHANGED pc
    BY <2>1 DEF darray_push, Can
  <2> HIDE DEF m
  <2> QED
    BY <2>2, <2>3, AddStep
<1>2. CASE \E i \in 0..MaxCount, v \in Values : darray_insert(i, v)
  <2>1. PICK i \in 0..MaxCount, v \in Values : darray_insert(i, v)
    BY <1>2
  <2> DEFINE m == Stored(memmove(Resized(grow_impl(header, 1)), i * Stride + 1, i * Stride,
                                 1 * Stride), i, v)
  <2>2. DOMAIN m = Offsets(grow_impl(header, 1))
    BY Domains
  <2>3. pc = "live" /\ LET h == grow_impl(header, 1)
                       IN  IF h.count > h.room THEN Stop("overflow")
                           ELSE header' = h /\ mem' = m /\ UNCHANGED pc
    BY <2>1 DEF darray_insert, Can
  <2> HIDE DEF m
  <2> QED
    BY <2>2, <2>3, AddStep
<1>3. CASE darray_pop \/ darray_clear
  <2>1. PICK n \in Nat : /\ n <= header.count /\ header' = [header EXCEPT !.count = n]
                         /\ UNCHANGED <<mem, pc>> /\ pc = "live"
    BY <1>0, <1>3 DEF darray_pop, darray_clear, Can
  <2>2. header' = [count |-> n, capacity |-> header.capacity, room |-> header.room]
    BY <1>0, <2>1
  <2> QED
    BY <1>0, <2>1, <2>2 DEF IInv, TypeOK, RoomInv, Headers, Offsets
<1>4. CASE Resize \/ Shrink \/ Reserve
  <2>1. PICK n \in Nat : darray_resize(n) /\ pc = "live"
    BY <1>0, <1>4, SizesAssumption DEF Resize, Shrink, Reserve, Can
  <2> DEFINE h == resize_impl(header, n)
  <2>2. header' = h /\ DOMAIN mem' = Offsets(h) /\ pc' = "live"
    BY <2>1, Domains DEF darray_resize
  <2>3. h \in Headers /\ h.count <= h.room /\ h.room = h.capacity
    BY ResizeStep DEF IInv
  <2> HIDE DEF h
  <2> QED
    BY <2>2, <2>3 DEF IInv, TypeOK, RoomInv, Offsets
<1>5. CASE \E i \in 0..MaxCount, n \in 1..MaxCount : darray_remove_span(i, n)
  <2>1. PICK i \in 0..MaxCount, n \in 1..MaxCount : darray_remove_span(i, n)
    BY <1>5
  <2>2. n \in Nat /\ n <= header.count /\ pc = "live"
    BY <1>0, <2>1, MaxCountAssumption DEF darray_remove_span, Can
  <2>3. CASE i * Stride < n
    <3>1. pc' = "underflow" /\ header' = header /\ mem' = mem
      BY <2>1, <2>3 DEF darray_remove_span, Stop
    <3> QED
      BY <2>2, <3>1 DEF IInv, TypeOK, RoomInv, Offsets
  <2>4. CASE ~(i * Stride < n)
    <3>1. /\ header' = [header EXCEPT !.count = @ - n] /\ pc' = pc
          /\ mem' = memmove(mem, i * Stride - n, i * Stride, n * Stride)
      BY <2>1, <2>4 DEF darray_remove_span
    <3>2. DOMAIN mem' = DOMAIN mem
      BY <3>1, Domains
    <3>3. header' = [count |-> header.count - n, capacity |-> header.capacity,
                     room |-> header.room]
      BY <1>0, <3>1
    <3> QED
      BY <1>0, <2>2, <3>1, <3>2, <3>3 DEF IInv, TypeOK, RoomInv, Headers, Offsets
  <2> QED
    BY <2>3, <2>4
<1>6. CASE darray_free
  <2>1. pc' = "freed" /\ header' = [count |-> 0, capacity |-> 0, room |-> 0] /\ DOMAIN mem' = {}
    BY <1>6 DEF darray_free
  <2> QED
    BY <2>1 DEF IInv, TypeOK, RoomInv, Headers
<1>7. CASE UNCHANGED vars
  BY <1>7 DEF vars, IInv, TypeOK, RoomInv, Offsets
<1> QED
  BY <1>1, <1>2, <1>3, <1>4, <1>5, <1>6, <1>7 DEF Next

\* An array of darray_new, whatever is called on it, keeps its elements inside its
\* block, and leaves the block only from a capacity of 0 (include/darray.h).
THEOREM OverflowCorrect == ASSUME Reserved = {0} PROVE Spec => []OverflowsOnlyFromZero
<1>1. Init => IInv
  BY InitIInv
<1>2. IInv /\ [Next]_vars => IInv'
  BY NextIInv
<1>3. IInv => OverflowsOnlyFromZero
  BY DEF IInv, RoomInv, OverflowsOnlyFromZero
<1> QED
  BY <1>1, <1>2, <1>3, PTL DEF Spec

\* The header and the bytes of an array of darray_new are those of one block,
\* whatever is called on it (include/darray.h).
THEOREM TypeCorrect == ASSUME Reserved = {0} PROVE Spec => []TypeOK
<1>1. Init => IInv
  BY InitIInv
<1>2. IInv /\ [Next]_vars => IInv'
  BY NextIInv
<1>3. IInv => TypeOK
  BY DEF IInv
<1> QED
  BY <1>1, <1>2, <1>3, PTL DEF Spec

-----------------------------------------------------------------------------

\* The calls that src/ makes never bring the capacity to 0.
UseInv == IInv /\ pc \in {"live", "freed"} /\ (pc = "live" => header.capacity > 0)

LEMMA AddInUse ==
  ASSUME UseInv, pc = "live",
         LET h == grow_impl(header, 1)
         IN  IF h.count > h.room THEN Stop("overflow") ELSE header' = h /\ UNCHANGED pc
  PROVE  pc' = "live" /\ header'.capacity > 0
<1> DEFINE h == grow_impl(header, 1)
<1>1. /\ h.count \in Nat /\ h.room \in Nat /\ h.capacity \in Nat
      /\ h.count = header.count + 1 /\ header.count \in Nat
      /\ h.count <= h.room => h.room = h.capacity \/ (h.room = 1 /\ h.capacity = 2)
      /\ h.count > h.room => header.capacity = 0
  BY GrowStep DEF UseInv, IInv, RoomInv, Headers
<1>2. header.capacity # 0
  BY DEF UseInv
<1>3. header' = h /\ pc' = pc
  BY <1>1, <1>2
<1> HIDE DEF h
<1> QED
  BY <1>1, <1>2, <1>3

LEMMA NextUseInv ==
  ASSUME 0 \notin Capacities, client \cap {"shrink", "remove_span"} = {},
         UseInv, [Next]_vars
  PROVE  UseInv'
<1>0. IInv'
  BY NextIInv DEF UseInv
<1>1. /\ header.count \in Nat /\ header.capacity \in Nat
      /\ header = [count |-> header.count, capacity |-> header.capacity, room |-> header.room]
  BY DEF UseInv, IInv, RoomInv, Headers
<1> SUFFICES pc' \in {"live", "freed"} /\ (pc' = "live" => header'.capacity > 0)
  BY <1>0 DEF UseInv
<1>2. CASE \E v \in Values : darray_push(v)
  <2>1. pc = "live" /\ LET h == grow_impl(header, 1)
                       IN  IF h.count > h.room THEN Stop("overflow")
                           ELSE header' = h /\ UNCHANGED pc
    BY <1>2 DEF darray_push, Can
  <2> QED
    BY <2>1, AddInUse
<1>3. CASE \E i \in 0..MaxCount, v \in Values : darray_insert(i, v)
  <2>1. pc = "live" /\ LET h == grow_impl(header, 1)
                       IN  IF h.count > h.room THEN Stop("overflow")
                           ELSE header' = h /\ UNCHANGED pc
    BY <1>3 DEF darray_insert, Can
  <2> QED
    BY <2>1, AddInUse
<1>4. CASE darray_pop \/ darray_clear
  <2>1. header'.capacity = header.capacity /\ pc' = pc /\ pc = "live"
    BY <1>1, <1>4 DEF darray_pop, darray_clear, Can
  <2> QED
    BY <2>1 DEF UseInv
<1>5. CASE Resize \/ Shrink \/ Reserve
  <2>1. PICK n \in Nat : n > 0 /\ darray_resize(n) /\ pc = "live"
    <3>1. ~Shrink
      BY DEF Shrink, Can
    <3>2. CASE Resize
      BY <3>2, SizesAssumption DEF Resize, Can
    <3>3. CASE Reserve
      <4>1. PICK n \in Capacities : darray_resize(header.count + n) /\ pc = "live"
        BY <3>3 DEF Reserve, Can
      <4>2. header.count + n \in Nat /\ header.count + n > 0
        BY <1>1, <4>1, SizesAssumption
      <4> QED
        BY <4>1, <4>2
    <3> QED
      BY <1>5, <3>1, <3>2, <3>3
  <2>2. header'.capacity = n /\ pc' = pc
    BY <2>1 DEF darray_resize, resize_impl
  <2> QED
    BY <2>1, <2>2
<1>6. \A i, n : ~darray_remove_span(i, n)
  BY DEF darray_remove_span, Can
<1>7. CASE darray_free
  BY <1>7 DEF darray_free
<1>8. CASE UNCHANGED vars
  BY <1>8 DEF vars, UseInv
<1> QED
  BY <1>2, <1>3, <1>4, <1>5, <1>6, <1>7, <1>8 DEF Next

ClientInv == client \cap {"shrink", "remove_span"} = {} => UseInv

\* The arrays of src/ are created by darray_new (but for that of the arena, module
\* Arena) and never shrunk to nothing: no push on them leaves the block.
THEOREM InBoundsCorrect ==
  ASSUME Reserved = {0}, 0 \notin Capacities
  PROVE  Spec => []InBounds
<1>1. Init => ClientInv
  <2>1. Init => header.capacity = 2 /\ pc = "live"
    BY DEF Init, new_impl, Grown
  <2> QED
    BY <2>1, InitIInv DEF UseInv, ClientInv
<1>2. ClientInv /\ [Next]_vars => ClientInv'
  <2> SUFFICES ASSUME ClientInv, [Next]_vars, client' \cap {"shrink", "remove_span"} = {}
               PROVE  UseInv'
    BY DEF ClientInv
  <2>1. client' = client
    BY DEF Next, vars
  <2>2. client \cap {"shrink", "remove_span"} = {}
    BY <2>1
  <2> QED
    BY <2>2, NextUseInv DEF ClientInv
<1>3. ClientInv => InBounds
  BY DEF ClientInv, UseInv, IInv, RoomInv, InBounds
<1> QED
  BY <1>1, <1>2, <1>3, PTL DEF Spec

-----------------------------------------------------------------------------
(***************************************************************************)
(* The elements, read back from the bytes.                                 *)
(***************************************************************************)

\* The bytes of an element lie behind those of the elements before it.
LEMMA Offset ==
  ASSUME NEW i \in Nat, NEW k \in 0 .. Stride - 1
  PROVE  /\ i * Stride \in Nat /\ i * Stride + k \in Nat
         /\ i * Stride + k \in i * Stride .. (i + 1) * Stride - 1
         /\ (i * Stride + k) - i * Stride = k
<1>1. (i + 1) * Stride = i * Stride + Stride /\ i * Stride \in Nat
  BY StrideAssumption
<1> QED
  BY <1>1, StrideAssumption

LEMMA Apart ==
  ASSUME NEW i \in Nat, NEW j \in Nat, i < j
  PROVE  (i + 1) * Stride <= j * Stride /\ j * Stride \in Nat /\ (i + 1) * Stride \in Nat
<1>1. PICK d \in Nat : j = i + 1 + d
  <2>1. j - (i + 1) \in Nat /\ j = i + 1 + (j - (i + 1))
    OBVIOUS
  <2> QED
    BY <2>1
<1>2. j * Stride = (i + 1) * Stride + d * Stride /\ d * Stride \in Nat /\ (i + 1) * Stride \in Nat
  BY <1>1, StrideAssumption
<1> QED
  BY <1>2

\* The offsets of the elements of a block.
LEMMA Inside ==
  ASSUME NEW h, h.room \in Nat, NEW i \in Nat, i < h.room, NEW k \in 0 .. Stride - 1
  PROVE  i * Stride + k \in Offsets(h)
BY Offset, Apart, StrideAssumption DEF Offsets

\* What an element is after one was stored: the value, or what it was.
LEMMA StoredElement ==
  ASSUME NEW m, NEW h, h.room \in Nat, DOMAIN m = Offsets(h), NEW n \in Nat, NEW v,
         NEW i \in Nat, i < h.room, NEW k \in 0 .. Stride - 1
  PROVE  Stored(m, n, v)[i * Stride + k] = IF i = n THEN Byte(v, k) ELSE m[i * Stride + k]
<1>1. i * Stride + k \in DOMAIN m
  BY Inside
<1>2. CASE i = n
  BY <1>1, <1>2, Offset DEF Stored
<1>3. CASE i # n
  <2>1. i * Stride + k \notin n * Stride .. (n + 1) * Stride - 1
    <3>1. CASE i < n
      BY <3>1, Offset, Apart
    <3>2. CASE n < i
      BY <3>2, Offset, Apart
    <3> QED
      BY <1>3, <3>1, <3>2
  <2> QED
    BY <1>1, <1>3, <2>1 DEF Stored
<1> QED
  BY <1>2, <1>3

\* realloc keeps the elements that both blocks have room for.
LEMMA ResizedElement ==
  ASSUME IInv, pc = "live", NEW h, h.room \in Nat,
         NEW i \in Nat, i < h.room, i < header.room, NEW k \in 0 .. Stride - 1
  PROVE  Resized(h)[i * Stride + k] = mem[i * Stride + k]
<1>1. header.room \in Nat /\ DOMAIN mem = Offsets(header)
  BY DEF IInv, TypeOK, Headers
<1>2. i * Stride + k \in Offsets(h) /\ i * Stride + k \in DOMAIN mem
  BY <1>1, Inside
<1> QED
  BY <1>2 DEF Resized

Chunk(v) == [k \in 0 .. Stride - 1 |-> Byte(v, k)]

LEMMA ItemsFacts ==
  ASSUME header.count \in Nat
  PROVE  /\ Items \in Seq({Element(i) : i \in Nat}) /\ Len(Items) = header.count
         /\ \A i \in 0 .. header.count - 1 : Items[i + 1] = Element(i)
         /\ \A n \in 0 .. header.count :
              SubSeq(Items, 1, n) = [j \in 1 .. n |-> Element(j - 1)]
BY DEF Items

NewElement(i) == [k \in 0 .. Stride - 1 |-> mem'[i * Stride + k]]

LEMMA NewItems ==
  ASSUME NEW n \in Nat, header'.count = n, NEW f, f = [i \in 1 .. n |-> f[i]],
         \A i \in 0 .. n - 1 : NewElement(i) = f[i + 1]
  PROVE  Items' = f
<1>1. Items' = [i \in 1 .. n |-> NewElement(i - 1)]
  BY DEF Items, Element, NewElement
<1>2. ASSUME NEW i \in 1 .. n
      PROVE  NewElement(i - 1) = f[i]
  <2>1. PICK j \in 0 .. n - 1 : j = i - 1 /\ i = j + 1
    OBVIOUS
  <2> QED
    BY <2>1
<1> QED
  BY <1>1, <1>2

\* A push appends the bytes of its value.
LEMMA PushItems ==
  ASSUME IInv, pc = "live", NEW v,
         LET h == grow_impl(header, 1)
         IN  /\ h.count <= h.room /\ header' = h
             /\ mem' = Stored(Resized(h), h.count - 1, v)
  PROVE  Items' = Append(Items, Chunk(v))
<1> DEFINE h == grow_impl(header, 1)
           n == header.count
           f == [i \in 1 .. n + 1 |-> IF i = n + 1 THEN Chunk(v) ELSE Element(i - 1)]
<1>1. /\ n \in Nat /\ header.room \in Nat /\ n <= header.room
      /\ h.count = n + 1 /\ h.room \in Nat /\ h.count <= h.room
  BY GrowStep DEF IInv, RoomInv, Headers
<1>2. mem' = Stored(Resized(h), n, v) /\ header'.count = n + 1
  BY <1>1
<1>3. DOMAIN Resized(h) = Offsets(h)
  BY Domains
<1> HIDE DEF h, n
<1>4. ASSUME NEW i \in 0 .. n, NEW k \in 0 .. Stride - 1
      PROVE  mem'[i * Stride + k] = IF i = n THEN Chunk(v)[k] ELSE Element(i)[k]
  <2>1. i \in Nat /\ i < h.room
    BY <1>1
  <2>2. mem'[i * Stride + k] = IF i = n THEN Byte(v, k) ELSE Resized(h)[i * Stride + k]
    BY <1>1, <1>2, <1>3, <2>1, StoredElement
  <2>3. CASE i = n
    BY <2>2, <2>3 DEF Chunk
  <2>4. CASE i # n
    <3>1. i < header.room
      BY <1>1, <2>4
    <3>2. Resized(h)[i * Stride + k] = mem[i * Stride + k]
      BY <1>1, <2>1, <3>1, ResizedElement
    <3> QED
      BY <2>2, <2>4, <3>2 DEF Element
  <2> QED
    BY <2>3, <2>4
<1>5. ASSUME NEW i \in 0 .. n
      PROVE  NewElement(i) = IF i = n THEN Chunk(v) ELSE Element(i)
  BY <1>4 DEF NewElement, Chunk, Element
<1>6. \A i \in 0 .. (n + 1) - 1 : NewElement(i) = f[i + 1]
  BY <1>1, <1>5
<1>7. Items' = f
  <2>1. f = [i \in 1 .. n + 1 |-> f[i]] /\ n + 1 \in Nat
    BY <1>1
  <2> HIDE DEF f
  <2> QED
    BY <1>2, <1>6, <2>1, NewItems
<1>8. Append(Items, Chunk(v)) = f
  BY <1>1 DEF Items, n
<1> QED
  BY <1>7, <1>8

\* A call that keeps the bytes of the first elements truncates.
LEMMA TruncateItems ==
  ASSUME IInv, NEW n \in 0 .. header.count, header'.count = n,
         \A i \in 0 .. n - 1 : \A k \in 0 .. Stride - 1 : mem'[i * Stride + k] = mem[i * Stride + k]
  PROVE  Items' = SubSeq(Items, 1, n)
<1> DEFINE f == [i \in 1 .. n |-> Element(i - 1)]
<1>1. header.count \in Nat /\ n \in Nat
  BY DEF IInv, TypeOK, Headers
<1>2. \A i \in 0 .. n - 1 : NewElement(i) = Element(i)
  BY DEF NewElement, Element
<1>3. \A i \in 0 .. n - 1 : NewElement(i) = f[i + 1]
  BY <1>1, <1>2
<1>4. f = [i \in 1 .. n |-> f[i]]
  OBVIOUS
<1>5. SubSeq(Items, 1, n) = f
  BY <1>1, ItemsFacts
<1>6. Items' = f
  <2> HIDE DEF f
  <2> QED
    BY <1>1, <1>3, <1>4, NewItems, ZenonT(40)
<1> QED
  BY <1>5, <1>6

\* A step of a plain client is one of the abstract sequence.
LEMMA PlainStep ==
  ASSUME 0 \notin Capacities, Plain, UseInv, [Next]_vars
  PROVE  /\ client' = client
         /\ \/ /\ pc = "live" /\ pc' = "live"
               /\ \/ \E v \in Values : Items' = Append(Items, Chunk(v))
                  \/ \E n \in 0 .. Len(Items) : Items' = SubSeq(Items, 1, n)
            \/ pc = "live" /\ pc' = "freed" /\ Items' = <<>>
            \/ UNCHANGED <<Items, pc>>
<1>0. /\ header.count \in Nat /\ header.room \in Nat /\ header.count <= header.room
      /\ header = [count |-> header.count, capacity |-> header.capacity, room |-> header.room]
      /\ Len(Items) = header.count /\ DOMAIN mem = IF pc = "freed" THEN {} ELSE Offsets(header)
      /\ IInv
  BY ItemsFacts DEF UseInv, IInv, TypeOK, RoomInv, Headers
<1>1. client' = client
  BY DEF Next, vars
<1>2. CASE \E v \in Values : darray_push(v)
  <2>1. PICK v \in Values : darray_push(v)
    BY <1>2
  <2>2. pc = "live" /\ pc' = "live"
    BY <2>1, AddInUse DEF darray_push, Can
  <2>3. LET h == grow_impl(header, 1)
        IN  /\ h.count \in Nat /\ h.room \in Nat
            /\ ~(h.count > h.room) => h.count <= h.room
    BY GrowStep DEF IInv, UseInv, Headers
  <2>4. LET h == grow_impl(header, 1)
        IN  /\ h.count <= h.room /\ header' = h
            /\ mem' = Stored(Resized(h), h.count - 1, v)
    BY <2>1, <2>2, <2>3 DEF darray_push, Stop
  <2>5. Items' = Append(Items, Chunk(v))
    BY <1>0, <2>2, <2>4, PushItems
  <2> QED
    BY <1>1, <2>2, <2>5
<1>3. CASE darray_pop \/ darray_clear
  <2>1. PICK n \in 0 .. header.count : header'.count = n /\ mem' = mem /\ pc' = pc /\ pc = "live"
    <3>1. CASE darray_pop
      <4>1. header.count - 1 \in 0 .. header.count /\ header'.count = header.count - 1
        BY <1>0, <3>1 DEF darray_pop
      <4> QED
        BY <3>1, <4>1 DEF darray_pop, Can
    <3>2. CASE darray_clear
      <4>1. 0 \in 0 .. header.count /\ header'.count = 0
        BY <1>0, <3>2 DEF darray_clear
      <4> QED
        BY <3>2, <4>1 DEF darray_clear, Can
    <3> QED
      BY <1>3, <3>1, <3>2
  <2>2. Items' = SubSeq(Items, 1, n)
    BY <1>0, <2>1, TruncateItems
  <2> QED
    BY <1>0, <1>1, <2>1, <2>2
<1>4. CASE Resize \/ Shrink \/ Reserve
  <2>1. PICK capacity \in Nat : darray_resize(capacity) /\ pc = "live"
    BY <1>0, <1>4, SizesAssumption DEF Resize, Shrink, Reserve, Can
  <2> DEFINE h == resize_impl(header, capacity)
  <2>2. /\ header' = h /\ mem' = Resized(h) /\ pc' = pc
        /\ h.count \in 0 .. header.count /\ h.room \in Nat /\ h.count <= h.room
    BY <1>0, <2>1 DEF darray_resize, resize_impl
  <2> HIDE DEF h
  <2>3. ASSUME NEW i \in 0 .. h.count - 1, NEW k \in 0 .. Stride - 1
        PROVE  mem'[i * Stride + k] = mem[i * Stride + k]
    <3>1. i \in Nat /\ i < h.room /\ i < header.room
      BY <1>0, <2>2
    <3> QED
      BY <1>0, <2>1, <2>2, <3>1, ResizedElement
  <2>4. Items' = SubSeq(Items, 1, h.count)
    BY <1>0, <2>2, <2>3, TruncateItems
  <2> QED
    BY <1>0, <1>1, <2>1, <2>2, <2>4
<1>5. CASE \E i \in 0..MaxCount, v \in Values : darray_insert(i, v)
  BY <1>5 DEF darray_insert, Can, Plain
<1>6. CASE \E i \in 0..MaxCount, n \in 1..MaxCount : darray_remove_span(i, n)
  BY <1>6 DEF darray_remove_span, Can, Plain
<1>7. CASE darray_free
  <2>1. pc = "live" /\ pc' = "freed" /\ header'.count = 0
    BY <1>7 DEF darray_free, Can
  <2>2. Items' = <<>>
    BY <2>1 DEF Items
  <2> QED
    BY <1>1, <2>1, <2>2
<1>8. CASE UNCHANGED vars
  BY <1>8 DEF vars, Items, Element
<1> QED
  BY <1>2, <1>3, <1>4, <1>5, <1>6, <1>7, <1>8 DEF Next

\* The array of a client that makes the calls of src/ is the sequence of the values
\* pushed and not popped, through every growth and resize of its block
\* (include/darray.h), for elements of any size.
THEOREM RefinementCorrect ==
  ASSUME Reserved = {0}, 0 \notin Capacities
  PROVE  Spec => ImplementsArray
<1> DEFINE PlainInv == Plain => UseInv
<1>1. Init => PlainInv /\ Abstract!Init
  <2> SUFFICES ASSUME Init
               PROVE  PlainInv /\ Abstract!Init
    OBVIOUS
  <2>1. header = [count |-> 0, capacity |-> 2, room |-> 1] /\ pc = "live"
    BY DEF Init, new_impl, Grown
  <2>2. Items = <<>>
    BY <2>1 DEF Items
  <2>3. IInv
    BY InitIInv
  <2>4. UseInv
    BY <2>1, <2>3 DEF UseInv
  <2> QED
    BY <2>1, <2>2, <2>4 DEF Abstract!Init
<1>2. PlainInv /\ [Next]_vars => PlainInv'
  <2> SUFFICES ASSUME PlainInv, [Next]_vars, Plain'
               PROVE  UseInv'
    OBVIOUS
  <2>1. client' = client
    BY DEF Next, vars
  <2>2. Plain /\ client \cap {"shrink", "remove_span"} = {}
    BY <2>1 DEF Plain
  <2> QED
    BY <2>2, NextUseInv
<1>3. PlainInv /\ [Next]_vars => [Abstract!Next]_(Abstract!vars)
  <2> SUFFICES ASSUME PlainInv, [Next]_vars
               PROVE  [Abstract!Next]_(Abstract!vars)
    OBVIOUS
  <2>1. client' = client /\ (Plain' <=> Plain)
    BY DEF Next, vars, Plain
  <2>2. CASE ~Plain
    BY <2>1, <2>2 DEF Abstract!vars
  <2>3. CASE Plain
    <3>1. \/ /\ pc = "live" /\ pc' = "live"
             /\ \/ \E v \in Values : Items' = Append(Items, Chunk(v))
                \/ \E n \in 0 .. Len(Items) : Items' = SubSeq(Items, 1, n)
          \/ pc = "live" /\ pc' = "freed" /\ Items' = <<>>
          \/ UNCHANGED <<Items, pc>>
      BY <2>3, PlainStep
    <3>2. CASE pc = "live" /\ pc' = "live" /\ \E v \in Values : Items' = Append(Items, Chunk(v))
      BY <2>1, <2>3, <3>2 DEF Abstract!Next, Abstract!Push, Abstract!Live, Chunk
    <3>3. CASE pc = "live" /\ pc' = "live" /\ \E n \in 0 .. Len(Items) : Items' = SubSeq(Items, 1, n)
      BY <2>1, <2>3, <3>3 DEF Abstract!Next, Abstract!Truncate, Abstract!Live
    <3>4. CASE pc = "live" /\ pc' = "freed" /\ Items' = <<>>
      BY <2>1, <2>3, <3>4 DEF Abstract!Next, Abstract!Free
    <3>5. CASE UNCHANGED <<Items, pc>>
      BY <2>1, <2>3, <3>5 DEF Abstract!vars
    <3> QED
      BY <3>1, <3>2, <3>3, <3>4, <3>5
  <2> QED
    BY <2>2, <2>3
<1> QED
  BY <1>1, <1>2, <1>3, PTL DEF Spec, ImplementsArray, Abstract!Spec
-----------------------------------------------------------------------------

\* An insertion: the value at its index, and the elements before it.
LEMMA InsertedElement ==
  ASSUME IInv, NEW i \in 0..MaxCount, NEW v, darray_insert(i, v), pc' = "live",
         NEW j \in 0 .. i
  PROVE  NewElement(j) = IF j = i THEN Chunk(v) ELSE Element(j)
<1> DEFINE h == grow_impl(header, 1)
           m == memmove(Resized(h), i * Stride + 1, i * Stride, 1 * Stride)
<1>1. /\ header.count \in Nat /\ header.room \in Nat /\ header.count <= header.room
      /\ h.count = header.count + 1 /\ h.room \in Nat /\ pc = "live" /\ i < header.count
      /\ i \in Nat /\ j \in Nat /\ j <= i
  BY GrowStep, MaxCountAssumption DEF IInv, RoomInv, Headers, darray_insert, Can
<1>2. mem' = Stored(m, i, v) /\ h.count <= h.room
  <2>1. ~(h.count > h.room)
    BY DEF darray_insert, Stop
  <2> QED
    BY <1>1, <2>1 DEF darray_insert
<1>3. DOMAIN m = Offsets(h) /\ DOMAIN Resized(h) = Offsets(h)
  BY Domains
<1>4. j < h.room /\ j < header.room
  BY <1>1, <1>2
<1> HIDE DEF h
<1>5. ASSUME NEW k \in 0 .. Stride - 1, j < i
      PROVE  m[j * Stride + k] = mem[j * Stride + k]
  <2>1. j * Stride + k \in Offsets(h)
    BY <1>1, <1>4, Inside
  <2>2. j * Stride + k < i * Stride + 1 /\ j * Stride + k \in Nat /\ i * Stride \in Nat
    <3>1. (j + 1) * Stride <= i * Stride /\ i * Stride \in Nat /\ (j + 1) * Stride \in Nat
      BY <1>1, <1>5, Apart
    <3>2. j * Stride + k \in Nat /\ j * Stride + k \in j * Stride .. (j + 1) * Stride - 1
      BY <1>1, Offset
    <3> QED
      BY <3>1, <3>2
  <2>3. m[j * Stride + k] = Resized(h)[j * Stride + k]
    BY <1>3, <2>1, <2>2 DEF memmove
  <2>4. Resized(h)[j * Stride + k] = mem[j * Stride + k]
    BY <1>1, <1>4, ResizedElement
  <2> QED
    BY <2>3, <2>4
<1> HIDE DEF m
<1>6. ASSUME NEW k \in 0 .. Stride - 1
      PROVE  mem'[j * Stride + k] = IF j = i THEN Byte(v, k) ELSE mem[j * Stride + k]
  <2>1. mem'[j * Stride + k] = IF j = i THEN Byte(v, k) ELSE m[j * Stride + k]
    BY <1>1, <1>2, <1>3, <1>4, StoredElement
  <2> QED
    BY <1>1, <1>5, <2>1
<1> QED
  BY <1>6 DEF NewElement, Chunk, Element

\* An insertion stores its value at the index and keeps the elements before it, though
\* it moves the bytes behind by one byte and not by an element (darray_insert_impl).
THEOREM InsertCorrect == ASSUME Reserved = {0} PROVE Spec => InsertStores
<1> DEFINE Kept(i, v) == /\ SubSeq(Items', 1, i) = SubSeq(Items, 1, i)
                         /\ Items'[i + 1] = [k \in 0 .. Stride - 1 |-> Byte(v, k)]
                         /\ Len(Items') = Len(Items) + 1
<1>1. ASSUME IInv, NEW i \in 0..MaxCount, NEW v \in Values, darray_insert(i, v), pc' = "live"
      PROVE  Kept(i, v)
  <2>1. /\ header.count \in Nat /\ header'.count = header.count + 1 /\ i \in Nat
        /\ i < header.count
    <3>1. grow_impl(header, 1).count = header.count + 1 /\ header.count \in Nat
      BY <1>1, GrowStep DEF IInv, RoomInv, Headers
    <3>2. header' = grow_impl(header, 1)
      BY <1>1 DEF darray_insert, Stop
    <3> QED
      BY <1>1, <3>1, <3>2, MaxCountAssumption DEF darray_insert
  <2>2. Items' = [j \in 1 .. header.count + 1 |-> NewElement(j - 1)]
    BY <2>1 DEF Items, Element, NewElement
  <2>3. \A j \in 0 .. i : NewElement(j) = IF j = i THEN Chunk(v) ELSE Element(j)
    BY <1>1, InsertedElement
  <2>4. SubSeq(Items', 1, i) = [j \in 1 .. i |-> NewElement(j - 1)]
    BY <2>1, <2>2
  <2>5. SubSeq(Items, 1, i) = [j \in 1 .. i |-> Element(j - 1)]
    BY <2>1, ItemsFacts
  <2>6. ASSUME NEW j \in 1 .. i
        PROVE  NewElement(j - 1) = Element(j - 1)
    <3>1. PICK n \in 0 .. i : n = j - 1 /\ n # i
      BY <2>1
    <3> QED
      BY <2>3, <3>1
  <2>7. Items'[i + 1] = NewElement(i)
    <3>1. i + 1 \in 1 .. header.count + 1 /\ (i + 1) - 1 = i
      BY <2>1
    <3> QED
      BY <2>2, <3>1
  <2>8. NewElement(i) = Chunk(v)
    BY <2>1, <2>3
  <2>9. Len(Items') = header.count + 1 /\ Len(Items) = header.count
    BY <2>1, <2>2, ItemsFacts
  <2> QED
    BY <2>4, <2>5, <2>6, <2>7, <2>8, <2>9 DEF Chunk
<1>2. IInv /\ [Next]_vars =>
        [\A i \in 0..MaxCount, v \in Values :
           darray_insert(i, v) /\ pc' = "live" => Kept(i, v)]_vars
  BY <1>1
<1>3. Init => IInv
  BY InitIInv
<1>4. IInv /\ [Next]_vars => IInv'
  BY NextIInv
<1> QED
  BY <1>2, <1>3, <1>4, PTL DEF Spec, InsertStores
=============================================================================
