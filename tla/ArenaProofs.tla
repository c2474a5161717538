---------------------------- MODULE ArenaProofs ----------------------------
(***************************************************************************)
(* The places of the AST nodes in the arena, for every reserve and every   *)
(* sequence of node sizes.                                                 *)
(***************************************************************************)
EXTENDS Arena, TLAPS

LEMMA GrownBounds ==
  ASSUME NEW n \in Nat
  PROVE  /\ Grown(n) \in Nat
         /\ n <= Grown(n)
         /\ n > 2 => Grown(n) > n + 1
BY DEF Grown

\* The growth by a whole node multiplies: more room than the node needs.
LEMMA ProductBound ==
  ASSUME NEW a \in Nat, NEW b \in Nat, a > 0, b > 0
  PROVE  a * b \in Nat /\ a + b <= a * b + 1
<1>1. (a - 1) * (b - 1) >= 0
  <2>1. a - 1 \in Nat /\ b - 1 \in Nat
    OBVIOUS
  <2>2. \A x, y \in Nat : x * y >= 0
    OBVIOUS
  <2> QED
    BY <2>1, <2>2
<1>2. (a - 1) * (b - 1) = a * b - a - b + 1
  OBVIOUS
<1>3. a * b \in Nat
  OBVIOUS
<1> QED
  BY <1>1, <1>2, <1>3

\* The array is as src/main.c reserved it, or it has grown past that.
Fresh == /\ memory.room = Reserve + 1 /\ memory.capacity = Grown(Reserve + 1)
         /\ block = 0 /\ \A i \in DOMAIN objects : objects[i].block = 0
Large == memory.room = memory.capacity /\ memory.count >= Grown(Reserve + 1)

SizeInv ==
  /\ memory.count < memory.capacity
  /\ Fresh \/ Large

\* The last node ends two bytes before the count.
PlaceInv ==
  /\ Disjoint
  /\ \A i \in DOMAIN objects : objects[i].to <= memory.count - 2
  /\ memory.count = 0 => objects = <<>>

IInv == TypeOK /\ SizeInv /\ PlaceInv

LEMMA NodeFacts ==
  ASSUME IInv, NEW i \in DOMAIN objects
  PROVE  /\ objects[i].from \in Int /\ objects[i].to \in Int
         /\ objects[i].from <= objects[i].to
         /\ objects[i].to <= memory.count - 2
         /\ objects[i].from < 0 => i = 1 /\ objects[i].from = -1
<1> DEFINE Object == [from : Int, to : Int, block : Nat]
<1>1. objects \in Seq(Object)
  BY DEF IInv, TypeOK
<1>2. objects[i] \in Object
  <2> HIDE DEF Object
  <2> QED
    BY <1>1
<1>3. objects[i].from \in Int /\ objects[i].to \in Int
  BY <1>2
<1>4. Disjoint /\ objects[i].to <= memory.count - 2
  BY DEF IInv, PlaceInv
<1>5. /\ objects[i].from <= objects[i].to
      /\ objects[i].from < 0 => i = 1 /\ objects[i].from = -1
  BY <1>4 DEF Disjoint
<1> QED
  BY <1>3, <1>4, <1>5

LEMMA InitIInv == Init => IInv
<1> SUFFICES ASSUME Init
             PROVE  IInv
  OBVIOUS
<1>1. Reserve + 1 \in Nat /\ Grown(Reserve + 1) \in Nat /\ Grown(Reserve + 1) > 0
  BY ReserveAssumption, GrownBounds
<1>2. memory = [count |-> 0, capacity |-> Grown(Reserve + 1), room |-> Reserve + 1]
  BY DEF Init, new_impl
<1>3. objects \in Seq([from : Int, to : Int, block : Nat])
  BY DEF Init
<1>4. TypeOK
  BY <1>1, <1>2, <1>3 DEF Init, TypeOK, Headers
<1>5. SizeInv
  BY <1>1, <1>2 DEF Init, SizeInv, Fresh
<1>6. PlaceInv
  BY DEF Init, PlaceInv, Disjoint
<1> QED
  BY <1>4, <1>5, <1>6 DEF IInv

\* What a node does to the header: it stays ahead of the count.
LEMMA GrowStep ==
  ASSUME IInv, NEW size \in Nat \ {0}
  PROVE  LET h == grow_impl(memory, size)
         IN  /\ h \in Headers /\ h.count = memory.count + size /\ h.count < h.capacity
             /\ IF Grows(memory, size) THEN h.room = h.capacity /\ h.count >= memory.capacity
                ELSE h.room = memory.room /\ h.capacity = memory.capacity
<1>1. /\ memory.count \in Nat /\ memory.capacity \in Nat /\ memory.room \in Nat
      /\ memory.count < memory.capacity
      /\ memory = [count |-> memory.count, capacity |-> memory.capacity, room |-> memory.room]
  BY DEF IInv, TypeOK, SizeInv, Headers
<1>2. CASE Grows(memory, size)
  <2> DEFINE p == size * memory.capacity
  <2>1. p \in Nat /\ size + memory.capacity <= p + 1
    BY <1>1, ProductBound
  <2>2. Grown(p) \in Nat /\ memory.count + size < Grown(p)
    <3> HIDE DEF p
    <3>1. p > 0 => Grown(p) >= p + 1
      BY <2>1 DEF Grown
    <3>2. Grown(p) \in Nat
      BY <2>1, GrownBounds
    <3> QED
      BY <1>1, <2>1, <3>1, <3>2
  <2>3. grow_impl(memory, size) =
          [count |-> memory.count + size, capacity |-> Grown(p), room |-> Grown(p)]
    BY <1>2 DEF grow_impl, resize_impl
  <2> HIDE DEF p
  <2> QED
    BY <1>1, <1>2, <2>2, <2>3 DEF Headers, Grows
<1>3. CASE ~Grows(memory, size)
  <2>1. grow_impl(memory, size) =
          [count |-> memory.count + size, capacity |-> memory.capacity, room |-> memory.room]
    BY <1>1, <1>3 DEF grow_impl
  <2> QED
    BY <1>1, <1>3, <2>1 DEF Headers, Grows
<1> QED
  BY <1>2, <1>3

LEMMA AllocStep ==
  ASSUME IInv, NEW size \in Sizes, NEW first_byte \in FirstBytes,
         jac_arena_alloc(size, first_byte)
  PROVE  IInv'
<1> DEFINE h    == grow_impl(memory, size)
           node == [from |-> h.count - 1 - size, to |-> h.count - 2, block |-> block']
<1>1. size \in Nat \ {0} /\ first_byte \in 0..255
  BY NodeAssumption
<1>2. /\ h \in Headers /\ h.count = memory.count + size /\ h.count < h.capacity
      /\ IF Grows(memory, size) THEN h.room = h.capacity /\ h.count >= memory.capacity
         ELSE h.room = memory.room /\ h.capacity = memory.capacity
  BY <1>1, GrowStep
<1>3. /\ memory.count \in Nat /\ memory.capacity \in Nat /\ block \in Nat /\ top \in 0..255
      /\ objects \in Seq([from : Int, to : Int, block : Nat]) /\ h.count \in Nat
      /\ pc = "live"
  BY <1>2 DEF IInv, TypeOK, Headers, jac_arena_alloc
<1>4. /\ memory' = h /\ pc' = pc
      /\ block' = block \/ (Grows(memory, size) /\ block' = block + 1)
      /\ top' = first_byte \/ top' = top
  BY DEF jac_arena_alloc
<1>5. objects' = Append(objects, node)
  <2>1. h.count - 1 - size + size - 1 = h.count - 2
    BY <1>1, <1>3
  <2> HIDE DEF h
  <2> QED
    BY <2>1 DEF jac_arena_alloc, h
<1>6. block' \in Nat /\ node \in [from : Int, to : Int, block : Nat]
  BY <1>1, <1>3, <1>4
<1>7. node.from = memory.count - 1 /\ node.to = memory.count + size - 2 /\ node.block = block'
  BY <1>1, <1>2, <1>3
<1> HIDE DEF h, node
<1>8. /\ DOMAIN objects = 1..Len(objects) /\ Len(objects) \in Nat
      /\ DOMAIN objects' = 1 .. Len(objects) + 1
      /\ \A i \in DOMAIN objects : objects'[i] = objects[i]
      /\ objects'[Len(objects) + 1] = node
      /\ objects' \in Seq([from : Int, to : Int, block : Nat])
      /\ objects' # <<>>
  BY <1>3, <1>5, <1>6, SMTT(30)
<1>9. TypeOK'
  BY <1>1, <1>2, <1>3, <1>4, <1>6, <1>8 DEF TypeOK
<1>10. SizeInv'
  <2>1. CASE Grows(memory, size)
    <3>1. memory.capacity >= Grown(Reserve + 1)
      <4>1. Grown(Reserve + 1) \in Nat
        BY ReserveAssumption, GrownBounds
      <4> QED
        BY <1>3, <4>1 DEF IInv, SizeInv, Fresh, Large
    <3>2. Grown(Reserve + 1) \in Nat
      BY ReserveAssumption, GrownBounds
    <3> QED
      BY <1>2, <1>3, <1>4, <2>1, <3>1, <3>2 DEF SizeInv, Large
  <2>2. CASE ~Grows(memory, size)
    <3>1. block' = block /\ h.room = memory.room /\ h.capacity = memory.capacity
      BY <1>2, <1>4, <2>2
    <3>2. CASE Fresh
      <4>1. \A i \in DOMAIN objects' : objects'[i].block = 0
        <5> SUFFICES ASSUME NEW i \in DOMAIN objects'
                     PROVE  objects'[i].block = 0
          OBVIOUS
        <5>1. i \in DOMAIN objects \/ i = Len(objects) + 1
          BY <1>8
        <5> QED
          BY <1>7, <1>8, <3>1, <3>2, <5>1 DEF Fresh
      <4> QED
        BY <1>2, <1>4, <3>1, <3>2, <4>1 DEF SizeInv, Fresh
    <3>3. CASE Large
      <4>1. h.count >= Grown(Reserve + 1)
        <5>1. Grown(Reserve + 1) \in Nat
          BY ReserveAssumption, GrownBounds
        <5> QED
          BY <1>1, <1>2, <1>3, <3>3, <5>1 DEF Large
      <4> QED
        BY <1>2, <1>4, <3>1, <3>3, <4>1 DEF SizeInv, Large
    <3> QED
      BY <3>2, <3>3 DEF IInv, SizeInv
  <2> QED
    BY <2>1, <2>2
<1>11. PlaceInv'
  <2>1. \A i \in DOMAIN objects : /\ objects[i].from \in Int /\ objects[i].to \in Int
                                 /\ objects[i].from <= objects[i].to
                                 /\ objects[i].to <= memory.count - 2
    BY NodeFacts
  <2>2. memory.count = 0 => Len(objects) = 0
    BY DEF IInv, PlaceInv
  <2>3. \A i \in DOMAIN objects' : objects'[i].to <= h.count - 2
    <3> SUFFICES ASSUME NEW i \in DOMAIN objects'
                 PROVE  objects'[i].to <= h.count - 2
      OBVIOUS
    <3>1. CASE i \in DOMAIN objects
      <4>1. objects[i].to \in Int /\ objects[i].to <= memory.count - 2
        BY <2>1, <3>1
      <4>2. objects'[i] = objects[i]
        BY <1>8, <3>1
      <4>3. memory.count - 2 <= h.count - 2 /\ memory.count \in Int /\ h.count \in Int
        BY <1>1, <1>2, <1>3
      <4>4. objects'[i].to = objects[i].to
        BY <4>2
      <4> QED
        BY <4>1, <4>3, <4>4
    <3>2. CASE i = Len(objects) + 1
      <4>1. node.to = h.count - 2 /\ h.count \in Int
        BY <1>1, <1>2, <1>3, <1>7
      <4>2. objects'[i].to = node.to
        BY <1>8, <3>2
      <4> QED
        BY <4>1, <4>2
    <3> QED
      BY <1>8, <3>1, <3>2
  <2>4. ASSUME NEW i \in DOMAIN objects', NEW j \in DOMAIN objects'
        PROVE  /\ objects'[i].from <= objects'[i].to
               /\ i < j => objects'[i].to < objects'[j].from
               /\ objects'[i].from < 0 => i = 1 /\ objects'[i].from = -1
    <3>1. CASE i \in DOMAIN objects /\ j \in DOMAIN objects
      BY <1>8, <3>1 DEF IInv, PlaceInv, Disjoint
    <3>2. CASE i \in DOMAIN objects /\ j = Len(objects) + 1
      <4>1. /\ objects[i].from \in Int /\ objects[i].to \in Int
            /\ objects[i].from <= objects[i].to
            /\ objects[i].to <= memory.count - 2
            /\ objects[i].from < 0 => i = 1 /\ objects[i].from = -1
        BY <3>2, NodeFacts
      <4>2. objects'[i] = objects[i] /\ objects'[j] = node
        BY <1>8, <3>2
      <4> QED
        BY <1>3, <1>7, <4>1, <4>2
    <3>3. CASE i = Len(objects) + 1
      <4>1. ~(i < j)
        BY <1>8, <3>3
      <4>2. objects'[i] = node
        BY <1>8, <3>3
      <4>3. node.from <= node.to
        BY <1>1, <1>3, <1>7
      <4>4. node.from < 0 => i = 1 /\ node.from = -1
        BY <1>3, <1>7, <2>2, <3>3
      <4> QED
        BY <4>1, <4>2, <4>3, <4>4
    <3> QED
      BY <1>8, <3>1, <3>2, <3>3, SMTT(30)
  <2>5. Disjoint'
    BY <2>4 DEF Disjoint
  <2>6. memory'.count # 0
    BY <1>1, <1>2, <1>3, <1>4
  <2> QED
    BY <1>4, <2>3, <2>5, <2>6 DEF PlaceInv
<1> QED
  BY <1>9, <1>10, <1>11 DEF IInv

LEMMA NextIInv == IInv /\ [Next]_vars => IInv'
<1> SUFFICES ASSUME IInv, [Next]_vars
             PROVE  IInv'
  OBVIOUS
<1>1. CASE \E size \in Sizes, first_byte \in FirstBytes : jac_arena_alloc(size, first_byte)
  BY <1>1, AllocStep
<1>2. CASE UNCHANGED <<memory, top, objects, block>> /\ pc' \in {"live", "aborted", "freed"}
  BY <1>2 DEF IInv, TypeOK, SizeInv, Fresh, Large, PlaceInv, Disjoint
<1>3. CASE (\E size \in Sizes : ReallocFails(size)) \/ jac_free_arena \/ UNCHANGED vars
  BY <1>2, <1>3 DEF ReallocFails, jac_free_arena, vars, IInv, TypeOK
<1> QED
  BY <1>1, <1>3 DEF Next

LEMMA IInvCorrect == Spec => []IInv
BY InitIInv, NextIInv, PTL DEF Spec

\* The header, the stride's top byte and the list of nodes keep their types, whatever
\* sizes are asked for (jac_arena_alloc_impl).
THEOREM TypeCorrect == Spec => []TypeOK
<1>1. IInv => TypeOK
  BY DEF IInv
<1> QED
  BY <1>1, IInvCorrect, PTL

\* AST nodes never share a byte, and only the first overlaps the header
\* (jac_arena_alloc_impl).
THEOREM DisjointCorrect == Spec => []Disjoint
<1>1. IInv => Disjoint
  BY DEF IInv, PlaceInv
<1> QED
  BY <1>1, IInvCorrect, PTL

\* Within the bytes that src/main.c reserves, every node is inside the block and
\* every pointer to one stays valid.
THEOREM SafeCorrect == Spec => []SafeWithinReserve
<1>1. IInv => SafeWithinReserve
  <2> SUFFICES ASSUME IInv, memory.count <= Reserve + 2
               PROVE  /\ block = 0
                      /\ \A i \in DOMAIN objects : /\ objects[i].to < Reserve + 1
                                                  /\ objects[i].block = 0
    BY DEF SafeWithinReserve
  <2>1. Grown(Reserve + 1) \in Nat /\ Grown(Reserve + 1) > Reserve + 2
    BY ReserveAssumption, GrownBounds
  <2>2. memory.count \in Nat
    BY DEF IInv, TypeOK, Headers
  <2>3. Fresh
    BY <2>1, <2>2, ReserveAssumption DEF IInv, SizeInv, Large
  <2>4. \A i \in DOMAIN objects : objects[i].to \in Int /\ objects[i].to <= memory.count - 2
    BY NodeFacts
  <2> QED
    BY <2>2, <2>3, <2>4, ReserveAssumption DEF Fresh
<1> QED
  BY <1>1, IInvCorrect, PTL

\* Once grown, the arena has room for every node (darray_grow_impl).
THEOREM RoomCorrect == Spec => []RoomAfterGrowth
<1>1. IInv => RoomAfterGrowth
  <2> SUFFICES ASSUME IInv, memory.room # Reserve + 1, NEW i \in DOMAIN objects
               PROVE  objects[i].to < memory.room
    BY DEF RoomAfterGrowth
  <2>1. memory.count \in Nat /\ memory.room \in Nat /\ memory.capacity \in Nat
    BY DEF IInv, TypeOK, Headers
  <2>2. memory.room = memory.capacity /\ memory.count < memory.capacity
    BY DEF IInv, SizeInv, Fresh, Large
  <2>3. objects[i].to \in Int /\ objects[i].to <= memory.count - 2
    BY NodeFacts
  <2> QED
    BY <2>1, <2>2, <2>3
<1> QED
  BY <1>1, IInvCorrect, PTL
=============================================================================
