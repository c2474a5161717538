------------------------------- MODULE Array -------------------------------
(***************************************************************************)
(* What the operations of include/darray.h promise: a sequence of values.  *)
(* Indices count from 0, as in C.                                          *)
(***************************************************************************)
EXTENDS Naturals, Sequences

CONSTANT Value

VARIABLES items, state

vars == <<items, state>>

Init == items = <<>> /\ state = "live"

Live == state = "live" /\ UNCHANGED state

Push(v) == Live /\ items' = Append(items, v)

\* pop, clear, and a resize below the count
Truncate(n) == Live /\ n \in 0..Len(items) /\ items' = SubSeq(items, 1, n)

Insert(i, v) ==
  /\ Live /\ i < Len(items)
  /\ items' = SubSeq(items, 1, i) \o <<v>> \o SubSeq(items, i + 1, Len(items))

RemoveSpan(i, n) ==
  /\ Live /\ i + n <= Len(items)
  /\ items' = SubSeq(items, 1, i) \o SubSeq(items, i + n + 1, Len(items))

Free == state = "live" /\ state' = "freed" /\ items' = <<>>

Next ==
  \/ \E v \in Value : Push(v)
  \/ \E n \in 0..Len(items) : Truncate(n)
  \/ \E i \in 0..Len(items), v \in Value : Insert(i, v)
  \/ \E i, n \in 0..Len(items) : RemoveSpan(i, n)
  \/ Free

Spec == Init /\ [][Next]_vars
=============================================================================
