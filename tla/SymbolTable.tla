---------------------------- MODULE SymbolTable ----------------------------
(***************************************************************************)
(* What the checker of src/ir.c promises, without its loops and pointers:  *)
(* a table in which a name is entered once, a body is written while its    *)
(* name is the last one entered and never again, and which is released     *)
(* only if no name has been turned away.                                   *)
(***************************************************************************)
EXTENDS Naturals, Sequences

VARIABLES
  table,     \* a sequence of records with a name and a body
  rejected,  \* has a name been turned away?
  verdict    \* "open" until the unit has been read

vars == <<table, rejected, verdict>>

Init == table = <<>> /\ rejected = FALSE /\ verdict = "open"

last == Len(table)

Enter ==
  /\ Len(table') = last + 1
  /\ \A k \in 1 .. last : table'[k] = table[k] /\ table[k].name # table'[last + 1].name
  /\ table'[last + 1].body = <<>>
  /\ UNCHANGED rejected

Write ==
  /\ last > 0
  /\ Len(table') = last
  /\ \A k \in 1 .. last - 1 : table'[k] = table[k]
  /\ table'[last].name = table[last].name
  /\ LET body == table'[last].body
     IN  body # <<>> /\ body = Append(table[last].body, body[Len(body)])
  /\ UNCHANGED rejected

TurnAway == table # <<>> /\ rejected' = TRUE /\ UNCHANGED table

Release == verdict' = (IF rejected THEN "failed" ELSE "passed") /\ UNCHANGED <<table, rejected>>
GiveUp  == verdict' = "stopped" /\ UNCHANGED <<table, rejected>>

Next ==
  /\ verdict = "open"
  /\ \/ (Enter \/ Write \/ TurnAway) /\ UNCHANGED verdict
     \/ Release \/ GiveUp

Spec == Init /\ [][Next]_vars
=============================================================================
