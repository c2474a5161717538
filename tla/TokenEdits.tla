----------------------------- MODULE TokenEdits -----------------------------
(***************************************************************************)
(* The token streams next to a program.                                    *)
(***************************************************************************)
EXTENDS Naturals, Sequences

\* s, and s with one token deleted, replaced or inserted
Edits(s, kinds) ==
  LET n == Len(s)
  IN  {s}
      \cup {SubSeq(s, 1, i - 1) \o SubSeq(s, i + 1, n) : i \in 1..n}
      \cup {[s EXCEPT ![i] = k] : i \in 1..n, k \in kinds}
      \cup {SubSeq(s, 1, i) \o <<k>> \o SubSeq(s, i + 1, n) : i \in 0..n, k \in kinds}
=============================================================================
