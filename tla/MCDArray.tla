------------------------------ MODULE MCDArray ------------------------------
\* DArray for TLC: elements of two bytes, a plain client and one that uses all macros.
EXTENDS DArray, TLC

CONSTANTS v1, v2, v3   \* distinct element values

Used == {"push", "pop", "clear", "resize", "reserve", "free"}

MCClients       == {Used, Used \cup {"shrink", "insert", "remove_span"}}
ShiftingClients == {{"push", "insert", "remove_span"}}
=============================================================================
