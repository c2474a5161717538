----------------------------- MODULE MCChecker -----------------------------
EXTENDS Checker

CONSTANTS Names, MaxStatements   \* mangled names; statements in a unit

Hdr(name) == [mangled |-> name]

Literal     == Return(Expression("literal", 1))
OtherReturn == Return(Expression("literal", 2))

Blocked ==
  {Return(NULL), [holds |-> "expression_statement"], [holds |-> "block"]}
    \cup {Return(Expression(kind, 1)) : kind \in {"identifier", "addrof", "statement"}}

Bodies ==
  {<<>>, <<Literal>>, <<OtherReturn, Literal>>} \cup {<<Literal, x>> : x \in Blocked}

Statements ==
  {Definition(Hdr(n), body) : n \in Names, body \in {<<>>, <<OtherReturn, Literal>>}}
    \cup {Extern(<<Hdr(n)>>) : n \in Names}
    \cup {Extern(<<Hdr(n), Hdr(m)>>) : n, m \in Names} \cup {Extern(<<>>)}

SeqsUpTo(S, n) == UNION {[1 .. k -> S] : k \in 0 .. n}

\* Any statements, and at the end a body of any kind.
MCUnits ==
  SeqsUpTo(Statements, MaxStatements)
    \cup {Append(u, Definition(Hdr(n), body)) :
            u \in SeqsUpTo(Statements, 1), n \in Names, body \in Bodies}
=============================================================================
