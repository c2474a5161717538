----------------------------- MODULE MCCodegen -----------------------------
(***************************************************************************)
(* Codegen on functions of up to three statements over two variables, with *)
(* every number of parameters, and on units of two functions.              *)
(***************************************************************************)
EXTENDS CodegenReference

One   == Integer(<<"1">>)
Two   == Integer(<<"2">>)
A     == String(<<"a">>)
AB    == String(<<"a", NUL, "b">>)
X     == Identifier("x")
Y     == Identifier("y")
RefX  == Addrof("x")
RefY  == Addrof("y")
F(args) == Call("f", args)
G     == Call("g", <<>>)

Statements ==
  {Variable("x", One), Variable("x", A), Variable("y", Two), Variable("y", X), Variable("y", G),
   Variable("y", RefX), Variable("x", RefX), Variable("x", X), Variable("x", Variable("y", Two)),
   Assignment("x", Two), Assignment("x", X), Assignment("x", Y), Assignment("y", RefX),
   Assignment("x", F(<<X>>)), Assignment("x", Assignment("y", One)),
   F(<<X>>), F(<<One, Y>>), F(<<RefX, RefY>>), F(<<G, X>>), F(<<X, G>>), F(<<A, AB>>),
   F(<<Assignment("x", Two), X>>), F(<<Variable("y", One)>>), F(<<X, X, X>>),
   Return(X), Return(F(<<RefX>>)), Return(NULL),
   Block(<<Variable("y", One), F(<<RefY>>)>>), Block(<<Return(Two), G>>)}

Bodies == UNION {[1 .. n -> Statements] : n \in 0 .. 3}

Short == {<<>>, <<F(<<A>>)>>, <<F(<<AB, A>>)>>, <<Variable("x", A), F(<<X, RefX>>)>>, <<G, Return(AB)>>,
          <<Variable("x", One), F(<<X>>)>>}

MCUnits ==
  {<<Function("f", 0, body)>> : body \in Bodies}
    \cup {<<Function("f", n, <<Variable("x", One), Variable("y", Two), s>>)>> :
            n \in 1 .. Registers + 1, s \in Statements}
    \cup {<<Function("f", 0, b), Extern(<<"g">>), Function("h", 1, c)>> : b, c \in Short}
=============================================================================
