--------------------------- MODULE CompilerProofs ---------------------------
(***************************************************************************)
(* The heap of the parser, and main, on every source (Ownership, Compiler).*)
(*                                                                         *)
(* What is allocated lies in the AST, and the AST is a tree; so the        *)
(* invariant of the heap has a table h of what each node holds, itself or  *)
(* in its kids (Ledger), and says of a sequence of nodes that no two hold  *)
(* the same array (Apart).  The argument:                                  *)
(*                                                                         *)
(*   1. nodes and what they hold; a free_* function replaces a node by     *)
(*      nodes and an array that hold the same (FreeCovers);                *)
(*   2. the control points of each function: when it returns, its kids     *)
(*      have the shape its free_* function relies on, and it has allocated *)
(*      its array before it takes what lies in it (Track, Paces);          *)
(*   3. the invariant: while the parser runs, each allocation is explained *)
(*      by the unit, by an activation or by what was lost (Parsing), and   *)
(*      in the cleanup by what is still to be freed (Cleaning);            *)
(*   4. one lemma per action of Ownership, and the theorems of the heap;   *)
(*   5. the functions and returns of the source, and those of the nodes:   *)
(*      what an activation has of them at each control point (Form), and   *)
(*      the AST that the checker reads (FormInv, UnitRead);                *)
(*   6. the checker on any such AST, the printer on any such IR: what they *)
(*      have made of what they have gone through (CheckInv, PrintInv);     *)
(*   7. main: what it holds at each call (MainInv), what it hands on from  *)
(*      one to the next (HandedInv), and its theorems.                     *)
(***************************************************************************)
EXTENDS Compiler, ParserProofs

-----------------------------------------------------------------------------
(***************************************************************************)
(* What lies in a node.                                                    *)
(***************************************************************************)

\* The functions that have a darray_new, and the nodes that have nothing to free in them.
Owners == {"statement_expression_call", "function_header", "block", "extern_block"}
Bare   == {"token", "type", "variable_declaration"}

\* An array of the AST: what for, and from which token on.
Places == Owners \X Nat

\* What is to be freed for a node, by a table h of the nodes that are not bare, or by a
\* darray_free.
Holds(h, y) ==
  IF y.fn \in Bare THEN {} ELSE IF y.fn = "darray_free" THEN {<< y.what, y.at >>} ELSE h[y]

AllHeld(h, t) == UNION {Holds(h, t[k]) : k \in DOMAIN t}

Known(h, y) == y.fn \in Bare \cup {"darray_free"} \/ (y \in DOMAIN h /\ y.fn \in Functions \ Bare)

\* Nodes of the table of which no two hold the same array.
Apart(h, t) ==
  /\ IsSeq(t)
  /\ \A k \in DOMAIN t : Known(h, t[k])
  /\ \A j, k \in DOMAIN t : \A a : a \in Holds(h, t[j]) /\ a \in Holds(h, t[k]) => j = k

\* The array of a node itself.
OwnArray(fn, p) == IF fn \in Owners THEN {<< fn, p >>} ELSE {}

\* What the free_* functions rely on in the kids of a node.
Shape(fn, kids) ==
  /\ fn = "statement_expression_call" => kids # << >> /\ kids[1].fn \in Bare
  /\ fn \in {"variable_definition", "assignment"} => Len(kids) = 2 /\ kids[1].fn \in Bare
  /\ fn \in {"statement_expression", "scope_statement", "unit_statement"} => Len(kids) = 1
  /\ fn = "function_definition" => Len(kids) = 2
  /\ fn = "expression" =>
       \/ Len(kids) = 1 /\ kids[1].fn = "statement_expression"
       \/ kids # << >> /\ \A k \in DOMAIN kids : kids[k].fn \in Bare
  /\ fn \in Bare \cup {"function_header"} => \A k \in DOMAIN kids : kids[k].fn \in Bare

\* A name is live for every header that has an array.
HasName(L, a) == a[1] = "function_header" => << "mangled", a[2] >> \in L

\* The table is right: a node holds its own array and what its kids hold.
Entry(h, L, x) ==
  /\ x.fn \in Functions \ Bare /\ Shape(x.fn, x.kids) /\ Apart(h, x.kids)
  /\ h[x] = OwnArray(x.fn, x.at) \cup AllHeld(h, x.kids)
  /\ OwnArray(x.fn, x.at) \cap AllHeld(h, x.kids) = {}
  /\ \A a \in h[x] : a \in Places /\ a[2] >= x.at /\ HasName(L, a)
Ledger(h, L) == \A x \in DOMAIN h : Entry(h, L, x)

\* The places of the arrays, and the tokens they stand behind.
LEMMA OwnersAre ==
  /\ DOMAIN NewBehind = Owners
  /\ NewBehind["statement_expression_call"] = {"("} /\ NewBehind["function_header"] = {"identifier"}
  /\ NewBehind["block"] = {"{"} /\ NewBehind["extern_block"] = {"{"}
  /\ Owners \subseteq Functions \ Bare /\ "darray_free" \notin Functions \cup Bare
BY DEF NewBehind, Owners, Functions, Bare

\* What a sequence of nodes holds is what its elements hold.
LEMMA AllHeldIs ==
  ASSUME NEW h, NEW t
  PROVE  \A a : a \in AllHeld(h, t) <=> \E k \in DOMAIN t : a \in Holds(h, t[k])
BY DEF AllHeld

\* A sequence of bare nodes holds nothing, and no two of them the same.
LEMMA BareHeld ==
  ASSUME NEW h, NEW t, IsSeq(t), \A k \in DOMAIN t : t[k].fn \in Bare
  PROVE  AllHeld(h, t) = {} /\ Apart(h, t)
<1>1. \A k \in DOMAIN t : Holds(h, t[k]) = {} /\ Known(h, t[k])
  BY DEF Holds, Known
<1>2. AllHeld(h, t) = {}
  BY <1>1, AllHeldIs
<1>3. Apart(h, t)
  BY <1>1 DEF Apart
<1> QED
  BY <1>2, <1>3

\* The empty sequence of nodes.
LEMMA NoneHeld ==
  ASSUME NEW h
  PROVE  AllHeld(h, << >>) = {} /\ Apart(h, << >>) /\ IsSeq(<< >>)
<1>1. << >> \in Seq({}) /\ DOMAIN << >> = {}
  OBVIOUS
<1>2. IsSeq(<< >>)
  BY <1>1 DEF IsSeq
<1> QED
  BY <1>1, <1>2, BareHeld

\* Two sequences that hold different arrays may be joined.
LEMMA JoinHeld ==
  ASSUME NEW h, NEW t, NEW u, Apart(h, t), Apart(h, u), AllHeld(h, t) \cap AllHeld(h, u) = {}
  PROVE  /\ Apart(h, t \o u) /\ IsSeq(t \o u) /\ Len(t \o u) = Len(t) + Len(u)
         /\ AllHeld(h, t \o u) = AllHeld(h, t) \cup AllHeld(h, u)
<1> DEFINE w == t \o u
           m == Len(t)
           n == Len(u)
<1>1. PICK S : t \in Seq(S)
  BY DEF Apart, IsSeq
<1>2. PICK R : u \in Seq(R)
  BY DEF Apart, IsSeq
<1>3. t \in Seq(S \cup R) /\ u \in Seq(S \cup R)
  BY <1>1, <1>2, SeqMonotonic
<1>4. /\ w \in Seq(S \cup R) /\ Len(w) = m + n /\ m \in Nat /\ n \in Nat
      /\ DOMAIN t = 1 .. m /\ DOMAIN u = 1 .. n
      /\ \A k \in 1 .. m + n : w[k] = IF k <= m THEN t[k] ELSE u[k - m]
  BY <1>3, ConcatProperties
<1>5. IsSeq(w) /\ DOMAIN w = 1 .. m + n
  BY <1>4 DEF IsSeq
<1> HIDE DEF w, m, n
<1>6. \A k \in 1 .. m : k \in 1 .. m + n /\ w[k] = t[k]
  BY <1>4
<1>7. \A k \in 1 .. n : m + k \in 1 .. m + n /\ w[m + k] = u[k]
  BY <1>4
<1>8. \A k \in 1 .. m + n : k \in 1 .. m \/ \E j \in 1 .. n : k = m + j
  <2> SUFFICES ASSUME NEW k \in 1 .. m + n, k \notin 1 .. m
               PROVE  \E j \in 1 .. n : k = m + j
    OBVIOUS
  <2>1. k - m \in 1 .. n /\ k = m + (k - m)
    BY <1>4
  <2> QED
    BY <2>1
<1>9. AllHeld(h, w) = AllHeld(h, t) \cup AllHeld(h, u)
  <2>1. ASSUME NEW a \in AllHeld(h, w)
        PROVE  a \in AllHeld(h, t) \cup AllHeld(h, u)
    <3>1. PICK k \in 1 .. m + n : a \in Holds(h, w[k])
      BY <1>5, <2>1, AllHeldIs
    <3>2. CASE k \in 1 .. m
      BY <1>4, <1>6, <3>1, <3>2, AllHeldIs
    <3>3. CASE \E j \in 1 .. n : k = m + j
      BY <1>4, <1>7, <3>1, <3>3, AllHeldIs
    <3> QED
      BY <1>8, <3>2, <3>3
  <2>2. ASSUME NEW a \in AllHeld(h, t)
        PROVE  a \in AllHeld(h, w)
    <3>1. PICK k \in 1 .. m : a \in Holds(h, t[k])
      BY <1>4, <2>2, AllHeldIs
    <3> QED
      BY <1>5, <1>6, <3>1, AllHeldIs
  <2>3. ASSUME NEW a \in AllHeld(h, u)
        PROVE  a \in AllHeld(h, w)
    <3>1. PICK k \in 1 .. n : a \in Holds(h, u[k])
      BY <1>4, <2>3, AllHeldIs
    <3> QED
      BY <1>5, <1>7, <3>1, AllHeldIs
  <2> QED
    BY <2>1, <2>2, <2>3
<1>10. Apart(h, w)
  <2>1. \A k \in DOMAIN w : Known(h, w[k])
    <3>1. /\ \A k \in 1 .. m : Known(h, t[k])
          /\ \A k \in 1 .. n : Known(h, u[k])
      BY <1>4 DEF Apart
    <3> QED
      BY <1>5, <1>6, <1>7, <1>8, <3>1
  <2>2. ASSUME NEW j \in DOMAIN w, NEW k \in DOMAIN w, NEW a, a \in Holds(h, w[j]), a \in Holds(h, w[k])
        PROVE  j = k
    <3>1. /\ \A x, y \in 1 .. m : a \in Holds(h, t[x]) /\ a \in Holds(h, t[y]) => x = y
          /\ \A x, y \in 1 .. n : a \in Holds(h, u[x]) /\ a \in Holds(h, u[y]) => x = y
      BY <1>4 DEF Apart
    <3>2. CASE j \in 1 .. m /\ k \in 1 .. m
      BY <1>6, <2>2, <3>1, <3>2
    <3>3. CASE j \in 1 .. m /\ \E e \in 1 .. n : k = m + e
      <4>1. a \in AllHeld(h, t) /\ a \in AllHeld(h, u)
        BY <1>4, <1>6, <1>7, <2>2, <3>3, AllHeldIs
      <4> QED
        BY <4>1
    <3>4. CASE k \in 1 .. m /\ \E e \in 1 .. n : j = m + e
      <4>1. a \in AllHeld(h, t) /\ a \in AllHeld(h, u)
        BY <1>4, <1>6, <1>7, <2>2, <3>4, AllHeldIs
      <4> QED
        BY <4>1
    <3>5. CASE (\E e \in 1 .. n : j = m + e) /\ (\E e \in 1 .. n : k = m + e)
      BY <1>7, <2>2, <3>1, <3>5
    <3> QED
      BY <1>5, <1>8, <3>2, <3>3, <3>4, <3>5
  <2> QED
    BY <1>5, <2>1, <2>2 DEF Apart
<1> QED
  BY <1>4, <1>5, <1>9, <1>10 DEF w, m, n

\* A node alone.
LEMMA OneHeld ==
  ASSUME NEW h, NEW y, Known(h, y)
  PROVE  Apart(h, << y >>) /\ AllHeld(h, << y >>) = Holds(h, y) /\ IsSeq(<< y >>)
<1>1. << y >> \in Seq({y}) /\ DOMAIN << y >> = {1} /\ << y >>[1] = y
  OBVIOUS
<1>2. IsSeq(<< y >>)
  BY <1>1 DEF IsSeq
<1> DEFINE t == << y >>
<1>3. IsSeq(t) /\ DOMAIN t = {1} /\ t[1] = y
  BY <1>1, <1>2
<1> HIDE DEF t
<1>4. \A a : a \in AllHeld(h, t) <=> a \in Holds(h, y)
  BY <1>3, AllHeldIs
<1>5. Apart(h, t)
  <2>1. \A j, k \in DOMAIN t : j = k
    BY <1>3
  <2>2. \A k \in DOMAIN t : Known(h, t[k])
    BY <1>3
  <2> QED
    BY <1>3, <2>1, <2>2 DEF Apart
<1> QED
  BY <1>2, <1>4, <1>5 DEF t

\* The first of some nodes, and the others.
LEMMA SplitHeld ==
  ASSUME NEW h, NEW t, Apart(h, t), t # << >>
  PROVE  /\ Apart(h, Tail(t)) /\ IsSeq(Tail(t)) /\ Len(Tail(t)) = Len(t) - 1
         /\ Head(t) = t[1] /\ Known(h, Head(t)) /\ 1 \in DOMAIN t
         /\ AllHeld(h, t) = Holds(h, Head(t)) \cup AllHeld(h, Tail(t))
         /\ Holds(h, Head(t)) \cap AllHeld(h, Tail(t)) = {}
<1> DEFINE r == Tail(t)
           m == Len(t)
<1>1. PICK S : t \in Seq(S)
  BY DEF Apart, IsSeq
<1>2. /\ r \in Seq(S) /\ Len(r) = m - 1 /\ m \in Nat /\ m >= 1
      /\ DOMAIN t = 1 .. m /\ DOMAIN r = 1 .. m - 1
      /\ \A k \in 1 .. m - 1 : r[k] = t[k + 1]
      /\ Head(t) = t[1]
  BY <1>1
<1>3. IsSeq(r)
  BY <1>2 DEF IsSeq
<1> HIDE DEF r, m
<1>4. 1 \in 1 .. m /\ \A k \in 1 .. m - 1 : k + 1 \in 1 .. m /\ k + 1 # 1
  BY <1>2
<1>5. \A k \in 1 .. m : k = 1 \/ \E j \in 1 .. m - 1 : k = j + 1
  <2> SUFFICES ASSUME NEW k \in 1 .. m, k # 1
               PROVE  \E j \in 1 .. m - 1 : k = j + 1
    OBVIOUS
  <2>1. k - 1 \in 1 .. m - 1 /\ k = (k - 1) + 1
    BY <1>2
  <2> QED
    BY <2>1
<1>6. \A j, k \in 1 .. m - 1 : j + 1 = k + 1 => j = k
  BY <1>2
<1>7. /\ \A k \in 1 .. m : Known(h, t[k])
      /\ \A j, k \in 1 .. m : \A a : a \in Holds(h, t[j]) /\ a \in Holds(h, t[k]) => j = k
  BY <1>2 DEF Apart
<1>8. Apart(h, r)
  <2>1. \A k \in DOMAIN r : Known(h, r[k])
    BY <1>2, <1>4, <1>7
  <2>2. \A j, k \in DOMAIN r : \A a : a \in Holds(h, r[j]) /\ a \in Holds(h, r[k]) => j = k
    BY <1>2, <1>4, <1>6, <1>7
  <2> QED
    BY <1>3, <2>1, <2>2 DEF Apart
<1>9. AllHeld(h, t) = Holds(h, t[1]) \cup AllHeld(h, r)
  <2>1. ASSUME NEW a \in AllHeld(h, t)
        PROVE  a \in Holds(h, t[1]) \cup AllHeld(h, r)
    <3>1. PICK k \in 1 .. m : a \in Holds(h, t[k])
      BY <1>2, <2>1, AllHeldIs
    <3>2. CASE k # 1
      <4>1. PICK j \in 1 .. m - 1 : k = j + 1
        BY <1>5, <3>2
      <4> QED
        BY <1>2, <3>1, <4>1, AllHeldIs
    <3> QED
      BY <3>1, <3>2
  <2>2. ASSUME NEW a \in Holds(h, t[1])
        PROVE  a \in AllHeld(h, t)
    BY <1>2, <1>4, <2>2, AllHeldIs
  <2>3. ASSUME NEW a \in AllHeld(h, r)
        PROVE  a \in AllHeld(h, t)
    <3>1. PICK k \in 1 .. m - 1 : a \in Holds(h, r[k])
      BY <1>2, <2>3, AllHeldIs
    <3> QED
      BY <1>2, <1>4, <3>1, AllHeldIs
  <2> QED
    BY <2>1, <2>2, <2>3
<1>10. Holds(h, t[1]) \cap AllHeld(h, r) = {}
  <2> SUFFICES ASSUME NEW a, a \in Holds(h, t[1]), a \in AllHeld(h, r)
               PROVE  FALSE
    OBVIOUS
  <2>1. PICK k \in 1 .. m - 1 : a \in Holds(h, r[k])
    BY <1>2, AllHeldIs
  <2>2. a \in Holds(h, t[k + 1])
    BY <1>2, <2>1
  <2> QED
    BY <1>4, <1>7, <2>2
<1> QED
  BY <1>2, <1>3, <1>4, <1>7, <1>8, <1>9, <1>10 DEF r, m

-----------------------------------------------------------------------------
(***************************************************************************)
(* Cleanup.                                                                *)
(***************************************************************************)

\* A deallocation holds the array it frees.
LEMMA DeallocationHeld ==
  ASSUME NEW h, NEW w, NEW p
  PROVE  /\ Known(h, darray_free(w, p)) /\ Holds(h, darray_free(w, p)) = {<< w, p >>}
         /\ Apart(h, << darray_free(w, p) >>) /\ AllHeld(h, << darray_free(w, p) >>) = {<< w, p >>}
<1> DEFINE y == darray_free(w, p)
<1>1. y.fn = "darray_free" /\ y.what = w /\ y.at = p
  BY DEF darray_free
<1> HIDE DEF y
<1>2. Known(h, y) /\ Holds(h, y) = {<< w, p >>}
  BY <1>1, OwnersAre DEF Known, Holds
<1>3. Apart(h, << y >>) /\ AllHeld(h, << y >>) = {<< w, p >>}
  BY <1>2, OneHeld
<1> QED
  BY <1>2, <1>3 DEF y

\* A node's kids with the deallocation of its own array.
LEMMA KidsAndOwn ==
  ASSUME NEW h, NEW L, NEW x, Entry(h, L, x), x.fn \in Owners, NEW t, Apart(h, t),
         AllHeld(h, t) = AllHeld(h, x.kids)
  PROVE  /\ Apart(h, t \o Own(x.fn, x)) /\ AllHeld(h, t \o Own(x.fn, x)) = h[x]
<1> DEFINE u == Own(x.fn, x)
<1>1. Apart(h, u) /\ AllHeld(h, u) = {<< x.fn, x.at >>}
  BY DeallocationHeld DEF Own
<1>2. /\ h[x] = {<< x.fn, x.at >>} \cup AllHeld(h, x.kids)
      /\ {<< x.fn, x.at >>} \cap AllHeld(h, x.kids) = {}
  BY DEF Entry, OwnArray
<1> HIDE DEF u
<1>3. Apart(h, t \o u) /\ AllHeld(h, t \o u) = AllHeld(h, t) \cup AllHeld(h, u)
  BY <1>1, <1>2, JoinHeld
<1> QED
  BY <1>1, <1>2, <1>3 DEF u

\* Two kids of which the first is bare.
LEMMA SecondHeld ==
  ASSUME NEW h, NEW t, Apart(h, t), Len(t) = 2, t[1].fn \in Bare
  PROVE  Apart(h, << t[2] >>) /\ AllHeld(h, << t[2] >>) = AllHeld(h, t)
<1>1. DOMAIN t = {1, 2}
  BY SeqFacts DEF Apart
<1>2. Known(h, t[2]) /\ Holds(h, t[1]) = {}
  BY <1>1 DEF Apart, Holds
<1>3. \A a : a \in AllHeld(h, t) <=> a \in Holds(h, t[2])
  BY <1>1, <1>2, AllHeldIs
<1> DEFINE y == t[2]
<1> HIDE DEF y
<1>4. Apart(h, << y >>) /\ AllHeld(h, << y >>) = Holds(h, y)
  BY <1>2, OneHeld DEF y
<1> QED
  BY <1>3, <1>4 DEF y

\* The only kid, and both of two.
LEMMA KidsHeld ==
  ASSUME NEW h, NEW t, Apart(h, t)
  PROVE  /\ Len(t) = 1 => Apart(h, << t[1] >>) /\ AllHeld(h, << t[1] >>) = AllHeld(h, t)
         /\ Len(t) = 2 => Apart(h, << t[1], t[2] >>) /\ AllHeld(h, << t[1], t[2] >>) = AllHeld(h, t)
<1>1. PICK S : t \in Seq(S)
  BY DEF Apart, IsSeq
<1>2. Len(t) = 1 => t = << t[1] >>
  BY <1>1
<1>3. Len(t) = 2 => t = << t[1], t[2] >>
  BY <1>1
<1> QED
  BY <1>2, <1>3

\* A bare node has nothing to free.
LEMMA FreeBare ==
  ASSUME NEW x, x.fn \in Bare
  PROVE  free(x) = << >>
BY DEF free, Bare

\* What a free_* function goes on to do for a node frees what lies in it, each array once.
LEMMA FreeCovers ==
  ASSUME NEW h, NEW L, Ledger(h, L), NEW x, Known(h, x), x.fn # "darray_free"
  PROVE  Apart(h, free(x)) /\ AllHeld(h, free(x)) = Holds(h, x)
<1>1. CASE x.fn \in Bare
  <2>1. Holds(h, x) = {}
    BY <1>1 DEF Holds
  <2> QED
    BY <1>1, <2>1, FreeBare, NoneHeld
<1>2. CASE x.fn \notin Bare
  <2>1. x \in DOMAIN h /\ x.fn \in Functions /\ Entry(h, L, x)
    BY <1>2 DEF Known, Ledger
  <2>2. Holds(h, x) = h[x] /\ Apart(h, x.kids) /\ Shape(x.fn, x.kids)
    BY <1>2, <2>1 DEF Holds, Entry
  <2>3. x.fn \notin Owners => h[x] = AllHeld(h, x.kids)
    BY <2>1 DEF Entry, OwnArray
  <2>4. CASE x.fn = "statement_expression_call"
    <3>1. x.kids # << >> /\ x.kids[1].fn \in Bare
      BY <2>2, <2>4 DEF Shape
    <3>2. /\ Apart(h, Tail(x.kids)) /\ Head(x.kids) = x.kids[1]
          /\ AllHeld(h, x.kids) = Holds(h, Head(x.kids)) \cup AllHeld(h, Tail(x.kids))
      BY <2>2, <3>1, SplitHeld
    <3>3. AllHeld(h, Tail(x.kids)) = AllHeld(h, x.kids)
      BY <3>1, <3>2 DEF Holds
    <3>4. free(x) = Tail(x.kids) \o Own(x.fn, x)
      BY <2>4 DEF free, free_statement_expression_call
    <3> DEFINE t == Tail(x.kids)
    <3>5. x.fn \in Owners
      BY <2>4 DEF Owners
    <3>6. Apart(h, t) /\ AllHeld(h, t) = AllHeld(h, x.kids) /\ free(x) = t \o Own(x.fn, x)
      BY <3>2, <3>3, <3>4
    <3> HIDE DEF t
    <3>7. Apart(h, t \o Own(x.fn, x)) /\ AllHeld(h, t \o Own(x.fn, x)) = h[x]
      BY <2>1, <3>5, <3>6, KidsAndOwn
    <3> QED
      BY <2>2, <3>6, <3>7
  <2>5. CASE x.fn \in {"variable_definition", "assignment"}
    <3>1. Len(x.kids) = 2 /\ x.kids[1].fn \in Bare
      BY <2>2, <2>5 DEF Shape
    <3>2. free(x) = << x.kids[2] >>
      BY <2>5 DEF free, free_variable_definition, free_assignment
    <3>3. x.fn \notin Owners
      BY <2>5 DEF Owners
    <3> QED
      BY <2>2, <2>3, <3>1, <3>2, <3>3, SecondHeld
  <2>6. CASE x.fn \in {"statement_expression", "scope_statement", "unit_statement"}
    <3>1. Len(x.kids) = 1
      BY <2>2, <2>6 DEF Shape
    <3>2. free(x) = << x.kids[1] >>
      BY <2>6 DEF free, free_statement_expression
    <3>3. x.fn \notin Owners
      BY <2>6 DEF Owners
    <3> QED
      BY <2>2, <2>3, <3>1, <3>2, <3>3, KidsHeld
  <2>7. CASE x.fn = "expression"
    <3>1. x.fn \notin Owners /\ free(x) = free_expression(x)
      BY <2>7 DEF Owners, free
    <3>2. CASE Len(x.kids) = 1 /\ x.kids[1].fn = "statement_expression"
      <4>1. free(x) = << x.kids[1] >>
        BY <3>1, <3>2 DEF free_expression
      <4> QED
        BY <2>2, <2>3, <3>1, <3>2, <4>1, KidsHeld
    <3>3. CASE x.kids # << >> /\ \A k \in DOMAIN x.kids : x.kids[k].fn \in Bare
      <4>1. 1 \in DOMAIN x.kids
        BY <2>2, <3>3, SplitHeld
      <4>2. x.kids[1].fn # "statement_expression"
        BY <3>3, <4>1 DEF Bare
      <4>3. free(x) = << >>
        BY <3>1, <4>2 DEF free_expression
      <4>4. AllHeld(h, x.kids) = {}
        BY <2>2, <3>3, BareHeld DEF Apart
      <4> QED
        BY <2>2, <2>3, <3>1, <4>3, <4>4, NoneHeld
    <3> QED
      BY <2>2, <2>7, <3>2, <3>3 DEF Shape
  <2>8. CASE x.fn = "statement_return"
    <3>1. free(x) = x.kids /\ x.fn \notin Owners
      BY <2>8 DEF free, free_return, Owners
    <3> QED
      BY <2>2, <2>3, <3>1
  <2>9. CASE x.fn \in {"block", "extern_block"}
    <3>1. free(x) = x.kids \o Own(x.fn, x) /\ x.fn \in Owners
      BY <2>9 DEF free, free_block, free_extern_block, Owners
    <3> QED
      BY <2>1, <2>2, <3>1, KidsAndOwn
  <2>10. CASE x.fn = "function_header"
    <3>1. \A k \in DOMAIN x.kids : x.kids[k].fn \in Bare
      BY <2>2, <2>10 DEF Shape
    <3>2. AllHeld(h, x.kids) = {}
      BY <2>2, <3>1, BareHeld DEF Apart
    <3> DEFINE u == << darray_free(x.fn, x.at) >>
    <3>3. free(x) = u /\ Apart(h, u) /\ AllHeld(h, u) = {<< x.fn, x.at >>}
      <4>1. free(x) = u
        BY <2>10 DEF free, free_function_header, Own
      <4>2. Apart(h, u) /\ AllHeld(h, u) = {<< x.fn, x.at >>}
        BY DeallocationHeld
      <4> QED
        BY <4>1, <4>2
    <3>4. h[x] = {<< x.fn, x.at >>}
      BY <2>1, <2>10, <3>2 DEF Entry, OwnArray, Owners
    <3> HIDE DEF u
    <3> QED
      BY <2>2, <3>3, <3>4
  <2>11. CASE x.fn = "function_definition"
    <3>1. Len(x.kids) = 2
      BY <2>2, <2>11 DEF Shape
    <3>2. free(x) = << x.kids[1], x.kids[2] >>
      BY <2>11 DEF free, free_function_definition
    <3>3. x.fn \notin Owners
      BY <2>11 DEF Owners
    <3> QED
      BY <2>2, <2>3, <3>1, <3>2, <3>3, KidsHeld
  <2> QED
    BY <1>2, <2>1, <2>4, <2>5, <2>6, <2>7, <2>8, <2>9, <2>10, <2>11 DEF Functions, Bare
<1> QED
  BY <1>1, <1>2

-----------------------------------------------------------------------------
(***************************************************************************)
(* The table grows with the nodes.                                         *)
(***************************************************************************)

\* The table with one node more.
WithNode(h, n) ==
  [x \in DOMAIN h \cup {n} |-> IF x \in DOMAIN h THEN h[x]
                               ELSE OwnArray(n.fn, n.at) \cup AllHeld(h, n.kids)]

\* What is known keeps what it holds.
LEMMA StillHolds ==
  ASSUME NEW h, NEW g, Extends(h, g), NEW y, Known(h, y)
  PROVE  Known(g, y) /\ Holds(g, y) = Holds(h, y)
<1>1. CASE y.fn \in Bare \cup {"darray_free"}
  BY <1>1 DEF Known, Holds
<1>2. CASE y.fn \notin Bare \cup {"darray_free"}
  <2>1. y \in DOMAIN h /\ y.fn \in Functions \ Bare
    BY <1>2 DEF Known
  <2>2. y \in DOMAIN g /\ g[y] = h[y]
    BY <2>1 DEF Extends
  <2> QED
    BY <1>2, <2>1, <2>2 DEF Known, Holds
<1> QED
  BY <1>1, <1>2

\* What holds different arrays still does in a larger table.
LEMMA StillApart ==
  ASSUME NEW h, NEW g, Extends(h, g), NEW t, Apart(h, t)
  PROVE  Apart(g, t) /\ AllHeld(g, t) = AllHeld(h, t)
<1>1. \A k \in DOMAIN t : Known(g, t[k]) /\ Holds(g, t[k]) = Holds(h, t[k])
  BY StillHolds DEF Apart
<1>2. \A a : a \in AllHeld(g, t) <=> a \in AllHeld(h, t)
  BY <1>1, AllHeldIs
<1>3. Apart(g, t)
  BY <1>1 DEF Apart
<1> QED
  BY <1>2, <1>3

\* The table stays right when more is live.
LEMMA MoreLive ==
  ASSUME NEW h, NEW L, NEW M, L \subseteq M, Ledger(h, L)
  PROVE  Ledger(h, M)
BY DEF Ledger, Entry, HasName

\* An entry stays right in a larger table.
LEMMA StillEntry ==
  ASSUME NEW h, NEW g, Extends(h, g), NEW L, NEW x \in DOMAIN h, Entry(h, L, x)
  PROVE  Entry(g, L, x)
<1>1. Apart(h, x.kids) /\ g[x] = h[x]
  BY DEF Entry, Extends
<1>2. Apart(g, x.kids) /\ AllHeld(g, x.kids) = AllHeld(h, x.kids)
  BY <1>1, StillApart
<1> QED
  BY <1>1, <1>2 DEF Entry

\* The node of a function that has returned is entered with what it holds.
LEMMA NodeEntered ==
  ASSUME NEW h, NEW L, Ledger(h, L),
         NEW n, n.fn \in Functions \ Bare, Shape(n.fn, n.kids), Apart(h, n.kids),
         OwnArray(n.fn, n.at) \cap AllHeld(h, n.kids) = {},
         \A a \in OwnArray(n.fn, n.at) \cup AllHeld(h, n.kids) :
           a \in Places /\ a[2] >= n.at /\ HasName(L, a)
  PROVE  LET g == WithNode(h, n)
         IN  /\ Extends(h, g) /\ Ledger(g, L) /\ Known(g, n)
             /\ Holds(g, n) = OwnArray(n.fn, n.at) \cup AllHeld(h, n.kids)
<1> DEFINE g == WithNode(h, n)
           v == OwnArray(n.fn, n.at) \cup AllHeld(h, n.kids)
<1>1. DOMAIN g = DOMAIN h \cup {n} /\ \A x \in DOMAIN h : g[x] = h[x]
  BY DEF WithNode
<1>2. Extends(h, g)
  BY <1>1 DEF Extends
<1>3. g[n] = v
  <2>1. CASE n \in DOMAIN h
    BY <1>1, <2>1 DEF Ledger, Entry
  <2>2. CASE n \notin DOMAIN h
    BY <2>2 DEF WithNode
  <2> QED
    BY <2>1, <2>2
<1> HIDE DEF g
<1>4. Apart(g, n.kids) /\ AllHeld(g, n.kids) = AllHeld(h, n.kids)
  BY <1>2, StillApart
<1>5. Entry(g, L, n)
  BY <1>3, <1>4 DEF Entry
<1>6. \A x \in DOMAIN h : Entry(g, L, x)
  BY <1>2, StillEntry DEF Ledger
<1>7. Ledger(g, L)
  BY <1>1, <1>5, <1>6 DEF Ledger
<1>8. Known(g, n)
  BY <1>1 DEF Known
<1>9. Holds(g, n) = v
  BY <1>3, OwnersAre DEF Holds
<1> QED
  BY <1>2, <1>7, <1>8, <1>9 DEF g

-----------------------------------------------------------------------------
(***************************************************************************)
(* What an activation has taken from the heap and kept at each control     *)
(* point: its array, and the name of a header.                             *)
(***************************************************************************)

\* Kids that hold nothing, and what is left of a body inside a type and behind a header.
AllBare(kids) == \A k \in DOMAIN kids : kids[k].fn \in Bare

type_loop == While({"*"}, << Keep({"*"}) >>)
type_star == << Keep({"*"}), type_loop, Keep({"identifier", "u8", "i32"}) >>
type_name == << Keep({"identifier", "u8", "i32"}) >>
function_block == << Must("block") >>

\* The body of a function that fails at once.
Rejects(left) == left # << >> /\ Head(left).op = "token" /\ Head(left).kinds = {}

\* The control points of each function: its kids so far, what is left of its body, and what
\* it has taken from the heap.
CallTrack(kids, left, taken) ==
  \/ kids = << >> /\ left = parse_statement_expression_call /\ taken = {}
  \/ kids # << >> /\ kids[1].fn \in Bare /\ left = call_open /\ taken = {}
  \/ /\ kids # << >> /\ kids[1].fn \in Bare /\ taken = {"statement_expression_call"}
     /\ left \in {call_first, call_next, call_comma, call_arg, call_close, << >>}

DefinitionTrack(first, kids, left, taken) ==
  /\ taken = {}
  /\ \/ kids = << >> /\ left = definition_first(first)
     \/ /\ Len(kids) = 1 /\ kids[1].fn \in Bare
        /\ left \in {definition_colon, definition_equals, definition_value}
     \/ Len(kids) = 2 /\ kids[1].fn \in Bare /\ left = << >>

SingleTrack(kids, left, taken) ==
  /\ taken = {}
  /\ \/ kids = << >> /\ (Rejects(left) \/ \E g \in Functions \ Bare : Needs(left, g, << >>))
     \/ Len(kids) = 1 /\ left = << >>

FunctionTrack(kids, left, taken) ==
  /\ taken = {}
  /\ \/ kids = << >> /\ left = parse_function_definition
     \/ Len(kids) = 1 /\ left = function_block
     \/ Len(kids) = 2 /\ left = << >>

OneKept(left) == \E ks : left = << Keep(ks) >>
TwoKept(left) == \E ks, ls : left = << Keep(ks), Keep(ls) >>

ExpressionTrack(kids, left, taken) ==
  /\ taken = {}
  /\ \/ Rejects(left)
     \/ AllBare(kids) /\ (OneKept(left) \/ TwoKept(left))
     \/ kids = << >> /\ Needs(left, "statement_expression", << >>)
     \/ Len(kids) = 1 /\ kids[1].fn = "statement_expression" /\ left = << >>
     \/ kids # << >> /\ AllBare(kids) /\ left = << >>

TypeTrack(kids, left, taken) ==
  AllBare(kids) /\ taken = {} /\ left \in {parse_type, type_star, type_name, << >>}

DeclarationTrack(kids, left, taken) ==
  /\ AllBare(kids) /\ taken = {}
  /\ left \in {parse_variable_declaration, declaration_colon, declaration_name, << >>}

ReturnTrack(kids, left, taken) ==
  taken = {} /\ left \in {parse_statement_return, return_value, << >>}

ScopeTrack(kids, left, taken) ==
  /\ taken = {}
  /\ \/ kids = << >> /\ left \in {scope_return, scope_block, scope_expression}
     \/ Len(kids) = 1 /\ left \in {scope_close, << >>}

BlockTrack(kids, left, taken) ==
  \/ left = parse_block /\ taken = {}
  \/ left \in {block_next, block_statement, block_close, << >>} /\ taken = {"block"}

ExternTrack(kids, left, taken) ==
  \/ left \in {parse_extern_block, extern_open} /\ taken = {}
  \/ /\ left \in {extern_next, extern_header, extern_end, extern_close, << >>}
     /\ taken = {"extern_block"}

HeaderTrack(kids, left, taken) ==
  /\ AllBare(kids)
  /\ \/ left \in {parse_function_header, header_name} /\ taken = {}
     \/ /\ left \in {header_named, header_open, header_first, header_next, header_comma,
                     header_param, header_close, header_listed}
        /\ taken = {"function_header"}
     \/ /\ left \in {header_minus, header_arrow, header_type, << >>}
        /\ taken = {"function_header", "mangled"}

\* All of them.
Track(fn, kids, left, taken) ==
  CASE fn = "statement_expression_call" -> CallTrack(kids, left, taken)
    [] fn = "variable_definition" ->
         DefinitionTrack(Call("variable_declaration"), kids, left, taken)
    [] fn = "assignment" -> DefinitionTrack(Keep({"identifier"}), kids, left, taken)
    [] fn \in {"statement_expression", "unit_statement"} -> SingleTrack(kids, left, taken)
    [] fn = "function_definition" -> FunctionTrack(kids, left, taken)
    [] fn = "expression" -> ExpressionTrack(kids, left, taken)
    [] fn = "type" -> TypeTrack(kids, left, taken)
    [] fn = "variable_declaration" -> DeclarationTrack(kids, left, taken)
    [] fn = "statement_return" -> ReturnTrack(kids, left, taken)
    [] fn = "scope_statement" -> ScopeTrack(kids, left, taken)
    [] fn = "block" -> BlockTrack(kids, left, taken)
    [] fn = "extern_block" -> ExternTrack(kids, left, taken)
    [] fn = "function_header" -> HeaderTrack(kids, left, taken)

\* What an activation has taken behind a token, and behind a branch.
Behind(fn, kinds, taken) ==
  IF fn \in Owners /\ kinds = NewBehind[fn] THEN taken \cup {fn} ELSE taken
Passing(kinds, taken) == IF kinds = {"-"} THEN taken \cup {"mangled"} ELSE taken

\* What may happen at a control point, and what is taken and kept then.  A node that is
\* not bare is taken by an activation that has its array, if it is to have one.
Paces(fn, kids, left, taken) ==
  LET x == Head(left)
      r == Tail(left)
  IN  /\ left = << >> => /\ Shape(fn, kids)
                         /\ fn \in Owners => fn \in taken
                         /\ fn = "function_header" => "mangled" \in taken
      /\ left # << >> /\ x.op = "token" /\ x.kinds # {} =>
           \A leaf : leaf.fn = "token" =>
             Track(fn, IF x.keep THEN Append(kids, leaf) ELSE kids, r, Behind(fn, x.kinds, taken))
      /\ left # << >> /\ x.op \in {"when", "while"} =>
           /\ \A b \in BOOLEAN :
                Track(fn, kids, IF b THEN x.then \o (IF x.op = "while" THEN left ELSE r) ELSE r,
                      Passing(x.kinds, taken))
           /\ x.kinds = {"-"} => fn = "function_header" /\ taken # {}
      /\ left # << >> /\ x.op \in {"call", "try"} =>
           /\ \A n : n.fn = x.fn =>
                Track(fn, Append(kids, n), (IF x.op = "try" THEN x.then ELSE << >>) \o r, taken)
           /\ x.fn \notin Bare => fn \notin Bare /\ (fn \in Owners => taken # {})
      /\ left # << >> /\ x.op = "try" => Track(fn, kids, r, taken)

\* An activation goes on rightly from its end when its node can be freed ...
LEMMA PaceEnd ==
  ASSUME NEW fn, NEW kids, NEW taken, Shape(fn, kids), fn \in Owners => fn \in taken,
         fn = "function_header" => "mangled" \in taken
  PROVE  Paces(fn, kids, << >>, taken)
BY DEF Paces

\* ... from the failure of the body ...
LEMMA PaceReject ==
  ASSUME NEW fn, NEW kids, NEW left, NEW taken, Rejects(left)
  PROVE  Paces(fn, kids, left, taken)
BY DEF Paces, Rejects

\* The failure of a body is one.
LEMMA RejectIs == Rejects(<< Reject >>)
<1>1. Reject.op = "token" /\ Reject.kinds = {}
  BY DEF Reject
<1> DEFINE x == Reject
<1>2. x.op = "token" /\ x.kinds = {}
  BY <1>1
<1> HIDE DEF x
<1>3. Rejects(<< x >>)
  BY <1>2, End1 DEF Rejects
<1> QED
  BY <1>3 DEF x

\* ... from a token that is not kept, behind which nothing new is taken ...
LEMMA PaceDrop ==
  ASSUME NEW fn, NEW kids, NEW left, NEW taken, NEW kind, NEW r, Drops(left, kind, r),
         Track(fn, kids, r, taken), fn \in Owners /\ NewBehind[fn] = {kind} => fn \in taken
  PROVE  Paces(fn, kids, left, taken)
<1>1. Tok(kind).op = "token" /\ Tok(kind).kinds = {kind} /\ Tok(kind).keep = FALSE
  BY ItemFields
<1>2. Behind(fn, {kind}, taken) = taken
  <2>1. fn \in taken => taken \cup {fn} = taken
    OBVIOUS
  <2> QED
    BY <2>1 DEF Behind
<1> QED
  BY <1>1, <1>2 DEF Paces, Drops

\* ... or the array ...
LEMMA PaceOpen ==
  ASSUME NEW fn \in Owners, NEW kids, NEW left, NEW taken, NEW kind, NEW r, Drops(left, kind, r),
         NewBehind[fn] = {kind}, Track(fn, kids, r, taken \cup {fn})
  PROVE  Paces(fn, kids, left, taken)
<1>1. Tok(kind).op = "token" /\ Tok(kind).kinds = {kind} /\ Tok(kind).keep = FALSE
  BY ItemFields
<1>2. Behind(fn, {kind}, taken) = taken \cup {fn}
  BY DEF Behind
<1> QED
  BY <1>1, <1>2 DEF Paces, Drops

\* ... from a token that is kept ...
LEMMA PaceKeep ==
  ASSUME NEW fn, NEW kids, NEW left, NEW taken, NEW kinds, NEW r, Keeps(left, kinds, r),
         \A leaf : leaf.fn = "token" => Track(fn, Append(kids, leaf), r, Behind(fn, kinds, taken))
  PROVE  Paces(fn, kids, left, taken)
<1>1. Keep(kinds).op = "token" /\ Keep(kinds).kinds = kinds /\ Keep(kinds).keep = TRUE
  BY ItemFields
<1> QED
  BY <1>1 DEF Paces, Keeps

\* ... from a branch or a loop that is not for the arrow ...
LEMMA PaceLoop ==
  ASSUME NEW fn, NEW kids, NEW left, NEW taken, NEW kinds, NEW r, NEW u,
         Repeats(left, kinds, u, r) \/ Branches(left, kinds, u, r), kinds # {"-"},
         Track(fn, kids, u, taken), Track(fn, kids, r, taken)
  PROVE  Paces(fn, kids, left, taken)
<1>1. Passing(kinds, taken) = taken
  BY DEF Passing
<1>2. CASE Repeats(left, kinds, u, r)
  BY <1>1, <1>2 DEF Paces, Repeats
<1>3. CASE Branches(left, kinds, u, r)
  BY <1>1, <1>3 DEF Paces, Branches
<1> QED
  BY <1>2, <1>3

\* ... from the branch for the arrow, on which a header takes its name ...
LEMMA PaceName ==
  ASSUME NEW kids, NEW left, NEW taken, NEW r, NEW u, Branches(left, {"-"}, u, r), taken # {},
         Track("function_header", kids, u, taken \cup {"mangled"}),
         Track("function_header", kids, r, taken \cup {"mangled"})
  PROVE  Paces("function_header", kids, left, taken)
<1>1. Passing({"-"}, taken) = taken \cup {"mangled"}
  BY DEF Passing
<1> QED
  BY <1>1 DEF Paces, Branches

\* ... from a call ...
LEMMA PaceCall ==
  ASSUME NEW fn, NEW kids, NEW left, NEW taken, NEW g, NEW r, Needs(left, g, r),
         \A n : n.fn = g => Track(fn, Append(kids, n), r, taken),
         g \notin Bare => fn \notin Bare /\ (fn \in Owners => taken # {})
  PROVE  Paces(fn, kids, left, taken)
BY DEF Paces, Needs

\* ... and from a call that may return nothing.
LEMMA PaceTry ==
  ASSUME NEW fn, NEW kids, NEW left, NEW taken, NEW g, NEW r, NEW u, MayCall(left, g, u, r),
         \A n : n.fn = g => Track(fn, Append(kids, n), u, taken),
         Track(fn, kids, r, taken),
         g \notin Bare => fn \notin Bare /\ (fn \in Owners => taken # {})
  PROVE  Paces(fn, kids, left, taken)
BY DEF Paces, MayCall

\* The beginnings of an expression, and all its control points.
LEMMA ExpressionStart ==
  ASSUME NEW left,
         Rejects(left) \/ OneKept(left) \/ TwoKept(left) \/ Needs(left, "statement_expression", << >>)
  PROVE  ExpressionTrack(<< >>, left, {})
<1>1. AllBare(<< >>)
  BY DEF AllBare
<1> QED
  BY <1>1 DEF ExpressionTrack

\* What may be left of an expression, and what it has kept then.
LEMMA ExpressionPoints ==
  ASSUME NEW kids, NEW left, NEW taken, ExpressionTrack(kids, left, taken)
  PROVE  \/ Rejects(left)
         \/ kids = << >> /\ Needs(left, "statement_expression", << >>)
         \/ AllBare(kids) /\ OneKept(left)
         \/ AllBare(kids) /\ TwoKept(left)
         \/ /\ left = << >>
            /\ \/ Len(kids) = 1 /\ kids[1].fn = "statement_expression"
               \/ kids # << >> /\ AllBare(kids)
BY DEF ExpressionTrack

-----------------------------------------------------------------------------
(***************************************************************************)
(* Every activation goes on rightly from each of its control points.       *)
(***************************************************************************)

\* One kid more.
LEMMA KidAdded ==
  ASSUME NEW kids, IsSeq(kids), NEW n
  PROVE  /\ Append(kids, n) # << >> /\ IsSeq(Append(kids, n)) /\ Len(Append(kids, n)) = Len(kids) + 1
         /\ kids # << >> => Append(kids, n)[1] = kids[1]
         /\ kids = << >> => Append(kids, n)[1] = n /\ Len(Append(kids, n)) = 1
         /\ AllBare(kids) /\ n.fn \in Bare => AllBare(Append(kids, n))
<1> DEFINE a == Append(kids, n)
           m == Len(kids)
<1>1. IsSeq(a) /\ Len(a) = m + 1 /\ a[m + 1] = n /\ (\A k \in 1 .. m : a[k] = kids[k]) /\ a # << >>
  BY AppendFacts
<1>2. m \in Nat /\ DOMAIN kids = 1 .. m /\ (kids # << >> <=> m > 0)
  BY SeqFacts
<1>3. DOMAIN a = 1 .. m + 1
  BY <1>1, SeqFacts
<1> HIDE DEF a, m
<1>4. m > 0 => 1 \in 1 .. m
  BY <1>2
<1>5. kids = << >> => m = 0 /\ m + 1 = 1
  BY <1>2
<1>6. \A k \in 1 .. m + 1 : k = m + 1 \/ k \in 1 .. m
  BY <1>2
<1>7. AllBare(kids) /\ n.fn \in Bare => AllBare(a)
  BY <1>1, <1>2, <1>3, <1>6 DEF AllBare
<1> QED
  BY <1>1, <1>2, <1>4, <1>5, <1>7 DEF a, m

\* No kids are bare.
LEMMA NoKids == AllBare(<< >>) /\ IsSeq(<< >>)
<1>1. DOMAIN << >> = {} /\ << >> \in Seq({})
  OBVIOUS
<1> QED
  BY <1>1 DEF AllBare, IsSeq

\* A token is bare, so are the nodes of a type and of a declaration.
LEMMA BareIs ==
  /\ "token" \in Bare /\ "type" \in Bare /\ "variable_declaration" \in Bare
  /\ Bare \cap Owners = {}
BY DEF Bare, Owners

\* parse_statement_expression_call
LEMMA CallPaces ==
  ASSUME NEW kids, IsSeq(kids), NEW left, NEW taken, CallTrack(kids, left, taken)
  PROVE  Paces("statement_expression_call", kids, left, taken)
<1> DEFINE fn == "statement_expression_call"
<1>1. \A k, l, t : Track(fn, k, l, t) <=> CallTrack(k, l, t)
  BY DEF Track
<1>2. fn \in Owners /\ NewBehind[fn] = {"("} /\ fn \notin Bare /\ fn # "function_header"
  BY OwnersAre DEF Owners, Bare
<1>3. CASE kids = << >> /\ left = parse_statement_expression_call /\ taken = {}
  <2>1. ASSUME NEW leaf, leaf.fn = "token"
        PROVE  Track(fn, Append(kids, leaf), call_open, Behind(fn, {"identifier"}, taken))
    <3>1. Append(kids, leaf) # << >> /\ Append(kids, leaf)[1].fn \in Bare
      BY <1>3, <2>1, KidAdded, BareIs
    <3>2. Behind(fn, {"identifier"}, taken) = {}
      BY <1>2, <1>3 DEF Behind
    <3> DEFINE k == Append(kids, leaf)
    <3> HIDE DEF k, fn
    <3>3. CallTrack(k, call_open, {})
      BY <3>1 DEF CallTrack, k
    <3>4. Track(fn, k, call_open, {})
      BY <1>1, <3>3
    <3> QED
      BY <3>2, <3>4 DEF k
  <2> QED
    BY <1>3, <2>1, CallTodos, PaceKeep
<1>4. CASE kids # << >> /\ kids[1].fn \in Bare /\ left = call_open /\ taken = {}
  <2>1. Track(fn, kids, call_first, taken \cup {fn})
    BY <1>1, <1>4 DEF CallTrack
  <2> QED
    BY <1>2, <1>4, <2>1, CallTodos, PaceOpen
<1>5. ASSUME kids # << >>, kids[1].fn \in Bare, taken = {fn},
             left \in {call_first, call_next, call_comma, call_arg, call_close, << >>}
      PROVE  Paces(fn, kids, left, taken)
  <2>1. \A l \in {call_first, call_next, call_comma, call_arg, call_close, << >>} :
          /\ Track(fn, kids, l, taken)
          /\ \A n : Track(fn, Append(kids, n), l, taken)
    <3>1. \A n : Append(kids, n) # << >> /\ Append(kids, n)[1].fn \in Bare
      BY <1>5, KidAdded
    <3> QED
      BY <1>1, <1>5, <3>1 DEF CallTrack
  <2>2. fn \in taken /\ taken # {}
    BY <1>5
  <2>3. CASE left = call_first
    BY <1>2, <2>1, <2>2, <2>3, CallTodos, PaceTry
  <2>4. CASE left = call_next
    BY <2>1, <2>4, CallTodos, PaceLoop
  <2>5. CASE left = call_comma
    BY <2>1, <2>2, <2>5, CallTodos, PaceDrop
  <2>6. CASE left = call_arg
    BY <1>2, <2>1, <2>2, <2>6, CallTodos, PaceCall
  <2>7. CASE left = call_close
    BY <2>1, <2>2, <2>7, CallTodos, PaceDrop
  <2>8. CASE left = << >>
    <3>1. Shape(fn, kids)
      BY <1>5 DEF Shape, Bare
    <3> QED
      BY <2>2, <2>8, <3>1, PaceEnd
  <2> QED
    BY <1>5, <2>3, <2>4, <2>5, <2>6, <2>7, <2>8
<1> QED
  BY <1>3, <1>4, <1>5 DEF CallTrack

\* parse_variable_definition and parse_assignment
LEMMA DefinitionPaces ==
  ASSUME NEW fn \in {"variable_definition", "assignment"}, NEW kids, IsSeq(kids), NEW left,
         NEW taken, Track(fn, kids, left, taken)
  PROVE  Paces(fn, kids, left, taken)
<1> DEFINE first == IF fn = "assignment" THEN Keep({"identifier"}) ELSE Call("variable_declaration")
<1>1. \A k, l, t : Track(fn, k, l, t) <=> DefinitionTrack(first, k, l, t)
  BY ZenonT(40) DEF Track
<1>2. fn \notin Owners /\ fn \notin Bare /\ fn # "function_header"
  BY DEF Owners, Bare
<1>3. taken = {}
  BY <1>1 DEF DefinitionTrack
<1>4. CASE kids = << >> /\ left = definition_first(first)
  <2>1. ASSUME NEW n, n.fn \in Bare
        PROVE  Track(fn, Append(kids, n), definition_colon, taken)
    <3>1. Len(Append(kids, n)) = 1 /\ Append(kids, n)[1].fn \in Bare
      BY <1>4, <2>1, KidAdded
    <3> QED
      BY <1>1, <1>3, <3>1 DEF DefinitionTrack
  <2>2. CASE fn = "assignment"
    <3>1. Keeps(left, {"identifier"}, definition_colon)
      BY <1>4, <2>2, DefinitionTodos
    <3>2. Behind(fn, {"identifier"}, taken) = taken
      BY <1>2 DEF Behind
    <3> QED
      BY <2>1, <3>1, <3>2, BareIs, PaceKeep
  <2>3. CASE fn = "variable_definition"
    <3>1. Needs(left, "variable_declaration", definition_colon)
      BY <1>4, <2>3, DefinitionTodos
    <3> QED
      BY <1>2, <2>1, <3>1, BareIs, PaceCall
  <2> QED
    BY <2>2, <2>3
<1>5. ASSUME Len(kids) = 1, kids[1].fn \in Bare,
             left \in {definition_colon, definition_equals, definition_value}
      PROVE  Paces(fn, kids, left, taken)
  <2>1. \A l \in {definition_colon, definition_equals, definition_value} : Track(fn, kids, l, taken)
    BY <1>1, <1>3, <1>5 DEF DefinitionTrack
  <2>2. CASE left = definition_colon
    BY <1>2, <2>1, <2>2, DefinitionTodos, PaceDrop
  <2>3. CASE left = definition_equals
    BY <1>2, <2>1, <2>3, DefinitionTodos, PaceDrop
  <2>4. CASE left = definition_value
    <3>1. ASSUME NEW n
          PROVE  Track(fn, Append(kids, n), << >>, taken)
      <4>1. kids # << >>
        BY <1>5, SeqFacts
      <4>2. Len(Append(kids, n)) = Len(kids) + 1 /\ Append(kids, n)[1] = kids[1]
        BY <4>1, KidAdded
      <4>3. Len(Append(kids, n)) = 2 /\ Append(kids, n)[1].fn \in Bare
        BY <1>5, <4>2
      <4> QED
        BY <1>1, <1>3, <4>3 DEF DefinitionTrack
    <3> QED
      BY <1>2, <2>4, <3>1, DefinitionTodos, PaceCall
  <2> QED
    BY <1>5, <2>2, <2>3, <2>4
<1>6. CASE Len(kids) = 2 /\ kids[1].fn \in Bare /\ left = << >>
  <2>1. Shape(fn, kids)
    BY <1>2, <1>6 DEF Shape
  <2> QED
    BY <1>2, <1>6, <2>1, PaceEnd
<1> QED
  BY <1>1, <1>4, <1>5, <1>6 DEF DefinitionTrack

\* parse_statement_expression and parse_unit_statement
LEMMA SinglePaces ==
  ASSUME NEW fn \in {"statement_expression", "unit_statement"}, NEW kids, IsSeq(kids), NEW left,
         NEW taken, SingleTrack(kids, left, taken)
  PROVE  Paces(fn, kids, left, taken)
<1>1. \A k, l, t : Track(fn, k, l, t) <=> SingleTrack(k, l, t)
  BY ZenonT(40) DEF Track
<1>2. fn \notin Owners /\ fn \notin Bare /\ fn # "function_header"
  BY DEF Owners, Bare
<1>3. taken = {}
  BY DEF SingleTrack
<1>4. CASE Rejects(left)
  BY <1>4, PaceReject
<1>5. ASSUME kids = << >>, NEW g \in Functions \ Bare, Needs(left, g, << >>)
      PROVE  Paces(fn, kids, left, taken)
  <2>1. ASSUME NEW n
        PROVE  Track(fn, Append(kids, n), << >>, taken)
    <3>1. Len(Append(kids, n)) = 1
      BY <1>5, KidAdded
    <3> QED
      BY <1>1, <1>3, <3>1 DEF SingleTrack
  <2> QED
    BY <1>2, <1>5, <2>1, PaceCall
<1>6. CASE Len(kids) = 1 /\ left = << >>
  <2>1. Shape(fn, kids)
    BY <1>2, <1>6 DEF Shape
  <2> QED
    BY <1>2, <1>6, <2>1, PaceEnd
<1> QED
  BY <1>4, <1>5, <1>6 DEF SingleTrack

\* The control points of parse_type.
LEMMA TypeTodos ==
  /\ Repeats(parse_type, {"*"}, type_star, type_name)
  /\ Keeps(type_star, {"*"}, parse_type)
  /\ Keeps(type_name, {"identifier", "u8", "i32"}, << >>)
<1> DEFINE name == Keep({"identifier", "u8", "i32"})
           star == Keep({"*"})
           loop == type_loop
<1>1. parse_type = << loop, name >> /\ type_star = << star, loop, name >> /\ type_name = << name >>
  BY DEF parse_type, type_star, type_name, type_loop
<1>2. loop.op = "while" /\ loop.kinds = {"*"} /\ loop.then = << star >>
  BY ItemFields DEF type_loop
<1> HIDE DEF name, star, loop
<1>3. parse_type # << >> /\ Head(parse_type) = loop /\ Tail(parse_type) = type_name
  BY <1>1, End2
<1>4. << star >> \o << loop, name >> = << star, loop, name >>
  BY Join12
<1>5. Repeats(parse_type, {"*"}, type_star, type_name)
  BY <1>1, <1>2, <1>3, <1>4, Zenon DEF Repeats
<1>6. Keeps(type_star, {"*"}, parse_type)
  <2>1. Keeps(<< Keep({"*"}), loop, name >>, {"*"}, << loop, name >>)
    BY Keep3
  <2> QED
    BY <1>1, <2>1 DEF star
<1>7. Keeps(type_name, {"identifier", "u8", "i32"}, << >>)
  <2>1. Keeps(<< Keep({"identifier", "u8", "i32"}) >>, {"identifier", "u8", "i32"}, << >>)
    BY Keep1
  <2> QED
    BY <1>1, <2>1 DEF name
<1> QED
  BY <1>5, <1>6, <1>7

\* The control points of parse_function_definition.
LEMMA FunctionTodos ==
  /\ Needs(parse_function_definition, "function_header", function_block)
  /\ Needs(function_block, "block", << >>)
<1>1. Needs(parse_function_definition, "function_header", function_block)
  BY Need2, Zenon DEF parse_function_definition, function_block
<1>2. Needs(function_block, "block", << >>)
  BY Need1, Zenon DEF function_block
<1> QED
  BY <1>1, <1>2

\* parse_function_definition
LEMMA FunctionPaces ==
  ASSUME NEW kids, IsSeq(kids), NEW left, NEW taken, FunctionTrack(kids, left, taken)
  PROVE  Paces("function_definition", kids, left, taken)
<1> DEFINE fn == "function_definition"
<1>1. \A k, l, t : Track(fn, k, l, t) <=> FunctionTrack(k, l, t)
  BY DEF Track
<1>2. fn \notin Owners /\ fn \notin Bare /\ fn # "function_header" /\ taken = {}
  BY DEF Owners, Bare, FunctionTrack
<1>3. CASE kids = << >> /\ left = parse_function_definition
  <2>1. ASSUME NEW n
        PROVE  Track(fn, Append(kids, n), function_block, taken)
    <3>1. Len(Append(kids, n)) = 1
      BY <1>3, KidAdded
    <3> QED
      BY <1>1, <1>2, <3>1 DEF FunctionTrack
  <2> QED
    BY <1>2, <1>3, <2>1, FunctionTodos, PaceCall
<1>4. CASE Len(kids) = 1 /\ left = function_block
  <2>1. ASSUME NEW n
        PROVE  Track(fn, Append(kids, n), << >>, taken)
    <3>1. Len(Append(kids, n)) = Len(kids) + 1
      BY KidAdded
    <3>2. Len(Append(kids, n)) = 2
      BY <1>4, <3>1
    <3> QED
      BY <1>1, <1>2, <3>2 DEF FunctionTrack
  <2> QED
    BY <1>2, <1>4, <2>1, FunctionTodos, PaceCall
<1>5. CASE Len(kids) = 2 /\ left = << >>
  <2>1. Shape(fn, kids)
    BY <1>5 DEF Shape, Bare
  <2> QED
    BY <1>2, <1>5, <2>1, PaceEnd
<1> QED
  BY <1>3, <1>4, <1>5 DEF FunctionTrack

\* parse_expression
LEMMA ExpressionPaces ==
  ASSUME NEW kids, IsSeq(kids), NEW left, NEW taken, ExpressionTrack(kids, left, taken)
  PROVE  Paces("expression", kids, left, taken)
<1> DEFINE fn == "expression"
<1>1. \A k, l, t : Track(fn, k, l, t) <=> ExpressionTrack(k, l, t)
  BY DEF Track
<1>2. fn \notin Owners /\ fn \notin Bare /\ fn # "function_header" /\ taken = {}
  BY DEF Owners, Bare, ExpressionTrack
<1>3. CASE Rejects(left)
  BY <1>3, PaceReject
<1>4. ASSUME AllBare(kids), NEW ks, NEW r, Keeps(left, ks, r), r = << >> \/ OneKept(r)
      PROVE  Paces(fn, kids, left, taken)
  <2>1. ASSUME NEW leaf, leaf.fn = "token"
        PROVE  Track(fn, Append(kids, leaf), r, Behind(fn, ks, taken))
    <3>1. AllBare(Append(kids, leaf)) /\ Append(kids, leaf) # << >>
      BY <1>4, <2>1, KidAdded, BareIs
    <3>2. Behind(fn, ks, taken) = {}
      BY <1>2 DEF Behind
    <3> DEFINE k == Append(kids, leaf)
    <3> HIDE DEF k, fn
    <3>3. ExpressionTrack(k, r, {})
      BY <1>4, <3>1 DEF ExpressionTrack, k
    <3>4. Track(fn, k, r, {})
      BY <1>1, <3>3
    <3> QED
      BY <3>2, <3>4 DEF k
  <2> QED
    BY <1>4, <2>1, PaceKeep
<1>5. ASSUME AllBare(kids), NEW ks, left = << Keep(ks) >>
      PROVE  Paces(fn, kids, left, taken)
  <2>1. Keeps(left, ks, << >>)
    BY <1>5, Keep1
  <2> QED
    BY <1>4, <1>5, <2>1
<1>6. ASSUME AllBare(kids), NEW ks, NEW ls, left = << Keep(ks), Keep(ls) >>
      PROVE  Paces(fn, kids, left, taken)
  <2> DEFINE r == << Keep(ls) >>
  <2>1. Keeps(left, ks, r) /\ OneKept(r)
    BY <1>6, End2 DEF Keeps, OneKept
  <2> HIDE DEF r
  <2> QED
    BY <1>4, <1>6, <2>1
<1>7. CASE kids = << >> /\ Needs(left, "statement_expression", << >>)
  <2>1. ASSUME NEW n, n.fn = "statement_expression"
        PROVE  Track(fn, Append(kids, n), << >>, taken)
    <3>1. Len(Append(kids, n)) = 1 /\ Append(kids, n)[1].fn = "statement_expression"
      BY <1>7, <2>1, KidAdded
    <3> QED
      BY <1>1, <1>2, <3>1 DEF ExpressionTrack
  <2> QED
    BY <1>2, <1>7, <2>1, PaceCall
<1>8. CASE /\ left = << >>
           /\ \/ Len(kids) = 1 /\ kids[1].fn = "statement_expression"
              \/ kids # << >> /\ AllBare(kids)
  <2>1. Shape(fn, kids)
    BY <1>8 DEF Shape, Bare, AllBare
  <2> QED
    BY <1>2, <1>8, <2>1, PaceEnd
<1>9. CASE AllBare(kids) /\ OneKept(left)
  <2>1. PICK ks : left = << Keep(ks) >>
    BY <1>9 DEF OneKept
  <2> QED
    BY <1>5, <1>9, <2>1
<1>10. CASE AllBare(kids) /\ TwoKept(left)
  <2>1. PICK ks, ls : left = << Keep(ks), Keep(ls) >>
    BY <1>10 DEF TwoKept
  <2> QED
    BY <1>6, <1>10, <2>1
<1> QED
  BY <1>3, <1>7, <1>8, <1>9, <1>10, ExpressionPoints

\* parse_type
LEMMA TypePaces ==
  ASSUME NEW kids, IsSeq(kids), NEW left, NEW taken, TypeTrack(kids, left, taken)
  PROVE  Paces("type", kids, left, taken)
<1> DEFINE fn == "type"
<1>1. \A k, l, t : Track(fn, k, l, t) <=> TypeTrack(k, l, t)
  BY DEF Track
<1>2. fn \notin Owners /\ fn \in Bare /\ fn # "function_header" /\ taken = {} /\ AllBare(kids)
  BY DEF Owners, Bare, TypeTrack
<1>3. ASSUME NEW ks, NEW l \in {parse_type, << >>}, NEW leaf, leaf.fn = "token"
      PROVE  Track(fn, Append(kids, leaf), l, Behind(fn, ks, taken))
  <2>1. AllBare(Append(kids, leaf))
    BY <1>2, <1>3, KidAdded, BareIs
  <2>2. Behind(fn, ks, taken) = {}
    BY <1>2 DEF Behind
  <2> DEFINE k == Append(kids, leaf)
  <2> HIDE DEF k, fn
  <2>3. TypeTrack(k, l, {})
    BY <1>3, <2>1 DEF TypeTrack, k
  <2>4. Track(fn, k, l, {})
    BY <1>1, <2>3
  <2> QED
    BY <2>2, <2>4 DEF k
<1>4. CASE left = parse_type
  <2>1. Track(fn, kids, type_star, taken) /\ Track(fn, kids, type_name, taken)
    BY <1>1, <1>2 DEF TypeTrack
  <2> QED
    BY <1>4, <2>1, TypeTodos, PaceLoop
<1>5. CASE left = type_star
  BY <1>3, <1>5, TypeTodos, PaceKeep
<1>6. CASE left = type_name
  BY <1>3, <1>6, TypeTodos, PaceKeep
<1>7. CASE left = << >>
  <2>1. Shape(fn, kids)
    BY <1>2 DEF Shape, Bare, AllBare
  <2> QED
    BY <1>2, <1>7, <2>1, PaceEnd
<1> QED
  BY <1>4, <1>5, <1>6, <1>7 DEF TypeTrack

\* parse_variable_declaration
LEMMA DeclarationPaces ==
  ASSUME NEW kids, IsSeq(kids), NEW left, NEW taken, DeclarationTrack(kids, left, taken)
  PROVE  Paces("variable_declaration", kids, left, taken)
<1> DEFINE fn == "variable_declaration"
<1>1. \A k, l, t : Track(fn, k, l, t) <=> DeclarationTrack(k, l, t)
  BY DEF Track
<1>2. fn \notin Owners /\ fn # "function_header" /\ taken = {} /\ AllBare(kids)
  BY DEF Owners, DeclarationTrack
<1>3. ASSUME NEW n, n.fn \in Bare, NEW l \in {declaration_colon, << >>}
      PROVE  Track(fn, Append(kids, n), l, taken)
  <2>1. AllBare(Append(kids, n))
    BY <1>2, <1>3, KidAdded
  <2> QED
    BY <1>1, <1>2, <1>3, <2>1 DEF DeclarationTrack
<1>4. CASE left = parse_variable_declaration
  BY <1>3, <1>4, BareIs, DeclarationTodos, PaceCall
<1>5. CASE left = declaration_colon
  <2>1. Track(fn, kids, declaration_name, taken)
    BY <1>1, <1>2 DEF DeclarationTrack
  <2> QED
    BY <1>2, <1>5, <2>1, DeclarationTodos, PaceDrop
<1>6. CASE left = declaration_name
  <2>1. Behind(fn, {"identifier"}, taken) = taken
    BY <1>2 DEF Behind
  <2> QED
    BY <1>3, <1>6, <2>1, BareIs, DeclarationTodos, PaceKeep
<1>7. CASE left = << >>
  <2>1. Shape(fn, kids)
    BY <1>2 DEF Shape, AllBare
  <2> QED
    BY <1>2, <1>7, <2>1, PaceEnd
<1> QED
  BY <1>4, <1>5, <1>6, <1>7 DEF DeclarationTrack

\* parse_statement_return
LEMMA ReturnPaces ==
  ASSUME NEW kids, IsSeq(kids), NEW left, NEW taken, ReturnTrack(kids, left, taken)
  PROVE  Paces("statement_return", kids, left, taken)
<1> DEFINE fn == "statement_return"
<1>1. \A k, l, t : Track(fn, k, l, t) <=> ReturnTrack(k, l, t)
  BY DEF Track
<1>2. fn \notin Owners /\ fn # "function_header" /\ fn \notin Bare /\ taken = {}
  BY DEF Owners, Bare, ReturnTrack
<1>3. \A k, l : l \in {parse_statement_return, return_value, << >>} => Track(fn, k, l, taken)
  BY <1>1, <1>2 DEF ReturnTrack
<1>4. CASE left = parse_statement_return
  BY <1>2, <1>3, <1>4, ReturnTodos, PaceDrop
<1>5. CASE left = return_value
  BY <1>2, <1>3, <1>5, ReturnTodos, PaceTry
<1>6. CASE left = << >>
  <2>1. Shape(fn, kids)
    BY DEF Shape, Bare
  <2> QED
    BY <1>2, <1>6, <2>1, PaceEnd
<1> QED
  BY <1>4, <1>5, <1>6 DEF ReturnTrack

\* parse_scope_statement
LEMMA ScopePaces ==
  ASSUME NEW kids, IsSeq(kids), NEW left, NEW taken, ScopeTrack(kids, left, taken)
  PROVE  Paces("scope_statement", kids, left, taken)
<1> DEFINE fn == "scope_statement"
<1>1. \A k, l, t : Track(fn, k, l, t) <=> ScopeTrack(k, l, t)
  BY DEF Track
<1>2. fn \notin Owners /\ fn # "function_header" /\ fn \notin Bare /\ taken = {}
  BY DEF Owners, Bare, ScopeTrack
<1>3. ASSUME kids = << >>, left \in {scope_return, scope_block, scope_expression}
      PROVE  Paces(fn, kids, left, taken)
  <2>1. \A n : Track(fn, Append(kids, n), scope_close, taken) /\ Track(fn, Append(kids, n), << >>, taken)
    <3>1. \A n : Len(Append(kids, n)) = 1
      BY <1>3, KidAdded
    <3> QED
      BY <1>1, <1>2, <3>1 DEF ScopeTrack
  <2>2. CASE left = scope_return
    BY <1>2, <2>1, <2>2, ScopeTodos, PaceCall
  <2>3. CASE left = scope_block
    BY <1>2, <2>1, <2>3, ScopeTodos, PaceCall
  <2>4. CASE left = scope_expression
    BY <1>2, <2>1, <2>4, ScopeTodos, PaceCall
  <2> QED
    BY <1>3, <2>2, <2>3, <2>4
<1>4. CASE Len(kids) = 1 /\ left = scope_close
  <2>1. Track(fn, kids, << >>, taken)
    BY <1>1, <1>2, <1>4 DEF ScopeTrack
  <2> QED
    BY <1>2, <1>4, <2>1, ScopeTodos, PaceDrop
<1>5. CASE Len(kids) = 1 /\ left = << >>
  <2>1. Shape(fn, kids)
    BY <1>5 DEF Shape, Bare
  <2> QED
    BY <1>2, <1>5, <2>1, PaceEnd
<1> QED
  BY <1>3, <1>4, <1>5 DEF ScopeTrack

\* parse_block
LEMMA BlockPaces ==
  ASSUME NEW kids, IsSeq(kids), NEW left, NEW taken, BlockTrack(kids, left, taken)
  PROVE  Paces("block", kids, left, taken)
<1> DEFINE fn == "block"
<1>1. \A k, l, t : Track(fn, k, l, t) <=> BlockTrack(k, l, t)
  BY DEF Track
<1>2. fn \in Owners /\ NewBehind[fn] = {"{"} /\ fn # "function_header" /\ fn \notin Bare
  BY OwnersAre DEF Owners, Bare
<1>3. CASE left = parse_block /\ taken = {}
  <2>1. Track(fn, kids, block_next, taken \cup {fn})
    BY <1>1, <1>3 DEF BlockTrack
  <2> QED
    BY <1>2, <1>3, <2>1, BlockTodos, PaceOpen
<1>4. ASSUME taken = {fn}, left \in {block_next, block_statement, block_close, << >>}
      PROVE  Paces(fn, kids, left, taken)
  <2>1. \A k, l : l \in {block_next, block_statement, block_close, << >>} => Track(fn, k, l, taken)
    BY <1>1, <1>4 DEF BlockTrack
  <2>2. fn \in taken /\ taken # {}
    BY <1>4
  <2>3. CASE left = block_next
    <3>1. "-" \in Unclosed /\ ":" \in Unclosed
      BY DEF Unclosed, Kinds
    <3>2. Unclosed # {"-"}
      BY <3>1
    <3> QED
      BY <2>1, <2>3, <3>2, BlockTodos, PaceLoop
  <2>4. CASE left = block_statement
    BY <1>2, <2>1, <2>2, <2>4, BlockTodos, PaceCall
  <2>5. CASE left = block_close
    BY <2>1, <2>2, <2>5, BlockTodos, PaceDrop
  <2>6. CASE left = << >>
    <3>1. Shape(fn, kids)
      BY DEF Shape, Bare
    <3> QED
      BY <1>2, <2>2, <2>6, <3>1, PaceEnd
  <2> QED
    BY <1>4, <2>3, <2>4, <2>5, <2>6
<1> QED
  BY <1>3, <1>4 DEF BlockTrack

\* parse_extern_block
LEMMA ExternPaces ==
  ASSUME NEW kids, IsSeq(kids), NEW left, NEW taken, ExternTrack(kids, left, taken)
  PROVE  Paces("extern_block", kids, left, taken)
<1> DEFINE fn == "extern_block"
           later == {extern_next, extern_header, extern_end, extern_close, << >>}
<1>1. \A k, l, t : Track(fn, k, l, t) <=> ExternTrack(k, l, t)
  BY DEF Track
<1>2. fn \in Owners /\ NewBehind[fn] = {"{"} /\ fn # "function_header" /\ fn \notin Bare
  BY OwnersAre DEF Owners, Bare
<1>3. CASE left = parse_extern_block /\ taken = {}
  <2>1. Track(fn, kids, extern_open, taken)
    BY <1>1, <1>3 DEF ExternTrack
  <2>2. NewBehind[fn] # {"extern"}
    BY <1>2
  <2> QED
    BY <1>3, <2>1, <2>2, ExternTodos, PaceDrop
<1>4. CASE left = extern_open /\ taken = {}
  <2>1. Track(fn, kids, extern_next, taken \cup {fn})
    BY <1>1, <1>4 DEF ExternTrack
  <2> QED
    BY <1>2, <1>4, <2>1, ExternTodos, PaceOpen
<1>5. ASSUME taken = {fn}, left \in later
      PROVE  Paces(fn, kids, left, taken)
  <2>1. \A k, l : l \in later => Track(fn, k, l, taken)
    BY <1>1, <1>5 DEF ExternTrack
  <2>2. fn \in taken /\ taken # {}
    BY <1>5
  <2>3. CASE left = extern_next
    <3>1. "-" \in Unclosed /\ ":" \in Unclosed
      BY DEF Unclosed, Kinds
    <3>2. Unclosed # {"-"}
      BY <3>1
    <3> QED
      BY <2>1, <2>3, <3>2, ExternTodos, PaceLoop
  <2>4. CASE left = extern_header
    BY <1>2, <2>1, <2>2, <2>4, ExternTodos, PaceCall
  <2>5. CASE left = extern_end
    BY <2>1, <2>2, <2>5, ExternTodos, PaceDrop
  <2>6. CASE left = extern_close
    BY <2>1, <2>2, <2>6, ExternTodos, PaceDrop
  <2>7. CASE left = << >>
    <3>1. Shape(fn, kids)
      BY DEF Shape, Bare
    <3> QED
      BY <1>2, <2>2, <2>7, <3>1, PaceEnd
  <2> QED
    BY <1>5, <2>3, <2>4, <2>5, <2>6, <2>7
<1> QED
  BY <1>3, <1>4, <1>5 DEF ExternTrack

\* parse_function_header
LEMMA HeaderPaces ==
  ASSUME NEW kids, IsSeq(kids), NEW left, NEW taken, HeaderTrack(kids, left, taken)
  PROVE  Paces("function_header", kids, left, taken)
<1> DEFINE fn == "function_header"
           listing == {header_named, header_open, header_first, header_next, header_comma,
                       header_param, header_close, header_listed}
           typing == {header_minus, header_arrow, header_type, << >>}
<1>1. \A k, l, t : Track(fn, k, l, t) <=> HeaderTrack(k, l, t)
  BY DEF Track
<1>2. fn \in Owners /\ NewBehind[fn] = {"identifier"} /\ fn \notin Bare /\ AllBare(kids)
  BY OwnersAre DEF Owners, Bare, HeaderTrack
<1>3. \A n : n.fn \in Bare => AllBare(Append(kids, n))
  BY <1>2, KidAdded
<1>4. CASE left = parse_function_header /\ taken = {}
  <2>1. Track(fn, kids, header_name, taken)
    BY <1>1, <1>2, <1>4 DEF HeaderTrack
  <2>2. NewBehind[fn] # {"func"}
    BY <1>2
  <2> QED
    BY <1>4, <2>1, <2>2, HeaderTodos, PaceDrop
<1>5. CASE left = header_name /\ taken = {}
  <2>1. ASSUME NEW leaf, leaf.fn = "token"
        PROVE  Track(fn, Append(kids, leaf), header_named, Behind(fn, {"identifier"}, taken))
    <3>1. AllBare(Append(kids, leaf))
      BY <1>3, <2>1, BareIs
    <3>2. Behind(fn, {"identifier"}, taken) = {fn}
      BY <1>2, <1>5 DEF Behind
    <3> DEFINE k == Append(kids, leaf)
    <3> HIDE DEF k
    <3>3. HeaderTrack(k, header_named, {fn})
      BY <3>1 DEF HeaderTrack, k
    <3> HIDE DEF fn
    <3>4. Track(fn, k, header_named, {fn})
      BY <1>1, <3>3
    <3> QED
      BY <3>2, <3>4 DEF k
  <2> QED
    BY <1>5, <2>1, HeaderTodos, PaceKeep
<1>6. ASSUME taken = {fn}, left \in listing
      PROVE  Paces(fn, kids, left, taken)
  <2>1. \A k, l : AllBare(k) /\ l \in listing => Track(fn, k, l, taken)
    BY <1>1, <1>6 DEF HeaderTrack
  <2>2. fn \in taken /\ taken # {}
    BY <1>6
  <2>3. \A n, l : n.fn = "variable_declaration" /\ l \in listing => Track(fn, Append(kids, n), l, taken)
    BY <1>3, <2>1, BareIs
  <2>4. \A l : l \in listing => Track(fn, kids, l, taken)
    BY <1>2, <2>1
  <2>5. CASE left = header_named
    BY <2>4, <2>5, HeaderTodos, PaceLoop
  <2>6. CASE left = header_open
    BY <2>2, <2>4, <2>6, HeaderTodos, PaceDrop
  <2>7. CASE left = header_first
    BY <1>2, <2>2, <2>3, <2>4, <2>7, HeaderTodos, PaceTry
  <2>8. CASE left = header_next
    BY <2>4, <2>8, HeaderTodos, PaceLoop
  <2>9. CASE left = header_comma
    BY <2>2, <2>4, <2>9, HeaderTodos, PaceDrop
  <2>10. CASE left = header_param
    BY <1>2, <2>2, <2>3, <2>10, HeaderTodos, PaceCall
  <2>11. CASE left = header_close
    BY <2>2, <2>4, <2>11, HeaderTodos, PaceDrop
  <2>12. CASE left = header_listed
    <3>1. taken \cup {"mangled"} = {fn, "mangled"}
      BY <1>6
    <3>2. HeaderTrack(kids, header_minus, {fn, "mangled"}) /\ HeaderTrack(kids, << >>, {fn, "mangled"})
      BY <1>2 DEF HeaderTrack
    <3>3. Track(fn, kids, header_minus, taken \cup {"mangled"}) /\ Track(fn, kids, << >>, taken \cup {"mangled"})
      BY <1>1, <3>1, <3>2
    <3> QED
      BY <2>2, <2>12, <3>3, HeaderTodos, PaceName
  <2> QED
    BY <1>6, <2>5, <2>6, <2>7, <2>8, <2>9, <2>10, <2>11, <2>12
<1>7. ASSUME taken = {fn, "mangled"}, left \in typing
      PROVE  Paces(fn, kids, left, taken)
  <2>1. \A k, l : AllBare(k) /\ l \in typing => Track(fn, k, l, taken)
    BY <1>1, <1>7 DEF HeaderTrack
  <2>2. fn \in taken /\ taken # {} /\ "mangled" \in taken
    BY <1>7
  <2>3. CASE left = header_minus
    BY <1>2, <2>1, <2>2, <2>3, HeaderTodos, PaceDrop
  <2>4. CASE left = header_arrow
    BY <1>2, <2>1, <2>2, <2>4, HeaderTodos, PaceDrop
  <2>5. CASE left = header_type
    <3>1. \A n : n.fn = "type" => Track(fn, Append(kids, n), << >>, taken)
      BY <1>3, <2>1, BareIs
    <3> QED
      BY <1>2, <2>2, <2>5, <3>1, HeaderTodos, PaceCall
  <2>6. CASE left = << >>
    <3>1. Shape(fn, kids)
      BY <1>2 DEF Shape, AllBare
    <3> QED
      BY <2>2, <2>6, <3>1, PaceEnd
  <2> QED
    BY <1>7, <2>3, <2>4, <2>5, <2>6
<1> QED
  BY <1>4, <1>5, <1>6, <1>7 DEF HeaderTrack

\* Every parse function goes on rightly.
LEMMA AllPaces ==
  ASSUME NEW fn \in Functions, NEW kids, IsSeq(kids), NEW left, NEW taken,
         Track(fn, kids, left, taken)
  PROVE  Paces(fn, kids, left, taken)
<1>1. CASE fn = "statement_expression_call"
  BY <1>1, CallPaces DEF Track
<1>2. CASE fn \in {"variable_definition", "assignment"}
  BY <1>2, DefinitionPaces
<1>3. CASE fn \in {"statement_expression", "unit_statement"}
  <2>1. SingleTrack(kids, left, taken)
    BY <1>3 DEF Track
  <2> QED
    BY <1>3, <2>1, SinglePaces
<1>4. CASE fn = "function_definition"
  BY <1>4, FunctionPaces DEF Track
<1>5. CASE fn = "expression"
  BY <1>5, ExpressionPaces DEF Track
<1>6. CASE fn = "type"
  BY <1>6, TypePaces DEF Track
<1>7. CASE fn = "variable_declaration"
  BY <1>7, DeclarationPaces DEF Track
<1>8. CASE fn = "statement_return"
  BY <1>8, ReturnPaces DEF Track
<1>9. CASE fn = "scope_statement"
  BY <1>9, ScopePaces DEF Track
<1>10. CASE fn = "block"
  BY <1>10, BlockPaces DEF Track
<1>11. CASE fn = "extern_block"
  BY <1>11, ExternPaces DEF Track
<1>12. CASE fn = "function_header"
  BY <1>12, HeaderPaces DEF Track
<1> QED
  BY <1>1, <1>2, <1>3, <1>4, <1>5, <1>6, <1>7, <1>8, <1>9, <1>10, <1>11, <1>12 DEF Functions

\* ... from its start on, with nothing taken.
LEMMA StartTrack ==
  ASSUME NEW fn \in Functions
  PROVE  Track(fn, << >>, Body(fn), {})
<1>1. CASE fn = "statement_expression_call"
  BY <1>1 DEF Track, Body, CallTrack
<1>2. CASE fn = "variable_definition"
  <2>1. parse_variable_definition = definition_first(Call("variable_declaration"))
    BY DEF parse_variable_definition, definition_first
  <2> QED
    BY <1>2, <2>1 DEF Track, Body, DefinitionTrack
<1>3. CASE fn = "assignment"
  <2>1. parse_assignment = definition_first(Keep({"identifier"}))
    BY DEF parse_assignment, definition_first
  <2> QED
    BY <1>3, <2>1 DEF Track, Body, DefinitionTrack
<1>4. CASE fn \in {"statement_expression", "unit_statement"}
  <2>1. \A g : /\ Needs(<< Call(g) >>, g, << >>) /\ Needs(<< CallOr(g) >>, g, << >>)
               /\ Needs(<< Must(g) >>, g, << >>)
    BY Need1
  <2>2. {"statement_expression_call", "assignment", "variable_definition", "function_definition",
         "extern_block"} \subseteq Functions \ Bare
    BY DEF Functions, Bare
  <2>3. \A kind, next :
          \E g \in Functions \ Bare : Needs(parse_statement_expression(kind, next), g, << >>)
    BY <2>1, <2>2 DEF parse_statement_expression
  <2>4. \A kind : \/ Rejects(parse_unit_statement(kind))
                  \/ \E g \in Functions \ Bare : Needs(parse_unit_statement(kind), g, << >>)
    BY <2>1, <2>2, RejectIs DEF parse_unit_statement
  <2>5. Rejects(Body(fn)) \/ \E g \in Functions \ Bare : Needs(Body(fn), g, << >>)
    <3>1. CASE fn = "statement_expression"
      <4>1. \E kind, next : Body(fn) = parse_statement_expression(kind, next)
        BY <3>1 DEF Body
      <4> QED
        BY <2>3, <4>1
    <3>2. CASE fn = "unit_statement"
      <4>1. \E kind : Body(fn) = parse_unit_statement(kind)
        BY <3>2 DEF Body
      <4> QED
        BY <2>4, <4>1
    <3> QED
      BY <1>4, <3>1, <3>2
  <2>6. SingleTrack(<< >>, Body(fn), {})
    BY <2>5 DEF SingleTrack
  <2> QED
    BY <1>4, <2>6 DEF Track
<1>5. CASE fn = "function_definition"
  BY <1>5 DEF Track, Body, FunctionTrack
<1>6. CASE fn = "expression"
  <2>1. Needs(<< Call("statement_expression") >>, "statement_expression", << >>)
    BY Need1
  <2>2. \A kind, next : ExpressionTrack(<< >>, parse_expression(kind, next), {})
    <3> SUFFICES ASSUME NEW kind, NEW next
                 PROVE  ExpressionTrack(<< >>, parse_expression(kind, next), {})
      OBVIOUS
    <3> DEFINE e == parse_expression(kind, next)
    <3>1. \/ e = << Reject >> \/ e = << Keep({kind}) >> \/ e = << Keep({"&"}), Keep({"identifier"}) >>
          \/ e = << Keep({"identifier"}) >> \/ e = << Call("statement_expression") >>
      BY DEF parse_expression
    <3>2. ExpressionTrack(<< >>, e, {})
      <4> HIDE DEF e
      <4>1. CASE e = << Keep({kind}) >> \/ e = << Keep({"identifier"}) >>
        <5>1. OneKept(e)
          BY <4>1 DEF OneKept
        <5> QED
          BY <5>1, ExpressionStart
      <4>2. CASE e = << Keep({"&"}), Keep({"identifier"}) >>
        <5>1. TwoKept(e)
          BY <4>2 DEF TwoKept
        <5> QED
          BY <5>1, ExpressionStart
      <4>3. CASE e = << Reject >>
        <5>1. Rejects(e)
          BY <4>3, RejectIs
        <5> QED
          BY <5>1, ExpressionStart
      <4>4. CASE e = << Call("statement_expression") >>
        <5>1. Needs(e, "statement_expression", << >>)
          BY <2>1, <4>4
        <5> QED
          BY <5>1, ExpressionStart
      <4> QED
        BY <3>1, <4>1, <4>2, <4>3, <4>4
    <3> QED
      BY <3>2
  <2>3. \E kind, next : Body(fn) = parse_expression(kind, next)
    BY <1>6 DEF Body
  <2> QED
    BY <1>6, <2>2, <2>3 DEF Track
<1>7. CASE fn = "type"
  BY <1>7, NoKids DEF Track, Body, TypeTrack
<1>8. CASE fn = "variable_declaration"
  BY <1>8, NoKids DEF Track, Body, DeclarationTrack
<1>9. CASE fn = "statement_return"
  BY <1>9 DEF Track, Body, ReturnTrack
<1>10. CASE fn = "scope_statement"
  <2>1. \A kind : parse_scope_statement(kind) \in {scope_return, scope_block, scope_expression}
    BY DEF parse_scope_statement, scope_return, scope_block, scope_expression
  <2>2. \E kind : Body(fn) = parse_scope_statement(kind)
    BY <1>10 DEF Body
  <2> QED
    BY <1>10, <2>1, <2>2 DEF Track, ScopeTrack
<1>11. CASE fn = "block"
  BY <1>11 DEF Track, Body, BlockTrack
<1>12. CASE fn = "extern_block"
  BY <1>12 DEF Track, Body, ExternTrack
<1>13. CASE fn = "function_header"
  BY <1>13, NoKids DEF Track, Body, HeaderTrack
<1> QED
  BY <1>1, <1>2, <1>3, <1>4, <1>5, <1>6, <1>7, <1>8, <1>9, <1>10, <1>11, <1>12, <1>13 DEF Functions

-----------------------------------------------------------------------------
(***************************************************************************)
(* The invariant of the heap.                                              *)
(***************************************************************************)

\* An array that is allocated, behind token p and before token q.
Between(L, a, p, q) == a \in Places /\ a \in L /\ HasName(L, a) /\ a[2] >= p /\ a[2] < q

\* What an activation has taken up to token q is allocated ...
Takes(L, f, q, taken) ==
  /\ Track(f.fn, f.kids, f.todo, taken)
  /\ \A w \in taken : << w, f.start >> \in L
  /\ taken # {} => f.start < q

\* ... and what its kids hold lies behind it, each array in one of them.
Carries(h, L, f, q) ==
  /\ Apart(h, f.kids)
  /\ \A a \in AllHeld(h, f.kids) : Between(L, a, f.start, q) /\ (f.fn \in Owners => a[2] # f.start)

\* An activation is where its function may be, with what it has to have there.
Tracked(h, L, f, q) == Carries(h, L, f, q) /\ \E taken : Takes(L, f, q, taken)

\* Every frame up to where the next one began, and the last up to token q.
Upto(t, q, n) == IF n = Len(t) THEN q ELSE t[n + 1].start
Linked(h, L, t, q) == \A n \in 1 .. Len(t) : Tracked(h, L, t[n], Upto(t, q, n))

\* A name stands or falls with its header.
Base(a) == IF a[1] = "mangled" THEN << "function_header", a[2] >> ELSE a

\* What an activation has allocated, its own or in its kids.
InFrame(h, f, a) == Base(a) = << f.fn, f.start >> \/ Base(a) \in AllHeld(h, f.kids)

\* What an allocation is for: the unit, what was lost, a statement, an activation, or one
\* that has just failed.
Explained(h, a) ==
  \/ a = << "unit", 0 >>
  \/ a[2] \in dropped \cup failed
  \/ Base(a) \in AllHeld(h, unit)
  \/ \E n \in 1 .. Len(stack) : InFrame(h, stack[n], a)
  \/ mode = "fail" /\ a[2] >= top.start

\* What is allocated: the unit, arrays of the AST and names.
Allocation(a) == a = << "unit", 0 >> \/ a \in (Owners \cup {"mangled"}) \X Nat

\* Up to where the statements of the unit reach.
UnitEnd == IF stack = << >> THEN c ELSE stack[1].start

\* While the parser runs, and behind it.
Parsing(h) ==
  /\ mode # "rejected"
  /\ << "unit", 0 >> \in live /\ (success => failed = {})
  /\ Linked(h, live, stack, c)
  /\ Apart(h, unit) /\ \A a \in AllHeld(h, unit) : Between(live, a, 0, UnitEnd)
  /\ \A a \in live : Allocation(a) /\ a[2] < c /\ Explained(h, a)

\* The last thing to free is the unit.
UnitLast == pending # << >> => pending[Len(pending)] = darray_free("unit", 0)

\* What is left of an allocation, an array or a name.
Left(h, a) ==
  \/ a[2] \in dropped \cup failed
  \/ Base(a) \in AllHeld(h, pending)
  \/ a[1] = "mangled" /\ Base(a) \in ToSet(freed)

\* From the beginning of jac_free_unit on.
Cleaning(h) ==
  /\ mode \in {"accepted", "rejected"} /\ (mode = "accepted" => failed = {})
  /\ IsSeq(freed) /\ Apart(h, pending) /\ UnitLast
  /\ \A a \in AllHeld(h, pending) : a \in live /\ (a \in Places \/ a = << "unit", 0 >>)
  /\ \A a \in live : Allocation(a) /\ Left(h, a)
  /\ \A a \in ToSet(freed) \cup AllHeld(h, pending) : HasName(live, a)

\* The invariant, with a table that is right.
HeapInvOf(h) ==
  Ledger(h, live) /\ IF pending = << >> /\ freed = << >> THEN Parsing(h) ELSE Cleaning(h)

HeapInv == \E h : HeapInvOf(h)

-----------------------------------------------------------------------------
(***************************************************************************)
(* The frames of the stack.                                                *)
(***************************************************************************)

\* One node more.
LEMMA HeldAppended ==
  ASSUME NEW h, NEW t, Apart(h, t), NEW n, Known(h, n), Holds(h, n) \cap AllHeld(h, t) = {}
  PROVE  /\ Apart(h, Append(t, n)) /\ AllHeld(h, Append(t, n)) = AllHeld(h, t) \cup Holds(h, n)
<1>1. Apart(h, << n >>) /\ AllHeld(h, << n >>) = Holds(h, n)
  BY OneHeld
<1>2. Append(t, n) = t \o << n >>
  <2>1. PICK R : t \in Seq(R)
    BY DEF Apart, IsSeq
  <2>2. t \in Seq(R \cup {n})
    BY <2>1
  <2> QED
    BY <2>2, AppendIsConcat
<1> DEFINE u == << n >>
<1> HIDE DEF u
<1>3. AllHeld(h, t) \cap AllHeld(h, u) = {}
  BY <1>1 DEF u
<1>4. Apart(h, t \o u) /\ AllHeld(h, t \o u) = AllHeld(h, t) \cup AllHeld(h, u)
  BY <1>1, <1>3, JoinHeld DEF u
<1> QED
  BY <1>1, <1>2, <1>4 DEF u

\* What the name of a header stands for.
LEMMA BaseFacts ==
  ASSUME NEW a, Allocation(a)
  PROVE  /\ Base(a)[2] = a[2] /\ a[2] \in Nat
         /\ a # << "unit", 0 >> => Base(a)[1] \in Owners /\ Base(a) \in Places
         /\ a = << "unit", 0 >> => Base(a) = a /\ a[1] = "unit" /\ a \notin Places
         /\ a[1] # "mangled" => Base(a) = a
         /\ a[1] = "mangled" => a = << "mangled", a[2] >>
<1>1. CASE a = << "unit", 0 >>
  <2>1. a[1] = "unit" /\ a[2] = 0
    BY <1>1
  <2>2. "unit" \notin Owners
    BY DEF Owners
  <2>3. a \notin Places
    BY <1>1, <2>2 DEF Places
  <2> QED
    BY <1>1, <2>1, <2>3 DEF Base
<1>2. CASE a # << "unit", 0 >>
  <2>1. PICK w \in Owners \cup {"mangled"}, p \in Nat : a = << w, p >>
    BY <1>2 DEF Allocation
  <2>2. a[1] = w /\ a[2] = p
    BY <2>1
  <2>3. "mangled" \notin Owners /\ "function_header" \in Owners
    BY DEF Owners
  <2>4. CASE w = "mangled"
    BY <1>2, <2>1, <2>2, <2>3, <2>4 DEF Base, Places
  <2>5. CASE w # "mangled"
    BY <1>2, <2>1, <2>2, <2>3, <2>5 DEF Base, Places
  <2> QED
    BY <2>4, <2>5
<1> QED
  BY <1>1, <1>2

\* More may be allocated, the table may grow, and the next token may be a later one.
LEMMA StillCarries ==
  ASSUME NEW h, NEW g, Extends(h, g), NEW L, NEW M, L \subseteq M, NEW f,
         NEW q \in Nat, NEW r \in Nat, q <= r, Carries(h, L, f, q)
  PROVE  Carries(g, M, f, r)
<1>1. Apart(g, f.kids) /\ AllHeld(g, f.kids) = AllHeld(h, f.kids)
  BY StillApart DEF Carries
<1>2. \A a : Between(L, a, f.start, q) => Between(M, a, f.start, r)
  BY DEF Between, HasName, Places
<1> QED
  BY <1>1, <1>2 DEF Carries

\* What an activation has taken stays taken ...
LEMMA StillTakes ==
  ASSUME NEW L, NEW M, L \subseteq M, NEW f, f.start \in Nat,
         NEW q \in Nat, NEW r \in Nat, q <= r, NEW taken, Takes(L, f, q, taken)
  PROVE  Takes(M, f, r, taken)
BY DEF Takes

\* ... and it stays tracked.
LEMMA StillTracked ==
  ASSUME NEW h, NEW g, Extends(h, g), NEW L, NEW M, L \subseteq M, NEW f, f.start \in Nat,
         NEW q \in Nat, NEW r \in Nat, q <= r, Tracked(h, L, f, q)
  PROVE  Tracked(g, M, f, r)
<1>1. Carries(g, M, f, r)
  BY StillCarries DEF Tracked
<1>2. PICK taken : Takes(L, f, q, taken)
  BY DEF Tracked
<1>3. Takes(M, f, r, taken)
  BY <1>2, StillTakes
<1> QED
  BY <1>1, <1>3 DEF Tracked

\* A table extends itself.
LEMMA SameTable == \A h : Extends(h, h)
BY DEF Extends

\* A stack of frames whose starts are tokens.
Started(t, q) ==
  /\ IsSeq(t) /\ q \in Nat
  /\ \A n \in 1 .. Len(t) : t[n].start \in Nat /\ t[n].start <= q
  /\ \A j, k \in 1 .. Len(t) : j <= k => t[j].start <= t[k].start

\* What lies behind a frame.
LEMMA UptoFacts ==
  ASSUME NEW t, NEW q, Started(t, q), NEW n \in 1 .. Len(t)
  PROVE  Upto(t, q, n) \in Nat /\ t[n].start \in Nat /\ t[n].start <= Upto(t, q, n)
         /\ Upto(t, q, n) <= q
<1> DEFINE m == Len(t)
<1>1. m \in Nat /\ n \in 1 .. m
  BY SeqFacts DEF Started
<1>2. q \in Nat /\ t[n].start \in Nat /\ t[n].start <= q
  BY DEF Started
<1>3. n = m => Upto(t, q, n) = q
  BY DEF Upto
<1>4. n # m => Upto(t, q, n) = t[n + 1].start
  BY DEF Upto
<1> HIDE DEF m
<1>5. n # m => n + 1 \in 1 .. m /\ n <= n + 1
  BY <1>1
<1>6. n # m => t[n + 1].start \in Nat /\ t[n].start <= t[n + 1].start /\ t[n + 1].start <= q
  BY <1>5 DEF Started, m
<1> QED
  BY <1>2, <1>3, <1>4, <1>6

\* The frames stay tracked as the table and what is allocated grow.
LEMMA StillLinked ==
  ASSUME NEW h, NEW g, Extends(h, g), NEW L, NEW M, L \subseteq M,
         NEW t, NEW q, NEW r \in Nat, q <= r, Started(t, q), Linked(h, L, t, q)
  PROVE  Linked(g, M, t, r)
<1> SUFFICES ASSUME NEW n \in 1 .. Len(t)
             PROVE  Tracked(g, M, t[n], Upto(t, r, n))
  BY DEF Linked
<1>1. Upto(t, q, n) \in Nat /\ t[n].start \in Nat /\ q \in Nat
  BY UptoFacts DEF Started
<1>2. Upto(t, r, n) \in Nat /\ Upto(t, q, n) <= Upto(t, r, n)
  BY <1>1 DEF Upto
<1>3. Tracked(h, L, t[n], Upto(t, q, n))
  BY DEF Linked
<1> QED
  BY <1>1, <1>2, <1>3, StillTracked

\* The top frame moves on.
LEMMA LinkedReplace ==
  ASSUME NEW h, NEW L, NEW t, NEW q, IsSeq(t), t # << >>, Linked(h, L, t, q),
         NEW f, f.start = t[Len(t)].start, NEW r, Tracked(h, L, f, r)
  PROVE  Linked(h, L, Replace(t, f), r)
<1> DEFINE u == Replace(t, f)
           m == Len(t)
<1>1. Len(u) = m /\ u[m] = f /\ \A n \in 1 .. m - 1 : u[n] = t[n]
  BY ReplaceFacts
<1>2. m \in Nat /\ m > 0
  BY SeqFacts
<1> HIDE DEF u
<1> SUFFICES ASSUME NEW n \in 1 .. m
             PROVE  Tracked(h, L, u[n], Upto(u, r, n))
  BY <1>1 DEF Linked, u
<1>3. CASE n = m
  BY <1>1, <1>3 DEF Upto
<1>4. CASE n # m
  <2> HIDE DEF m
  <2>1. n \in 1 .. m - 1 /\ n + 1 \in 1 .. m /\ (n + 1 # m => n + 1 \in 1 .. m - 1)
    BY <1>2, <1>4
  <2>2. u[n] = t[n] /\ u[n + 1].start = t[n + 1].start
    BY <1>1, <2>1 DEF m
  <2>3. Upto(u, r, n) = Upto(t, q, n)
    BY <1>1, <1>4, <2>2 DEF Upto, m
  <2> QED
    BY <2>2, <2>3 DEF Linked, m
<1> QED
  BY <1>3, <1>4

\* A frame is pushed.
LEMMA LinkedPush ==
  ASSUME NEW h, NEW L, NEW t, NEW q, IsSeq(t), Linked(h, L, t, q),
         NEW f, f.start = q, Tracked(h, L, f, q)
  PROVE  Linked(h, L, Append(t, f), q)
<1> DEFINE u == Append(t, f)
           m == Len(t)
<1>1. Len(u) = m + 1 /\ u[m + 1] = f /\ \A n \in 1 .. m : u[n] = t[n]
  BY AppendFacts
<1>2. m \in Nat
  BY SeqFacts
<1> HIDE DEF u
<1> SUFFICES ASSUME NEW n \in 1 .. m + 1
             PROVE  Tracked(h, L, u[n], Upto(u, q, n))
  BY <1>1 DEF Linked, u
<1>3. CASE n = m + 1
  BY <1>1, <1>3 DEF Upto
<1>4. CASE n # m + 1
  <2> HIDE DEF m
  <2>1. n \in 1 .. m /\ (n # m => n + 1 \in 1 .. m) /\ (n = m => n + 1 = m + 1)
    BY <1>2, <1>4
  <2>2. u[n] = t[n]
    BY <1>1, <2>1
  <2>3. Upto(u, q, n) = Upto(t, q, n)
    BY <1>1, <1>4, <2>1 DEF Upto, m
  <2> QED
    BY <2>1, <2>2, <2>3 DEF Linked, m
<1> QED
  BY <1>3, <1>4

\* A frame is popped.
LEMMA LinkedPop ==
  ASSUME NEW h, NEW L, NEW t, NEW q, IsSeq(t), Len(t) > 1, Linked(h, L, t, q)
  PROVE  /\ Linked(h, L, Popped(t), t[Len(t)].start)
         /\ Tracked(h, L, t[Len(t) - 1], t[Len(t)].start) /\ Tracked(h, L, t[Len(t)], q)
<1> DEFINE u == Popped(t)
           m == Len(t)
           p == t[m].start
<1>1. Len(u) = m - 1 /\ \A n \in 1 .. m - 1 : u[n] = t[n]
  BY PopFacts DEF Popped
<1>2. m \in Nat /\ m > 1
  BY SeqFacts
<1> HIDE DEF u
<1>3. \A n \in 1 .. m - 1 : Upto(u, p, n) = Upto(t, q, n)
  <2> HIDE DEF m
  <2> SUFFICES ASSUME NEW n \in 1 .. m - 1
               PROVE  Upto(u, p, n) = Upto(t, q, n)
    OBVIOUS
  <2>1. n # m /\ (n # m - 1 => n + 1 \in 1 .. m - 1) /\ (n = m - 1 => n + 1 = m)
    BY <1>2
  <2> QED
    BY <1>1, <2>1 DEF Upto, m
<1>4. \A n \in 1 .. m : Tracked(h, L, t[n], Upto(t, q, n))
  BY DEF Linked
<1>5. Upto(t, q, m) = q /\ Upto(t, q, m - 1) = p
  <2>1. m - 1 # m /\ (m - 1) + 1 = m
    BY <1>2
  <2> QED
    BY <2>1 DEF Upto
<1>6. m \in 1 .. m /\ m - 1 \in 1 .. m /\ \A n \in 1 .. m - 1 : n \in 1 .. m
  <2> HIDE DEF m
  <2> QED
    BY <1>2
<1>7. Linked(h, L, u, p)
  BY <1>1, <1>3, <1>4, <1>6 DEF Linked
<1>8. Tracked(h, L, t[m - 1], Upto(t, q, m - 1)) /\ Tracked(h, L, t[m], Upto(t, q, m))
  BY <1>4, <1>6
<1> QED
  BY <1>5, <1>7, <1>8 DEF u

-----------------------------------------------------------------------------
(***************************************************************************)
(* The steps of the parser.                                                *)
(***************************************************************************)

\* What every step starts from.
LEMMA StackStarted ==
  ASSUME IInv, TextInv
  PROVE  /\ Started(stack, c) /\ c \in Nat /\ IsSeq(stack)
         /\ \A n \in 1 .. Len(stack) : stack[n].fn \in Functions
         /\ stack # << >> => /\ top = stack[Len(stack)] /\ IsFrame(top) /\ top.fn \in Functions
                             /\ Len(stack) \in 1 .. Len(stack) /\ 1 \in 1 .. Len(stack)
                             /\ top.start \in Nat /\ stack[1].start \in Nat
                             /\ stack[1].start <= top.start /\ top.start <= c
<1>1. /\ IsSeq(stack) /\ c \in Nat /\ Len(stack) \in Nat
      /\ \A n \in 1 .. Len(stack) : stack[n].start \in 1 .. c /\ stack[n].fn \in Functions
                                   /\ IsFrame(stack[n])
  BY TextFacts
<1>2. \A j, k \in 1 .. Len(stack) : j <= k => stack[j].start <= stack[k].start
  BY DEF TextInv, Chain
<1>3. Started(stack, c)
  BY <1>1, <1>2 DEF Started
<1>4. ASSUME stack # << >>
      PROVE  Len(stack) \in 1 .. Len(stack) /\ 1 \in 1 .. Len(stack) /\ 1 <= Len(stack)
  BY <1>1, <1>4, SeqFacts
<1> QED
  BY <1>1, <1>2, <1>3, <1>4 DEF top

\* The unit's arrays stay where they are.
LEMMA StillBetween ==
  ASSUME NEW L, NEW M, L \subseteq M, NEW a, NEW p \in Nat, NEW q \in Nat, NEW r \in Nat, q <= r,
         Between(L, a, p, q)
  PROVE  Between(M, a, p, r)
BY DEF Between, HasName, Places

\* The activation that runs moves on, and may allocate something.
LEMMA TopMoves ==
  ASSUME IInv, TextInv, NEW h, Ledger(h, live), Parsing(h), mode = "parse", mode' = "parse",
         NEW f, f.fn = top.fn, f.start = top.start, AllHeld(h, f.kids) = AllHeld(h, top.kids),
         stack' = Replace(stack, f), UNCHANGED << unit, success, dropped, failed >>,
         live \subseteq live', c' \in Nat, c <= c', Tracked(h, live', f, c'),
         \A a \in live' : \/ a \in live
                          \/ Allocation(a) /\ a[2] < c' /\ Base(a) = << f.fn, f.start >>
  PROVE  Ledger(h, live)' /\ Parsing(h)'
<1>1. /\ Started(stack, c) /\ IsSeq(stack) /\ stack # << >> /\ Chain(tokens, dropped, stack)
      /\ top = stack[Len(stack)] /\ stack[1].start \in Nat /\ c \in Nat /\ 1 \in 1 .. Len(stack)
      /\ Len(stack) \in 1 .. Len(stack)
  BY StackStarted, TextFacts DEF TextInv
<1>2. Ledger(h, live')
  BY MoreLive
<1>3. Linked(h, live', stack', c')
  <2>1. Linked(h, live, stack, c) /\ Extends(h, h) /\ c <= c
    BY <1>1, SameTable DEF Parsing
  <2>2. Linked(h, live', stack, c)
    BY <1>1, <2>1, StillLinked
  <2> QED
    BY <1>1, <2>2, LinkedReplace
<1>4. /\ Len(stack') = Len(stack) /\ stack' # << >> /\ stack'[Len(stack)] = f
      /\ \A n \in 1 .. Len(stack) - 1 : stack'[n] = stack[n]
  BY <1>1, ReplaceFacts
<1>5. stack'[1].start = stack[1].start
  BY <1>1, ChainReplace
<1>6. UnitEnd = stack[1].start /\ UnitEnd' = stack[1].start
  BY <1>1, <1>4, <1>5 DEF UnitEnd
<1>7. \A a \in AllHeld(h, unit') : Between(live', a, 0, UnitEnd')
  <2>1. \A a \in AllHeld(h, unit) : Between(live, a, 0, stack[1].start)
    BY <1>6 DEF Parsing
  <2>2. \A a \in AllHeld(h, unit) : Between(live', a, 0, stack[1].start)
    BY <1>1, <2>1, StillBetween
  <2> QED
    BY <1>6, <2>2
<1>8. ASSUME NEW a \in live'
      PROVE  Allocation(a) /\ a[2] < c' /\ Explained(h, a)'
  <2>1. CASE Allocation(a) /\ a[2] < c' /\ Base(a) = << f.fn, f.start >>
    <3>1. InFrame(h, stack'[Len(stack)], a)
      BY <1>4, <2>1 DEF InFrame
    <3>2. Explained(h, a)'
      BY <1>1, <1>4, <3>1 DEF Explained
    <3> QED
      BY <2>1, <3>2
  <2>2. CASE a \in live
    <3>1. Allocation(a) /\ a[2] < c /\ Explained(h, a)
      BY <2>2 DEF Parsing
    <3>2. a[2] < c'
      BY <1>1, <3>1, BaseFacts
    <3>3. ASSUME NEW n \in 1 .. Len(stack), InFrame(h, stack[n], a)
          PROVE  Explained(h, a)'
      <4>1. InFrame(h, stack'[n], a)
        <5>1. CASE n = Len(stack)
          BY <1>1, <1>4, <3>3, <5>1 DEF InFrame
        <5>2. CASE n # Len(stack)
          <6>1. n \in 1 .. Len(stack) - 1
            BY <1>1, <5>2
          <6> QED
            BY <1>4, <3>3, <6>1
        <5> QED
          BY <5>1, <5>2
      <4> QED
        BY <1>4, <4>1 DEF Explained
    <3>4. Explained(h, a)'
      BY <3>1, <3>3 DEF Explained
    <3> QED
      BY <3>1, <3>2, <3>4
  <2> QED
    BY <2>1, <2>2
<1> QED
  BY <1>2, <1>3, <1>7, <1>8 DEF Parsing

\* A token is bare.
LEMMA LeafHeld ==
  ASSUME NEW h, NEW n, n.fn \in Bare
  PROVE  Known(h, n) /\ Holds(h, n) = {}
BY DEF Known, Holds

\* What the activation that runs has taken, and how it goes on.
LEMMA TopPaces ==
  ASSUME IInv, TextInv, NEW h, Parsing(h), mode = "parse"
  PROVE  /\ stack # << >> /\ Carries(h, live, top, c) /\ Tracked(h, live, top, c)
         /\ \E taken : /\ Takes(live, top, c, taken)
                       /\ Paces(top.fn, top.kids, top.todo, taken)
<1>1. /\ stack # << >> /\ top = stack[Len(stack)] /\ Len(stack) \in 1 .. Len(stack)
      /\ top.fn \in Functions
  BY TextFacts, StackStarted
<1>2. Tracked(h, live, stack[Len(stack)], Upto(stack, c, Len(stack)))
  BY <1>1 DEF Parsing, Linked
<1>3. Tracked(h, live, top, c)
  BY <1>1, <1>2 DEF Upto
<1>4. PICK taken : Takes(live, top, c, taken)
  BY <1>3 DEF Tracked
<1>5. IsSeq(top.kids) /\ Carries(h, live, top, c)
  BY <1>3 DEF Tracked, Carries, Apart
<1>6. Paces(top.fn, top.kids, top.todo, taken)
  BY <1>1, <1>4, <1>5, AllPaces DEF Takes
<1> QED
  BY <1>1, <1>3, <1>4, <1>5, <1>6

\* The expected token, kept or not.
LEMMA TokenKept ==
  ASSUME IInv, TextInv, NEW h, Parsing(h), Expect
  PROVE  \E f : /\ f.fn = top.fn /\ f.start = top.start /\ stack' = Replace(stack, f)
                /\ AllHeld(h, f.kids) = AllHeld(h, top.kids) /\ Carries(h, live, f, c + 1)
                /\ \E taken : /\ Takes(live, top, c, taken)
                              /\ Track(f.fn, f.kids, f.todo, Behind(f.fn, item.kinds, taken))
<1> DEFINE k == IF item.keep THEN Append(top.kids, Leaf(c)) ELSE top.kids
           f == [top EXCEPT !.todo = rest, !.kids = k]
<1>1. /\ mode = "parse" /\ top.todo # << >> /\ item.op = "token" /\ item.kinds # {}
      /\ stack' = Replace(stack, f)
  BY DEF Expect, Running
<1>2. stack # << >> /\ IsFrame(top) /\ top.start \in Nat /\ c \in Nat /\ c + 1 \in Nat
  BY <1>1, StackStarted, TextFacts
<1>3. f.fn = top.fn /\ f.start = top.start /\ f.kids = k /\ f.todo = rest
  <2> HIDE DEF k
  <2> QED
    BY <1>2, NewTodoKids
<1>4. Carries(h, live, top, c)
  BY <1>1, TopPaces
<1>5. PICK taken : Takes(live, top, c, taken) /\ Paces(top.fn, top.kids, top.todo, taken)
  BY <1>1, TopPaces
<1>6. Leaf(c).fn = "token"
  BY DEF Leaf
<1>7. Track(top.fn, k, rest, Behind(top.fn, item.kinds, taken))
  <2> DEFINE leaf == Leaf(c)
  <2>1. leaf.fn = "token"
    BY <1>6
  <2> HIDE DEF leaf
  <2>2. Track(top.fn, IF item.keep THEN Append(top.kids, leaf) ELSE top.kids, rest,
              Behind(top.fn, item.kinds, taken))
    BY <1>1, <1>5, <2>1 DEF Paces, item, rest
  <2> QED
    BY <2>2 DEF leaf
<1>8. Apart(h, k) /\ AllHeld(h, k) = AllHeld(h, top.kids)
  <2> DEFINE leaf == Leaf(c)
  <2>1. Known(h, leaf) /\ Holds(h, leaf) = {}
    BY <1>6, BareIs, LeafHeld
  <2>2. Apart(h, top.kids)
    BY <1>4 DEF Carries
  <2> HIDE DEF leaf
  <2>3. Apart(h, Append(top.kids, leaf)) /\ AllHeld(h, Append(top.kids, leaf)) = AllHeld(h, top.kids)
    BY <2>1, <2>2, HeldAppended
  <2> QED
    BY <2>2, <2>3 DEF leaf
<1> HIDE DEF f, k
<1>9. Carries(h, live, f, c)
  BY <1>3, <1>4, <1>8 DEF Carries
<1>10. Carries(h, live, f, c + 1)
  <2>1. c <= c + 1 /\ Extends(h, h)
    BY <1>2, SameTable
  <2> QED
    BY <1>2, <1>9, <2>1, StillCarries
<1> QED
  BY <1>1, <1>3, <1>5, <1>7, <1>8, <1>10

\* An array is made behind its token ...
LEMMA NewArrayKeeps ==
  ASSUME IInv, TextInv, NEW h, Ledger(h, live), Parsing(h), NewArray
  PROVE  Ledger(h, live)' /\ Parsing(h)'
<1>1. /\ mode = "parse" /\ mode' = "parse" /\ c' = c + 1
      /\ UNCHANGED << unit, success, dropped, failed >>
      /\ top.fn \in DOMAIN NewBehind /\ item.kinds = NewBehind[top.fn]
      /\ live' = live \cup {<< top.fn, top.start >>}
  BY DEF NewArray, Expect, Running, Allocate
<1>2. PICK f : /\ f.fn = top.fn /\ f.start = top.start /\ stack' = Replace(stack, f)
               /\ AllHeld(h, f.kids) = AllHeld(h, top.kids) /\ Carries(h, live, f, c + 1)
               /\ \E taken : /\ Takes(live, top, c, taken)
                             /\ Track(f.fn, f.kids, f.todo, Behind(f.fn, item.kinds, taken))
  BY TokenKept DEF NewArray
<1>3. PICK taken : /\ Takes(live, top, c, taken)
                   /\ Track(f.fn, f.kids, f.todo, Behind(f.fn, item.kinds, taken))
  BY <1>2
<1>4. f.fn \in Owners /\ c \in Nat /\ f.start \in Nat /\ f.start <= c
  BY <1>1, <1>2, OwnersAre, StackStarted, TextFacts
<1>5. Behind(f.fn, item.kinds, taken) = taken \cup {f.fn}
  BY <1>1, <1>2, <1>4 DEF Behind
<1>6. Takes(live', f, c + 1, taken \cup {f.fn})
  <2>1. \A w \in taken : << w, f.start >> \in live
    BY <1>2, <1>3 DEF Takes
  <2>2. \A w \in taken \cup {f.fn} : << w, f.start >> \in live'
    BY <1>1, <1>2, <2>1
  <2>3. f.start < c + 1
    BY <1>4
  <2> QED
    BY <1>3, <1>5, <2>2, <2>3 DEF Takes
<1>7. Tracked(h, live', f, c')
  <2>1. Carries(h, live', f, c + 1)
    BY <1>1, <1>2, <1>4, SameTable, StillCarries
  <2> QED
    BY <1>1, <1>6, <2>1 DEF Tracked
<1>8. ASSUME NEW a \in live', a \notin live
      PROVE  Allocation(a) /\ a[2] < c' /\ Base(a) = << f.fn, f.start >>
  <2>1. a = << f.fn, f.start >>
    BY <1>1, <1>2, <1>8
  <2>2. a[1] = f.fn /\ a[2] = f.start /\ f.fn # "mangled"
    BY <1>4, <2>1 DEF Owners
  <2>3. a \in (Owners \cup {"mangled"}) \X Nat
    BY <1>4, <2>1
  <2> QED
    BY <1>1, <1>4, <2>1, <2>2, <2>3 DEF Allocation, Base
<1>9. live \subseteq live' /\ c' \in Nat /\ c <= c'
  BY <1>1, <1>4
<1> QED
  BY <1>1, <1>2, <1>7, <1>8, <1>9, TopMoves

\* ... and none behind another.
LEMMA OtherTokenKeeps ==
  ASSUME IInv, TextInv, NEW h, Ledger(h, live), Parsing(h), OtherToken
  PROVE  Ledger(h, live)' /\ Parsing(h)'
<1>1. /\ mode = "parse" /\ mode' = "parse" /\ c' = c + 1
      /\ UNCHANGED << unit, success, dropped, failed >> /\ live' = live
      /\ ~(top.fn \in DOMAIN NewBehind /\ item.kinds = NewBehind[top.fn])
  BY DEF OtherToken, Expect, Running, heap
<1>2. PICK f : /\ f.fn = top.fn /\ f.start = top.start /\ stack' = Replace(stack, f)
               /\ AllHeld(h, f.kids) = AllHeld(h, top.kids) /\ Carries(h, live, f, c + 1)
               /\ \E taken : /\ Takes(live, top, c, taken)
                             /\ Track(f.fn, f.kids, f.todo, Behind(f.fn, item.kinds, taken))
  BY TokenKept DEF OtherToken
<1>3. PICK taken : /\ Takes(live, top, c, taken)
                   /\ Track(f.fn, f.kids, f.todo, Behind(f.fn, item.kinds, taken))
  BY <1>2
<1>4. c \in Nat /\ top.start \in Nat
  BY <1>1, StackStarted, TextFacts
<1>5. Behind(f.fn, item.kinds, taken) = taken
  BY <1>1, <1>2, OwnersAre DEF Behind
<1>6. Takes(live', f, c + 1, taken)
  <2>1. (\A w \in taken : << w, top.start >> \in live) /\ (taken # {} => top.start < c)
    BY <1>3 DEF Takes
  <2>2. taken # {} => top.start < c + 1
    BY <1>4, <2>1
  <2> QED
    BY <1>1, <1>2, <1>3, <1>5, <2>1, <2>2 DEF Takes
<1>7. Tracked(h, live', f, c')
  BY <1>1, <1>2, <1>6 DEF Tracked
<1>8. live \subseteq live' /\ c' \in Nat /\ c <= c' /\ \A a \in live' : a \in live
  BY <1>1, <1>4
<1> QED
  BY <1>1, <1>2, <1>7, <1>8, TopMoves

\* What a branch goes on to do.
LEMMA BranchKept ==
  ASSUME IInv, TextInv, NEW h, Parsing(h), Branch
  PROVE  \E f : /\ f.fn = top.fn /\ f.start = top.start /\ f.kids = top.kids
                /\ stack' = Replace(stack, f) /\ Carries(h, live, f, c)
                /\ \E taken : /\ Takes(live, top, c, taken)
                              /\ Track(f.fn, f.kids, f.todo, Passing(item.kinds, taken))
                              /\ item.kinds = {"-"} => f.fn = "function_header" /\ taken # {}
<1> DEFINE t == IF Kind \in item.kinds THEN item.then \o (IF item.op = "while" THEN top.todo ELSE rest)
                ELSE rest
           f == [top EXCEPT !.todo = t]
<1>1. mode = "parse" /\ top.todo # << >> /\ item.op \in {"when", "while"} /\ stack' = Replace(stack, f)
  BY DEF Branch, Running
<1>2. stack # << >> /\ IsFrame(top)
  BY <1>1, StackStarted, TextFacts
<1>3. f.fn = top.fn /\ f.start = top.start /\ f.kids = top.kids /\ f.todo = t
  <2> HIDE DEF t
  <2> QED
    BY <1>2, NewTodoKids
<1>4. Carries(h, live, top, c)
  BY <1>1, TopPaces
<1>5. PICK taken : Takes(live, top, c, taken) /\ Paces(top.fn, top.kids, top.todo, taken)
  BY <1>1, TopPaces
<1>6. /\ Track(top.fn, top.kids, t, Passing(item.kinds, taken))
      /\ item.kinds = {"-"} => top.fn = "function_header" /\ taken # {}
  <2>1. /\ \A b \in BOOLEAN :
             Track(top.fn, top.kids,
                   IF b THEN item.then \o (IF item.op = "while" THEN top.todo ELSE rest) ELSE rest,
                   Passing(item.kinds, taken))
        /\ item.kinds = {"-"} => top.fn = "function_header" /\ taken # {}
    BY <1>1, <1>5 DEF Paces, item, rest
  <2>2. CASE Kind \in item.kinds
    BY <2>1, <2>2
  <2>3. CASE Kind \notin item.kinds
    BY <2>1, <2>3
  <2> QED
    BY <2>1, <2>2, <2>3
<1> HIDE DEF f, t
<1>7. Carries(h, live, f, c)
  BY <1>3, <1>4 DEF Carries
<1> QED
  BY <1>1, <1>3, <1>5, <1>6, <1>7

\* The name of a header is made before its arrow ...
LEMMA NewNameKeeps ==
  ASSUME IInv, TextInv, NEW h, Ledger(h, live), Parsing(h), NewName
  PROVE  Ledger(h, live)' /\ Parsing(h)'
<1>1. /\ mode = "parse" /\ mode' = "parse" /\ c' = c
      /\ UNCHANGED << unit, success, dropped, failed >>
      /\ item.kinds = {"-"} /\ live' = live \cup {<< "mangled", top.start >>}
  BY DEF NewName, Branch, Running, Allocate
<1>2. PICK f : /\ f.fn = top.fn /\ f.start = top.start /\ f.kids = top.kids
               /\ stack' = Replace(stack, f) /\ Carries(h, live, f, c)
               /\ \E taken : /\ Takes(live, top, c, taken)
                             /\ Track(f.fn, f.kids, f.todo, Passing(item.kinds, taken))
                             /\ item.kinds = {"-"} => f.fn = "function_header" /\ taken # {}
  BY BranchKept DEF NewName
<1>3. PICK taken : /\ Takes(live, top, c, taken)
                   /\ Track(f.fn, f.kids, f.todo, Passing(item.kinds, taken))
                   /\ f.fn = "function_header" /\ taken # {}
  BY <1>1, <1>2
<1>4. c \in Nat /\ f.start \in Nat /\ f.start < c
  BY <1>1, <1>2, <1>3, StackStarted, TextFacts DEF Takes
<1>5. Passing(item.kinds, taken) = taken \cup {"mangled"}
  BY <1>1 DEF Passing
<1>6. Takes(live', f, c, taken \cup {"mangled"})
  <2>1. \A w \in taken : << w, f.start >> \in live
    BY <1>2, <1>3 DEF Takes
  <2>2. \A w \in taken \cup {"mangled"} : << w, f.start >> \in live'
    BY <1>1, <1>2, <2>1
  <2> QED
    BY <1>3, <1>4, <1>5, <2>2 DEF Takes
<1>7. Tracked(h, live', f, c')
  <2>1. Carries(h, live', f, c)
    <3>1. c <= c /\ Extends(h, h) /\ live \subseteq live'
      BY <1>1, <1>4, SameTable
    <3> QED
      BY <1>2, <1>4, <3>1, StillCarries
  <2> QED
    BY <1>1, <1>6, <2>1 DEF Tracked
<1>8. ASSUME NEW a \in live', a \notin live
      PROVE  Allocation(a) /\ a[2] < c' /\ Base(a) = << f.fn, f.start >>
  <2>1. a = << "mangled", f.start >>
    BY <1>1, <1>2, <1>8
  <2>2. a[1] = "mangled" /\ a[2] = f.start
    BY <2>1
  <2>3. a \in (Owners \cup {"mangled"}) \X Nat
    BY <1>4, <2>1
  <2> QED
    BY <1>1, <1>3, <1>4, <2>2, <2>3 DEF Allocation, Base
<1>9. live \subseteq live' /\ c' \in Nat /\ c <= c' /\ AllHeld(h, f.kids) = AllHeld(h, top.kids)
  BY <1>1, <1>2, <1>4
<1> QED
  BY <1>1, <1>2, <1>7, <1>8, <1>9, TopMoves

\* ... and nothing at another branch.
LEMMA OtherBranchKeeps ==
  ASSUME IInv, TextInv, NEW h, Ledger(h, live), Parsing(h), OtherBranch
  PROVE  Ledger(h, live)' /\ Parsing(h)'
<1>1. /\ mode = "parse" /\ mode' = "parse" /\ c' = c
      /\ UNCHANGED << unit, success, dropped, failed >>
      /\ item.kinds # {"-"} /\ live' = live
  BY DEF OtherBranch, Branch, Running, heap
<1>2. PICK f : /\ f.fn = top.fn /\ f.start = top.start /\ f.kids = top.kids
               /\ stack' = Replace(stack, f) /\ Carries(h, live, f, c)
               /\ \E taken : /\ Takes(live, top, c, taken)
                             /\ Track(f.fn, f.kids, f.todo, Passing(item.kinds, taken))
                             /\ item.kinds = {"-"} => f.fn = "function_header" /\ taken # {}
  BY BranchKept DEF OtherBranch
<1>3. PICK taken : Takes(live, top, c, taken) /\ Track(f.fn, f.kids, f.todo, Passing(item.kinds, taken))
  BY <1>2
<1>4. Passing(item.kinds, taken) = taken
  BY <1>1 DEF Passing
<1>5. Takes(live', f, c', taken)
  BY <1>1, <1>2, <1>3, <1>4 DEF Takes
<1>6. Tracked(h, live', f, c')
  BY <1>1, <1>2, <1>5 DEF Tracked
<1>7. live \subseteq live' /\ c' \in Nat /\ c <= c' /\ (\A a \in live' : a \in live)
      /\ AllHeld(h, f.kids) = AllHeld(h, top.kids)
  BY <1>1, <1>2, StackStarted
<1> QED
  BY <1>1, <1>2, <1>6, <1>7, TopMoves

\* A frame that has just begun.
LEMMA FrameTracked ==
  ASSUME NEW h, NEW L, NEW fn \in Functions, NEW required
  PROVE  Tracked(h, L, Frame(fn, required), c)
<1> DEFINE f == Frame(fn, required)
<1>1. f.fn = fn /\ f.todo = Body(fn) /\ f.kids = << >> /\ f.start = c
  BY DEF Frame
<1>2. Track(fn, << >>, Body(fn), {})
  BY StartTrack
<1>3. Apart(h, << >>) /\ AllHeld(h, << >>) = {}
  BY NoneHeld
<1> HIDE DEF f
<1>4. Takes(L, f, c, {})
  BY <1>1, <1>2 DEF Takes
<1>5. Carries(h, L, f, c)
  BY <1>1, <1>3 DEF Carries
<1> QED
  BY <1>4, <1>5 DEF Tracked, f

\* A parse function is called.
LEMMA CallKeeps ==
  ASSUME IInv, TextInv, NEW h, Parsing(h), CallParse, UNCHANGED heap
  PROVE  Parsing(h)'
<1> DEFINE r == item.op = "call" /\ (item.force \/ top.required)
           f == Frame(item.fn, r)
<1>1. /\ mode = "parse" /\ mode' = "parse" /\ top.todo # << >> /\ item.op \in {"call", "try"}
      /\ stack' = Append(stack, f) /\ UNCHANGED << c, unit, success, dropped, live, failed >>
  BY DEF CallParse, Running, heap
<1>2. /\ stack # << >> /\ IsSeq(stack) /\ Started(stack, c) /\ 1 \in 1 .. Len(stack)
  BY <1>1, StackStarted, TextFacts
<1>3. item.fn \in Functions
  <2>1. Layered(top)
    BY <1>2, Facts
  <2> QED
    BY <1>1, <2>1, HeadFacts, Layers DEF item
<1>4. f.start = c
  BY DEF Frame
<1>5. Tracked(h, live, f, c)
  BY <1>3, FrameTracked
<1> HIDE DEF f
<1>6. Linked(h, live', stack', c')
  BY <1>1, <1>2, <1>4, <1>5, LinkedPush DEF Parsing
<1>7. /\ stack' # << >> /\ Len(stack') = Len(stack) + 1
      /\ \A n \in 1 .. Len(stack) : stack'[n] = stack[n]
  BY <1>1, <1>2, AppendFacts
<1>8. UnitEnd' = UnitEnd
  BY <1>2, <1>7 DEF UnitEnd
<1>9. ASSUME NEW a \in live
      PROVE  Explained(h, a)'
  <2>1. Explained(h, a)
    BY DEF Parsing
  <2>2. ASSUME NEW n \in 1 .. Len(stack), InFrame(h, stack[n], a)
        PROVE  Explained(h, a)'
    <3>1. n \in 1 .. Len(stack') /\ InFrame(h, stack'[n], a)
      BY <1>2, <1>7, <2>2, SeqFacts
    <3> QED
      BY <3>1 DEF Explained
  <2> QED
    BY <1>1, <2>1, <2>2 DEF Explained
<1> QED
  BY <1>1, <1>6, <1>8, <1>9 DEF Parsing

\* The next statement is parsed.
LEMMA ParseStatementKeeps ==
  ASSUME IInv, TextInv, NEW h, Parsing(h), ParseStatement, UNCHANGED heap
  PROVE  Parsing(h)'
<1> DEFINE f == Frame("unit_statement", TRUE)
<1>1. /\ mode = "unit" /\ mode' = "parse" /\ stack' = << f >>
      /\ UNCHANGED << c, unit, success, dropped, live, failed >>
  BY DEF ParseStatement, heap
<1>2. stack = << >>
  BY <1>1, TextFacts
<1>3. f.start = c /\ Tracked(h, live, f, c)
  BY FrameTracked DEF Frame, Functions
<1> HIDE DEF f
<1>4. Len(stack') = 1 /\ stack'[1] = f /\ stack' # << >>
  BY <1>1
<1>5. Linked(h, live', stack', c')
  <2> SUFFICES ASSUME NEW n \in 1 .. 1
               PROVE  Tracked(h, live, f, Upto(stack', c, 1))
    BY <1>1, <1>4 DEF Linked
  <2> QED
    BY <1>3, <1>4 DEF Upto
<1>6. UnitEnd' = UnitEnd
  BY <1>1, <1>2, <1>3, <1>4 DEF UnitEnd
<1>7. \A a \in live : Explained(h, a)'
  <2>1. 1 .. Len(stack) = {}
    BY <1>2
  <2> QED
    BY <1>1, <2>1 DEF Parsing, Explained
<1> QED
  BY <1>1, <1>5, <1>6, <1>7 DEF Parsing

\* A step that leaves the frames and the unit as they are.
LEMMA IdleKeeps ==
  ASSUME IInv, TextInv, NEW h, Parsing(h), mode # "fail", mode' # "rejected",
         UNCHANGED << stack, unit, success, dropped, live, failed >>, c' \in Nat, c <= c'
  PROVE  Parsing(h)'
<1>1. Started(stack, c) /\ c \in Nat /\ (stack # << >> => stack[1].start \in Nat)
  BY StackStarted
<1>2. Linked(h, live', stack', c')
  BY <1>1, SameTable, StillLinked DEF Parsing
<1>3. UnitEnd \in Nat /\ UnitEnd' \in Nat /\ UnitEnd <= UnitEnd'
  BY <1>1 DEF UnitEnd
<1>4. \A a \in AllHeld(h, unit) : Between(live, a, 0, UnitEnd')
  <2> DEFINE q == UnitEnd
             r == UnitEnd'
  <2>1. q \in Nat /\ r \in Nat /\ q <= r /\ \A a \in AllHeld(h, unit) : Between(live, a, 0, q)
    BY <1>3 DEF Parsing
  <2> HIDE DEF q, r
  <2>2. \A a \in AllHeld(h, unit) : Between(live, a, 0, r)
    BY <2>1, StillBetween
  <2> QED
    BY <2>2 DEF r
<1>5. ASSUME NEW a \in live
      PROVE  Allocation(a) /\ a[2] < c' /\ Explained(h, a)'
  <2>1. Allocation(a) /\ a[2] < c /\ Explained(h, a)
    BY DEF Parsing
  <2>2. a[2] < c'
    BY <1>1, <2>1, BaseFacts
  <2>3. Explained(h, a)'
    BY <2>1 DEF Explained
  <2> QED
    BY <2>1, <2>2, <2>3
<1> QED
  BY <1>2, <1>4, <1>5 DEF Parsing

\* The steps of this kind: a missing token, and what is skipped.
LEMMA IdleStepsKeep ==
  ASSUME IInv, TextInv, NEW h, Parsing(h), UNCHANGED heap,
         ExpectFails \/ SkipToken \/ SkipClose \/ SkipEof
  PROVE  Parsing(h)'
<1>1. c \in Nat
  BY StackStarted
<1>2. /\ mode # "fail" /\ mode' # "rejected"
      /\ UNCHANGED << stack, unit, success, dropped, live, failed >>
  BY DEF heap, ExpectFails, SkipToken, SkipClose, SkipEof, Running
<1>3. c' = c \/ c' = c + 1 \/ c' = c + 2
  BY DEF ExpectFails, SkipToken, SkipClose, SkipEof
<1> QED
  BY <1>1, <1>2, <1>3, IdleKeeps

\* What an activation has allocated lies behind its start.
LEMMA FrameReach ==
  ASSUME NEW h, NEW L, NEW f, NEW q, Carries(h, L, f, q), f.start \in Nat,
         NEW a, Allocation(a), InFrame(h, f, a)
  PROVE  a[2] >= f.start
<1>1. Base(a)[2] = a[2] /\ a[2] \in Nat
  BY BaseFacts
<1>2. CASE Base(a) = << f.fn, f.start >>
  BY <1>1, <1>2
<1>3. CASE Base(a) \in AllHeld(h, f.kids)
  BY <1>1, <1>3 DEF Carries, Between
<1> QED
  BY <1>2, <1>3 DEF InFrame

\* The stack without the frame that runs.
LEMMA PopFrames ==
  ASSUME IInv, TextInv, NEW h, Parsing(h), Len(stack) > 1, NEW f, f = stack[Len(stack) - 1]
  PROVE  /\ Linked(h, live, Pop, top.start) /\ Started(Pop, top.start)
         /\ Tracked(h, live, f, top.start) /\ Tracked(h, live, top, c)
         /\ f.fn \in Functions /\ IsFrame(f) /\ f.start \in Nat /\ f.start <= top.start
         /\ f.todo # << >> /\ Head(f.todo).op \in {"call", "try"} /\ top.fn = Head(f.todo).fn
         /\ IsSeq(Pop) /\ Pop # << >> /\ Pop[1] = stack[1] /\ Pop[Len(Pop)] = f
         /\ Len(Pop) \in 1 .. Len(Pop) /\ stack # << >> /\ Chain(tokens, dropped, Pop)
         /\ \A n \in 1 .. Len(stack) :
              n = Len(stack) \/ (n \in 1 .. Len(Pop) /\ Pop[n] = stack[n])
<1>1. /\ IsFrame(f) /\ f.fn \in Functions /\ f.start \in 1 .. top.start /\ top.start \in 1 .. c
      /\ Called(f, top) /\ f.todo # << >> /\ Head(f.todo).op \in {"call", "try"}
      /\ Chain(tokens, dropped, Pop) /\ IsSeq(Pop) /\ Pop # << >>
      /\ Pop[1] = stack[1] /\ Pop[Len(Pop)] = f
      /\ \A n \in 1 .. Len(Pop) : Pop[n].start \in 1 .. top.start
  BY CallerText
<1>2. c \in Nat /\ IsSeq(stack) /\ Len(stack) \in Nat /\ stack # << >>
  BY StackStarted, SeqFacts
<1>3. Pop = Popped(stack) /\ top = stack[Len(stack)]
  BY DEF Pop, Popped, top
<1>4. Linked(h, live, stack, c)
  BY DEF Parsing
<1>5. /\ Linked(h, live, Pop, top.start)
      /\ Tracked(h, live, f, top.start) /\ Tracked(h, live, top, c)
  BY <1>2, <1>3, <1>4, LinkedPop
<1>6. Started(Pop, top.start)
  <2>1. \A j, k \in 1 .. Len(Pop) : j <= k => Pop[j].start <= Pop[k].start
    BY <1>1 DEF Chain
  <2> QED
    BY <1>1, <1>2, <2>1 DEF Started
<1>7. Len(Pop) = Len(stack) - 1 /\ \A n \in 1 .. Len(stack) - 1 : Pop[n] = stack[n]
  BY <1>2, PopFacts DEF Pop
<1>8. \A n \in 1 .. Len(stack) : n = Len(stack) \/ (n \in 1 .. Len(Pop) /\ Pop[n] = stack[n])
  BY <1>2, <1>7
<1>9. top.fn = Head(f.todo).fn
  BY <1>1 DEF Called
<1>10. Len(Pop) \in 1 .. Len(Pop)
  BY <1>1, SeqFacts
<1> QED
  BY <1>1, <1>2, <1>5, <1>6, <1>8, <1>9, <1>10

\* A function that fails fails its caller.
LEMMA ReturnFalseKeeps ==
  ASSUME IInv, TextInv, NEW h, Parsing(h), ReturnFalse, UNCHANGED heap
  PROVE  Parsing(h)'
<1> DEFINE f == stack[Len(stack) - 1]
<1>1. /\ mode = "fail" /\ mode' = "fail" /\ Len(stack) > 1 /\ stack' = Pop
      /\ UNCHANGED << c, unit, success, dropped, live, failed >>
  BY DEF ReturnFalse, heap
<1>2. /\ Linked(h, live, Pop, top.start) /\ Started(Pop, top.start)
      /\ Tracked(h, live, top, c) /\ f.start \in Nat /\ f.start <= top.start
      /\ Pop # << >> /\ Pop[1] = stack[1] /\ Pop[Len(Pop)] = f /\ stack # << >>
      /\ \A n \in 1 .. Len(stack) : n = Len(stack) \/ (n \in 1 .. Len(Pop) /\ Pop[n] = stack[n])
  BY <1>1, PopFrames
<1>3. c \in Nat /\ top.start \in Nat /\ top.start <= c /\ top = stack[Len(stack)]
  BY <1>2, StackStarted
<1>4. Linked(h, live', stack', c')
  <2>1. Linked(h, live, Pop, c)
    BY <1>2, <1>3, SameTable, StillLinked
  <2> QED
    BY <1>1, <2>1
<1>5. UnitEnd' = UnitEnd /\ top' = f
  BY <1>1, <1>2 DEF UnitEnd, top
<1> HIDE DEF f
<1>6. ASSUME NEW a \in live
      PROVE  Explained(h, a)'
  <2>1. Allocation(a) /\ Explained(h, a) /\ a[2] \in Nat
    BY BaseFacts DEF Parsing
  <2>2. ASSUME a[2] >= top.start
        PROVE  Explained(h, a)'
    <3>1. a[2] >= f.start
      BY <1>2, <1>3, <2>1, <2>2
    <3> QED
      BY <1>1, <1>5, <3>1 DEF Explained
  <2>3. ASSUME NEW n \in 1 .. Len(stack), InFrame(h, stack[n], a)
        PROVE  Explained(h, a)'
    <3>1. CASE n = Len(stack)
      BY <1>2, <1>3, <2>1, <2>2, <2>3, <3>1, FrameReach DEF Tracked
    <3>2. CASE n # Len(stack)
      BY <1>1, <1>2, <2>3, <3>2 DEF Explained
    <3> QED
      BY <3>1, <3>2
  <2> QED
    BY <1>1, <2>1, <2>2, <2>3 DEF Explained
<1> QED
  BY <1>1, <1>4, <1>5, <1>6 DEF Parsing

\* An optional parse that fails loses what it has allocated with its tokens.
LEMMA ReturnNothingKeeps ==
  ASSUME IInv, TextInv, NEW h, Parsing(h), ReturnNothing, UNCHANGED heap
  PROVE  Parsing(h)'
<1> DEFINE caller == stack[Len(stack) - 1]
           f == [caller EXCEPT !.todo = Tail(caller.todo)]
<1>1. /\ mode = "fail" /\ mode' = "parse" /\ Len(stack) > 1 /\ Head(caller.todo).op = "try"
      /\ stack' = Replace(Pop, f) /\ dropped' = dropped \cup top.start .. (c - 1)
      /\ UNCHANGED << c, unit, success, live, failed >>
  BY DEF ReturnNothing, heap
<1>2. /\ Linked(h, live, Pop, top.start) /\ Started(Pop, top.start)
      /\ Tracked(h, live, caller, top.start) /\ Tracked(h, live, top, c)
      /\ caller.fn \in Functions /\ IsFrame(caller) /\ caller.start \in Nat
      /\ caller.start <= top.start /\ caller.todo # << >>
      /\ IsSeq(Pop) /\ Pop # << >> /\ Pop[1] = stack[1] /\ Pop[Len(Pop)] = caller
      /\ Len(Pop) \in 1 .. Len(Pop) /\ stack # << >> /\ Chain(tokens, dropped, Pop)
      /\ \A n \in 1 .. Len(stack) : n = Len(stack) \/ (n \in 1 .. Len(Pop) /\ Pop[n] = stack[n])
  BY <1>1, PopFrames
<1>3. c \in Nat /\ top.start \in Nat /\ top.start <= c /\ top = stack[Len(stack)]
  BY <1>2, StackStarted
<1>4. f.fn = caller.fn /\ f.start = caller.start /\ f.kids = caller.kids
      /\ f.todo = Tail(caller.todo)
  <2> HIDE DEF caller
  <2> QED
    BY <1>2, NewTodoKids
<1> HIDE DEF f, caller
<1>5. Tracked(h, live, f, c)
  <2>1. PICK taken : Takes(live, caller, top.start, taken)
    BY <1>2 DEF Tracked
  <2>2. Carries(h, live, caller, top.start) /\ IsSeq(caller.kids)
    BY <1>2 DEF Tracked, Carries, Apart
  <2>3. Paces(caller.fn, caller.kids, caller.todo, taken)
    BY <1>2, <2>1, <2>2, AllPaces DEF Takes
  <2>4. Track(caller.fn, caller.kids, Tail(caller.todo), taken)
    BY <1>1, <1>2, <2>3 DEF Paces
  <2>5. Takes(live, f, top.start, taken)
    BY <1>4, <2>1, <2>4 DEF Takes
  <2>6. Carries(h, live, f, top.start)
    BY <1>4, <2>2 DEF Carries
  <2>7. Tracked(h, live, f, top.start)
    BY <2>5, <2>6 DEF Tracked
  <2> QED
    BY <1>2, <1>3, <1>4, <2>7, SameTable, StillTracked
<1>6. Linked(h, live', stack', c')
  BY <1>1, <1>2, <1>4, <1>5, LinkedReplace
<1>7. /\ Len(stack') = Len(Pop) /\ stack' # << >> /\ stack'[Len(Pop)] = f
      /\ \A n \in 1 .. Len(Pop) - 1 : stack'[n] = Pop[n]
  BY <1>1, <1>2, ReplaceFacts
<1>8. UnitEnd' = UnitEnd
  <2>1. stack'[1].start = Pop[1].start
    BY <1>1, <1>2, <1>4, ChainReplace
  <2> QED
    BY <1>1, <1>2, <1>7, <2>1 DEF UnitEnd
<1>9. ASSUME NEW a \in live
      PROVE  Explained(h, a)'
  <2>1. Allocation(a) /\ a[2] < c /\ Explained(h, a) /\ a[2] \in Nat
    BY BaseFacts DEF Parsing
  <2>2. ASSUME a[2] >= top.start
        PROVE  Explained(h, a)'
    <3>1. a[2] \in top.start .. (c - 1)
      BY <1>3, <2>1, <2>2
    <3> QED
      BY <1>1, <3>1 DEF Explained
  <2>3. ASSUME NEW n \in 1 .. Len(stack), InFrame(h, stack[n], a)
        PROVE  Explained(h, a)'
    <3>1. CASE n = Len(stack)
      BY <1>2, <1>3, <2>1, <2>2, <2>3, <3>1, FrameReach DEF Tracked
    <3>2. CASE n # Len(stack)
      <4>1. n \in 1 .. Len(Pop) /\ InFrame(h, Pop[n], a)
        BY <1>2, <2>3, <3>2
      <4>2. InFrame(h, stack'[n], a)
        <5>1. CASE n = Len(Pop)
          BY <1>2, <1>4, <1>7, <4>1, <5>1 DEF InFrame
        <5>2. CASE n # Len(Pop)
          <6>1. n \in 1 .. Len(Pop) - 1
            BY <1>2, <4>1, <5>2
          <6> QED
            BY <1>7, <4>1, <6>1
        <5> QED
          BY <5>1, <5>2
      <4> QED
        BY <1>7, <4>1, <4>2 DEF Explained
    <3> QED
      BY <3>1, <3>2
  <2> QED
    BY <1>1, <2>1, <2>2, <2>3 DEF Explained
<1> QED
  BY <1>1, <1>6, <1>8, <1>9 DEF Parsing

\* A statement that fails loses all it has allocated.
LEMMA FailKeeps ==
  ASSUME IInv, TextInv, NEW h, Parsing(h), Fail
  PROVE  Parsing(h)' /\ live' = live
<1>1. /\ mode = "fail" /\ mode' = "skip" /\ Len(stack) = 1 /\ stack' = << >> /\ success' = FALSE
      /\ failed' = failed \cup stack[1].start .. c
      /\ UNCHANGED << c, unit, live, dropped >>
  BY DEF Fail, StatementFails
<1>2. /\ stack # << >> /\ c \in Nat /\ top = stack[1] /\ top.start \in Nat /\ top.start <= c
  BY <1>1, StackStarted, TextFacts
<1>3. Linked(h, live', stack', c')
  <2>1. 1 .. Len(stack') = {}
    BY <1>1
  <2> QED
    BY <2>1 DEF Linked
<1>4. Carries(h, live, top, c)
  <2>1. Tracked(h, live, stack[1], Upto(stack, c, 1))
    BY <1>1 DEF Parsing, Linked
  <2> QED
    BY <1>1, <1>2, <2>1 DEF Upto, Tracked
<1>5. \A a \in AllHeld(h, unit) : Between(live', a, 0, UnitEnd')
  <2>1. UnitEnd = top.start /\ UnitEnd' = c
    BY <1>1, <1>2 DEF UnitEnd
  <2>2. \A a \in AllHeld(h, unit) : Between(live, a, 0, top.start)
    BY <2>1 DEF Parsing
  <2>3. \A a \in AllHeld(h, unit) : Between(live, a, 0, c)
    BY <1>2, <2>2, StillBetween
  <2> QED
    BY <1>1, <2>1, <2>3
<1>6. ASSUME NEW a \in live
      PROVE  Explained(h, a)'
  <2>1. Allocation(a) /\ a[2] < c /\ Explained(h, a) /\ a[2] \in Nat
    BY BaseFacts DEF Parsing
  <2>2. ASSUME a[2] >= top.start
        PROVE  Explained(h, a)'
    <3>1. a[2] \in top.start .. c
      BY <1>2, <2>1, <2>2
    <3> QED
      BY <1>1, <1>2, <3>1 DEF Explained
  <2>3. ASSUME NEW n \in 1 .. Len(stack), InFrame(h, stack[n], a)
        PROVE  Explained(h, a)'
    <3>1. n = 1
      BY <1>1
    <3> QED
      BY <1>2, <1>4, <2>1, <2>2, <2>3, <3>1, FrameReach
  <2> QED
    BY <1>1, <2>1, <2>2, <2>3 DEF Explained
<1> QED
  BY <1>1, <1>3, <1>5, <1>6 DEF Parsing

\* The node of an activation that is done is freed as what it has allocated.
LEMMA NodeHeld ==
  ASSUME IInv, TextInv, NEW h, Ledger(h, live), Parsing(h), mode = "parse", top.todo = << >>
  PROVE  \E g : /\ Extends(h, g) /\ Ledger(g, live) /\ Known(g, Node(top))
                /\ \A a \in Holds(g, Node(top)) : Between(live, a, top.start, c)
                /\ top.fn \in Bare => Holds(g, Node(top)) = {}
                /\ \A a : Allocation(a) /\ InFrame(h, top, a) => Base(a) \in Holds(g, Node(top))
<1> DEFINE n == Node(top)
           v == OwnArray(top.fn, top.start) \cup AllHeld(h, top.kids)
<1>1. n.fn = top.fn /\ n.at = top.start /\ n.kids = top.kids
  BY DEF Node
<1> HIDE DEF n
<1>2. /\ stack # << >> /\ Carries(h, live, top, c)
      /\ \E taken : Takes(live, top, c, taken) /\ Paces(top.fn, top.kids, top.todo, taken)
  BY TopPaces
<1>3. PICK taken : Takes(live, top, c, taken) /\ Paces(top.fn, top.kids, top.todo, taken)
  BY <1>2
<1>4. /\ Shape(top.fn, top.kids)
      /\ top.fn \in Owners => top.fn \in taken
      /\ top.fn = "function_header" => "mangled" \in taken
  BY <1>3 DEF Paces
<1>5. top.fn \in Functions /\ top.start \in Nat /\ c \in Nat
  BY <1>2, StackStarted
<1>6. \A a : Allocation(a) /\ InFrame(h, top, a) => Base(a) \in v
  <2> SUFFICES ASSUME NEW a, Allocation(a), Base(a) = << top.fn, top.start >>
               PROVE  Base(a) \in v
    BY DEF InFrame
  <2>1. a # << "unit", 0 >>
    <3>1. top.fn # "unit"
      BY <1>5 DEF Functions
    <3> QED
      BY <3>1, BaseFacts
  <2>2. Base(a)[1] \in Owners
    BY <2>1, BaseFacts
  <2>3. top.fn \in Owners
    BY <2>2
  <2> QED
    BY <2>3 DEF OwnArray
<1>7. \A a \in v : Between(live, a, top.start, c)
  <2>1. ASSUME NEW a \in OwnArray(top.fn, top.start)
        PROVE  Between(live, a, top.start, c)
    <3>1. top.fn \in Owners /\ a = << top.fn, top.start >>
      BY <2>1 DEF OwnArray
    <3>2. a[1] = top.fn /\ a[2] = top.start /\ a \in Places
      BY <1>5, <3>1 DEF Places
    <3>3. a \in live /\ top.start < c
      BY <1>3, <1>4, <3>1 DEF Takes
    <3>4. HasName(live, a)
      BY <1>3, <1>4, <3>2 DEF HasName, Takes
    <3> QED
      BY <1>5, <3>2, <3>3, <3>4 DEF Between
  <2>2. ASSUME NEW a \in AllHeld(h, top.kids)
        PROVE  Between(live, a, top.start, c)
    BY <1>2 DEF Carries
  <2> QED
    BY <2>1, <2>2
<1>8. CASE top.fn \in Bare
  <2>1. \A k \in DOMAIN top.kids : top.kids[k].fn \in Bare
    BY <1>4, <1>8 DEF Shape
  <2>2. AllHeld(h, top.kids) = {}
    BY <1>2, <2>1, BareHeld DEF Carries, Apart
  <2>3. v = {}
    BY <1>8, <2>2, BareIs DEF OwnArray
  <2>4. Known(h, n) /\ Holds(h, n) = {}
    BY <1>1, <1>8, LeafHeld
  <2> HIDE DEF v
  <2>5. \A a : ~(Allocation(a) /\ InFrame(h, top, a))
    BY <1>6, <2>3
  <2> QED
    BY <2>4, <2>5, SameTable DEF n
<1>9. CASE top.fn \notin Bare
  <2>1. /\ n.fn \in Functions \ Bare /\ Shape(n.fn, n.kids) /\ Apart(h, n.kids)
    BY <1>1, <1>2, <1>4, <1>5, <1>9 DEF Carries
  <2>2. OwnArray(n.fn, n.at) \cap AllHeld(h, n.kids) = {}
    <3> SUFFICES ASSUME NEW a, a \in OwnArray(top.fn, top.start), a \in AllHeld(h, top.kids)
                 PROVE  FALSE
      BY <1>1
    <3>1. top.fn \in Owners /\ a = << top.fn, top.start >>
      BY DEF OwnArray
    <3>2. a[2] = top.start /\ a[2] # top.start
      BY <1>2, <3>1 DEF Carries
    <3> QED
      BY <3>2
  <2>3. \A a \in OwnArray(n.fn, n.at) \cup AllHeld(h, n.kids) :
          a \in Places /\ a[2] >= n.at /\ HasName(live, a)
    BY <1>1, <1>7 DEF Between
  <2> DEFINE g == WithNode(h, n)
  <2>4. /\ Extends(h, g) /\ Ledger(g, live) /\ Known(g, n)
        /\ Holds(g, n) = OwnArray(n.fn, n.at) \cup AllHeld(h, n.kids)
    BY <2>1, <2>2, <2>3, NodeEntered
  <2>5. Holds(g, n) = v
    BY <1>1, <2>4
  <2> HIDE DEF g, v
  <2> QED
    BY <1>6, <1>7, <1>9, <2>4, <2>5 DEF n
<1> QED
  BY <1>8, <1>9

\* What is in a frame is still in it, by a larger table.
LEMMA StillInFrame ==
  ASSUME NEW h, NEW g, Extends(h, g), NEW f, Apart(h, f.kids), NEW a, InFrame(h, f, a)
  PROVE  InFrame(g, f, a)
<1>1. AllHeld(g, f.kids) = AllHeld(h, f.kids)
  BY StillApart
<1> QED
  BY <1>1 DEF InFrame

\* A node whose arrays lie behind those of some others is added to them.
LEMMA NodeBehind ==
  ASSUME NEW h, NEW g, Extends(h, g), NEW L, NEW t, Apart(h, t), NEW p \in Nat,
         NEW q \in Nat, NEW r \in Nat, p <= q, q <= r,
         \A a \in AllHeld(h, t) : Between(L, a, p, q),
         NEW n, Known(g, n), \A a \in Holds(g, n) : Between(L, a, q, r)
  PROVE  /\ Apart(g, Append(t, n)) /\ AllHeld(g, Append(t, n)) = AllHeld(h, t) \cup Holds(g, n)
         /\ \A a \in AllHeld(g, Append(t, n)) : Between(L, a, p, r)
<1>1. Apart(g, t) /\ AllHeld(g, t) = AllHeld(h, t)
  BY StillApart
<1>2. \A a \in AllHeld(h, t) : a[2] < q /\ a[2] \in Nat
  BY DEF Between, Places
<1>3. \A a \in Holds(g, n) : a[2] >= q
  BY DEF Between
<1>4. Holds(g, n) \cap AllHeld(g, t) = {}
  BY <1>1, <1>2, <1>3
<1>5. Apart(g, Append(t, n)) /\ AllHeld(g, Append(t, n)) = AllHeld(g, t) \cup Holds(g, n)
  BY <1>1, <1>4, HeldAppended
<1>6. \A a : Between(L, a, p, q) => Between(L, a, p, r)
  BY DEF Between, Places
<1>7. \A a : Between(L, a, q, r) => Between(L, a, p, r)
  BY DEF Between, Places
<1>8. \A a \in AllHeld(h, t) \cup Holds(g, n) : Between(L, a, p, r)
  BY <1>6, <1>7
<1>9. AllHeld(g, Append(t, n)) = AllHeld(h, t) \cup Holds(g, n)
  BY <1>1, <1>5
<1> DEFINE u == Append(t, n)
<1> HIDE DEF u
<1>10. \A a \in AllHeld(g, u) : Between(L, a, p, r)
  BY <1>8, <1>9 DEF u
<1> QED
  BY <1>5, <1>9, <1>10 DEF u

\* A statement is done ...
LEMMA StatementKeeps ==
  ASSUME IInv, TextInv, NEW h, Ledger(h, live), Parsing(h), ReturnTrue, UNCHANGED heap,
         Len(stack) = 1
  PROVE  \E g : Ledger(g, live)' /\ Parsing(g)'
<1>1. /\ mode = "parse" /\ mode' = "unit" /\ top.todo = << >> /\ stack' = << >>
      /\ unit' = Append(unit, Node(top))
      /\ UNCHANGED << c, success, dropped, live, failed >>
  BY DEF ReturnTrue, heap
<1>2. /\ stack # << >> /\ c \in Nat /\ top = stack[1] /\ top.start \in Nat /\ top.start <= c
      /\ Carries(h, live, top, c)
  BY <1>1, StackStarted, TopPaces
<1> DEFINE n == Node(top)
<1>3. PICK g : /\ Extends(h, g) /\ Ledger(g, live) /\ Known(g, n)
               /\ \A a \in Holds(g, n) : Between(live, a, top.start, c)
               /\ \A a : Allocation(a) /\ InFrame(h, top, a) => Base(a) \in Holds(g, n)
  BY <1>1, NodeHeld
<1> HIDE DEF n
<1>4. unit' = Append(unit, n)
  BY <1>1 DEF n
<1>5. UnitEnd = top.start /\ UnitEnd' = c
  BY <1>1, <1>2 DEF UnitEnd
<1>6. Apart(h, unit) /\ \A a \in AllHeld(h, unit) : Between(live, a, 0, top.start)
  BY <1>5 DEF Parsing
<1>7. /\ Apart(g, unit') /\ AllHeld(g, unit') = AllHeld(h, unit) \cup Holds(g, n)
      /\ \A a \in AllHeld(g, unit') : Between(live, a, 0, c)
  <2>1. \A p, q, r \in Nat :
          (/\ p <= q
           /\ q <= r
           /\ \A a \in AllHeld(h, unit) : Between(live, a, p, q)
           /\ \A a \in Holds(g, n) : Between(live, a, q, r))
          => (/\ Apart(g, Append(unit, n))
              /\ AllHeld(g, Append(unit, n)) = AllHeld(h, unit) \cup Holds(g, n)
              /\ \A a \in AllHeld(g, Append(unit, n)) : Between(live, a, p, r))
    <3>1. Extends(h, g) /\ Apart(h, unit) /\ Known(g, n)
      BY <1>3, <1>6
    <3> QED
      BY ONLY <3>1, NodeBehind
  <2> DEFINE u == Append(unit, n)
  <2> HIDE DEF u
  <2>2. unit' = u
    BY <1>4 DEF u
  <2>3. 0 <= top.start /\ 0 \in Nat /\ top.start \in Nat /\ c \in Nat /\ top.start <= c
    BY <1>2
  <2>4. /\ Apart(g, u) /\ AllHeld(g, u) = AllHeld(h, unit) \cup Holds(g, n)
        /\ \A a \in AllHeld(g, u) : Between(live, a, 0, c)
    BY <1>3, <1>6, <2>1, <2>3 DEF u
  <2> QED
    BY <2>2, <2>4
<1>8. Linked(g, live', stack', c')
  <2>1. 1 .. Len(stack') = {}
    BY <1>1
  <2> QED
    BY <2>1 DEF Linked
<1>9. ASSUME NEW a \in live
      PROVE  Allocation(a) /\ a[2] < c' /\ Explained(g, a)'
  <2>1. Allocation(a) /\ a[2] < c /\ Explained(h, a)
    BY DEF Parsing
  <2>2. ASSUME NEW k \in 1 .. Len(stack), InFrame(h, stack[k], a)
        PROVE  Explained(g, a)'
    <3>1. k = 1
      OBVIOUS
    <3>2. Base(a) \in Holds(g, n)
      BY <1>2, <1>3, <2>1, <2>2, <3>1
    <3> QED
      BY <1>7, <3>2 DEF Explained
  <2>3. Explained(g, a)'
    BY <1>1, <1>7, <2>1, <2>2 DEF Explained
  <2> QED
    BY <1>1, <2>1, <2>3
<1>10. Ledger(g, live')
  BY <1>1, <1>3
<1>11. Parsing(g)'
  <2>1. mode' # "rejected" /\ << "unit", 0 >> \in live' /\ (success' => failed' = {})
    BY <1>1 DEF Parsing
  <2>2. \A a \in AllHeld(g, unit') : Between(live', a, 0, UnitEnd')
    BY <1>1, <1>5, <1>7
  <2> QED
    BY <1>1, <1>7, <1>8, <1>9, <2>1, <2>2 DEF Parsing
<1> QED
  BY <1>10, <1>11

\* ... or a node of the caller.
LEMMA NodeKeeps ==
  ASSUME IInv, TextInv, NEW h, Ledger(h, live), Parsing(h), ReturnTrue, UNCHANGED heap,
         Len(stack) > 1
  PROVE  \E g : Ledger(g, live)' /\ Parsing(g)'
<1> DEFINE n == Node(top)
           caller == stack[Len(stack) - 1]
           x == Head(caller.todo)
           t == (IF x.op = "try" THEN x.then ELSE << >>) \o Tail(caller.todo)
           k == Append(caller.kids, n)
           f == [caller EXCEPT !.todo = t, !.kids = k]
<1>1. /\ mode = "parse" /\ mode' = "parse" /\ top.todo = << >> /\ stack' = Replace(Pop, f)
      /\ UNCHANGED << c, unit, success, dropped, live, failed >>
  <2>1. Len(stack) # 1
    BY SeqFacts, StackStarted
  <2> QED
    BY <2>1 DEF ReturnTrue, heap
<1>2. /\ Linked(h, live, Pop, top.start) /\ Started(Pop, top.start)
      /\ Tracked(h, live, caller, top.start) /\ Tracked(h, live, top, c)
      /\ caller.fn \in Functions /\ IsFrame(caller) /\ caller.start \in Nat
      /\ caller.start <= top.start /\ caller.todo # << >> /\ x.op \in {"call", "try"}
      /\ top.fn = x.fn
      /\ IsSeq(Pop) /\ Pop # << >> /\ Pop[1] = stack[1] /\ Pop[Len(Pop)] = caller
      /\ Len(Pop) \in 1 .. Len(Pop) /\ stack # << >> /\ Chain(tokens, dropped, Pop)
      /\ \A j \in 1 .. Len(stack) : j = Len(stack) \/ (j \in 1 .. Len(Pop) /\ Pop[j] = stack[j])
  BY PopFrames
<1>3. /\ c \in Nat /\ top.start \in Nat /\ top.start <= c /\ top = stack[Len(stack)]
      /\ Carries(h, live, top, c)
  BY <1>1, <1>2, StackStarted, TopPaces
<1>4. f.fn = caller.fn /\ f.start = caller.start /\ f.kids = k /\ f.todo = t
  <2> HIDE DEF caller, t, k
  <2> QED
    BY <1>2, NewTodoKids
<1>5. n.fn = top.fn
  BY DEF Node
<1>6. PICK g : /\ Extends(h, g) /\ Ledger(g, live) /\ Known(g, n)
               /\ \A a \in Holds(g, n) : Between(live, a, top.start, c)
               /\ top.fn \in Bare => Holds(g, n) = {}
               /\ \A a : Allocation(a) /\ InFrame(h, top, a) => Base(a) \in Holds(g, n)
  BY <1>1, NodeHeld
<1> HIDE DEF f, n, caller
<1>7. PICK taken : Takes(live, caller, top.start, taken)
  BY <1>2 DEF Tracked
<1>8. /\ Carries(h, live, caller, top.start) /\ IsSeq(caller.kids) /\ Apart(h, caller.kids)
  BY <1>2 DEF Tracked, Carries, Apart
<1>9. /\ Track(caller.fn, k, t, taken)
      /\ top.fn \notin Bare => (caller.fn \in Owners => taken # {})
  <2>1. Paces(caller.fn, caller.kids, caller.todo, taken)
    BY <1>2, <1>7, <1>8, AllPaces DEF Takes
  <2>2. /\ \A j : j.fn = x.fn => Track(caller.fn, Append(caller.kids, j), t, taken)
        /\ top.fn \notin Bare => (caller.fn \in Owners => taken # {})
    BY <1>2, <2>1 DEF Paces
  <2> QED
    BY <1>2, <1>5, <2>2
<1> HIDE DEF x, t
<1>10. Takes(live, f, c, taken)
  <2>1. Takes(live, f, top.start, taken)
    BY <1>4, <1>7, <1>9 DEF Takes
  <2> QED
    BY <1>2, <1>3, <1>4, <2>1, StillTakes
<1>11. Apart(g, k) /\ AllHeld(g, k) = AllHeld(h, caller.kids) \cup Holds(g, n)
       /\ \A a \in AllHeld(g, k) : Between(live, a, caller.start, c)
  <2>1. \A a \in AllHeld(h, caller.kids) : Between(live, a, caller.start, top.start)
    BY <1>8 DEF Carries
  <2> QED
    BY <1>2, <1>3, <1>6, <1>8, <2>1, NodeBehind, ZenonT(40)
<1> HIDE DEF k
<1>12. ASSUME caller.fn \in Owners, NEW a \in AllHeld(g, k)
       PROVE  a[2] # caller.start
  <2>1. CASE a \in AllHeld(h, caller.kids)
    BY <1>8, <1>12, <2>1 DEF Carries
  <2>2. CASE a \in Holds(g, n)
    <3>1. top.fn \notin Bare
      BY <1>6, <2>2
    <3>2. caller.start < top.start
      BY <1>7, <1>9, <1>12, <3>1 DEF Takes
    <3>3. a[2] >= top.start
      BY <1>6, <2>2 DEF Between
    <3>4. a[2] \in Nat
      BY <1>6, <2>2 DEF Between, Places
    <3> QED
      BY <1>2, <1>3, <3>2, <3>3, <3>4
  <2> QED
    BY <1>11, <1>12, <2>1, <2>2
<1>13. Tracked(g, live, f, c)
  BY <1>4, <1>10, <1>11, <1>12 DEF Tracked, Carries
<1>14. Linked(g, live', stack', c')
  <2>1. Linked(g, live, Pop, c)
    BY <1>2, <1>3, <1>6, StillLinked
  <2> QED
    BY <1>1, <1>2, <1>4, <1>13, <2>1, LinkedReplace
<1>15. /\ Len(stack') = Len(Pop) /\ stack' # << >> /\ stack'[Len(Pop)] = f
       /\ \A j \in 1 .. Len(Pop) - 1 : stack'[j] = Pop[j]
  BY <1>1, <1>2, ReplaceFacts
<1>16. UnitEnd' = UnitEnd
  <2>1. stack'[1].start = Pop[1].start
    BY <1>1, <1>2, <1>4, ChainReplace
  <2> QED
    BY <1>1, <1>2, <1>15, <2>1 DEF UnitEnd
<1>17. Apart(g, unit) /\ AllHeld(g, unit) = AllHeld(h, unit)
  BY <1>6, StillApart DEF Parsing
<1>18. ASSUME NEW a \in live
       PROVE  Explained(g, a)'
  <2>1. Allocation(a) /\ Explained(h, a)
    BY DEF Parsing
  <2>2. ASSUME NEW j \in 1 .. Len(Pop), InFrame(g, stack'[j], a)
        PROVE  Explained(g, a)'
    BY <1>15, <2>2 DEF Explained
  <2>3. ASSUME NEW j \in 1 .. Len(stack), InFrame(h, stack[j], a)
        PROVE  Explained(g, a)'
    <3>1. CASE j = Len(stack)
      <4>1. Base(a) \in Holds(g, n)
        BY <1>3, <1>6, <2>1, <2>3, <3>1
      <4>2. InFrame(g, stack'[Len(Pop)], a)
        BY <1>4, <1>11, <1>15, <4>1 DEF InFrame
      <4> QED
        BY <1>2, <2>2, <4>2
    <3>2. CASE j # Len(stack)
      <4>1. j \in 1 .. Len(Pop) /\ InFrame(h, Pop[j], a)
        BY <1>2, <2>3, <3>2
      <4>2. CASE j = Len(Pop)
        <5>1. InFrame(h, caller, a)
          BY <1>2, <4>1, <4>2
        <5>2. InFrame(g, f, a)
          BY <1>4, <1>11, <5>1 DEF InFrame
        <5> QED
          BY <1>15, <2>2, <4>1, <4>2, <5>2
      <4>3. CASE j # Len(Pop)
        <5>1. j \in 1 .. Len(Pop) - 1
          BY <1>2, <4>1, <4>3
        <5>2. Apart(h, Pop[j].kids)
          BY <1>2, <4>1 DEF Linked, Tracked, Carries
        <5>3. InFrame(g, Pop[j], a)
          BY <1>6, <4>1, <5>2, StillInFrame
        <5> QED
          BY <1>15, <2>2, <4>1, <5>1, <5>3
      <4> QED
        BY <4>2, <4>3
    <3> QED
      BY <3>1, <3>2
  <2> QED
    BY <1>1, <1>17, <2>1, <2>3 DEF Explained
<1>19. Ledger(g, live)'
  BY <1>1, <1>6
<1>20. Parsing(g)'
  <2>1. mode' # "rejected" /\ << "unit", 0 >> \in live' /\ (success' => failed' = {})
    BY <1>1 DEF Parsing
  <2>2. \A a \in AllHeld(g, unit') : Between(live', a, 0, UnitEnd')
    BY <1>1, <1>16, <1>17 DEF Parsing
  <2>3. \A a \in live' : Allocation(a) /\ a[2] < c' /\ Explained(g, a)'
    BY <1>1, <1>18 DEF Parsing
  <2> QED
    BY <1>1, <1>14, <1>17, <2>1, <2>2, <2>3 DEF Parsing
<1> QED
  BY <1>19, <1>20

-----------------------------------------------------------------------------
(***************************************************************************)
(* The steps of the cleanup.                                               *)
(***************************************************************************)

\* The unit itself is none of the arrays in it.
LEMMA UnitIsNone ==
  /\ Allocation(<< "unit", 0 >>) /\ << "unit", 0 >> \notin Places
  /\ \A L : HasName(L, << "unit", 0 >>)
<1>1. "unit" \notin Owners
  BY DEF Owners
<1>2. << "unit", 0 >> \notin Places
  BY <1>1 DEF Places
<1> QED
  BY <1>2 DEF Allocation, HasName

\* jac_free_unit begins: the unit's arrays and the unit are what is left of the heap.
LEMMA CleaningStarts ==
  ASSUME IInv, TextInv, NEW h, Ledger(h, live), Parsing(h), stack = << >>, mode # "fail",
         Free(unit), freed = << >>, mode' \in {"accepted", "rejected"},
         mode' = "accepted" => failed = {}, UNCHANGED dropped
  PROVE  Ledger(h, live)' /\ Cleaning(h)'
<1> DEFINE d == darray_free("unit", 0)
<1>1. pending' = Append(unit, d) /\ UNCHANGED << live, freed, failed >>
  BY DEF Free, jac_free_unit
<1>2. /\ Apart(h, unit) /\ << "unit", 0 >> \in live
      /\ \A a \in AllHeld(h, unit) : Between(live, a, 0, UnitEnd)
      /\ \A a \in live : Allocation(a) /\ Explained(h, a)
  BY DEF Parsing
<1>3. Known(h, d) /\ Holds(h, d) = {<< "unit", 0 >>}
  BY DeallocationHeld
<1>4. \A a \in AllHeld(h, unit) : a \in Places /\ a \in live /\ HasName(live, a)
  BY <1>2 DEF Between
<1> HIDE DEF d
<1>5. Holds(h, d) \cap AllHeld(h, unit) = {}
  BY <1>3, <1>4, UnitIsNone
<1>6. /\ Apart(h, pending')
      /\ AllHeld(h, pending') = AllHeld(h, unit) \cup {<< "unit", 0 >>}
  BY <1>1, <1>2, <1>3, <1>5, HeldAppended
<1>7. pending'[Len(pending')] = d
  <2>1. IsSeq(unit)
    BY <1>2 DEF Apart
  <2>2. PICK S : unit \in Seq(S)
    BY <2>1 DEF IsSeq
  <2>3. unit \in Seq(S \cup {d})
    BY <2>2, SeqMonotonic
  <2> QED
    BY <1>1, <2>3
<1>8. UnitLast'
  BY <1>7 DEF UnitLast, d
<1>9. ASSUME NEW a \in live'
      PROVE  Allocation(a) /\ Left(h, a)'
  <2>1. Allocation(a) /\ Explained(h, a)
    BY <1>1, <1>2
  <2>2. 1 .. Len(stack) = {}
    OBVIOUS
  <2>3. a = << "unit", 0 >> \/ a[2] \in dropped \cup failed \/ Base(a) \in AllHeld(h, unit)
    BY <2>1, <2>2 DEF Explained
  <2>4. a = << "unit", 0 >> => Base(a) \in AllHeld(h, pending')
    BY <1>6, <2>1, BaseFacts
  <2> QED
    BY <1>1, <1>6, <2>1, <2>3, <2>4 DEF Left
<1>10. IsSeq(freed') /\ ToSet(freed') = {}
  BY <1>1, NoneHeld DEF ToSet
<1>11. \A a \in ToSet(freed') \cup AllHeld(h, pending') : HasName(live', a)
  BY <1>1, <1>4, <1>6, <1>10, UnitIsNone
<1>12. \A a \in AllHeld(h, pending') : a \in live' /\ (a \in Places \/ a = << "unit", 0 >>)
  BY <1>1, <1>2, <1>4, <1>6
<1>13. mode' = "accepted" => failed' = {}
  BY <1>1
<1>14. Ledger(h, live')
  BY <1>1
<1> QED
  BY <1>6, <1>8, <1>9, <1>10, <1>11, <1>12, <1>13, <1>14 DEF Cleaning

\* A call of a free_* function is replaced by what its body does.
LEMMA FreeNodeKeeps ==
  ASSUME NEW h, Ledger(h, live), Cleaning(h), FreeNode
  PROVE  Ledger(h, live)' /\ Cleaning(h)' /\ pending' # << >>
<1> DEFINE x == Head(pending)
           t == Tail(pending)
           u == free(x)
<1>1. /\ pending # << >> /\ x.fn # "darray_free" /\ pending' = u \o t
      /\ UNCHANGED << mode, dropped, live, freed, failed >>
  BY DEF FreeNode, vars
<1>2. /\ IsSeq(freed) /\ Apart(h, pending) /\ UnitLast
  BY DEF Cleaning
<1>3. /\ Apart(h, t) /\ IsSeq(t) /\ Len(t) = Len(pending) - 1 /\ x = pending[1] /\ Known(h, x)
      /\ AllHeld(h, pending) = Holds(h, x) \cup AllHeld(h, t)
      /\ Holds(h, x) \cap AllHeld(h, t) = {}
  BY <1>1, <1>2, SplitHeld
<1> HIDE DEF x, t
<1>4. Apart(h, u) /\ AllHeld(h, u) = Holds(h, x)
  BY <1>1, <1>3, FreeCovers
<1> HIDE DEF u
<1>5. /\ Apart(h, pending') /\ Len(pending') = Len(u) + Len(t)
      /\ AllHeld(h, pending') = AllHeld(h, pending)
  BY <1>1, <1>3, <1>4, JoinHeld
<1>6. t # << >> /\ t[Len(t)] = darray_free("unit", 0)
  <2>1. PICK S : pending \in Seq(S)
    BY <1>2 DEF Apart, IsSeq
  <2>2. pending[Len(pending)] = darray_free("unit", 0) /\ Len(pending) \in Nat
    BY <1>1, <1>2, <2>1 DEF UnitLast
  <2>3. Len(pending) # 1
    BY <1>1, <1>3, <2>2 DEF darray_free
  <2>4. Len(pending) > 1
    <3>1. Len(pending) \in Nat /\ Len(pending) # 0
      BY <1>1, <2>1
    <3> QED
      BY <2>3, <3>1
  <2>5. t \in Seq(S) /\ \A k \in 1 .. Len(t) : t[k] = pending[k + 1]
    BY <1>1, <2>1 DEF t
  <2>6. Len(t) \in 1 .. Len(t) /\ Len(t) + 1 = Len(pending)
    BY <1>3, <2>2, <2>4
  <2>7. t[Len(t)] = pending[Len(pending)]
    BY <2>5, <2>6
  <2>8. t # << >>
    BY <2>6
  <2> QED
    BY <2>2, <2>7, <2>8
<1>7. UnitLast' /\ pending' # << >>
  <2>1. PICK S : u \in Seq(S)
    BY <1>4 DEF Apart, IsSeq
  <2>2. PICK R : t \in Seq(R)
    BY <1>3 DEF IsSeq
  <2>3. u \in Seq(S \cup R) /\ t \in Seq(S \cup R)
    BY <2>1, <2>2, SeqMonotonic
  <2> DEFINE w == u \o t
             m == Len(u)
             n == Len(t)
  <2>4. /\ Len(w) = m + n /\ m \in Nat /\ n \in Nat /\ n > 0
        /\ \A k \in 1 .. m + n : w[k] = IF k <= m THEN u[k] ELSE t[k - m]
    BY <1>6, <2>3, ConcatProperties
  <2>5. w = pending'
    BY <1>1
  <2> HIDE DEF w, m, n
  <2>6. m + n \in 1 .. m + n /\ ~(m + n <= m) /\ (m + n) - m = n
    BY <2>4
  <2>7. w[m + n] = t[n]
    BY <2>4, <2>6
  <2>8. w[Len(w)] = darray_free("unit", 0)
    BY <1>6, <2>4, <2>7 DEF n
  <2>9. w # << >>
    BY <2>4
  <2> QED
    BY <2>5, <2>8, <2>9 DEF UnitLast
<1>8. \A a \in live' : Allocation(a) /\ Left(h, a)'
  BY <1>1, <1>5 DEF Cleaning, Left
<1>9. mode' \in {"accepted", "rejected"} /\ (mode' = "accepted" => failed' = {}) /\ IsSeq(freed')
  BY <1>1 DEF Cleaning
<1>10. \A a \in AllHeld(h, pending') : a \in live' /\ (a \in Places \/ a = << "unit", 0 >>)
  BY <1>1, <1>5 DEF Cleaning
<1>11. \A a \in ToSet(freed') \cup AllHeld(h, pending') : HasName(live', a)
  BY <1>1, <1>5 DEF Cleaning
<1>12. Ledger(h, live')
  BY <1>1
<1> QED
  BY <1>5, <1>7, <1>8, <1>9, <1>10, <1>11, <1>12 DEF Cleaning

\* What has been freed is in the order of its freeing.
LEMMA FreedAppended ==
  ASSUME NEW t, IsSeq(t), NEW n
  PROVE  /\ ToSet(Append(t, n)) = ToSet(t) \cup {n} /\ IsSeq(Append(t, n))
         /\ Last(Append(t, n)) = n /\ Append(t, n) # << >>
<1>1. PICK S : t \in Seq(S)
  BY DEF IsSeq
<1>2. t \in Seq(S \cup {n})
  BY <1>1, SeqMonotonic
<1> DEFINE m == Len(t)
           u == Append(t, n)
<1>3. /\ u \in Seq(S \cup {n}) /\ Len(u) = m + 1 /\ m \in Nat /\ DOMAIN t = 1 .. m
      /\ DOMAIN u = 1 .. m + 1 /\ u[m + 1] = n /\ \A k \in 1 .. m : u[k] = t[k]
  BY <1>2
<1> HIDE DEF u, m
<1>4. ToSet(u) = ToSet(t) \cup {n}
  <2>1. \A k : k \in 1 .. m + 1 <=> k \in 1 .. m \/ k = m + 1
    BY <1>3
  <2> QED
    BY <1>3, <2>1 DEF ToSet
<1>5. Last(u) = n /\ u # << >>
  BY <1>3 DEF Last
<1> QED
  BY <1>3, <1>4, <1>5 DEF u, IsSeq

\* An array is freed: it is live, and it is the unit when nothing is left to do.
LEMMA FreeArrayKeeps ==
  ASSUME NEW h, Ledger(h, live), Cleaning(h), FreeArray
  PROVE  /\ Ledger(h, live)' /\ Cleaning(h)' /\ freed' # << >>
         /\ Last(freed') \in live /\ (Last(freed') = << "unit", 0 >> <=> pending' = << >>)
<1> DEFINE x == Head(pending)
           t == Tail(pending)
           b == << x.what, x.at >>
<1>1. /\ pending # << >> /\ x.fn = "darray_free" /\ pending' = t /\ live' = live \ {b}
      /\ freed' = Append(freed, b) /\ UNCHANGED << mode, dropped, failed >>
  BY DEF FreeArray, vars
<1>2. /\ IsSeq(freed) /\ Apart(h, pending) /\ UnitLast
  BY DEF Cleaning
<1>3. /\ Apart(h, t) /\ IsSeq(t) /\ Len(t) = Len(pending) - 1 /\ x = pending[1] /\ Known(h, x)
      /\ AllHeld(h, pending) = Holds(h, x) \cup AllHeld(h, t)
      /\ Holds(h, x) \cap AllHeld(h, t) = {}
  BY <1>1, <1>2, SplitHeld
<1>4. Holds(h, x) = {b}
  BY <1>1 DEF Holds, Bare
<1> HIDE DEF x, t, b
<1>5. b \in live /\ (b \in Places \/ b = << "unit", 0 >>)
  BY <1>3, <1>4 DEF Cleaning
<1>6. b[1] # "mangled"
  BY <1>5 DEF Places, Owners
<1>7. \A a : HasName(live, a) => HasName(live', a)
  BY <1>1, <1>6 DEF HasName
<1>8. Ledger(h, live')
  BY <1>7 DEF Ledger, Entry
<1>9. /\ ToSet(freed') = ToSet(freed) \cup {b} /\ IsSeq(freed') /\ Last(freed') = b
      /\ freed' # << >>
  BY <1>1, <1>2, FreedAppended
<1>10. AllHeld(h, pending) = {b} \cup AllHeld(h, pending') /\ b \notin AllHeld(h, pending')
  BY <1>1, <1>3, <1>4
<1>11. \A a \in AllHeld(h, pending') : a \in live' /\ (a \in Places \/ a = << "unit", 0 >>)
  BY <1>1, <1>10 DEF Cleaning
<1>12. \A a \in ToSet(freed') \cup AllHeld(h, pending') : HasName(live', a)
  <2>1. \A a \in ToSet(freed) \cup AllHeld(h, pending) : HasName(live', a)
    BY <1>7 DEF Cleaning
  <2> QED
    BY <1>9, <1>10, <2>1
<1>13. ASSUME NEW a \in live'
       PROVE  Allocation(a) /\ Left(h, a)'
  <2>1. Allocation(a) /\ Left(h, a) /\ a # b
    BY <1>1 DEF Cleaning
  <2>2. CASE Base(a) = b
    <3>1. a[1] = "mangled"
      BY <2>1, <2>2, BaseFacts
    <3> QED
      BY <1>9, <2>1, <2>2, <3>1 DEF Left
  <2>3. CASE Base(a) # b
    <3>1. Base(a) \in AllHeld(h, pending) => Base(a) \in AllHeld(h, pending')
      BY <1>10, <2>3
    <3> QED
      BY <1>1, <1>9, <2>1, <3>1 DEF Left
  <2> QED
    BY <2>2, <2>3
<1>14. UnitLast' /\ (b = << "unit", 0 >> <=> pending' = << >>)
  <2>1. PICK S : pending \in Seq(S)
    BY <1>2 DEF Apart, IsSeq
  <2> DEFINE d == darray_free("unit", 0)
             n == Len(pending)
  <2>2. pending[n] = d /\ n \in Nat /\ n >= 1 /\ DOMAIN pending = 1 .. n
    BY <1>1, <1>2, <2>1 DEF UnitLast
  <2>3. Holds(h, d) = {<< "unit", 0 >>}
    BY DeallocationHeld
  <2>4. t \in Seq(S) /\ Len(t) = n - 1 /\ DOMAIN t = 1 .. n - 1
        /\ \A k \in 1 .. n - 1 : t[k] = pending[k + 1]
    BY <1>1, <2>1 DEF t
  <2> HIDE DEF d, n
  <2>5. CASE n = 1
    <3>1. t = << >>
      BY <2>4, <2>5
    <3>2. x = d
      BY <1>3, <2>2, <2>5
    <3> QED
      BY <1>1, <1>4, <2>3, <3>1, <3>2 DEF UnitLast
  <2>6. CASE n > 1
    <3>1. n - 1 \in 1 .. n - 1 /\ (n - 1) + 1 = n
      BY <2>2, <2>6
    <3>2. t[n - 1] = d /\ t # << >>
      BY <2>2, <2>4, <3>1
    <3>3. << "unit", 0 >> \in AllHeld(h, pending')
      BY <1>1, <2>3, <2>4, <3>1, <3>2, AllHeldIs
    <3>4. t[Len(t)] = d
      BY <2>4, <3>2
    <3> QED
      BY <1>1, <1>10, <3>2, <3>3, <3>4 DEF UnitLast, d
  <2> QED
    BY <2>2, <2>5, <2>6
<1>15. mode' \in {"accepted", "rejected"} /\ (mode' = "accepted" => failed' = {})
  BY <1>1 DEF Cleaning
<1>16. Apart(h, pending')
  BY <1>1, <1>3
<1>17. Cleaning(h)'
  BY <1>9, <1>11, <1>12, <1>13, <1>14, <1>15, <1>16 DEF Cleaning
<1> QED
  BY <1>5, <1>8, <1>9, <1>10, <1>14, <1>17 DEF Cleaning

-----------------------------------------------------------------------------
(***************************************************************************)
(* Every step keeps the invariant of the heap.                             *)
(***************************************************************************)

\* One deallocation: of what lives, and of the unit at last.
FreesRightly ==
  freed' # freed => Last(freed') \in live /\ (Last(freed') = << "unit", 0 >> <=> pending' = << >>)

\* A step of the parser is one of Parser.
LEMMA HeapStepIs ==
  ASSUME HeapNext
  PROVE  Next \/ UNCHANGED vars
BY DEF HeapNext, HeapWork, NewArray, OtherToken, NewName, OtherBranch, Fail, GiveUp, Accept, Quiet,
       FreeUnit, FreeNode, FreeArray, Next

\* The invariant of the heap holds at the start.
LEMMA HeapStart ==
  ASSUME HeapInit
  PROVE  HeapInv
<1>1. /\ stack = << >> /\ mode = "unit" /\ unit = << >> /\ c = 1 /\ live = {<< "unit", 0 >>}
      /\ failed = {} /\ pending = << >> /\ freed = << >>
  BY DEF HeapInit, Init
<1> DEFINE h == [x \in {} |-> {}]
<1>2. DOMAIN h = {}
  OBVIOUS
<1> HIDE DEF h
<1>3. Ledger(h, live)
  BY <1>2 DEF Ledger
<1>4. AllHeld(h, unit) = {} /\ Apart(h, unit)
  BY <1>1, NoneHeld
<1>5. 1 .. Len(stack) = {}
  BY <1>1
<1>6. Linked(h, live, stack, c)
  BY <1>5 DEF Linked
<1>7. ASSUME NEW a \in live
      PROVE  Allocation(a) /\ a[2] < c /\ Explained(h, a)
  BY <1>1, <1>7, UnitIsNone DEF Explained
<1>8. Parsing(h)
  BY <1>1, <1>4, <1>6, <1>7 DEF Parsing
<1>9. HeapInvOf(h)
  BY <1>1, <1>3, <1>8 DEF HeapInvOf
<1> QED
  BY <1>9 DEF HeapInv

\* As long as the parser runs, and up to where the cleanup begins.
LEMMA ParsingStep ==
  ASSUME IInv, TextInv, NEW h, Ledger(h, live), Parsing(h), pending = << >>, freed = << >>, HeapNext
  PROVE  HeapInv' /\ freed' = freed
<1>1. ASSUME NEW g, Ledger(g, live)', Parsing(g)', UNCHANGED << pending, freed >>
      PROVE  HeapInv' /\ freed' = freed
  <2>1. HeapInvOf(g)'
    BY <1>1 DEF HeapInvOf
  <2> QED
    BY <1>1, <2>1 DEF HeapInv
<1>2. CASE NewArray
  BY <1>1, <1>2, NewArrayKeeps DEF NewArray, Allocate
<1>3. CASE OtherToken
  BY <1>1, <1>3, OtherTokenKeeps DEF OtherToken, heap
<1>4. CASE NewName
  BY <1>1, <1>4, NewNameKeeps DEF NewName, Allocate
<1>5. CASE OtherBranch
  BY <1>1, <1>5, OtherBranchKeeps DEF OtherBranch, heap
<1>6. CASE Fail
  <2>1. Parsing(h)' /\ live' = live /\ UNCHANGED << pending, freed >>
    BY <1>6, FailKeeps DEF Fail
  <2>2. Ledger(h, live)'
    BY <2>1
  <2> QED
    BY <1>1, <2>1, <2>2
<1>7. CASE Accept
  <2>1. /\ mode # "fail" /\ mode' # "rejected" /\ c' = c
        /\ UNCHANGED << stack, unit, success, dropped, live, failed, pending, freed >>
    BY <1>7 DEF Accept, Finish, heap
  <2>2. c \in Nat
    BY StackStarted
  <2>3. Parsing(h)'
    BY <2>1, <2>2, IdleKeeps
  <2>4. Ledger(h, live)'
    BY <2>1
  <2> QED
    BY <1>1, <2>1, <2>3, <2>4
<1>8. CASE Quiet
  <2>1. UNCHANGED heap /\ UNCHANGED << live, pending, freed >>
    BY <1>8 DEF Quiet, heap
  <2>2. CASE ReturnTrue
    <3>1. PICK g : Ledger(g, live)' /\ Parsing(g)'
      <4>1. Len(stack) = 1 \/ Len(stack) > 1
        <5>1. mode = "parse"
          BY <2>2 DEF ReturnTrue
        <5>2. stack # << >>
          BY <5>1, TopPaces
        <5>3. Len(stack) \in 1 .. Len(stack)
          BY <5>2, StackStarted
        <5> QED
          BY <5>3
      <4>2. CASE Len(stack) = 1
        BY <2>1, <2>2, <4>2, StatementKeeps
      <4>3. CASE Len(stack) > 1
        BY <2>1, <2>2, <4>3, NodeKeeps
      <4> QED
        BY <4>1, <4>2, <4>3
    <3> QED
      BY <1>1, <2>1, <3>1
  <2>3. CASE ~ReturnTrue
    <3>1. Parsing(h)'
      BY <1>8, <2>1, <2>3, ParseStatementKeeps, CallKeeps, ReturnFalseKeeps, ReturnNothingKeeps,
         IdleStepsKeep DEF Quiet
    <3>2. Ledger(h, live)'
      BY <2>1
    <3> QED
      BY <1>1, <2>1, <3>1, <3>2
  <2> QED
    BY <2>2, <2>3
<1>9. CASE GiveUp \/ FreeUnit
  <2>1. /\ Free(unit) /\ mode # "fail" /\ mode' \in {"accepted", "rejected"}
        /\ UNCHANGED << dropped, freed >> /\ (mode' = "accepted" => mode = "accepted")
        /\ mode \in {"unit", "accepted"}
    BY <1>9 DEF GiveUp, FreeUnit, Finish, Free, vars
  <2>2. stack = << >>
    BY <2>1 DEF IInv, StackInv
  <2>3. mode' = "accepted" => failed = {}
    BY <2>1 DEF IInv, DiagInv, Parsing
  <2>4. Ledger(h, live)' /\ Cleaning(h)'
    BY <2>1, <2>2, <2>3, CleaningStarts
  <2>5. pending' # << >>
    <3>1. pending' = Append(unit, darray_free("unit", 0))
      BY <2>1 DEF Free, jac_free_unit
    <3>2. IsSeq(unit)
      BY DEF Parsing, Apart
    <3> QED
      BY <3>1, <3>2, FreedAppended
  <2>6. HeapInvOf(h)'
    BY <2>4, <2>5 DEF HeapInvOf
  <2> QED
    BY <2>1, <2>6 DEF HeapInv
<1>10. CASE FreeNode \/ FreeArray
  BY <1>10 DEF FreeNode, FreeArray
<1> QED
  BY <1>2, <1>3, <1>4, <1>5, <1>6, <1>7, <1>8, <1>9, <1>10 DEF HeapNext, HeapWork

\* And in the cleanup.
LEMMA CleaningStep ==
  ASSUME IInv, NEW h, Ledger(h, live), Cleaning(h), ~(pending = << >> /\ freed = << >>), HeapNext
  PROVE  HeapInv' /\ FreesRightly /\ (FreeNode \/ FreeArray)
<1>1. mode \in {"accepted", "rejected"}
  BY DEF Cleaning
<1>2. ~(\/ NewArray \/ OtherToken \/ NewName \/ OtherBranch \/ Fail \/ GiveUp \/ Accept \/ Quiet)
  BY <1>1 DEF NewArray, OtherToken, NewName, OtherBranch, Fail, GiveUp, Accept, Quiet,
              ParseStatement, Finish, Expect, ExpectFails, Branch, CallParse, ReturnTrue,
              ReturnFalse, ReturnNothing, StatementFails, SkipToken, SkipClose, SkipEof, Running
<1>3. ~FreeUnit
  BY DEF FreeUnit
<1>4. FreeNode \/ FreeArray
  BY <1>2, <1>3 DEF HeapNext, HeapWork
<1>5. CASE FreeNode
  <2>1. Ledger(h, live)' /\ Cleaning(h)' /\ pending' # << >> /\ freed' = freed
    BY <1>5, FreeNodeKeeps DEF FreeNode
  <2>2. HeapInvOf(h)'
    BY <2>1 DEF HeapInvOf
  <2> QED
    BY <1>4, <2>1, <2>2 DEF HeapInv, FreesRightly
<1>6. CASE FreeArray
  <2>1. Ledger(h, live)' /\ Cleaning(h)' /\ freed' # << >> /\ FreesRightly
    BY <1>6, FreeArrayKeeps DEF FreesRightly
  <2>2. HeapInvOf(h)'
    BY <2>1 DEF HeapInvOf
  <2> QED
    BY <1>4, <2>1, <2>2 DEF HeapInv
<1> QED
  BY <1>4, <1>5, <1>6

\* Together.
LEMMA HeapStep ==
  ASSUME IInv, TextInv, HeapInv, HeapNext \/ UNCHANGED << vars, heap >>
  PROVE  HeapInv' /\ FreesRightly
<1>1. CASE UNCHANGED << vars, heap >>
  <2>1. PICK h : HeapInvOf(h)
    BY DEF HeapInv
  <2>2. top' = top
    BY <1>1 DEF vars, top
  <2>3. HeapInvOf(h)'
    BY <1>1, <2>1, <2>2 DEF HeapInvOf, Parsing, Cleaning, Explained, UnitEnd, UnitLast, Left,
                            vars, heap
  <2> QED
    BY <1>1, <2>3 DEF HeapInv, FreesRightly, heap
<1>2. CASE HeapNext
  <2>1. PICK h : HeapInvOf(h)
    BY DEF HeapInv
  <2>2. CASE pending = << >> /\ freed = << >>
    BY <1>2, <2>1, <2>2, ParsingStep DEF HeapInvOf, FreesRightly
  <2>3. CASE ~(pending = << >> /\ freed = << >>)
    BY <1>2, <2>1, <2>3, CleaningStep DEF HeapInvOf
  <2> QED
    BY <2>2, <2>3
<1> QED
  BY <1>1, <1>2

\* The invariants of the parser and of the heap.
OwnershipInv == IInv /\ TextInv /\ HeapInv

\* They hold at the start ...
LEMMA OwnershipStart ==
  ASSUME HeapInit
  PROVE  OwnershipInv
BY InitInv, InitText, HeapStart DEF HeapInit, OwnershipInv

\* ... and every step keeps them.
LEMMA OwnershipStep ==
  ASSUME OwnershipInv, HeapNext \/ UNCHANGED << vars, heap >>
  PROVE  OwnershipInv' /\ FreesRightly
<1>1. [Next]_vars
  BY HeapStepIs
<1>2. IInv' /\ TextInv'
  BY <1>1, StepInv, StepText DEF OwnershipInv
<1> QED
  BY <1>2, HeapStep DEF OwnershipInv

\* They hold in every state.
LEMMA OwnershipInvariance == HeapSpec => []OwnershipInv
<1>1. HeapInit => OwnershipInv
  BY OwnershipStart
<1>2. OwnershipInv /\ [HeapNext]_<< vars, heap >> => OwnershipInv'
  BY OwnershipStep
<1> QED
  BY <1>1, <1>2, PTL DEF HeapSpec

\* Whatever the source, each deallocation is of an array that is allocated, so that none is
\* freed twice, and the unit's own comes last (jac_free_unit and the free_* functions).
THEOREM FreesCorrect == HeapSpec => FreesWhatLives
<1>1. OwnershipInv /\ [HeapNext]_<< vars, heap >> => FreesRightly
  BY OwnershipStep
<1>3. OwnershipInv /\ [HeapNext]_<< vars, heap >>
        => [freed' # freed => /\ Last(freed') \in live
                              /\ (Last(freed') = << "unit", 0 >> <=> pending' = << >>)]_<< vars, heap >>
  BY <1>1 DEF FreesRightly
<1> QED
  BY <1>3, OwnershipInvariance, PTL DEF HeapSpec, FreesWhatLives

\* What is left when the unit has been freed.
LEMMA LeftIsKnown ==
  ASSUME HeapInv
  PROVE  LeaksKnown
<1> SUFFICES ASSUME Cleaned
             PROVE  /\ \A a \in live : a[1] = "mangled" \/ a[2] \in dropped \cup failed
                    /\ mode = "accepted" /\ dropped = {} =>
                         live = {<< "mangled", a[2] >> : a \in {b \in ToSet(freed) : b[1] = "function_header"}}
  BY DEF LeaksKnown
<1>1. freed # << >> /\ pending = << >>
  BY DEF Cleaned
<1>2. PICK h : HeapInvOf(h)
  BY DEF HeapInv
<1>3. Cleaning(h)
  BY <1>1, <1>2 DEF HeapInvOf
<1>4. AllHeld(h, pending) = {}
  BY <1>1, NoneHeld
<1>5. \A a \in live : /\ Allocation(a)
                      /\ \/ a[2] \in dropped \cup failed
                         \/ a[1] = "mangled" /\ Base(a) \in ToSet(freed)
  BY <1>3, <1>4 DEF Cleaning, Left
<1>6. ASSUME mode = "accepted", dropped = {}
      PROVE  live = {<< "mangled", a[2] >> : a \in {b \in ToSet(freed) : b[1] = "function_header"}}
  <2>1. failed = {}
    BY <1>3, <1>6 DEF Cleaning
  <2>2. ASSUME NEW a \in live
        PROVE  a \in {<< "mangled", b[2] >> : b \in {r \in ToSet(freed) : r[1] = "function_header"}}
    <3>1. a[1] = "mangled" /\ Base(a) \in ToSet(freed) /\ a = << "mangled", a[2] >>
      BY <1>5, <1>6, <2>1, BaseFacts
    <3>2. Base(a)[1] = "function_header" /\ Base(a)[2] = a[2]
      BY <3>1 DEF Base
    <3> QED
      BY <3>1, <3>2
  <2>3. ASSUME NEW b \in ToSet(freed), b[1] = "function_header"
        PROVE  << "mangled", b[2] >> \in live
    <3>1. HasName(live, b)
      BY <1>3 DEF Cleaning
    <3> QED
      BY <2>3, <3>1 DEF HasName
  <2> QED
    BY <2>2, <2>3
<1> QED
  BY <1>5, <1>6

\* Whatever the source, what stays allocated when the unit has been freed is a mangled name
\* or lies in tokens that were lost; of an accepted unit nothing lost, the name of each header.
THEOREM LeaksCorrect == HeapSpec => []LeaksKnown
<1>1. OwnershipInv => LeaksKnown
  BY LeftIsKnown DEF OwnershipInv
<1> QED
  BY <1>1, OwnershipInvariance, PTL

-----------------------------------------------------------------------------
(***************************************************************************)
(* The form of the AST: the kids that the checker counts on, and the       *)
(* functions and returns that lie in a node.                               *)
(***************************************************************************)

\* What a text shows: its functions and its returns.
mark     == [kind \in Kinds |-> TokenShows(kind)]
Marks(w) == Picture(mark, w)

\* A token shows itself or nothing ...
LEMMA MarkMaps == Maps(mark, Kinds, Kinds)
<1>1. "func" \in Kinds /\ "return" \in Kinds
  BY DEF Kinds
<1>2. \A kind \in Kinds : TokenShows(kind) \in Seq(Kinds)
  BY <1>1 DEF TokenShows
<1> QED
  BY <1>2 DEF Maps, Goes, mark

\* ... and a text what its tokens do.
LEMMA MarksFacts ==
  /\ \A w \in Words : Marks(w) \in Words
  /\ \A v, w \in Words : Marks(v \o w) = Marks(v) \o Marks(w)
  /\ \A kind \in Kinds : /\ Marks(<< kind >>) = TokenShows(kind) /\ << kind >> \in Words
                         /\ TokenShows(kind) \in Words
  /\ Marks(<< >>) = << >>
<1> DEFINE W == Words
           m == mark
<1>1. W = Seq(Kinds) /\ Maps(m, Kinds, Kinds)
  BY MarkMaps DEF Words
<1>2. \A kind \in Kinds : m[kind] = TokenShows(kind)
  BY DEF mark
<1> HIDE DEF m, W
<1>3. \A w \in W : Picture(m, w) \in W
  BY <1>1, PictureType
<1>4. \A v, w \in W : Picture(m, v \o w) = Picture(m, v) \o Picture(m, w)
  BY <1>1, PictureJoin
<1>5. Picture(m, << >>) = << >>
  BY PictureNone
<1>6. ASSUME NEW kind \in Kinds
      PROVE  Picture(m, << kind >>) = m[kind] /\ << kind >> \in W /\ m[kind] \in W
  <2>1. << >> \in Seq(Kinds) /\ << kind >> = Append(<< >>, kind) /\ << kind >> \in Seq(Kinds)
    OBVIOUS
  <2>2. m[kind] \in Seq(Kinds)
    BY <1>1 DEF Maps, Goes
  <2> DEFINE e == << >>
  <2>3. e \in Seq(Kinds)
    BY <2>1
  <2> HIDE DEF e
  <2>4. Picture(m, Append(e, kind)) = Picture(m, e) \o m[kind]
    BY <1>1, <2>3, PictureAppend
  <2>5. << >> \o m[kind] = m[kind]
    BY <2>2
  <2> QED
    BY <1>1, <1>5, <2>1, <2>2, <2>4, <2>5 DEF e
<1> QED
  BY <1>2, <1>3, <1>4, <1>5, <1>6 DEF Marks, m, W

\* What a node shows, and what some nodes do.
Shows(src, n)     == Marks(Written(src, n))
Marked(src, kids) == FlattenSeq([k \in DOMAIN kids |-> Shows(src, kids[k])])

\* The forms of nodes: one that shows nothing, a header, with its name and what it has been
\* given behind it, statements and blocks.
Headed(src, n) ==
  /\ IsSeq(n.kids) /\ Len(n.kids) \in 1 .. Len(src) /\ n.kids[1].fn = "token"
  /\ Shows(src, n) = << "func" >>
Scoped(src, n) ==
  /\ Len(n.kids) = 1 /\ n.kids[1].fn # "return" /\ Shows(src, n) = Shows(src, n.kids[1])
  /\ n.kids[1].fn = "statement_return" => Shows(src, n) = << "return" >>
Blocked(src, n) ==
  /\ IsSeq(n.kids) /\ \A k \in DOMAIN n.kids : Scoped(src, n.kids[k])
  /\ Shows(src, n) = Marked(src, n.kids)
Externed(src, n) ==
  /\ IsSeq(n.kids) /\ \A k \in DOMAIN n.kids : Headed(src, n.kids[k])
  /\ Shows(src, n) = Marked(src, n.kids)
Defined(src, n) ==
  /\ Len(n.kids) = 2 /\ Headed(src, n.kids[1]) /\ Blocked(src, n.kids[2])
  /\ Shows(src, n) = << "func" >> \o Shows(src, n.kids[2])
Stated(src, n) ==
  /\ Len(n.kids) = 1 /\ Shows(src, n) = Shows(src, n.kids[1])
  /\ \/ n.kids[1].fn = "function_definition" /\ Defined(src, n.kids[1])
     \/ n.kids[1].fn = "extern_block" /\ Externed(src, n.kids[1])

Formed(src, n) ==
  /\ n.fn \in Optional => Shows(src, n) = << >>
  /\ n.fn = "function_header" => Headed(src, n)
  /\ n.fn = "statement_return" => Shows(src, n) = << "return" >>
  /\ n.fn = "scope_statement" => Scoped(src, n)
  /\ n.fn = "block" => Blocked(src, n)
  /\ n.fn = "extern_block" => Externed(src, n)
  /\ n.fn = "function_definition" => Defined(src, n)
  /\ n.fn = "unit_statement" => Stated(src, n)

\* The control points of each function: its kids so far, what is left of its body, and the
\* number of the tokens it has consumed and what they show.
DeclarationForm(left, p, m) ==
  /\ m = << >> /\ left \in {parse_variable_declaration, declaration_colon, declaration_name, << >>}
  /\ left = << >> => p >= 1

HeaderForm(kids, left, p, m) ==
  \/ kids = << >> /\ left = parse_function_header /\ m = << >>
  \/ kids = << >> /\ left = header_name /\ m = << "func" >> /\ p >= 1
  \/ /\ Len(kids) >= 1 /\ kids[1].fn = "token" /\ m = << "func" >>
     /\ \/ /\ left \in {header_named, header_open, header_first, header_next, header_comma,
                        header_param, header_close, header_listed, header_minus, header_arrow,
                        header_type}
           /\ Len(kids) + 1 <= p
        \/ left = << >> /\ Len(kids) <= p

ReturnForm(left, m) ==
  \/ left = parse_statement_return /\ m = << >>
  \/ left \in {return_value, << >>} /\ m = << "return" >>

ScopeForm(src, kids, left, m) ==
  \/ kids = << >> /\ left \in {scope_return, scope_block, scope_expression} /\ m = << >>
  \/ /\ Len(kids) = 1 /\ kids[1].fn # "return" /\ left \in {scope_close, << >>}
     /\ m = Shows(src, kids[1])

BlockForm(src, kids, left, m) ==
  /\ left \in {parse_block, block_next, block_statement, block_close, << >>}
  /\ \A k \in DOMAIN kids : kids[k].fn = "scope_statement"
  /\ m = Marked(src, kids)

ExternForm(src, kids, left, m) ==
  /\ left \in {parse_extern_block, extern_open, extern_next, extern_header, extern_end,
               extern_close, << >>}
  /\ \A k \in DOMAIN kids : kids[k].fn = "function_header"
  /\ m = Marked(src, kids)

FunctionForm(src, kids, left, m) ==
  \/ kids = << >> /\ left = parse_function_definition /\ m = << >>
  \/ /\ Len(kids) = 1 /\ kids[1].fn = "function_header" /\ left = function_block
     /\ m = Shows(src, kids[1])
  \/ /\ Len(kids) = 2 /\ kids[1].fn = "function_header" /\ kids[2].fn = "block" /\ left = << >>
     /\ m = Shows(src, kids[1]) \o Shows(src, kids[2])

UnitForm(src, kids, left, m) ==
  \/ /\ kids = << >> /\ m = << >>
     /\ \/ Rejects(left)
        \/ \E g \in {"function_definition", "extern_block"} : Needs(left, g, << >>)
  \/ /\ Len(kids) = 1 /\ kids[1].fn \in {"function_definition", "extern_block"}
     /\ left = << >> /\ m = Shows(src, kids[1])

\* All of them.  Most functions that are optional only show nothing.
Form(src, fn, kids, left, p, m) ==
  /\ fn \in Optional => m = << >>
  /\ fn = "variable_declaration" => DeclarationForm(left, p, m)
  /\ fn = "function_header" => HeaderForm(kids, left, p, m)
  /\ fn = "statement_return" => ReturnForm(left, m)
  /\ fn = "scope_statement" => ScopeForm(src, kids, left, m)
  /\ fn = "block" => BlockForm(src, kids, left, m)
  /\ fn = "extern_block" => ExternForm(src, kids, left, m)
  /\ fn = "function_definition" => FunctionForm(src, kids, left, m)
  /\ fn = "unit_statement" => UnitForm(src, kids, left, m)

\* A node that a call has returned, over some tokens.
Turned(src, n, e) ==
  /\ Formed(src, n) /\ Shows(src, n) \in Words
  /\ e \in Nat /\ (n.fn = "variable_declaration" => e >= 1)

\* What may happen at a control point, and what has been consumed then.
Advances(src, fn, kids, left, p, m) ==
  LET x == Head(left)
      r == Tail(left)
  IN  /\ left # << >> /\ x.op = "token" =>
           \A leaf, kind : leaf.fn = "token" /\ kind \in x.kinds =>
             Form(src, fn, IF x.keep THEN Append(kids, leaf) ELSE kids, r, p + 1,
                  m \o TokenShows(kind))
      /\ left # << >> /\ x.op \in {"when", "while"} =>
           \A b \in BOOLEAN :
             Form(src, fn, kids, IF b THEN x.then \o (IF x.op = "while" THEN left ELSE r) ELSE r, p, m)
      /\ left # << >> /\ x.op \in {"call", "try"} =>
           \A n, e : n.fn = x.fn /\ Turned(src, n, e) =>
             Form(src, fn, Append(kids, n), (IF x.op = "try" THEN x.then ELSE << >>) \o r, p + e,
                  m \o Shows(src, n))
      /\ left # << >> /\ x.op = "try" => \A e \in Nat : Form(src, fn, kids, r, p + e, m)

\* An activation goes on rightly from its end, and from the failure of its body ...
LEMMA AdvanceEnd ==
  ASSUME NEW src, NEW fn, NEW kids, NEW left, NEW p, NEW m, left = << >> \/ Rejects(left)
  PROVE  Advances(src, fn, kids, left, p, m)
BY DEF Advances, Rejects

\* ... from a token that is not kept ...
LEMMA AdvanceDrop ==
  ASSUME NEW src, NEW fn, NEW kids, NEW left, NEW p, NEW m, NEW kind, NEW r, Drops(left, kind, r),
         Form(src, fn, kids, r, p + 1, m \o TokenShows(kind))
  PROVE  Advances(src, fn, kids, left, p, m)
<1>1. Tok(kind).op = "token" /\ Tok(kind).kinds = {kind} /\ Tok(kind).keep = FALSE
  BY ItemFields
<1> QED
  BY <1>1 DEF Advances, Drops

\* ... or is ...
LEMMA AdvanceKeep ==
  ASSUME NEW src, NEW fn, NEW kids, NEW left, NEW p, NEW m, NEW kinds, NEW r, Keeps(left, kinds, r),
         \A leaf, kind : leaf.fn = "token" /\ kind \in kinds =>
           Form(src, fn, Append(kids, leaf), r, p + 1, m \o TokenShows(kind))
  PROVE  Advances(src, fn, kids, left, p, m)
<1>1. Keep(kinds).op = "token" /\ Keep(kinds).kinds = kinds /\ Keep(kinds).keep = TRUE
  BY ItemFields
<1> QED
  BY <1>1 DEF Advances, Keeps

\* ... from a branch or a loop ...
LEMMA AdvanceLoop ==
  ASSUME NEW src, NEW fn, NEW kids, NEW left, NEW p, NEW m, NEW kinds, NEW r, NEW u,
         Repeats(left, kinds, u, r) \/ Branches(left, kinds, u, r),
         Form(src, fn, kids, u, p, m), Form(src, fn, kids, r, p, m)
  PROVE  Advances(src, fn, kids, left, p, m)
<1>1. CASE Repeats(left, kinds, u, r)
  BY <1>1 DEF Advances, Repeats
<1>2. CASE Branches(left, kinds, u, r)
  BY <1>2 DEF Advances, Branches
<1> QED
  BY <1>1, <1>2

\* ... from a call ...
LEMMA AdvanceCall ==
  ASSUME NEW src, NEW fn, NEW kids, NEW left, NEW p, NEW m, NEW g, NEW r, Needs(left, g, r),
         \A n, e : n.fn = g /\ Turned(src, n, e) =>
           Form(src, fn, Append(kids, n), r, p + e, m \o Shows(src, n))
  PROVE  Advances(src, fn, kids, left, p, m)
BY DEF Advances, Needs

\* ... and from a call that may return nothing.
LEMMA AdvanceTry ==
  ASSUME NEW src, NEW fn, NEW kids, NEW left, NEW p, NEW m, NEW g, NEW r, NEW u,
         MayCall(left, g, u, r), \A e \in Nat : Form(src, fn, kids, r, p + e, m),
         \A n, e : n.fn = g /\ Turned(src, n, e) =>
           Form(src, fn, Append(kids, n), u, p + e, m \o Shows(src, n))
  PROVE  Advances(src, fn, kids, left, p, m)
BY DEF Advances, MayCall

\* Nothing joined to a text leaves it, and it to nothing.
LEMMA JoinNothing == \A w \in Words : w \o << >> = w /\ << >> \o w = w
BY DEF Words

\* The tokens that show something, and some that do not.
LEMMA TokensShow ==
  /\ TokenShows("func") = << "func" >> /\ TokenShows("return") = << "return" >>
  /\ \A kind : kind \notin {"func", "return"} => TokenShows(kind) = << >>
BY DEF TokenShows

\* A node more shows what it does behind the others.
LEMMA MarkedAppend ==
  ASSUME NEW src, NEW kids, AreNodes(src, kids), NEW n, Shows(src, n) \in Words
  PROVE  /\ Marked(src, kids) \in Words
         /\ Marked(src, Append(kids, n)) = Marked(src, kids) \o Shows(src, n)
<1> DEFINE a == Append(kids, n)
           f == [k \in DOMAIN kids |-> Shows(src, kids[k])]
           g == [k \in DOMAIN a |-> Shows(src, a[k])]
           x == Shows(src, n)
           h == Append(f, x)
<1>1. IsSeq(kids) /\ Len(kids) \in Nat /\ DOMAIN kids = 1 .. Len(kids)
  BY SeqFacts DEF AreNodes
<1>2. /\ IsSeq(a) /\ Len(a) = Len(kids) + 1 /\ a[Len(kids) + 1] = n
      /\ \A k \in 1 .. Len(kids) : a[k] = kids[k]
  BY <1>1, AppendFacts
<1>3. DOMAIN a = 1 .. Len(kids) + 1
  BY <1>2, SeqFacts
<1>4. \A k \in 1 .. Len(kids) : Shows(src, kids[k]) \in Words
  BY <1>1, MarksFacts DEF AreNodes, IsNode, Shows
<1> HIDE DEF a
<1>5. f \in Seq(Words) /\ Len(f) = Len(kids) /\ \A k \in 1 .. Len(kids) : f[k] = Shows(src, kids[k])
  BY <1>1, <1>4, MadeSeq
<1>6. DOMAIN g = 1 .. Len(kids) + 1 /\ \A k \in 1 .. Len(kids) + 1 : g[k] = Shows(src, a[k])
  BY <1>3
<1> HIDE DEF f, g, x
<1>7. /\ h \in Seq(Words) /\ Len(h) = Len(kids) + 1 /\ h[Len(kids) + 1] = x
      /\ \A k \in 1 .. Len(kids) : h[k] = f[k]
  BY <1>5, AppendType DEF x
<1>8. FlattenSeq(h) = FlattenSeq(f) \o x /\ FlattenSeq(f) \in Words
  BY <1>5, FlatAppend, FlatType DEF x
<1>9. DOMAIN h = 1 .. Len(kids) + 1 /\ h = [k \in DOMAIN h |-> h[k]] /\ g = [k \in DOMAIN g |-> g[k]]
  <2>1. h = [k \in DOMAIN h |-> h[k]] /\ DOMAIN h = 1 .. Len(kids) + 1
    <3>1. \A v \in Seq(Words) : v = [k \in DOMAIN v |-> v[k]] /\ DOMAIN v = 1 .. Len(v)
      <4> DEFINE W == Words
      <4> HIDE DEF W
      <4>1. \A v \in Seq(W) : v = [k \in DOMAIN v |-> v[k]] /\ DOMAIN v = 1 .. Len(v)
        OBVIOUS
      <4> QED
        BY <4>1 DEF W
    <3> QED
      BY <1>7, <3>1
  <2>2. g = [k \in DOMAIN g |-> g[k]]
    BY DEF g
  <2> QED
    BY <2>1, <2>2
<1> HIDE DEF h
<1>10. \A k \in 1 .. Len(kids) + 1 : g[k] = h[k]
  <2>1. \A k \in 1 .. Len(kids) + 1 : k = Len(kids) + 1 \/ k \in 1 .. Len(kids)
    BY <1>1
  <2> QED
    BY <1>2, <1>5, <1>6, <1>7, <2>1 DEF x
<1>11. g = h
  BY <1>6, <1>9, <1>10
<1> QED
  BY <1>8, <1>11 DEF Marked, f, g, h, x, a

\* No nodes show nothing.
LEMMA MarkedNone ==
  ASSUME NEW src
  PROVE  Marked(src, << >>) = << >>
<1>1. [k \in DOMAIN << >> |-> Shows(src, << >>[k])] = << >>
  OBVIOUS
<1> QED
  BY <1>1, FlatEmpty DEF Marked

\* Every activation goes on rightly: of a declaration ...
LEMMA DeclarationAdvances ==
  ASSUME NEW src, NEW kids, NEW left, NEW p \in Nat, NEW m, DeclarationForm(left, p, m)
  PROVE  Advances(src, "variable_declaration", kids, left, p, m)
<1> DEFINE fn == "variable_declaration"
<1>1. \A k, l, q : /\ l \in {parse_variable_declaration, declaration_colon, declaration_name, << >>}
                   /\ l = << >> => q >= 1
                   => Form(src, fn, k, l, q, << >>)
  BY DEF Form, DeclarationForm, Optional
<1>2. m = << >> /\ p + 1 >= 1 /\ << >> \o << >> = << >>
  BY Nothing DEF DeclarationForm
<1>3. \A kind : kind \in {":", "identifier"} => m \o TokenShows(kind) = << >>
  BY <1>2, TokensShow
<1>4. declaration_colon # << >> /\ declaration_name # << >> /\ parse_variable_declaration # << >>
  BY DeclarationTodos DEF Drops, Keeps, Needs
<1> HIDE DEF fn
<1>5. CASE left = parse_variable_declaration
  <2>1. \A n, e : n.fn = "type" /\ Turned(src, n, e) => Shows(src, n) = << >>
    BY DEF Turned, Formed, Optional
  <2>2. \A n, e : n.fn = "type" /\ Turned(src, n, e) =>
          Form(src, fn, Append(kids, n), declaration_colon, p + e, m \o Shows(src, n))
    BY <1>1, <1>2, <1>4, <2>1
  <2> QED
    BY <1>5, <2>2, DeclarationTodos, AdvanceCall DEF fn
<1>6. CASE left = declaration_colon
  BY <1>1, <1>3, <1>4, <1>6, DeclarationTodos, AdvanceDrop DEF fn
<1>7. CASE left = declaration_name
  <2>1. \A leaf, kind : leaf.fn = "token" /\ kind \in {"identifier"} =>
          Form(src, fn, Append(kids, leaf), << >>, p + 1, m \o TokenShows(kind))
    BY <1>1, <1>2, <1>3
  <2> QED
    BY <1>7, <2>1, DeclarationTodos, AdvanceKeep DEF fn
<1>8. CASE left = << >>
  BY <1>8, AdvanceEnd DEF fn
<1> QED
  BY <1>5, <1>6, <1>7, <1>8 DEF DeclarationForm, fn

\* ... of a return ...
LEMMA ReturnAdvances ==
  ASSUME NEW src, NEW kids, NEW left, NEW p \in Nat, NEW m, ReturnForm(left, m)
  PROVE  Advances(src, "statement_return", kids, left, p, m)
<1> DEFINE fn == "statement_return"
           r  == << "return" >>
<1>1. \A k, l, q : l \in {return_value, << >>} => Form(src, fn, k, l, q, r)
  BY DEF Form, ReturnForm, Optional
<1>2. r \in Words /\ << >> \o r = r /\ r \o << >> = r
  <2>1. r \in Words
    BY DEF Words, Kinds
  <2> HIDE DEF r
  <2> QED
    BY <2>1, JoinNothing
<1> HIDE DEF fn, r
<1>3. CASE left = parse_statement_return /\ m = << >>
  <2>1. m \o TokenShows("return") = r
    BY <1>2, <1>3, TokensShow DEF r
  <2>2. Form(src, fn, kids, return_value, p + 1, m \o TokenShows("return"))
    <3>1. Form(src, fn, kids, return_value, p + 1, r)
      BY <1>1
    <3> QED
      BY ONLY <2>1, <3>1
  <2> QED
    BY <1>3, <2>2, ReturnTodos, AdvanceDrop DEF fn
<1>4. CASE left = return_value /\ m = r
  <2>1. \A n, e : n.fn = "expression" /\ Turned(src, n, e) => Shows(src, n) = << >>
    BY DEF Turned, Formed, Optional
  <2>2. ASSUME NEW n, NEW e, n.fn = "expression", Turned(src, n, e)
        PROVE  Form(src, fn, Append(kids, n), << >>, p + e, m \o Shows(src, n))
    <3>1. Shows(src, n) = << >>
      BY <2>1, <2>2
    <3>2. m \o Shows(src, n) = r
      BY <1>2, <1>4, <3>1
    <3> QED
      BY ONLY <1>1, <3>2
  <2>3. \A e \in Nat : Form(src, fn, kids, << >>, p + e, m)
    BY <1>1, <1>4
  <2> QED
    BY <1>4, <2>2, <2>3, ReturnTodos, AdvanceTry DEF fn
<1>5. CASE left = << >>
  BY <1>5, AdvanceEnd DEF fn
<1> QED
  BY <1>3, <1>4, <1>5 DEF ReturnForm, fn, r

\* ... of a statement ...
LEMMA ScopeAdvances ==
  ASSUME NEW src, NEW kids, IsSeq(kids), NEW left, NEW p \in Nat, NEW m, m \in Words,
         ScopeForm(src, kids, left, m)
  PROVE  Advances(src, "scope_statement", kids, left, p, m)
<1> DEFINE fn == "scope_statement"
<1>1. \A k, l, q : Len(k) = 1 /\ k[1].fn # "return" /\ l \in {scope_close, << >>}
                      => Form(src, fn, k, l, q, Shows(src, k[1]))
  BY DEF Form, ScopeForm, Optional
<1> HIDE DEF fn
<1>2. ASSUME kids = << >>, m = << >>, NEW g, NEW l \in {scope_close, << >>}, Needs(left, g, l),
             g # "return"
      PROVE  Advances(src, fn, kids, left, p, m)
  <2>1. ASSUME NEW n, NEW e, n.fn = g, Turned(src, n, e)
        PROVE  Form(src, fn, Append(kids, n), l, p + e, m \o Shows(src, n))
    <3> DEFINE a == Append(kids, n)
    <3>1. Len(a) = 1 /\ a[1] = n
      BY <1>2, KidAdded
    <3> HIDE DEF a
    <3>2. m \o Shows(src, n) = Shows(src, a[1])
      BY <1>2, <2>1, <3>1, JoinNothing DEF Turned
    <3>3. Form(src, fn, a, l, p + e, Shows(src, a[1]))
      BY <1>1, <1>2, <2>1, <3>1
    <3> QED
      BY <3>2, <3>3 DEF a
  <2> QED
    BY <1>2, <2>1, AdvanceCall
<1>3. CASE kids = << >> /\ m = << >> /\ left \in {scope_return, scope_block, scope_expression}
  <2>1. \E g : \E l \in {scope_close, << >>} : Needs(left, g, l) /\ g # "return"
    BY <1>3, ScopeTodos
  <2> QED
    BY <1>2, <1>3, <2>1 DEF fn
<1>4. CASE Len(kids) = 1 /\ kids[1].fn # "return" /\ left = scope_close /\ m = Shows(src, kids[1])
  <2>1. m \o TokenShows(";") = m
    BY TokensShow, JoinNothing
  <2>2. Form(src, fn, kids, << >>, p + 1, m \o TokenShows(";"))
    BY <1>1, <1>4, <2>1
  <2> QED
    BY <1>4, <2>2, ScopeTodos, AdvanceDrop DEF fn
<1>5. CASE left = << >>
  BY <1>5, AdvanceEnd DEF fn
<1> QED
  BY <1>3, <1>4, <1>5 DEF ScopeForm, fn

\* Kids that come from one function.
LEMMA KidsOfOne ==
  ASSUME NEW kids, IsSeq(kids), NEW g, \A k \in DOMAIN kids : kids[k].fn = g, NEW n, n.fn = g
  PROVE  \A k \in DOMAIN Append(kids, n) : Append(kids, n)[k].fn = g
<1> DEFINE a == Append(kids, n)
<1>1. IsSeq(a) /\ Len(a) = Len(kids) + 1 /\ a[Len(kids) + 1] = n /\ \A k \in 1 .. Len(kids) : a[k] = kids[k]
  BY AppendFacts
<1>2. Len(kids) \in Nat /\ DOMAIN kids = 1 .. Len(kids)
  BY SeqFacts
<1>3. DOMAIN a = 1 .. Len(kids) + 1
  BY <1>1, SeqFacts
<1> HIDE DEF a
<1>4. \A k \in 1 .. Len(kids) + 1 : k = Len(kids) + 1 \/ k \in 1 .. Len(kids)
  BY <1>2
<1>5. \A k \in DOMAIN a : a[k].fn = g
  BY <1>1, <1>2, <1>3, <1>4
<1> QED
  BY <1>5 DEF a

\* ... of a block ...
LEMMA BlockAdvances ==
  ASSUME NEW src, NEW kids, AreNodes(src, kids), NEW left, NEW p \in Nat, NEW m, m \in Words,
         BlockForm(src, kids, left, m)
  PROVE  Advances(src, "block", kids, left, p, m)
<1> DEFINE fn == "block"
           lefts == {parse_block, block_next, block_statement, block_close, << >>}
<1>1. \A k, l, q, w : /\ l \in lefts /\ \A j \in DOMAIN k : k[j].fn = "scope_statement"
                      /\ w = Marked(src, k)
                      => Form(src, fn, k, l, q, w)
  BY DEF Form, BlockForm, Optional
<1>2. m = Marked(src, kids) /\ IsSeq(kids) /\ \A k \in DOMAIN kids : kids[k].fn = "scope_statement"
  BY DEF BlockForm, AreNodes
<1>3. \A l \in lefts : \A q : Form(src, fn, kids, l, q, m)
  BY <1>1, <1>2
<1>4. \A l \in lefts : \A q, kind : kind \in {"{", "}"} => Form(src, fn, kids, l, q, m \o TokenShows(kind))
  BY <1>3, TokensShow, JoinNothing
<1> HIDE DEF fn
<1>5. CASE left = parse_block
  BY <1>4, <1>5, BlockTodos, AdvanceDrop DEF fn
<1>6. CASE left = block_next
  BY <1>3, <1>6, BlockTodos, AdvanceLoop DEF fn
<1>7. CASE left = block_statement
  <2>1. ASSUME NEW n, NEW e, n.fn = "scope_statement", Turned(src, n, e)
        PROVE  Form(src, fn, Append(kids, n), block_next, p + e, m \o Shows(src, n))
    <3> DEFINE a == Append(kids, n)
    <3>1. \A j \in DOMAIN a : a[j].fn = "scope_statement"
      BY <1>2, <2>1, KidsOfOne
    <3>2. m \o Shows(src, n) = Marked(src, a)
      BY <1>2, <2>1, MarkedAppend DEF Turned
    <3> HIDE DEF a
    <3>3. block_next \in lefts
      OBVIOUS
    <3>4. Form(src, fn, a, block_next, p + e, m \o Shows(src, n))
      BY ONLY <1>1, <3>1, <3>2, <3>3
    <3> QED
      BY <3>4 DEF a
  <2> QED
    BY <1>7, <2>1, BlockTodos, AdvanceCall DEF fn
<1>8. CASE left = block_close
  BY <1>4, <1>8, BlockTodos, AdvanceDrop DEF fn
<1>9. CASE left = << >>
  BY <1>9, AdvanceEnd DEF fn
<1> QED
  BY <1>5, <1>6, <1>7, <1>8, <1>9 DEF BlockForm, fn

\* ... of an extern block ...
LEMMA ExternAdvances ==
  ASSUME NEW src, NEW kids, AreNodes(src, kids), NEW left, NEW p \in Nat, NEW m, m \in Words,
         ExternForm(src, kids, left, m)
  PROVE  Advances(src, "extern_block", kids, left, p, m)
<1> DEFINE fn == "extern_block"
           lefts == {parse_extern_block, extern_open, extern_next, extern_header, extern_end,
                     extern_close, << >>}
<1>1. \A k, l, q, w : /\ l \in lefts /\ \A j \in DOMAIN k : k[j].fn = "function_header"
                      /\ w = Marked(src, k)
                      => Form(src, fn, k, l, q, w)
  BY DEF Form, ExternForm, Optional
<1>2. m = Marked(src, kids) /\ IsSeq(kids) /\ \A k \in DOMAIN kids : kids[k].fn = "function_header"
  BY DEF ExternForm, AreNodes
<1>3. \A l \in lefts : \A q : Form(src, fn, kids, l, q, m)
  BY <1>1, <1>2
<1>4. \A l \in lefts : \A q, kind : kind \in {"extern", "{", "}", ";"} =>
        Form(src, fn, kids, l, q, m \o TokenShows(kind))
  BY <1>3, TokensShow, JoinNothing
<1> HIDE DEF fn
<1>5. CASE left = parse_extern_block
  BY <1>4, <1>5, ExternTodos, AdvanceDrop DEF fn
<1>6. CASE left = extern_open
  BY <1>4, <1>6, ExternTodos, AdvanceDrop DEF fn
<1>7. CASE left = extern_next
  BY <1>3, <1>7, ExternTodos, AdvanceLoop DEF fn
<1>8. CASE left = extern_header
  <2>1. ASSUME NEW n, NEW e, n.fn = "function_header", Turned(src, n, e)
        PROVE  Form(src, fn, Append(kids, n), extern_end, p + e, m \o Shows(src, n))
    <3> DEFINE a == Append(kids, n)
    <3>1. \A j \in DOMAIN a : a[j].fn = "function_header"
      BY <1>2, <2>1, KidsOfOne
    <3>2. m \o Shows(src, n) = Marked(src, a)
      BY <1>2, <2>1, MarkedAppend DEF Turned
    <3> HIDE DEF a
    <3>3. extern_end \in lefts
      OBVIOUS
    <3>4. Form(src, fn, a, extern_end, p + e, m \o Shows(src, n))
      BY ONLY <1>1, <3>1, <3>2, <3>3
    <3> QED
      BY <3>4 DEF a
  <2> QED
    BY <1>8, <2>1, ExternTodos, AdvanceCall DEF fn
<1>9. CASE left = extern_end
  BY <1>4, <1>9, ExternTodos, AdvanceDrop DEF fn
<1>10. CASE left = extern_close
  BY <1>4, <1>10, ExternTodos, AdvanceDrop DEF fn
<1>11. CASE left = << >>
  BY <1>11, AdvanceEnd DEF fn
<1> QED
  BY <1>5, <1>6, <1>7, <1>8, <1>9, <1>10, <1>11 DEF ExternForm, fn

\* ... of a definition ...
LEMMA FunctionAdvances ==
  ASSUME NEW src, NEW kids, IsSeq(kids), NEW left, NEW p \in Nat, NEW m, m \in Words,
         FunctionForm(src, kids, left, m)
  PROVE  Advances(src, "function_definition", kids, left, p, m)
<1> DEFINE fn == "function_definition"
<1>1. \A k, l, q, w : FunctionForm(src, k, l, w) => Form(src, fn, k, l, q, w)
  BY DEF Form, Optional
<1> HIDE DEF fn
<1>2. CASE kids = << >> /\ left = parse_function_definition /\ m = << >>
  <2>1. ASSUME NEW n, NEW e, n.fn = "function_header", Turned(src, n, e)
        PROVE  Form(src, fn, Append(kids, n), function_block, p + e, m \o Shows(src, n))
    <3> DEFINE a == Append(kids, n)
    <3>1. Len(a) = 1 /\ a[1] = n
      BY <1>2, KidAdded
    <3>2. m \o Shows(src, n) = Shows(src, n)
      BY <1>2, <2>1, JoinNothing DEF Turned
    <3> HIDE DEF a
    <3>3. FunctionForm(src, a, function_block, m \o Shows(src, n))
      BY <2>1, <3>1, <3>2 DEF FunctionForm
    <3> QED
      BY <1>1, <3>3 DEF a
  <2> QED
    BY <1>2, <2>1, FunctionTodos, AdvanceCall DEF fn
<1>3. CASE /\ Len(kids) = 1 /\ kids[1].fn = "function_header" /\ left = function_block
           /\ m = Shows(src, kids[1])
  <2>1. ASSUME NEW n, NEW e, n.fn = "block", Turned(src, n, e)
        PROVE  Form(src, fn, Append(kids, n), << >>, p + e, m \o Shows(src, n))
    <3> DEFINE a == Append(kids, n)
    <3>0. kids # << >> /\ 1 \in 1 .. 1
      BY <1>3, SeqFacts
    <3>1. Len(a) = 2 /\ a[1] = kids[1] /\ a[2] = n
      <4>1. Len(a) = Len(kids) + 1 /\ a[Len(kids) + 1] = n
        BY AppendFacts
      <4>2. a[1] = kids[1]
        BY <3>0, KidAdded
      <4> HIDE DEF a
      <4> QED
        BY <1>3, <4>1, <4>2
    <3> HIDE DEF a
    <3>3. FunctionForm(src, a, << >>, m \o Shows(src, n))
      BY <1>3, <2>1, <3>1 DEF FunctionForm
    <3> QED
      BY <1>1, <3>3 DEF a
  <2> QED
    BY <1>3, <2>1, FunctionTodos, AdvanceCall DEF fn
<1>4. CASE left = << >>
  BY <1>4, AdvanceEnd DEF fn
<1> QED
  BY <1>2, <1>3, <1>4 DEF FunctionForm, fn

\* ... of a unit statement ...
LEMMA UnitAdvances ==
  ASSUME NEW src, NEW kids, IsSeq(kids), NEW left, NEW p \in Nat, NEW m, m \in Words,
         UnitForm(src, kids, left, m)
  PROVE  Advances(src, "unit_statement", kids, left, p, m)
<1> DEFINE fn == "unit_statement"
<1>1. \A k, l, q, w : UnitForm(src, k, l, w) => Form(src, fn, k, l, q, w)
  BY DEF Form, Optional
<1> HIDE DEF fn
<1>2. ASSUME kids = << >>, m = << >>, NEW g \in {"function_definition", "extern_block"},
             Needs(left, g, << >>)
      PROVE  Advances(src, fn, kids, left, p, m)
  <2>1. ASSUME NEW n, NEW e, n.fn = g, Turned(src, n, e)
        PROVE  Form(src, fn, Append(kids, n), << >>, p + e, m \o Shows(src, n))
    <3> DEFINE a == Append(kids, n)
    <3>1. Len(a) = 1 /\ a[1] = n
      BY <1>2, KidAdded
    <3>2. m \o Shows(src, n) = Shows(src, n)
      BY <1>2, <2>1, JoinNothing DEF Turned
    <3> HIDE DEF a
    <3>3. UnitForm(src, a, << >>, m \o Shows(src, n))
      BY <1>2, <2>1, <3>1, <3>2 DEF UnitForm
    <3> QED
      BY <1>1, <3>3 DEF a
  <2> QED
    BY <1>2, <2>1, AdvanceCall
<1>3. CASE left = << >> \/ Rejects(left)
  BY <1>3, AdvanceEnd
<1> QED
  BY <1>2, <1>3 DEF UnitForm, fn

\* ... of a header ...
LEMMA HeaderAdvances ==
  ASSUME NEW src, NEW kids, IsSeq(kids), NEW left, NEW p \in Nat, NEW m, m \in Words,
         HeaderForm(kids, left, p, m)
  PROVE  Advances(src, "function_header", kids, left, p, m)
<1> DEFINE fn == "function_header"
           w  == << "func" >>
           Fair(k) == Len(k) >= 1 /\ k[1].fn = "token"
           lefts == {header_named, header_open, header_first, header_next, header_comma,
                     header_param, header_close, header_listed, header_minus, header_arrow,
                     header_type}
<1>1. /\ \A k, l, q : Fair(k) /\ l \in lefts /\ Len(k) + 1 <= q => Form(src, fn, k, l, q, w)
      /\ \A k, q : Fair(k) /\ Len(k) <= q => Form(src, fn, k, << >>, q, w)
      /\ \A q : q >= 1 => Form(src, fn, << >>, header_name, q, w)
  BY DEF Form, HeaderForm, Optional
<1>2. w \in Words /\ << >> \o w = w /\ w \o << >> = w
  <2>1. w \in Words
    <3>1. "func" \in Kinds
      BY DEF Kinds
    <3> QED
      BY <3>1, MarksFacts
  <2> HIDE DEF w
  <2> QED
    BY <2>1, JoinNothing
<1>3. Len(kids) \in Nat /\ \A n : Len(Append(kids, n)) = Len(kids) + 1
  BY SeqFacts, KidAdded
<1>4. TokenShows("func") = w
  BY TokensShow
<1> HIDE DEF fn, w
<1>5. CASE kids = << >> /\ left = parse_function_header /\ m = << >>
  <2>1. m \o TokenShows("func") = w
    BY <1>2, <1>4, <1>5
  <2>2. p + 1 >= 1
    OBVIOUS
  <2>3. Form(src, fn, << >>, header_name, p + 1, w)
    BY <1>1, <2>2
  <2>4. Form(src, fn, kids, header_name, p + 1, m \o TokenShows("func"))
    BY ONLY <1>5, <2>1, <2>3
  <2> QED
    BY <1>5, <2>4, HeaderTodos, AdvanceDrop DEF fn
<1>6. CASE kids = << >> /\ left = header_name /\ m = w /\ p >= 1
  <2>1. ASSUME NEW leaf, NEW kind, leaf.fn = "token", kind \in {"identifier"}
        PROVE  Form(src, fn, Append(kids, leaf), header_named, p + 1, m \o TokenShows(kind))
    <3> DEFINE a == Append(kids, leaf)
    <3>1. Len(a) = 1 /\ a[1] = leaf
      BY <1>6, KidAdded
    <3>2. m \o TokenShows(kind) = w
      BY <1>2, <1>6, <2>1, TokensShow
    <3> HIDE DEF a
    <3>3. Fair(a) /\ Len(a) + 1 <= p + 1 /\ header_named \in lefts
      BY <1>6, <2>1, <3>1
    <3>4. Form(src, fn, a, header_named, p + 1, w)
      BY ONLY <1>1, <3>3
    <3> QED
      BY ONLY <3>2, <3>4 DEF a
  <2> QED
    BY <1>6, <2>1, HeaderTodos, AdvanceKeep DEF fn
<1>7. ASSUME Fair(kids), m = w, left \in lefts, Len(kids) + 1 <= p
      PROVE  Advances(src, fn, kids, left, p, m)
  <2>1. \A l \in lefts : Form(src, fn, kids, l, p, m) /\ Form(src, fn, kids, l, p + 1, m)
    <3>1. Len(kids) + 1 <= p + 1
      BY <1>3, <1>7
    <3> HIDE DEF lefts, Fair
    <3> QED
      BY <1>1, <1>7, <3>1
  <2>2. Form(src, fn, kids, << >>, p, m)
    <3>1. Len(kids) <= p
      BY <1>3, <1>7
    <3> HIDE DEF lefts, Fair
    <3> QED
      BY <1>1, <1>7, <3>1
  <2>3. \A l \in lefts : \A kind : kind \in {"(", ",", ")", "-", ">"} =>
          Form(src, fn, kids, l, p + 1, m \o TokenShows(kind))
    <3>1. \A kind : kind \in {"(", ",", ")", "-", ">"} => m \o TokenShows(kind) = m
      BY <1>2, <1>7, TokensShow
    <3> HIDE DEF lefts, Fair
    <3> QED
      BY <2>1, <3>1
  <2>4. ASSUME NEW n, NEW e, n.fn \in {"variable_declaration", "type"}, Turned(src, n, e)
        PROVE  LET a == Append(kids, n)
               IN  /\ n.fn = "variable_declaration" =>
                        Form(src, fn, a, header_next, p + e, m \o Shows(src, n))
                   /\ Form(src, fn, a, << >>, p + e, m \o Shows(src, n))
    <3> DEFINE a == Append(kids, n)
    <3>0. kids # << >>
      BY <1>7, SeqFacts
    <3>1. Len(a) = Len(kids) + 1 /\ a[1] = kids[1]
      BY <3>0, KidAdded
    <3>2. Shows(src, n) = << >>
      BY <2>4 DEF Turned, Formed, Optional
    <3>3. m \o Shows(src, n) = w
      BY <1>2, <1>7, <3>2
    <3> HIDE DEF a
    <3>4. Fair(a)
      BY <1>3, <1>7, <3>1
    <3>5. e \in Nat /\ (n.fn = "variable_declaration" => e >= 1)
      BY <2>4 DEF Turned
    <3>6. Len(a) <= p + e
      BY <1>3, <1>7, <3>1, <3>5
    <3>7. Form(src, fn, a, << >>, p + e, m \o Shows(src, n))
      BY ONLY <1>1, <3>3, <3>4, <3>6
    <3>8. ASSUME n.fn = "variable_declaration"
          PROVE  Form(src, fn, a, header_next, p + e, m \o Shows(src, n))
      <4>1. Len(a) + 1 <= p + e
        BY <1>3, <1>7, <3>1, <3>5, <3>8
      <4>2. header_next \in lefts
        OBVIOUS
      <4> QED
        BY ONLY <1>1, <3>3, <3>4, <4>1, <4>2
    <3> QED
      BY <3>7, <3>8 DEF a
  <2>5. \A l \in lefts, e \in Nat : Form(src, fn, kids, l, p + e, m)
    <3>1. \A e \in Nat : Len(kids) + 1 <= p + e
      BY <1>3, <1>7
    <3> HIDE DEF lefts, Fair
    <3> QED
      BY <1>1, <1>7, <3>1
  <2>6. CASE left \in {header_named, header_next, header_listed}
    <3>1. \A l : l \in lefts \cup {<< >>} => Form(src, fn, kids, l, p, m)
      BY <2>1, <2>2
    <3>2. {header_open, header_listed, header_comma, header_close, header_minus} \subseteq lefts
      OBVIOUS
    <3> HIDE DEF lefts
    <3>3. CASE left = header_named
      BY <3>1, <3>2, <3>3, HeaderTodos, AdvanceLoop DEF fn
    <3>4. CASE left = header_next
      BY <3>1, <3>2, <3>4, HeaderTodos, AdvanceLoop DEF fn
    <3>5. CASE left = header_listed
      BY <3>1, <3>2, <3>5, HeaderTodos, AdvanceLoop DEF fn
    <3> QED
      BY <2>6, <3>3, <3>4, <3>5
  <2>7. CASE left \in {header_open, header_comma, header_close, header_minus, header_arrow}
    <3>2. {header_first, header_param, header_listed, header_arrow, header_type} \subseteq lefts
      OBVIOUS
    <3> HIDE DEF lefts
    <3>3. \E kind, l : kind \in {"(", ",", ")", "-", ">"} /\ l \in lefts /\ Drops(left, kind, l)
      BY <2>7, <3>2, HeaderTodos
    <3> QED
      BY <2>3, <3>3, AdvanceDrop DEF fn
  <2>8. CASE left = header_first
    <3>1. header_close \in lefts
      OBVIOUS
    <3> HIDE DEF lefts
    <3>2. \A e \in Nat : Form(src, fn, kids, header_close, p + e, m)
      BY <2>5, <3>1
    <3>3. \A n, e : n.fn = "variable_declaration" /\ Turned(src, n, e) =>
            Form(src, fn, Append(kids, n), header_next, p + e, m \o Shows(src, n))
      BY <2>4
    <3> QED
      BY <2>8, <3>2, <3>3, HeaderTodos, AdvanceTry DEF fn
  <2>9. CASE left = header_param
    <3>3. \A n, e : n.fn = "variable_declaration" /\ Turned(src, n, e) =>
            Form(src, fn, Append(kids, n), header_next, p + e, m \o Shows(src, n))
      BY <2>4
    <3> QED
      BY <2>9, <3>3, HeaderTodos, AdvanceCall DEF fn
  <2>10. CASE left = header_type
    <3>3. \A n, e : n.fn = "type" /\ Turned(src, n, e) =>
            Form(src, fn, Append(kids, n), << >>, p + e, m \o Shows(src, n))
      BY <2>4
    <3> QED
      BY <2>10, <3>3, HeaderTodos, AdvanceCall DEF fn
  <2> QED
    BY <1>7, <2>6, <2>7, <2>8, <2>9, <2>10
<1>8. CASE left = << >>
  BY <1>8, AdvanceEnd DEF fn
<1> QED
  BY <1>5, <1>6, <1>7, <1>8 DEF HeaderForm, fn, w

\* An optional parse goes on showing nothing.
LEMMA OptionalAdvances ==
  ASSUME NEW src, NEW f, Layered(f), f.fn \in Optional, f.fn # "variable_declaration",
         NEW p \in Nat, NEW m, Form(src, f.fn, f.kids, f.todo, p, m)
  PROVE  Advances(src, f.fn, f.kids, f.todo, p, m)
<1> DEFINE fn   == f.fn
           kids == f.kids
           left == f.todo
           x    == Head(f.todo)
<1>1. /\ fn \notin {"function_header", "statement_return", "scope_statement", "block",
                    "extern_block", "function_definition", "unit_statement"}
      /\ fn # "variable_declaration" /\ fn \in Optional
  BY DEF Optional
<1>2. m = << >>
  BY <1>1 DEF Form
<1> HIDE DEF fn
<1>3. \A k, l, q : Form(src, fn, k, l, q, << >>)
  BY <1>1 DEF Form
<1>4. \A q \in Nat : \A k, l : Form(src, fn, k, l, q, m)
  BY <1>2, <1>3
<1>5. left # << >> =>
        /\ x.op = "token" => x.kinds \subseteq Harmless
        /\ x.op = "call" => x.fn \in Optional
        /\ x.op = "try" => x.fn \in Optional
  BY <1>1, HeadFacts DEF fn
<1>6. << >> \o << >> = << >>
  BY Nothing
<1>7. \A kind \in Harmless : m \o TokenShows(kind) = m
  <2>1. \A kind \in Harmless : TokenShows(kind) = << >>
    BY TokensShow DEF Harmless, Delimiters
  <2> QED
    BY <1>2, <1>6, <2>1
<1>8. \A n, e : n.fn \in Optional /\ Turned(src, n, e) => m \o Shows(src, n) = m
  BY <1>2, <1>6 DEF Turned, Formed
<1> HIDE DEF left, kids, x
<1>9. x = Head(left)
  BY DEF x, left
<1>10. Advances(src, fn, kids, left, p, m)
  <2>1. ASSUME left # << >>, x.op = "token"
        PROVE  \A leaf, kind : leaf.fn = "token" /\ kind \in x.kinds =>
                 Form(src, fn, IF x.keep THEN Append(kids, leaf) ELSE kids, Tail(left), p + 1,
                      m \o TokenShows(kind))
    BY <1>2, <1>3, <1>5, <1>7, <2>1
  <2>2. ASSUME left # << >>, x.op \in {"call", "try"}
        PROVE  \A n, e : n.fn = x.fn /\ Turned(src, n, e) =>
                 Form(src, fn, Append(kids, n), (IF x.op = "try" THEN x.then ELSE << >>) \o Tail(left),
                      p + e, m \o Shows(src, n))
    BY <1>2, <1>3, <1>5, <1>8, <2>2
  <2> QED
    BY <1>2, <1>3, <1>9, <2>1, <2>2 DEF Advances
<1> QED
  BY <1>10 DEF fn, kids, left

\* Every activation goes on rightly.
LEMMA AllAdvances ==
  ASSUME NEW src, NEW f, Layered(f), AreNodes(src, f.kids), NEW p \in Nat, NEW m, m \in Words,
         Form(src, f.fn, f.kids, f.todo, p, m)
  PROVE  Advances(src, f.fn, f.kids, f.todo, p, m)
<1>1. IsSeq(f.kids)
  BY DEF AreNodes
<1>2. CASE f.fn = "variable_declaration"
  BY <1>2, DeclarationAdvances DEF Form
<1>3. CASE f.fn = "statement_return"
  BY <1>3, ReturnAdvances DEF Form
<1>4. CASE f.fn = "scope_statement"
  BY <1>1, <1>4, ScopeAdvances DEF Form
<1>5. CASE f.fn = "block"
  BY <1>1, <1>5, BlockAdvances DEF Form
<1>6. CASE f.fn = "extern_block"
  BY <1>1, <1>6, ExternAdvances DEF Form
<1>7. CASE f.fn = "function_definition"
  BY <1>1, <1>7, FunctionAdvances DEF Form
<1>8. CASE f.fn = "unit_statement"
  BY <1>1, <1>8, UnitAdvances DEF Form
<1>9. CASE f.fn = "function_header"
  BY <1>1, <1>9, HeaderAdvances DEF Form
<1>10. CASE f.fn \in Optional /\ f.fn # "variable_declaration"
  BY <1>10, OptionalAdvances
<1>11. f.fn \in Functions
  BY DEF Layered
<1> QED
  BY <1>2, <1>3, <1>4, <1>5, <1>6, <1>7, <1>8, <1>9, <1>10, <1>11 DEF Functions, Optional

\* An activation starts rightly.
LEMMA StartForm ==
  ASSUME NEW src, NEW fn \in Functions
  PROVE  Form(src, fn, << >>, Body(fn), 0, << >>)
<1>1. CASE fn = "variable_declaration"
  <2>1. parse_variable_declaration # << >>
    BY DeclarationTodos DEF Needs
  <2> QED
    BY <1>1, <2>1 DEF Form, Body, DeclarationForm, Optional
<1>2. CASE fn = "function_header"
  BY <1>2 DEF Form, Body, HeaderForm, Optional
<1>3. CASE fn = "statement_return"
  BY <1>3 DEF Form, Body, ReturnForm, Optional
<1>4. CASE fn = "scope_statement"
  <2>1. \A kind : parse_scope_statement(kind) \in {scope_return, scope_block, scope_expression}
    BY DEF parse_scope_statement, scope_return, scope_block, scope_expression
  <2> QED
    BY <1>4, <2>1 DEF Form, Body, ScopeForm, Optional
<1>5. DOMAIN << >> = {}
  OBVIOUS
<1>6. CASE fn = "block"
  <2>1. BlockForm(src, << >>, parse_block, << >>)
    BY <1>5, MarkedNone DEF BlockForm
  <2> QED
    BY <1>6, <2>1 DEF Form, Body, Optional
<1>7. CASE fn = "extern_block"
  <2>1. ExternForm(src, << >>, parse_extern_block, << >>)
    BY <1>5, MarkedNone DEF ExternForm
  <2> QED
    BY <1>7, <2>1 DEF Form, Body, Optional
<1>8. CASE fn = "function_definition"
  BY <1>8 DEF Form, Body, FunctionForm, Optional
<1>9. CASE fn = "unit_statement"
  <2>1. \A g : Needs(<< Must(g) >>, g, << >>)
    BY Need1
  <2>2. \A kind : \/ Rejects(parse_unit_statement(kind))
                  \/ \E g \in {"function_definition", "extern_block"} :
                       Needs(parse_unit_statement(kind), g, << >>)
    BY <2>1, RejectIs DEF parse_unit_statement
  <2>3. \E kind : Body(fn) = parse_unit_statement(kind)
    BY <1>9 DEF Body
  <2>4. UnitForm(src, << >>, Body(fn), << >>)
    BY <2>2, <2>3 DEF UnitForm
  <2> QED
    BY <1>9, <2>4 DEF Form, Optional
<1>10. CASE fn \in Optional /\ fn # "variable_declaration"
  BY <1>10 DEF Form, Optional
<1> QED
  BY <1>1, <1>2, <1>3, <1>4, <1>6, <1>7, <1>8, <1>9, <1>10 DEF Functions, Optional

\* No control point but the last of a body is its end.
LEMMA NotTheEnd ==
  /\ parse_function_header # << >> /\ header_name # << >> /\ header_named # << >>
  /\ header_open # << >> /\ header_first # << >> /\ header_next # << >> /\ header_comma # << >>
  /\ header_param # << >> /\ header_close # << >> /\ header_listed # << >> /\ header_minus # << >>
  /\ header_arrow # << >> /\ header_type # << >>
  /\ parse_statement_return # << >> /\ scope_return # << >> /\ scope_block # << >>
  /\ scope_expression # << >> /\ parse_function_definition # << >> /\ function_block # << >>
BY HeaderTodos, ReturnTodos, ScopeTodos, FunctionTodos DEF Needs, Drops, Keeps, MayCall, Repeats, Branches

\* What has returned is formed.
LEMMA EndForm ==
  ASSUME NEW src, NEW f, f.fn \in Functions, IsSeq(f.kids),
         \A k \in DOMAIN f.kids : Formed(src, f.kids[k]), f.todo = << >>, NEW p \in Nat, NEW m,
         Form(src, f.fn, f.kids, f.todo, p, m), p <= Len(src), Len(src) \in Nat,
         NEW n, n.fn = f.fn, n.kids = f.kids, Shows(src, n) = m
  PROVE  Formed(src, n) /\ (n.fn = "variable_declaration" => p >= 1)
<1>1. Len(f.kids) \in Nat /\ DOMAIN f.kids = 1 .. Len(f.kids)
  BY SeqFacts
<1>2. f.fn = "variable_declaration" => p >= 1
  BY DEF Form, DeclarationForm
<1>3. f.fn = "function_header" => Headed(src, n)
  <2> SUFFICES ASSUME f.fn = "function_header" PROVE Headed(src, n)
    OBVIOUS
  <2>1. HeaderForm(f.kids, << >>, p, m)
    BY DEF Form
  <2>2. Len(f.kids) >= 1 /\ f.kids[1].fn = "token" /\ m = << "func" >> /\ Len(f.kids) <= p
    BY <1>1, <2>1, NotTheEnd DEF HeaderForm
  <2>3. Len(f.kids) \in 1 .. Len(src)
    BY <1>1, <2>2
  <2> QED
    BY <2>2, <2>3 DEF Headed
<1>4. f.fn = "statement_return" => Shows(src, n) = << "return" >>
  BY NotTheEnd DEF Form, ReturnForm
<1>5. f.fn = "scope_statement" => Scoped(src, n)
  <2> SUFFICES ASSUME f.fn = "scope_statement" PROVE Scoped(src, n)
    OBVIOUS
  <2>1. ScopeForm(src, f.kids, << >>, m)
    BY DEF Form
  <2>2. Len(f.kids) = 1 /\ f.kids[1].fn # "return" /\ m = Shows(src, f.kids[1])
    BY <2>1, NotTheEnd DEF ScopeForm
  <2>3. Formed(src, f.kids[1])
    BY <1>1, <2>2
  <2> QED
    BY <2>2, <2>3 DEF Scoped, Formed
<1>6. f.fn = "block" => Blocked(src, n)
  BY DEF Form, BlockForm, Blocked, Formed
<1>7. f.fn = "extern_block" => Externed(src, n)
  BY DEF Form, ExternForm, Externed, Formed
<1>8. f.fn = "function_definition" => Defined(src, n)
  <2> SUFFICES ASSUME f.fn = "function_definition" PROVE Defined(src, n)
    OBVIOUS
  <2>1. FunctionForm(src, f.kids, << >>, m)
    BY DEF Form
  <2>2. /\ Len(f.kids) = 2 /\ f.kids[1].fn = "function_header" /\ f.kids[2].fn = "block"
        /\ m = Shows(src, f.kids[1]) \o Shows(src, f.kids[2])
    BY <2>1, NotTheEnd DEF FunctionForm
  <2>3. Formed(src, f.kids[1]) /\ Formed(src, f.kids[2])
    BY <1>1, <2>2
  <2>4. Headed(src, f.kids[1]) /\ Blocked(src, f.kids[2])
    BY <2>2, <2>3 DEF Formed
  <2> QED
    BY <2>2, <2>4 DEF Defined, Headed
<1>9. f.fn = "unit_statement" => Stated(src, n)
  <2> SUFFICES ASSUME f.fn = "unit_statement" PROVE Stated(src, n)
    OBVIOUS
  <2>1. UnitForm(src, f.kids, << >>, m)
    BY DEF Form
  <2>2. /\ Len(f.kids) = 1 /\ f.kids[1].fn \in {"function_definition", "extern_block"}
        /\ m = Shows(src, f.kids[1])
    BY <2>1 DEF UnitForm, Rejects, Needs
  <2>3. Formed(src, f.kids[1])
    BY <1>1, <2>2
  <2> QED
    BY <2>2, <2>3 DEF Stated, Formed
<1>10. f.fn \in Optional => Shows(src, n) = << >>
  BY DEF Form
<1> QED
  BY <1>2, <1>3, <1>4, <1>5, <1>6, <1>7, <1>8, <1>9, <1>10 DEF Formed

\* What is joined to the same text for the same result is the same.
LEMMA JoinedSame ==
  ASSUME NEW x \in Words, NEW y \in Words, NEW z \in Words, x \o y = x \o z
  PROVE  y = z
<1>1. /\ Len(x) \in Nat /\ Len(y) \in Nat /\ Len(z) \in Nat
      /\ Len(x \o y) = Len(x) + Len(y) /\ Len(x \o z) = Len(x) + Len(z)
  BY JoinType
<1>2. Len(y) = Len(z)
  BY <1>1
<1>3. ASSUME NEW k \in 1 .. Len(y)
      PROVE  y[k] = z[k]
  <2>1. (x \o y)[Len(x) + k] = y[k]
    BY DEF Words
  <2>2. (x \o z)[Len(x) + k] = z[k]
    BY <1>2 DEF Words
  <2> QED
    BY <2>1, <2>2
<1> QED
  BY <1>2, <1>3, WordsEqual

\* A frame that has read the tokens up to q has formed kids, is at a control point, and
\* what it has consumed shows what the tokens it has kept do.
Bears(src, d, f, q) ==
  /\ \A k \in DOMAIN f.kids : Formed(src, f.kids[k])
  /\ \E m \in Words : /\ Form(src, f.fn, f.kids, f.todo, q - f.start, m)
                      /\ Marks(KeptTo(src, d, f.start - 1)) \o m = Marks(KeptTo(src, d, q - 1))

\* What it does next.
LEMMA BearsAdvances ==
  ASSUME NEW src \in Words, NEW d, NEW f, Layered(f), NEW q \in 1 .. Len(src), f.start \in 1 .. q,
         AreNodes(src, f.kids), Bears(src, d, f, q)
  PROVE  \E m \in Words :
           /\ Form(src, f.fn, f.kids, f.todo, q - f.start, m)
           /\ Marks(KeptTo(src, d, f.start - 1)) \o m = Marks(KeptTo(src, d, q - 1))
           /\ Advances(src, f.fn, f.kids, f.todo, q - f.start, m)
<1>1. q - f.start \in Nat
  <2>1. Len(src) \in Nat
    BY DEF Words
  <2> QED
    BY <2>1
<1>2. PICK m \in Words : /\ Form(src, f.fn, f.kids, f.todo, q - f.start, m)
                         /\ Marks(KeptTo(src, d, f.start - 1)) \o m = Marks(KeptTo(src, d, q - 1))
  BY DEF Bears
<1>3. Advances(src, f.fn, f.kids, f.todo, q - f.start, m)
  BY <1>1, <1>2, AllAdvances
<1> QED
  BY <1>2, <1>3

\* What the kept tokens before a place show is a text.
LEMMA KeptShow ==
  ASSUME NEW src \in Words, NEW d, NEW a \in 1 .. Len(src)
  PROVE  Marks(KeptTo(src, d, a - 1)) \in Words
BY KeptUpTo, MarksFacts

\* A token is taken.
LEMMA TokenBorne ==
  ASSUME NEW src \in Words, NEW d, NEW f, Layered(f), NEW q \in 1 .. Len(src), f.start \in 1 .. q,
         AreNodes(src, f.kids), Bears(src, d, f, q), q \notin d,
         f.todo # << >>, Head(f.todo).op = "token", src[q] \in Head(f.todo).kinds,
         NEW g, g.fn = f.fn, g.start = f.start, g.todo = Tail(f.todo),
         g.kids = IF Head(f.todo).keep THEN Append(f.kids, Leaf(q)) ELSE f.kids
  PROVE  Bears(src, d, g, q + 1)
<1>1. PICK m \in Words :
        /\ Marks(KeptTo(src, d, f.start - 1)) \o m = Marks(KeptTo(src, d, q - 1))
        /\ Advances(src, f.fn, f.kids, f.todo, q - f.start, m)
  BY BearsAdvances
<1>2. src[q] \in Kinds /\ q \in Nat /\ q - 1 \in Nat /\ q - 1 + 1 = q /\ q + 1 - 1 = q
      /\ q <= Len(src) /\ Len(src) \in Nat /\ f.start \in Nat /\ (q - f.start) + 1 = (q + 1) - g.start
  BY DEF Words
<1> DEFINE y == TokenShows(src[q])
           a == Marks(KeptTo(src, d, f.start - 1))
           b == Marks(KeptTo(src, d, q - 1))
<1>3. Leaf(q).fn = "token"
  BY DEF Leaf
<1>4. Form(src, g.fn, g.kids, g.todo, (q - f.start) + 1, m \o y)
  BY <1>1, <1>3 DEF Advances
<1>5. y \in Words /\ Marks(<< src[q] >>) = y /\ << src[q] >> \in Words
  BY <1>2, MarksFacts
<1>6. a \in Words /\ b \in Words
  <2>1. f.start \in 1 .. Len(src)
    BY <1>2
  <2> QED
    BY <2>1, KeptShow
<1>7. Marks(KeptTo(src, d, q)) = b \o y
  <2> DEFINE k == << src[q] >>
  <2>1. KeptTo(src, d, q) = KeptTo(src, d, q - 1) \o k
    <3> DEFINE n == q - 1
    <3>1. n \in Nat /\ n + 1 = q /\ n + 1 <= Len(src) /\ n + 1 \notin d
      BY <1>2
    <3> HIDE DEF n
    <3>2. KeptTo(src, d, n + 1) = KeptTo(src, d, n) \o << src[n + 1] >>
      BY ONLY src \in Words, <3>1, KeptNext
    <3> QED
      BY <3>1, <3>2 DEF n
  <2>2. KeptTo(src, d, q - 1) \in Words /\ k \in Words
    BY <1>5, KeptUpTo
  <2> HIDE DEF k, y
  <2>3. Marks(KeptTo(src, d, q - 1) \o k) = Marks(KeptTo(src, d, q - 1)) \o Marks(k)
    BY <2>2, MarksFacts
  <2> QED
    BY <1>5, <2>1, <2>3 DEF k
<1>8. a \o (m \o y) = b \o y
  <2> HIDE DEF a, b, y
  <2>1. a \o m = b
    BY <1>1 DEF a, b
  <2>2. (a \o m) \o y = a \o (m \o y)
    BY <1>5, <1>6, JoinAssoc, ZenonT(40)
  <2> QED
    BY <2>1, <2>2
<1>9. m \o y \in Words
  <2> HIDE DEF y
  <2> QED
    BY <1>5, JoinType
<1>10. \A k \in DOMAIN g.kids : Formed(src, g.kids[k])
  <2>1. \A k \in DOMAIN f.kids : Formed(src, f.kids[k])
    BY DEF Bears
  <2>2. Formed(src, Leaf(q))
    BY <1>3 DEF Formed, Optional
  <2>3. IsNode(src, Leaf(q))
    BY LeafFacts
  <2> DEFINE l == Leaf(q)
             ks == Append(f.kids, l)
  <2>0. IsNode(src, l)
    BY <2>3
  <2>5. g.kids = IF Head(f.todo).keep THEN ks ELSE f.kids
    OBVIOUS
  <2> HIDE DEF l
  <2>4. \A k \in DOMAIN ks : ks[k] = l \/ (k \in DOMAIN f.kids /\ ks[k] = f.kids[k])
    BY <2>0, NodesAppend
  <2> HIDE DEF ks
  <2>6. Formed(src, l)
    BY <2>2 DEF l
  <2> QED
    BY <2>1, <2>4, <2>5, <2>6
<1> DEFINE u == m \o y
<1> HIDE DEF y
<1>11. u \in Words /\ Form(src, g.fn, g.kids, g.todo, (q + 1) - g.start, u)
  BY <1>2, <1>4, <1>9
<1>12. Marks(KeptTo(src, d, g.start - 1)) \o u = Marks(KeptTo(src, d, (q + 1) - 1))
  <2>1. (q + 1) - 1 = q /\ g.start = f.start
    BY <1>2
  <2>2. Marks(KeptTo(src, d, f.start - 1)) \o u = Marks(KeptTo(src, d, q))
    BY <1>7, <1>8
  <2> HIDE DEF u
  <2> QED
    BY ONLY <2>1, <2>2
<1> HIDE DEF u
<1> QED
  BY <1>10, <1>11, <1>12 DEF Bears

\* A branch or a loop is taken, or not.
LEMMA BranchBorne ==
  ASSUME NEW src \in Words, NEW d, NEW f, Layered(f), NEW q \in 1 .. Len(src), f.start \in 1 .. q,
         AreNodes(src, f.kids), Bears(src, d, f, q),
         f.todo # << >>, Head(f.todo).op \in {"when", "while"},
         NEW g, g.fn = f.fn, g.start = f.start, g.kids = f.kids,
         g.todo = IF src[q] \in Head(f.todo).kinds
                  THEN Head(f.todo).then
                         \o (IF Head(f.todo).op = "while" THEN f.todo ELSE Tail(f.todo))
                  ELSE Tail(f.todo)
  PROVE  Bears(src, d, g, q)
<1>1. PICK m \in Words :
        /\ Marks(KeptTo(src, d, f.start - 1)) \o m = Marks(KeptTo(src, d, q - 1))
        /\ Advances(src, f.fn, f.kids, f.todo, q - f.start, m)
  BY BearsAdvances
<1> DEFINE b == src[q] \in Head(f.todo).kinds
<1>2. b \in BOOLEAN /\ g.todo = IF b THEN Head(f.todo).then
                         \o (IF Head(f.todo).op = "while" THEN f.todo ELSE Tail(f.todo))
                  ELSE Tail(f.todo)
  OBVIOUS
<1> HIDE DEF b
<1>3. Form(src, g.fn, g.kids, g.todo, q - g.start, m)
  BY <1>1, <1>2 DEF Advances
<1>4. \A k \in DOMAIN g.kids : Formed(src, g.kids[k])
  BY DEF Bears
<1> QED
  BY <1>1, <1>3, <1>4 DEF Bears

\* A function has been called.
LEMMA FrameBorne ==
  ASSUME NEW src \in Words, NEW d, NEW fn \in Functions, NEW required, c \in 1 .. Len(src)
  PROVE  Bears(src, d, Frame(fn, required), c)
<1> DEFINE f == Frame(fn, required)
<1>1. f.fn = fn /\ f.start = c /\ f.kids = << >> /\ f.todo = Body(fn)
  BY DEF Frame
<1> HIDE DEF f
<1>2. DOMAIN f.kids = {}
  BY <1>1
<1>3. c - f.start = 0
  BY <1>1
<1>4. Form(src, f.fn, f.kids, f.todo, c - f.start, << >>)
  BY <1>1, <1>3, StartForm
<1>5. << >> \in Words
  BY DEF Words
<1>6. Marks(KeptTo(src, d, f.start - 1)) \o << >> = Marks(KeptTo(src, d, c - 1))
  <2>1. Marks(KeptTo(src, d, c - 1)) \in Words
    BY KeptShow
  <2> QED
    BY <1>1, <2>1, JoinNothing
<1> QED
  BY <1>2, <1>4, <1>5, <1>6 DEF Bears, f

\* A function that has returned true has a formed node.
LEMMA NodeFormed ==
  ASSUME NEW src \in Words, NEW d, NEW f, Layered(f), NEW q \in 1 .. Len(src), f.start \in 1 .. q,
         Begun(src, d, f, q), Bears(src, d, f, q), f.todo = << >>
  PROVE  /\ Turned(src, Node(f), q - f.start) /\ IsNode(src, Node(f)) /\ Node(f).fn = f.fn
         /\ Marks(KeptTo(src, d, f.start - 1)) \o Shows(src, Node(f)) = Marks(KeptTo(src, d, q - 1))
<1> DEFINE n == Node(f)
           w == Written(src, n)
           a == Marks(KeptTo(src, d, f.start - 1))
           b == Marks(KeptTo(src, d, q - 1))
           e == q - f.start
<1>0. f.fn \in Functions
  BY DEF Layered
<1>1. /\ IsNode(src, n) /\ w \in Words
      /\ KeptTo(src, d, f.start - 1) \o w = KeptTo(src, d, q - 1)
      /\ n.fn = f.fn
  BY <1>0, NodeMade
<1>2. n.kids = f.kids
  BY DEF Node
<1> HIDE DEF n, w
<1>3. PICK m \in Words : Form(src, f.fn, f.kids, f.todo, e, m) /\ a \o m = b
  BY DEF Bears
<1>4. Len(src) \in Nat /\ f.start \in 1 .. Len(src) /\ e \in Nat /\ e <= Len(src)
  <2>1. Len(src) \in Nat
    BY DEF Words
  <2> QED
    BY <2>1
<1>5. a \in Words /\ b \in Words
  BY <1>4, KeptShow
<1>6. a \o Marks(w) = b /\ Marks(w) \in Words
  <2>1. KeptTo(src, d, f.start - 1) \in Words
    BY <1>4, KeptUpTo
  <2> DEFINE v == KeptTo(src, d, f.start - 1)
  <2>2. v \in Words
    BY <2>1
  <2> HIDE DEF v
  <2>3. Marks(v \o w) = Marks(v) \o Marks(w) /\ Marks(w) \in Words
    BY <1>1, <2>2, MarksFacts
  <2> QED
    BY <1>1, <2>3 DEF v
<1> HIDE DEF a, b, e
<1>7. Shows(src, n) = m /\ Shows(src, n) \in Words /\ a \o Shows(src, n) = b
  <2>1. Marks(w) = m
    BY <1>3, <1>5, <1>6, JoinedSame
  <2> QED
    BY <1>6, <2>1 DEF Shows, w
<1>8. IsSeq(f.kids) /\ \A k \in DOMAIN f.kids : Formed(src, f.kids[k])
  BY DEF Bears, Begun, KidsOf, AreNodes
<1>9. Formed(src, n) /\ (n.fn = "variable_declaration" => e >= 1)
  BY <1>0, <1>1, <1>2, <1>3, <1>4, <1>7, <1>8, EndForm
<1> QED
  BY <1>1, <1>4, <1>7, <1>9 DEF Turned, n, a, b, e

\* The caller takes the node.
LEMMA NodeBorne ==
  ASSUME NEW src \in Words, NEW d, NEW f, NEW g, Layered(f), Layered(g),
         NEW q \in 1 .. Len(src), g.start \in 1 .. q, f.start \in 1 .. g.start,
         AreNodes(src, f.kids), Bears(src, d, f, g.start), g.fn = Head(f.todo).fn,
         Begun(src, d, g, q), Bears(src, d, g, q), g.todo = << >>,
         f.todo # << >>, Head(f.todo).op \in {"call", "try"},
         NEW h, h.fn = f.fn, h.start = f.start, h.kids = Append(f.kids, Node(g)),
         h.todo = (IF Head(f.todo).op = "try" THEN Head(f.todo).then ELSE << >>) \o Tail(f.todo)
  PROVE  Bears(src, d, h, q)
<1>1. g.start \in 1 .. Len(src) /\ f.start \in 1 .. Len(src)
  BY DEF Words
<1>2. PICK m \in Words :
        /\ Marks(KeptTo(src, d, f.start - 1)) \o m = Marks(KeptTo(src, d, g.start - 1))
        /\ Advances(src, f.fn, f.kids, f.todo, g.start - f.start, m)
  BY <1>1, BearsAdvances
<1> DEFINE n == Node(g)
           y == Shows(src, n)
           e == q - g.start
           p == g.start - f.start
<1>3. /\ Turned(src, n, e) /\ IsNode(src, n) /\ n.fn = g.fn
      /\ Marks(KeptTo(src, d, g.start - 1)) \o y = Marks(KeptTo(src, d, q - 1))
  BY NodeFormed
<1> HIDE DEF n, y, e
<1>4. Form(src, h.fn, h.kids, h.todo, p + e, m \o y)
  <2>1. Form(src, f.fn, Append(f.kids, n),
             (IF Head(f.todo).op = "try" THEN Head(f.todo).then ELSE << >>) \o Tail(f.todo),
             p + e, m \o y)
    <3> HIDE DEF p
    <3> QED
      BY <1>2, <1>3 DEF Advances, y, p
  <2> QED
    BY <2>1 DEF n
<1>5. p + e = q - h.start
  BY <1>1 DEF e
<1>6. y \in Words
  BY <1>3 DEF Turned, y
<1>7. m \o y \in Words
  BY <1>6, JoinType
<1>8. Marks(KeptTo(src, d, h.start - 1)) \o (m \o y) = Marks(KeptTo(src, d, q - 1))
  <2> DEFINE a == Marks(KeptTo(src, d, f.start - 1))
  <2>1. a \in Words /\ a \o m = Marks(KeptTo(src, d, g.start - 1))
    BY <1>1, <1>2, KeptShow
  <2> HIDE DEF a
  <2>2. (a \o m) \o y = a \o (m \o y)
    BY <1>6, <2>1, JoinAssoc
  <2> QED
    BY <1>3, <2>1, <2>2 DEF a
<1>9. \A k \in DOMAIN h.kids : Formed(src, h.kids[k])
  <2>1. \A k \in DOMAIN f.kids : Formed(src, f.kids[k])
    BY DEF Bears
  <2>2. Formed(src, n)
    BY <1>3 DEF Turned
  <2> DEFINE x == f.kids
             ks == Append(x, n)
  <2>3. AreNodes(src, x) /\ IsNode(src, n)
    BY <1>3
  <2> HIDE DEF x
  <2>4. \A k \in DOMAIN ks : ks[k] = n \/ (k \in DOMAIN x /\ ks[k] = x[k])
    BY ONLY <2>3, NodesAppend
  <2> HIDE DEF ks
  <2>5. h.kids = ks
    BY DEF ks, x, n
  <2> QED
    BY <2>1, <2>2, <2>4, <2>5 DEF x
<1> QED
  BY <1>4, <1>5, <1>7, <1>8, <1>9 DEF Bears

\* What is dropped behind a frame does not matter to it.
LEMMA BorneDrop ==
  ASSUME NEW src \in Words, NEW d, NEW a \in Nat, NEW b, NEW f, NEW q \in 1 .. a,
         f.start \in 1 .. q, Bears(src, d, f, q)
  PROVE  Bears(src, d \cup (a .. b), f, q)
<1> DEFINE e == d \cup (a .. b)
<1>1. ASSUME NEW n \in 0 .. a - 1
      PROVE  KeptTo(src, d, n) = KeptTo(src, e, n)
  <2>1. \A k \in 1 .. n : k \in d <=> k \in e
    OBVIOUS
  <2> HIDE DEF e
  <2> QED
    BY <2>1, KeptSame
<1>2. f.start - 1 \in 0 .. a - 1 /\ q - 1 \in 0 .. a - 1
  OBVIOUS
<1>3. KeptTo(src, d, f.start - 1) = KeptTo(src, e, f.start - 1)
      /\ KeptTo(src, d, q - 1) = KeptTo(src, e, q - 1)
  BY <1>1, <1>2
<1> HIDE DEF e
<1> QED
  BY <1>3 DEF Bears, e

\* An optional callee has returned false, and what it has read is dropped.
LEMMA NothingBorne ==
  ASSUME NEW src \in Words, NEW d, NEW f, Layered(f), NEW a \in 1 .. Len(src),
         f.start \in 1 .. a, AreNodes(src, f.kids), Bears(src, d, f, a),
         f.todo # << >>, Head(f.todo).op = "try", NEW q \in a .. Len(src),
         NEW h, h.fn = f.fn, h.start = f.start, h.kids = f.kids, h.todo = Tail(f.todo)
  PROVE  Bears(src, d \cup (a .. (q - 1)), h, q)
<1> DEFINE e == d \cup (a .. (q - 1))
<1>1. a \in Nat /\ a \in 1 .. a /\ a - 1 \in Nat /\ q - 1 \in Nat /\ a - 1 <= q - 1 /\ q - 1 <= Len(src)
      /\ a - 1 + 1 = a /\ Len(src) \in Nat
  BY DEF Words
<1>2. Bears(src, e, f, a)
  BY <1>1, BorneDrop
<1>3. KeptTo(src, e, q - 1) = KeptTo(src, e, a - 1)
  <2> DEFINE m == a - 1
             n == q - 1
  <2>1. m \in Nat /\ n \in Nat /\ m <= n /\ n <= Len(src) /\ \A k \in m + 1 .. n : k \in e
    BY <1>1
  <2> HIDE DEF m, n, e
  <2>2. KeptTo(src, e, n) = KeptTo(src, e, m)
    BY <2>1, KeptDropped
  <2> QED
    BY <2>2 DEF m, n
<1> HIDE DEF e
<1>4. PICK m \in Words :
        /\ Marks(KeptTo(src, e, f.start - 1)) \o m = Marks(KeptTo(src, e, a - 1))
        /\ Advances(src, f.fn, f.kids, f.todo, a - f.start, m)
  BY <1>2, BearsAdvances
<1>5. q - a \in Nat /\ (a - f.start) + (q - a) = q - h.start
  BY <1>1
<1>6. Form(src, h.fn, h.kids, h.todo, q - h.start, m)
  <2>1. \A x \in Nat : Form(src, f.fn, f.kids, Tail(f.todo), (a - f.start) + x, m)
    BY <1>4 DEF Advances
  <2> QED
    BY <1>5, <2>1
<1>7. \A k \in DOMAIN h.kids : Formed(src, h.kids[k])
  BY DEF Bears
<1>8. Marks(KeptTo(src, e, h.start - 1)) \o m = Marks(KeptTo(src, e, q - 1))
  BY <1>3, <1>4
<1>9. Bears(src, e, h, q)
  BY <1>6, <1>7, <1>8 DEF Bears
<1> QED
  BY <1>9 DEF e

\* The frames that wait are at control points, where the next one began.
Borne(src, d, t) == \A n \in 1 .. Len(t) - 1 : Bears(src, d, t[n], t[n + 1].start)

\* The form of what the parser has built.
FormInv ==
  /\ Borne(tokens, dropped, stack)
  /\ mode = "parse" => Bears(tokens, dropped, top, c)
  /\ stack # << >> => stack[1].fn = "unit_statement"
  /\ success => \A k \in DOMAIN unit : Formed(tokens, unit[k]) /\ unit[k].fn = "unit_statement"

\* The frames that wait stay where they are when the top one moves on ...
LEMMA BorneReplace ==
  ASSUME NEW src, NEW d, NEW t, IsSeq(t), t # << >>, Borne(src, d, t),
         NEW f, f.start = t[Len(t)].start
  PROVE  Borne(src, d, Replace(t, f))
<1> DEFINE r == Replace(t, f)
           m == Len(t)
<1>1. Len(r) = m /\ r[m] = f /\ \A n \in 1 .. m - 1 : r[n] = t[n]
  BY ReplaceFacts
<1>2. m \in Nat
  BY SeqFacts
<1> HIDE DEF r
<1> SUFFICES ASSUME NEW n \in 1 .. m - 1
             PROVE  Bears(src, d, r[n], r[n + 1].start)
  BY <1>1 DEF Borne, r
<1>3. n + 1 = m \/ n + 1 \in 1 .. m - 1
  BY <1>2
<1>4. r[n] = t[n] /\ r[n + 1].start = t[n + 1].start
  BY <1>1, <1>3
<1> QED
  BY <1>4 DEF Borne

\* ... when it calls ...
LEMMA BornePush ==
  ASSUME NEW src, NEW d, NEW t, IsSeq(t), t # << >>, Borne(src, d, t),
         NEW f, Bears(src, d, t[Len(t)], f.start)
  PROVE  Borne(src, d, Append(t, f))
<1> DEFINE r == Append(t, f)
           m == Len(t)
<1>1. Len(r) = m + 1 /\ r[m + 1] = f /\ \A n \in 1 .. m : r[n] = t[n]
  BY AppendFacts
<1>2. m \in Nat
  BY SeqFacts
<1> HIDE DEF r
<1> SUFFICES ASSUME NEW n \in 1 .. m
             PROVE  Bears(src, d, r[n], r[n + 1].start)
  BY <1>1, <1>2 DEF Borne, r
<1>3. CASE n = m
  BY <1>1, <1>3
<1>4. CASE n # m
  <2> HIDE DEF m
  <2>1. n \in 1 .. m - 1 /\ n + 1 \in 1 .. m
    BY <1>2, <1>4
  <2> QED
    BY <1>1, <2>1 DEF Borne, m
<1> QED
  BY <1>3, <1>4

\* ... when it returns ...
LEMMA BornePop ==
  ASSUME NEW src, NEW d, NEW t, IsSeq(t), Len(t) > 1, Borne(src, d, t)
  PROVE  Borne(src, d, Popped(t)) /\ Bears(src, d, t[Len(t) - 1], t[Len(t)].start)
<1> DEFINE r == Popped(t)
           m == Len(t)
<1>1. Len(r) = m - 1 /\ \A n \in 1 .. m - 1 : r[n] = t[n]
  BY PopFacts DEF Popped
<1>2. m \in Nat /\ m > 1
  BY SeqFacts
<1> HIDE DEF r
<1>3. ASSUME NEW n \in 1 .. (m - 1) - 1
      PROVE  Bears(src, d, r[n], r[n + 1].start)
  <2> HIDE DEF m
  <2>1. n \in 1 .. m - 1 /\ n + 1 \in 1 .. m - 1
    BY <1>2
  <2> QED
    BY <1>1, <2>1 DEF Borne, m
<1>4. m - 1 \in 1 .. m - 1 /\ (m - 1) + 1 = m
  <2> HIDE DEF m
  <2> QED
    BY <1>2
<1>5. Bears(src, d, t[m - 1], t[(m - 1) + 1].start)
  BY <1>4 DEF Borne
<1> QED
  BY <1>1, <1>3, <1>4, <1>5 DEF Borne, r

\* ... and when tokens are dropped behind them all.
LEMMA BorneDropped ==
  ASSUME NEW src \in Words, NEW d, NEW t, IsSeq(t), Borne(src, d, t), NEW a \in Nat, NEW b,
         \A n \in 1 .. Len(t) : t[n].start \in 1 .. a,
         \A j, k \in 1 .. Len(t) : j <= k => t[j].start <= t[k].start
  PROVE  Borne(src, d \cup (a .. b), t)
<1> DEFINE e == d \cup (a .. b)
<1>1. Len(t) \in Nat
  BY SeqFacts
<1>2. ASSUME NEW n \in 1 .. Len(t) - 1
      PROVE  Bears(src, e, t[n], t[n + 1].start)
  <2>1. n \in 1 .. Len(t) /\ n + 1 \in 1 .. Len(t) /\ n <= n + 1
    BY <1>1
  <2>2. Bears(src, d, t[n], t[n + 1].start)
    BY DEF Borne
  <2>3. t[n + 1].start \in 1 .. a /\ t[n].start \in 1 .. t[n + 1].start
    <3>1. t[n].start \in 1 .. a /\ t[n + 1].start \in 1 .. a /\ t[n].start <= t[n + 1].start
      BY <2>1
    <3> QED
      BY <3>1
  <2> QED
    BY <2>2, <2>3, BorneDrop
<1> HIDE DEF e
<1> QED
  BY <1>2 DEF Borne, e

\* The first frame is the only one, or one below the top.
LEMMA FirstOrBefore ==
  ASSUME NEW t, IsSeq(t), t # << >>
  PROVE  Len(t) = 1 \/ 1 \in 1 .. Len(t) - 1
<1> DEFINE m == Len(t)
<1>1. m \in Nat /\ m > 0
  BY SeqFacts
<1> HIDE DEF m
<1>2. m = 1 \/ 1 \in 1 .. m - 1
  BY <1>1
<1> QED
  BY <1>2 DEF m

\* FormInv holds at the start.
LEMMA InitForm ==
  ASSUME Init
  PROVE  FormInv
<1>1. stack = << >> /\ mode = "unit" /\ unit = << >>
  BY DEF Init
<1>2. Len(<< >>) = 0 /\ DOMAIN << >> = {}
  OBVIOUS
<1> QED
  BY <1>1, <1>2 DEF FormInv, Borne

\* What a step of a frame starts from.
LEMMA TopForm ==
  ASSUME IInv, TextInv, FormInv, mode \in {"parse", "fail"}
  PROVE  /\ tokens \in Words /\ c \in 1 .. Len(tokens) /\ c \in Nat /\ c \notin dropped
         /\ stack # << >> /\ IsSeq(stack) /\ IsFrame(top) /\ Layered(top) /\ top.start \in 1 .. c
         /\ Borne(tokens, dropped, stack)
         /\ mode = "parse" => /\ AreNodes(tokens, top.kids) /\ Begun(tokens, dropped, top, c)
                              /\ Bears(tokens, dropped, top, c)
<1>1. /\ tokens \in Words /\ c \in 1 .. Len(tokens) /\ c \in Nat /\ c \notin dropped
      /\ stack # << >> /\ IsSeq(stack) /\ IsFrame(top) /\ top.start \in 1 .. c
  BY TextFacts
<1>2. Layered(top)
  BY <1>1, Facts
<1>3. mode = "parse" => Begun(tokens, dropped, top, c) /\ Bears(tokens, dropped, top, c)
  BY DEF TextInv, FormInv
<1>4. mode = "parse" => AreNodes(tokens, top.kids)
  BY <1>3 DEF Begun, KidsOf
<1>5. Borne(tokens, dropped, stack)
  BY DEF FormInv
<1> QED
  BY <1>1, <1>2, <1>3, <1>4, <1>5

\* The frame that runs has done an item, and nothing is dropped.
LEMMA TopFormed ==
  ASSUME IInv, TextInv, FormInv, mode = "parse", NEW f, f.fn = top.fn, f.start = top.start,
         stack' = Replace(stack, f), UNCHANGED << tokens, unit, success, dropped >>,
         Bears(tokens, dropped, f, c')
  PROVE  FormInv'
<1>1. IsSeq(stack) /\ stack # << >> /\ Borne(tokens, dropped, stack)
  BY TopForm
<1>2. Borne(tokens, dropped, stack')
  BY <1>1, BorneReplace DEF top
<1>3. /\ Len(stack') = Len(stack) /\ stack' # << >> /\ stack'[Len(stack)] = f
      /\ \A n \in 1 .. Len(stack) - 1 : stack'[n] = stack[n]
  BY <1>1, ReplaceFacts
<1>4. top' = f
  BY <1>3 DEF top
<1>5. stack'[1].fn = stack[1].fn
  <2>1. Len(stack) = 1 \/ 1 \in 1 .. Len(stack) - 1
    BY <1>1, FirstOrBefore
  <2> QED
    BY <1>3, <2>1 DEF top
<1> QED
  BY <1>1, <1>2, <1>3, <1>4, <1>5 DEF FormInv

\* The next statement's frame is pushed on an empty stack.
LEMMA ParseStatementForm ==
  ASSUME IInv, TextInv, FormInv, ParseStatement
  PROVE  FormInv'
<1> DEFINE f == Frame("unit_statement", TRUE)
<1>1. /\ mode = "unit" /\ stack' = << f >> /\ mode' = "parse"
      /\ UNCHANGED << tokens, c, unit, success, dropped >>
      /\ tokens \in Words /\ c \in 1 .. Len(tokens)
  BY TextFacts DEF ParseStatement
<1>2. Bears(tokens, dropped, f, c) /\ f.fn = "unit_statement"
  <2>1. "unit_statement" \in Functions
    BY DEF Functions
  <2>2. f.fn = "unit_statement"
    BY DEF Frame
  <2> QED
    BY <1>1, <2>1, <2>2, FrameBorne
<1> HIDE DEF f
<1>3. Len(stack') = 1 /\ stack'[1] = f /\ stack' # << >> /\ top' = f
  BY <1>1 DEF top
<1>4. Borne(tokens, dropped, stack')
  BY <1>3 DEF Borne
<1> QED
  BY <1>1, <1>2, <1>3, <1>4 DEF FormInv

\* Steps between the statements, and the failure of one.
LEMMA IdleForm ==
  ASSUME IInv, TextInv, FormInv,
         Finish \/ SkipToken \/ SkipClose \/ SkipEof \/ StatementFails
  PROVE  FormInv'
<1>1. /\ stack' = << >> /\ mode' # "parse" /\ UNCHANGED << tokens, dropped >>
      /\ success' => success /\ unit' = unit
  <2>1. CASE StatementFails
    BY <2>1 DEF StatementFails
  <2>2. CASE Finish \/ SkipToken \/ SkipClose \/ SkipEof
    <3>1. mode \in {"unit", "skip"} /\ stack' = stack
      BY <2>2 DEF Finish, SkipToken, SkipClose, SkipEof
    <3>2. stack = << >>
      BY <3>1, TextFacts
    <3>3. CASE Finish
      BY <3>1, <3>2, <3>3 DEF Finish
    <3>4. CASE SkipToken \/ SkipClose \/ SkipEof
      <4>1. mode' # "parse" /\ UNCHANGED << tokens, dropped, success, unit >>
        <5>1. CASE SkipToken
          BY <5>1 DEF SkipToken
        <5>2. CASE SkipClose
          BY <5>2 DEF SkipClose
        <5>3. CASE SkipEof
          BY <5>3 DEF SkipEof
        <5> QED
          BY <3>4, <5>1, <5>2, <5>3
      <4>2. success' => success
        BY <4>1
      <4> QED
        BY <3>1, <3>2, <4>1, <4>2
    <3> QED
      BY <2>2, <3>3, <3>4
  <2> QED
    BY <2>1, <2>2
<1>2. Borne(tokens', dropped', stack')
  BY <1>1 DEF Borne
<1> QED
  BY <1>1, <1>2 DEF FormInv

\* The expected token is taken.
LEMMA ExpectForm ==
  ASSUME IInv, TextInv, FormInv, Expect
  PROVE  FormInv'
<1> DEFINE k == IF item.keep THEN Append(top.kids, Leaf(c)) ELSE top.kids
           f == [top EXCEPT !.todo = rest, !.kids = k]
<1>1. /\ mode = "parse" /\ top.todo # << >> /\ item.op = "token" /\ Kind \in item.kinds
      /\ c' = c + 1 /\ stack' = Replace(stack, f)
      /\ UNCHANGED << tokens, unit, success, dropped >>
  BY DEF Expect, Running
<1>2. /\ tokens \in Words /\ c \in 1 .. Len(tokens) /\ c \notin dropped
      /\ Layered(top) /\ top.start \in 1 .. c /\ IsFrame(top)
      /\ AreNodes(tokens, top.kids) /\ Bears(tokens, dropped, top, c)
  BY <1>1, TopForm
<1>3. f.fn = top.fn /\ f.start = top.start /\ f.kids = k /\ f.todo = rest
  <2> HIDE DEF k
  <2> QED
    BY <1>2, NewTodoKids
<1> HIDE DEF f
<1>4. Bears(tokens, dropped, f, c + 1)
  BY <1>1, <1>2, <1>3, TokenBorne DEF item, rest, Kind
<1> QED
  BY <1>1, <1>3, <1>4, TopFormed

\* A branch or a loop looks at the token ahead.
LEMMA BranchForm ==
  ASSUME IInv, TextInv, FormInv, Branch
  PROVE  FormInv'
<1> DEFINE again == IF item.op = "while" THEN top.todo ELSE rest
           t == IF Kind \in item.kinds THEN item.then \o again ELSE rest
           f == [top EXCEPT !.todo = t]
<1>1. /\ mode = "parse" /\ top.todo # << >> /\ item.op \in {"when", "while"}
      /\ stack' = Replace(stack, f) /\ UNCHANGED << tokens, c, unit, success, dropped >>
  BY DEF Branch, Running
<1>2. /\ tokens \in Words /\ c \in 1 .. Len(tokens)
      /\ Layered(top) /\ top.start \in 1 .. c /\ IsFrame(top)
      /\ AreNodes(tokens, top.kids) /\ Bears(tokens, dropped, top, c)
  BY <1>1, TopForm
<1>3. f.fn = top.fn /\ f.start = top.start /\ f.kids = top.kids /\ f.todo = t
  <2> HIDE DEF t
  <2> QED
    BY <1>2, NewTodoKids
<1> HIDE DEF f
<1>4. Bears(tokens, dropped, f, c)
  BY <1>1, <1>2, <1>3, BranchBorne DEF item, rest, Kind
<1> QED
  BY <1>1, <1>3, <1>4, TopFormed

\* A parse function is called.
LEMMA CallForm ==
  ASSUME IInv, TextInv, FormInv, CallParse
  PROVE  FormInv'
<1> DEFINE r == item.op = "call" /\ (item.force \/ top.required)
           f == Frame(item.fn, r)
<1>1. /\ mode = "parse" /\ mode' = "parse" /\ top.todo # << >> /\ item.op \in {"call", "try"}
      /\ stack' = Append(stack, f) /\ UNCHANGED << tokens, c, unit, success, dropped >>
  BY DEF CallParse, Running
<1>2. /\ tokens \in Words /\ c \in 1 .. Len(tokens) /\ Layered(top)
      /\ IsSeq(stack) /\ stack # << >> /\ Borne(tokens, dropped, stack)
      /\ Bears(tokens, dropped, top, c)
  BY <1>1, TopForm
<1>3. item.fn \in Functions
  BY <1>1, <1>2, HeadFacts, Layers DEF item
<1>4. Bears(tokens, dropped, f, c) /\ f.start = c
  <2>1. f.start = c
    BY DEF Frame
  <2> HIDE DEF r
  <2> QED
    BY <1>2, <1>3, <2>1, FrameBorne
<1> HIDE DEF f
<1>5. Borne(tokens, dropped, stack')
  BY <1>1, <1>2, <1>4, BornePush DEF top
<1>6. /\ Len(stack') = Len(stack) + 1 /\ stack' # << >> /\ stack'[Len(stack) + 1] = f
      /\ \A n \in 1 .. Len(stack) : stack'[n] = stack[n]
  BY <1>1, <1>2, AppendFacts
<1>7. top' = f
  BY <1>6 DEF top
<1>8. stack'[1] = stack[1]
  <2>1. 1 \in 1 .. Len(stack)
    BY <1>2, SeqFacts
  <2> QED
    BY <1>6, <2>1
<1> QED
  BY <1>1, <1>2, <1>4, <1>5, <1>6, <1>7, <1>8 DEF FormInv

\* What the caller of the frame that runs is.
LEMMA CallerForm ==
  ASSUME IInv, TextInv, FormInv, Len(stack) > 1, mode \in {"parse", "fail"},
         NEW f, f = stack[Len(stack) - 1]
  PROVE  /\ IsFrame(f) /\ Layered(f) /\ f.start \in 1 .. top.start
         /\ AreNodes(tokens, f.kids) /\ Bears(tokens, dropped, f, top.start)
         /\ top.fn = Head(f.todo).fn /\ f.todo # << >> /\ Head(f.todo).op \in {"call", "try"}
         /\ Borne(tokens, dropped, Pop) /\ IsSeq(Pop) /\ Pop # << >> /\ Pop[1] = stack[1]
         /\ Pop[Len(Pop)] = f /\ \A n \in 1 .. Len(Pop) : Pop[n].start \in 1 .. top.start
<1>1. /\ IsFrame(f) /\ f.start \in 1 .. top.start
      /\ Begun(tokens, dropped, f, top.start) /\ Called(f, top)
      /\ f.todo # << >> /\ Head(f.todo).op \in {"call", "try"}
      /\ IsSeq(Pop) /\ Pop # << >> /\ Pop[1] = stack[1] /\ Pop[Len(Pop)] = f
      /\ \A n \in 1 .. Len(Pop) : Pop[n].start \in 1 .. top.start
  BY CallerText
<1>2. IsSeq(stack) /\ Borne(tokens, dropped, stack) /\ Len(stack) \in Nat
  BY TopForm, TextFacts
<1>3. Borne(tokens, dropped, Pop) /\ Bears(tokens, dropped, f, top.start)
  <2>1. Pop = Popped(stack)
    BY DEF Pop, Popped
  <2> QED
    BY <1>2, <2>1, BornePop DEF top
<1>4. Layered(f)
  <2>1. Len(stack) - 1 \in 1 .. Len(stack)
    BY <1>2
  <2>2. StackOK(stack, c)
    BY Facts
  <2> QED
    BY <2>1, <2>2 DEF StackOK
<1>5. AreNodes(tokens, f.kids)
  BY <1>1 DEF Begun, KidsOf
<1> QED
  BY <1>1, <1>3, <1>4, <1>5 DEF Called

\* A parse function returns a node, to its caller or as a statement of the unit.
LEMMA ReturnTrueForm ==
  ASSUME IInv, TextInv, FormInv, ReturnTrue
  PROVE  FormInv'
<1> DEFINE caller == stack[Len(stack) - 1]
           then == IF Head(caller.todo).op = "try" THEN Head(caller.todo).then ELSE << >>
           k == Append(caller.kids, Node(top))
           t == then \o Tail(caller.todo)
           f == [caller EXCEPT !.todo = t, !.kids = k]
<1>1. /\ mode = "parse" /\ top.todo = << >>
      /\ stack' = IF Len(stack) = 1 THEN << >> ELSE Replace(Pop, f)
      /\ unit' = IF Len(stack) = 1 THEN Append(unit, Node(top)) ELSE unit
      /\ mode' = IF Len(stack) = 1 THEN "unit" ELSE "parse"
      /\ UNCHANGED << tokens, c, success, dropped >>
  BY DEF ReturnTrue
<1>2. /\ tokens \in Words /\ c \in 1 .. Len(tokens) /\ stack # << >>
      /\ Layered(top) /\ top.start \in 1 .. c
      /\ Begun(tokens, dropped, top, c) /\ Bears(tokens, dropped, top, c)
      /\ Len(stack) \in Nat
  BY <1>1, TopForm, TextFacts
<1>4. CASE Len(stack) = 1
  <2> DEFINE n == Node(top)
  <2>1. /\ stack' = << >> /\ mode' = "unit" /\ unit' = Append(unit, n)
    BY <1>1, <1>4
  <2>2. Borne(tokens', dropped', stack')
    BY <2>1 DEF Borne
  <2>3. Formed(tokens, n) /\ n.fn = "unit_statement" /\ IsNode(tokens, n)
    <3>1. top.fn = "unit_statement"
      BY <1>2, <1>4 DEF FormInv, top
    <3>2. Turned(tokens, n, c - top.start) /\ n.fn = top.fn /\ IsNode(tokens, n)
      BY <1>1, <1>2, NodeFormed
    <3> QED
      BY <3>1, <3>2 DEF Turned
  <2> HIDE DEF n
  <2>4. ASSUME success, NEW j \in DOMAIN unit'
        PROVE  Formed(tokens, unit'[j]) /\ unit'[j].fn = "unit_statement"
    <3>1. AreNodes(tokens, unit)
      BY <2>4 DEF TextInv, UnitText
    <3> DEFINE u == Append(unit, n)
    <3>2. \A x \in DOMAIN u : u[x] = n \/ (x \in DOMAIN unit /\ u[x] = unit[x])
      BY <2>3, <3>1, NodesAppend
    <3>3. unit' = u
      BY <2>1
    <3> HIDE DEF u
    <3>4. \A x \in DOMAIN unit : Formed(tokens, unit[x]) /\ unit[x].fn = "unit_statement"
      BY <2>4 DEF FormInv
    <3> QED
      BY <2>3, <2>4, <3>2, <3>3, <3>4
  <2> QED
    BY <1>1, <2>1, <2>2, <2>4 DEF FormInv
<1>5. CASE Len(stack) # 1
  <2>1. Len(stack) > 1
    <3>1. Len(stack) = 1 \/ 1 \in 1 .. Len(stack) - 1
      BY <1>1, <1>2, TopForm, FirstOrBefore
    <3> DEFINE m == Len(stack)
    <3>2. m \in Nat /\ 1 \in 1 .. m - 1
      BY <1>2, <1>5, <3>1
    <3> HIDE DEF m
    <3>3. m > 1
      BY <3>2
    <3> QED
      BY <3>3 DEF m
  <2>2. stack' = Replace(Pop, f) /\ mode' = "parse" /\ unit' = unit
    <3> HIDE DEF f
    <3> QED
      BY <1>1, <1>5
  <2> HIDE DEF then
  <2>3. /\ IsFrame(caller) /\ Layered(caller) /\ caller.start \in 1 .. top.start
        /\ AreNodes(tokens, caller.kids) /\ Bears(tokens, dropped, caller, top.start)
        /\ top.fn = Head(caller.todo).fn
        /\ caller.todo # << >> /\ Head(caller.todo).op \in {"call", "try"}
        /\ Borne(tokens, dropped, Pop) /\ IsSeq(Pop) /\ Pop # << >>
        /\ Pop[1] = stack[1] /\ Pop[Len(Pop)] = caller
    BY <1>1, <2>1, CallerForm
  <2>4. f.fn = caller.fn /\ f.start = caller.start /\ f.kids = k /\ f.todo = t
    <3> HIDE DEF k, t, caller
    <3> QED
      BY <2>3, NewTodoKids
  <2> HIDE DEF f, caller
  <2>5. Bears(tokens, dropped, f, c)
    BY <1>1, <1>2, <2>3, <2>4, NodeBorne DEF then
  <2>6. Borne(tokens, dropped, stack')
    BY <2>2, <2>3, <2>4, BorneReplace
  <2>7. /\ Len(stack') = Len(Pop) /\ stack' # << >> /\ stack'[Len(Pop)] = f
        /\ \A n \in 1 .. Len(Pop) - 1 : stack'[n] = Pop[n]
    BY <2>2, <2>3, ReplaceFacts
  <2>8. top' = f
    BY <2>7 DEF top
  <2>9. stack'[1].fn = stack[1].fn
    <3>1. Len(Pop) = 1 \/ 1 \in 1 .. Len(Pop) - 1
      BY <2>3, FirstOrBefore
    <3> QED
      BY <2>3, <2>4, <2>7, <3>1
  <2> QED
    BY <1>1, <1>2, <2>2, <2>5, <2>6, <2>7, <2>8, <2>9 DEF FormInv
<1> QED
  BY <1>4, <1>5

\* A parse function fails, and so does its caller.
LEMMA FailForm ==
  ASSUME IInv, TextInv, FormInv, ExpectFails \/ ReturnFalse
  PROVE  FormInv'
<1>1. CASE ExpectFails
  <2>1. mode' = "fail" /\ UNCHANGED << tokens, stack, unit, success, dropped >>
    BY <1>1 DEF ExpectFails
  <2> QED
    BY <2>1 DEF FormInv
<1>2. CASE ReturnFalse
  <2>1. /\ mode = "fail" /\ mode' = "fail" /\ Len(stack) > 1 /\ stack' = Pop
        /\ UNCHANGED << tokens, unit, success, dropped >>
    BY <1>2 DEF ReturnFalse
  <2>2. Borne(tokens, dropped, Pop) /\ Pop[1] = stack[1]
    BY <2>1, CallerForm
  <2>3. stack # << >>
    BY <2>1, TopForm
  <2> QED
    BY <2>1, <2>2, <2>3 DEF FormInv
<1> QED
  BY <1>1, <1>2

\* A parse function returns nothing where its caller may do without.
LEMMA ReturnNothingForm ==
  ASSUME IInv, TextInv, FormInv, ReturnNothing
  PROVE  FormInv'
<1> DEFINE caller == stack[Len(stack) - 1]
           f == [caller EXCEPT !.todo = Tail(caller.todo)]
           a == top.start
           e == dropped \cup (a .. (c - 1))
<1>1. /\ mode = "fail" /\ mode' = "parse" /\ Len(stack) > 1 /\ Head(caller.todo).op = "try"
      /\ stack' = Replace(Pop, f) /\ dropped' = e
      /\ UNCHANGED << tokens, c, unit, success >>
  BY DEF ReturnNothing
<1>2. /\ tokens \in Words /\ c \in 1 .. Len(tokens) /\ a \in 1 .. c /\ stack # << >>
  BY <1>1, TopForm
<1>3. /\ IsFrame(caller) /\ Layered(caller) /\ caller.start \in 1 .. a
      /\ AreNodes(tokens, caller.kids) /\ Bears(tokens, dropped, caller, a)
      /\ caller.todo # << >>
      /\ Borne(tokens, dropped, Pop) /\ IsSeq(Pop) /\ Pop # << >>
      /\ Pop[1] = stack[1] /\ Pop[Len(Pop)] = caller
      /\ \A n \in 1 .. Len(Pop) : Pop[n].start \in 1 .. a
  BY <1>1, CallerForm
<1>4. f.fn = caller.fn /\ f.start = caller.start /\ f.kids = caller.kids
      /\ f.todo = Tail(caller.todo)
  <2> HIDE DEF caller
  <2> QED
    BY <1>3, NewTodoKids
<1>10. \A j, k \in 1 .. Len(Pop) : j <= k => Pop[j].start <= Pop[k].start
  BY <1>1, CallerText DEF Chain
<1> HIDE DEF f, caller, a
<1>5. Bears(tokens, e, f, c)
  <2>1. a \in 1 .. Len(tokens) /\ c \in a .. Len(tokens)
    BY <1>2 DEF Words
  <2> QED
    BY <1>1, <1>2, <1>3, <1>4, <2>1, NothingBorne
<1>6. a \in Nat
  BY <1>2
<1>7. Borne(tokens, e, Pop)
  BY <1>2, <1>3, <1>6, <1>10, BorneDropped
<1>8. Borne(tokens, e, stack')
  <2> HIDE DEF e
  <2> QED
    BY <1>1, <1>3, <1>4, <1>7, BorneReplace
<1>9. /\ Len(stack') = Len(Pop) /\ stack' # << >> /\ stack'[Len(Pop)] = f
      /\ \A n \in 1 .. Len(Pop) - 1 : stack'[n] = Pop[n]
  BY <1>1, <1>3, ReplaceFacts
<1>11. top' = f
  BY <1>9 DEF top
<1>12. stack'[1].fn = stack[1].fn
  <2>1. Len(Pop) = 1 \/ 1 \in 1 .. Len(Pop) - 1
    BY <1>3, FirstOrBefore
  <2> QED
    BY <1>3, <1>4, <1>9, <2>1
<1> HIDE DEF e
<1> QED
  BY <1>1, <1>2, <1>5, <1>8, <1>9, <1>11, <1>12 DEF FormInv

\* Every step keeps FormInv.
LEMMA StepForm ==
  ASSUME IInv, TextInv, FormInv, [Next]_vars
  PROVE  FormInv'
<1>1. CASE Next
  BY <1>1, ParseStatementForm, IdleForm, ExpectForm, BranchForm, CallForm,
     ReturnTrueForm, FailForm, ReturnNothingForm DEF Next
<1>2. CASE UNCHANGED vars
  <2>1. top' = top
    BY <1>2 DEF vars, top
  <2> QED
    BY <1>2, <2>1 DEF vars, FormInv
<1> QED
  BY <1>1, <1>2

\* Where what is dropped shows nothing, the kept tokens show what all do.
LEMMA KeptShowsAll ==
  ASSUME NEW src \in Words, NEW d, \A k \in 1 .. Len(src) : k \in d => TokenShows(src[k]) = << >>
  PROVE  Marks(KeptTo(src, d, Len(src))) = FlattenSeq([k \in DOMAIN src |-> TokenShows(src[k])])
<1> DEFINE n == Len(src)
           v == KeptOf(src, d, n)
           f == [k \in DOMAIN v |-> Marks(v[k])]
           g == [k \in DOMAIN src |-> TokenShows(src[k])]
<1>1. n \in Nat /\ DOMAIN src = 1 .. n /\ \A k \in 1 .. n : src[k] \in Kinds
  BY DEF Words
<1>2. v = [k \in 1 .. n |-> IF k \in d THEN << >> ELSE << src[k] >>]
  BY DEF KeptOf
<1>3. n \in 0 .. n
  BY <1>1
<1>4. v \in Seq(Words)
  BY <1>3, KeptOfType
<1>5. Marks(FlattenSeq(v)) = FlattenSeq(f)
  <2> DEFINE m == mark
             K == Kinds
  <2>1. Maps(m, K, K) /\ v \in Seq(Seq(K))
    BY <1>4, MarkMaps DEF Words
  <2> HIDE DEF m, K, v
  <2>2. Picture(m, FlattenSeq(v)) = FlattenSeq([k \in DOMAIN v |-> Picture(m, v[k])])
    BY <2>1, PictureFlat
  <2> QED
    BY <2>2 DEF Marks, m
<1>6. DOMAIN v = 1 .. n /\ \A k \in 1 .. n : Marks(v[k]) = TokenShows(src[k])
  <2>1. DOMAIN v = 1 .. n /\ \A k \in 1 .. n : v[k] = IF k \in d THEN << >> ELSE << src[k] >>
    BY <1>2
  <2>2. ASSUME NEW k \in 1 .. n
        PROVE  Marks(v[k]) = TokenShows(src[k])
    <3>1. CASE k \in d
      BY <2>1, <3>1, MarksFacts
    <3>2. CASE k \notin d
      BY <1>1, <2>1, <3>2, MarksFacts
    <3> QED
      BY <3>1, <3>2
  <2> QED
    BY <2>1, <2>2
<1> HIDE DEF v
<1>7. f = g
  BY <1>1, <1>6
<1> QED
  BY <1>5, <1>7 DEF KeptTo, v

\* The functions and returns of an accepted source are those of its statements.
LEMMA SourceShows ==
  ASSUME IInv, TextInv, AtEof, mode = "accepted"
  PROVE  InSource = Marked(tokens, unit) /\ AreNodes(tokens, unit)
<1> DEFINE n == Len(tokens)
           e == dropped \cup {n}
<1>1. tokens \in Words /\ n \in Nat /\ n > 0 /\ tokens[n] = "EOF"
      /\ \A k \in 1 .. n : tokens[k] \in Kinds
  <2>1. tokens \in TokenStreams
    BY DEF IInv
  <2>2. tokens \in Words
    BY <2>1, TokensAreWords
  <2>3. n \in Nat /\ n > 0
    BY <2>1, StreamFacts
  <2>4. \A k \in 1 .. n : tokens[k] \in Kinds /\ (tokens[k] = "EOF" <=> k = n)
    BY <2>1, StreamFacts
  <2>5. n \in 1 .. n
    <3> HIDE DEF n
    <3> QED
      BY <2>3
  <2> QED
    BY <2>2, <2>3, <2>4, <2>5
<1>2. \A k \in 1 .. n : k \in e => TokenShows(tokens[k]) = << >>
  <2>1. \A k \in dropped : tokens[k] \in Harmless
    BY DEF IInv, LossInv
  <2>2. \A kind \in Harmless \cup {"EOF"} : TokenShows(kind) = << >>
    BY TokensShow DEF Harmless, Delimiters
  <2> QED
    BY <1>1, <2>1, <2>2
<1>3. UnitText(n)
  BY DEF TextInv, AtEof
<1>4. KeptTo(tokens, e, n) = KeptTo(tokens, dropped, n - 1)
  <2> DEFINE m == n - 1
  <2>1. m \in Nat /\ m + 1 = n /\ m + 1 <= Len(tokens) /\ m + 1 \in e
    BY <1>1
  <2>2. \A k \in 1 .. m : k \in e <=> k \in dropped
    BY <1>1
  <2> HIDE DEF m, e
  <2>3. KeptTo(tokens, e, m + 1) = KeptTo(tokens, e, m)
    BY <1>1, <2>1, KeptNext
  <2>4. KeptTo(tokens, e, m) = KeptTo(tokens, dropped, m)
    BY <2>2, KeptSame
  <2> HIDE DEF n
  <2> QED
    BY <2>1, <2>3, <2>4 DEF m
<1> HIDE DEF e
<1>5. Marks(KeptTo(tokens, e, n)) = InSource
  BY <1>1, <1>2, KeptShowsAll DEF InSource
<1>6. AreNodes(tokens, unit) /\ KeptTo(tokens, dropped, n - 1) = FlattenSeq(Spelled(tokens, unit))
  BY <1>3 DEF UnitText
<1>7. Marks(FlattenSeq(Spelled(tokens, unit))) = Marked(tokens, unit)
  <2> DEFINE v == Spelled(tokens, unit)
             f == [k \in DOMAIN v |-> Marks(v[k])]
             g == [k \in DOMAIN unit |-> Shows(tokens, unit[k])]
             m == mark
             K == Kinds
  <2>1. v \in Seq(Words)
    BY <1>6, SpelledType
  <2>2. Maps(m, K, K) /\ v \in Seq(Seq(K))
    BY <2>1, MarkMaps DEF Words
  <2>3. DOMAIN v = DOMAIN unit /\ \A k \in DOMAIN unit : v[k] = Written(tokens, unit[k])
    BY DEF Spelled
  <2> HIDE DEF m, K, v
  <2>4. Picture(m, FlattenSeq(v)) = FlattenSeq([k \in DOMAIN v |-> Picture(m, v[k])])
    BY <2>2, PictureFlat
  <2>5. f = g
    BY <2>3 DEF Shows
  <2> QED
    BY <2>4, <2>5 DEF Marks, m, Marked, v
<1> QED
  BY <1>4, <1>5, <1>6, <1>7

-----------------------------------------------------------------------------
(***************************************************************************)
(* Texts that grow, and texts of one token.                                *)
(***************************************************************************)

\* q is p and an element more.
Longer(W, n, p, q) ==
  p \in [1 .. n -> W] /\ q \in [1 .. n + 1 -> W] /\ \A k \in 1 .. n : q[k] = p[k]

\* A sequence more joins its own to what the others do ...
LEMMA JoinedGrow ==
  ASSUME NEW V, NEW W, W = Seq(V), NEW n \in Nat, NEW p, NEW q, Longer(W, n, p, q)
  PROVE  /\ FlattenSeq(p) \in W /\ q[n + 1] \in W
         /\ FlattenSeq(q) = FlattenSeq(p) \o q[n + 1]
<1> DEFINE y == q[n + 1]
           a == Append(p, y)
<1>0. p \in [1 .. n -> W] /\ q \in [1 .. n + 1 -> W] /\ \A k \in 1 .. n : q[k] = p[k]
  BY DEF Longer
<1>1. n + 1 \in Nat /\ n + 1 \in 1 .. n + 1 /\ y \in W
  BY <1>0
<1> HIDE DEF y
<1>2. p \in Seq(W) /\ Len(p) = n
  BY <1>0, MadeSeq
<1>3. q \in Seq(W) /\ Len(q) = n + 1
  BY <1>0, <1>1, MadeSeq
<1>4. /\ a \in Seq(W) /\ Len(a) = n + 1 /\ a[n + 1] = y
      /\ \A k \in 1 .. n : a[k] = p[k]
  BY <1>1, <1>2
<1>5. q = a
  <2>1. /\ a \in Seq(W) /\ q \in Seq(W) /\ Len(a) = n + 1 /\ Len(q) = n + 1
        /\ \A k \in 1 .. n + 1 : k = n + 1 \/ k \in 1 .. n
    BY <1>3, <1>4
  <2>2. \A k \in 1 .. n + 1 : a[k] = q[k]
    BY <1>0, <1>4, <2>1 DEF y
  <2> HIDE DEF a
  <2> QED
    BY <2>1, <2>2
<1>6. FlattenSeq(a) = FlattenSeq(p) \o y /\ FlattenSeq(p) \in W
  BY <1>1, <1>2, JoinedAppend, JoinedType
<1> QED
  BY <1>1, <1>5, <1>6 DEF y

\* ... and so does a text.
LEMMA FlatGrow ==
  ASSUME NEW n \in Nat, NEW p \in [1 .. n -> Words], NEW q \in [1 .. n + 1 -> Words],
         \A k \in 1 .. n : q[k] = p[k]
  PROVE  /\ FlattenSeq(p) \in Words /\ q[n + 1] \in Words
         /\ FlattenSeq(q) = FlattenSeq(p) \o q[n + 1]
<1> DEFINE W == Words
           K == Kinds
<1>1. W = Seq(K)
  BY DEF Words
<1>2. Longer(W, n, p, q)
  BY DEF Longer
<1> HIDE DEF W, K
<1>3. FlattenSeq(p) \in W /\ q[n + 1] \in W /\ FlattenSeq(q) = FlattenSeq(p) \o q[n + 1]
  BY <1>1, <1>2, JoinedGrow
<1> QED
  BY <1>3 DEF W

\* A number of the same.
Times(n, x) == [k \in 1 .. n |-> x]

LEMMA TimesFacts ==
  ASSUME NEW x \in Kinds, NEW n \in Nat
  PROVE  /\ Times(n, x) \in Words /\ Len(Times(n, x)) = n
         /\ Times(0, x) = << >> /\ Times(n + 1, x) = Times(n, x) \o << x >>
<1>1. Times(n, x) \in [1 .. n -> Kinds] /\ n + 1 \in Nat
  BY DEF Times
<1>2. Times(n + 1, x) \in [1 .. n + 1 -> Kinds]
  BY DEF Times
<1>3. Times(n, x) \in Seq(Kinds) /\ Len(Times(n, x)) = n
  BY <1>1, MadeSeq
<1>4. Times(n + 1, x) \in Seq(Kinds) /\ Len(Times(n + 1, x)) = n + 1
  BY <1>1, <1>2, MadeSeq
<1>5. Times(0, x) = << >>
  <2>1. 1 .. 0 = {}
    OBVIOUS
  <2> QED
    BY <2>1 DEF Times
<1>6. \A k \in 1 .. n + 1 : Times(n + 1, x)[k] = x
  BY DEF Times
<1>7. \A k \in 1 .. n : Times(n, x)[k] = x
  BY DEF Times
<1> DEFINE a == Times(n, x)
           b == Times(n + 1, x)
<1> HIDE DEF a, b
<1>8. b = a \o << x >>
  <2>1. a \in Seq(Kinds) /\ Len(a) = n /\ \A k \in 1 .. n : a[k] = x
    BY <1>3, <1>7 DEF a
  <2>2. b \in Seq(Kinds) /\ Len(b) = n + 1 /\ \A k \in 1 .. n + 1 : b[k] = x
    BY <1>4, <1>6 DEF b
  <2> QED
    BY <2>1, <2>2
<1> QED
  BY <1>3, <1>5, <1>8 DEF a, b, Words

\* Single tokens join to as many of them.
LEMMA Singles ==
  ASSUME NEW x \in Kinds, NEW m \in Nat
  PROVE  FlattenSeq([k \in 1 .. m |-> << x >>]) = Times(m, x)
<1> DEFINE f(n) == [k \in 1 .. n |-> << x >>]
           S == {n \in Nat : FlattenSeq(f(n)) = Times(n, x)}
<1>0. << x >> \in Words
  BY DEF Words
<1>1. 0 \in S
  <2>1. f(0) = << >>
    <3>1. 1 .. 0 = {}
      OBVIOUS
    <3> QED
      BY <3>1
  <2>2. FlattenSeq(f(0)) = << >>
    BY <2>1, FlatEmpty
  <2> HIDE DEF f
  <2> QED
    BY <2>2, TimesFacts
<1>2. ASSUME NEW n \in Nat, n \in S
      PROVE  n + 1 \in S
  <2> DEFINE p == f(n)
             q == f(n + 1)
             y == << x >>
  <2>1. n + 1 \in Nat /\ p \in [1 .. n -> Words] /\ q \in [1 .. n + 1 -> Words] /\ y \in Words
        /\ (\A k \in 1 .. n : p[k] = y) /\ \A k \in 1 .. n + 1 : q[k] = y
    BY <1>0
  <2> HIDE DEF p, q, y, f
  <2>6. FlattenSeq(q) = FlattenSeq(p) \o y
    BY <2>1, FlatGrow
  <2>7. FlattenSeq(p) = Times(n, x)
    BY <1>2 DEF p
  <2>8. Times(n + 1, x) = Times(n, x) \o y
    BY TimesFacts DEF y
  <2>9. FlattenSeq(q) = Times(n + 1, x)
    BY <2>6, <2>7, <2>8
  <2> QED
    BY <2>1, <2>9 DEF q
<1>3. \A n \in Nat : n \in S
  <2> HIDE DEF S
  <2> QED
    BY <1>1, <1>2, InductionOnNat
<1> QED
  BY <1>3

-----------------------------------------------------------------------------
(***************************************************************************)
(* The AST, as the checker reads it.                                       *)
(***************************************************************************)

\* A statement is one that the checker knows, and its headers have fewer arguments than a
\* size_t counts.
Readable(x) == IsSeq(x.args) /\ Len(x.args) < Size /\ x.returns \in BOOLEAN

Legible(st) ==
  /\ st.holds \in {"func_def", "extern_block"}
  /\ IsSeq(st.headers) /\ \A k \in DOMAIN st.headers : Readable(st.headers[k])
  /\ st.holds = "func_def" => Len(st.headers) = 1 /\ IsSeq(st.block)

\* What it shows, if its body has nothing but returns.
Shown(st) ==
  IF st.holds = "func_def" THEN << "func" >> \o Times(Len(st.block), "return")
  ELSE Times(Len(st.headers), "func")

ReturnsOnly(st) ==
  st.holds = "func_def" => \A k \in DOMAIN st.block : st.block[k].holds = "return"

\* A sequence is one again when its elements are replaced.
LEMMA Replaced ==
  ASSUME NEW t, IsSeq(t), NEW r, r = [k \in DOMAIN t |-> r[k]]
  PROVE  IsSeq(r) /\ Len(r) = Len(t) /\ DOMAIN r = DOMAIN t
<1>1. Len(t) \in Nat /\ DOMAIN t = 1 .. Len(t)
  BY SeqFacts
<1> DEFINE n == Len(t)
           R == {r[k] : k \in 1 .. n}
<1>2. r \in [1 .. n -> R] /\ n \in Nat /\ DOMAIN r = 1 .. n
  BY <1>1
<1> HIDE DEF R
<1>3. r \in Seq(R) /\ Len(r) = n
  BY <1>2, MadeSeq
<1> QED
  BY <1>1, <1>2, <1>3 DEF IsSeq

\* The parameters of a header are fewer than its kids.
LEMMA ParametersFewer ==
  ASSUME NEW n, IsSeq(n.kids), Len(n.kids) >= 1, n.kids[1].fn = "token"
  PROVE  /\ IsSeq(Parameters(n)) /\ Len(Parameters(n)) < Len(n.kids)
         /\ HasType(n) \in BOOLEAN
<1> DEFINE q == n.kids
           m == Len(q)
<1>1. PICK S : q \in Seq(S)
  BY DEF IsSeq
<1>2. m \in Nat /\ m >= 1
  BY <1>1
<1>3. CASE HasType(n)
  <2>1. q[m].fn = "type"
    BY <1>3 DEF HasType, Last
  <2>2. m # 1
    BY <2>1
  <2> DEFINE r == SubSeq(q, 1, m - 1)
  <2>3. r \in Seq(S) /\ Len(r) = m - 1 /\ m - 1 >= 1
    <3>1. m - 1 \in Nat /\ m - 1 <= m /\ m - 1 >= 1
      <4> HIDE DEF m
      <4> QED
        BY <1>2, <2>2
    <3>2. \A k \in 1 .. m - 1 : q[k] \in S
      <4>1. \A k \in 1 .. m : q[k] \in S
        BY <1>1
      <4> HIDE DEF q, m
      <4> QED
        BY <1>2, <4>1
    <3>3. r = [k \in 1 .. m - 1 |-> q[k]]
      <4>1. \A t \in Seq(S) : \A j \in Nat : j <= Len(t) => SubSeq(t, 1, j) = [k \in 1 .. j |-> t[k]]
        OBVIOUS
      <4> QED
        BY <1>1, <3>1, <4>1
    <3> HIDE DEF r, q, m
    <3>4. r \in [1 .. m - 1 -> S]
      BY <3>2, <3>3
    <3> QED
      BY <3>1, <3>4, MadeSeq
  <2>4. Parameters(n) = Tail(r)
    BY <1>3 DEF Parameters, Front
  <2> HIDE DEF r
  <2>5. r # << >> /\ Tail(r) \in Seq(S) /\ Len(Tail(r)) = Len(r) - 1
    BY <2>3
  <2> QED
    BY <1>2, <2>3, <2>4, <2>5 DEF IsSeq, HasType
<1>4. CASE ~HasType(n)
  <2>1. Parameters(n) = Tail(q)
    BY <1>4 DEF Parameters
  <2>2. q # << >> /\ Tail(q) \in Seq(S) /\ Len(Tail(q)) = m - 1
    BY <1>1, <1>2
  <2> QED
    BY <1>2, <2>1, <2>2 DEF IsSeq, HasType
<1> QED
  BY <1>3, <1>4

\* A header can be read ...
LEMMA HeaderRead ==
  ASSUME tokens \in TokenStreams, NEW n, Headed(tokens, n)
  PROVE  Readable(Header(n))
<1> DEFINE x == Header(n)
           q == Parameters(n)
<1>1. /\ IsSeq(n.kids) /\ Len(n.kids) \in 1 .. Len(tokens) /\ n.kids[1].fn = "token"
  BY DEF Headed
<1>2. Len(tokens) \in Nat /\ Len(tokens) < Size
  BY StreamFacts, SizeAssumption
<1>3. Len(n.kids) >= 1 /\ Len(n.kids) < Size /\ Len(n.kids) \in Nat /\ Size \in Nat
  BY <1>1, <1>2, SizeAssumption
<1>4. IsSeq(q) /\ Len(q) < Len(n.kids) /\ HasType(n) \in BOOLEAN
  BY <1>1, <1>3, ParametersFewer
<1>5. x.args = [k \in DOMAIN q |-> Stars(q[k])] /\ x.returns = HasType(n)
  BY DEF Header
<1> HIDE DEF x, q
<1>6. x.args = [k \in DOMAIN q |-> x.args[k]]
  BY <1>5
<1> DEFINE r == x.args
<1>7. r = [k \in DOMAIN q |-> r[k]]
  BY <1>6
<1> HIDE DEF r
<1>8. IsSeq(r) /\ Len(r) = Len(q)
  BY <1>4, <1>7, Replaced
<1>9. Len(q) \in Nat
  BY <1>4, SeqFacts
<1>10. Len(r) < Size
  BY <1>3, <1>4, <1>8, <1>9
<1> QED
  BY <1>4, <1>5, <1>8, <1>10 DEF Readable, r, x

\* ... and a scope statement that is a return came from one.
LEMMA ScopeRead ==
  ASSUME NEW n, n.kids[1].fn # "return", ScopeStatement(n).holds = "return"
  PROVE  n.kids[1].fn = "statement_return"
BY DEF ScopeStatement

\* What nodes show that show the same token.
LEMMA MarkedTimes ==
  ASSUME NEW src, NEW kids, IsSeq(kids), NEW x \in Kinds,
         \A k \in DOMAIN kids : Shows(src, kids[k]) = << x >>
  PROVE  Marked(src, kids) = Times(Len(kids), x)
<1>1. Len(kids) \in Nat /\ DOMAIN kids = 1 .. Len(kids)
  BY SeqFacts
<1>2. [k \in DOMAIN kids |-> Shows(src, kids[k])] = [k \in 1 .. Len(kids) |-> << x >>]
  BY <1>1
<1> QED
  BY <1>1, <1>2, Singles DEF Marked

\* The statements of a unit can be read, and show what their nodes do.
LEMMA StatementRead ==
  ASSUME tokens \in TokenStreams, NEW n, Stated(tokens, n)
  PROVE  /\ Legible(UnitStatement(n))
         /\ ReturnsOnly(UnitStatement(n)) => Shows(tokens, n) = Shown(UnitStatement(n))
<1> DEFINE st == UnitStatement(n)
           x == n.kids[1]
           q == n.kids[1].kids
<1>0. "func" \in Kinds /\ "return" \in Kinds
  BY DEF Kinds
<1>1. Shows(tokens, n) = Shows(tokens, x)
  BY DEF Stated
<1>2. CASE x.fn = "extern_block" /\ Externed(tokens, x)
  <2> DEFINE r == [k \in DOMAIN q |-> Header(q[k])]
  <2>1. /\ IsSeq(q) /\ (\A k \in DOMAIN q : Headed(tokens, q[k]))
        /\ Shows(tokens, x) = Marked(tokens, q)
    BY <1>2 DEF Externed
  <2>2. st.holds = "extern_block" /\ st.headers = r
    BY <1>2 DEF UnitStatement, Check!Extern
  <2>3. r = [k \in DOMAIN q |-> r[k]] /\ \A k \in DOMAIN q : r[k] = Header(q[k])
    OBVIOUS
  <2> HIDE DEF r, q, st, x
  <2>4. IsSeq(r) /\ Len(r) = Len(q) /\ DOMAIN r = DOMAIN q
    BY <2>1, <2>3, Replaced
  <2>5. \A k \in DOMAIN r : Readable(r[k])
    BY <2>1, <2>3, <2>4, HeaderRead
  <2>6. Legible(st)
    BY <2>2, <2>4, <2>5 DEF Legible
  <2>7. Marked(tokens, q) = Times(Len(q), "func")
    BY <1>0, <2>1, MarkedTimes DEF Headed
  <2>8. Shown(st) = Times(Len(r), "func")
    BY <2>2 DEF Shown
  <2> QED
    BY <1>1, <2>1, <2>4, <2>6, <2>7, <2>8 DEF st
<1>3. CASE x.fn = "function_definition" /\ Defined(tokens, x)
  <2> DEFINE y == q[1]
             z == q[2]
             u == z.kids
             r == [k \in DOMAIN u |-> ScopeStatement(u[k])]
             hs == << Header(y) >>
  <2>1. Headed(tokens, y) /\ Blocked(tokens, z) /\ Shows(tokens, x) = << "func" >> \o Shows(tokens, z)
    BY <1>3 DEF Defined
  <2>2. st.holds = "func_def" /\ st.headers = hs /\ st.block = r
    BY <1>3 DEF UnitStatement, Check!Definition
  <2>3. r = [k \in DOMAIN u |-> r[k]] /\ \A k \in DOMAIN u : r[k] = ScopeStatement(u[k])
    OBVIOUS
  <2>4. hs \in Seq({Header(y)}) /\ Len(hs) = 1 /\ DOMAIN hs = 1 .. 1 /\ hs[1] = Header(y)
    OBVIOUS
  <2> HIDE DEF r, q, st, x, y, z, hs
  <2>5. /\ IsSeq(u) /\ (\A k \in DOMAIN u : Scoped(tokens, u[k]))
        /\ Shows(tokens, z) = Marked(tokens, u)
    BY <2>1 DEF Blocked
  <2> HIDE DEF u
  <2>6. IsSeq(r) /\ Len(r) = Len(u) /\ DOMAIN r = DOMAIN u
    BY <2>3, <2>5, Replaced
  <2>7. Readable(Header(y))
    BY <2>1, HeaderRead
  <2>8. Legible(st)
    <3>1. IsSeq(hs) /\ \A k \in DOMAIN hs : k = 1
      BY <2>4 DEF IsSeq
    <3> QED
      BY <2>2, <2>4, <2>6, <2>7, <3>1 DEF Legible
  <2>9. ASSUME ReturnsOnly(st)
        PROVE  Shows(tokens, z) = Times(Len(u), "return")
    <3>1. \A k \in DOMAIN u : r[k].holds = "return"
      BY <2>2, <2>6, <2>9 DEF ReturnsOnly
    <3>2. ASSUME NEW k \in DOMAIN u
          PROVE  Shows(tokens, u[k]) = << "return" >>
      <4>1. ScopeStatement(u[k]).holds = "return" /\ Scoped(tokens, u[k])
        BY <2>3, <2>5, <3>1
      <4>2. u[k].kids[1].fn = "statement_return"
        BY <4>1, ScopeRead DEF Scoped
      <4> QED
        BY <4>1, <4>2 DEF Scoped
    <3>3. Marked(tokens, u) = Times(Len(u), "return")
      BY <1>0, <2>5, <3>2, MarkedTimes
    <3> QED
      BY <2>5, <3>3
  <2>10. Shown(st) = << "func" >> \o Times(Len(r), "return")
    BY <2>2 DEF Shown
  <2> QED
    BY <1>1, <2>1, <2>6, <2>8, <2>9, <2>10 DEF st
<1> QED
  BY <1>2, <1>3 DEF Stated

\* What a statement shows is a text.
LEMMA ShownType ==
  ASSUME NEW st, Legible(st)
  PROVE  Shown(st) \in Words
<1>1. "func" \in Kinds /\ "return" \in Kinds
  BY DEF Kinds
<1>2. CASE st.holds = "func_def"
  <2>1. Len(st.block) \in Nat
    BY <1>2, SeqFacts DEF Legible
  <2>2. Times(Len(st.block), "return") \in Words /\ << "func" >> \in Words
    BY <1>1, <2>1, TimesFacts, MarksFacts
  <2> QED
    BY <1>2, <2>2, JoinType DEF Shown
<1>3. CASE st.holds # "func_def"
  <2>1. Len(st.headers) \in Nat
    BY SeqFacts DEF Legible
  <2> QED
    BY <1>1, <1>3, <2>1, TimesFacts DEF Shown
<1> QED
  BY <1>2, <1>3

\* The unit that the checker reads, and what its first statements show.
Given(u, n) == FlattenSeq([k \in 1 .. n |-> Shown(u[k])])

ReadOf(u) ==
  /\ IsSeq(u) /\ \A k \in DOMAIN u : Legible(u[k])
  /\ (\A k \in DOMAIN u : ReturnsOnly(u[k])) => InSource = Given(u, Len(u))

\* It is what the parser has made.
LEMMA UnitRead ==
  ASSUME IInv, TextInv, AtEof, FormInv, mode = "accepted"
  PROVE  ReadOf([k \in DOMAIN unit |-> UnitStatement(unit[k])])
<1> DEFINE u == [k \in DOMAIN unit |-> UnitStatement(unit[k])]
<1>1. tokens \in TokenStreams
  BY DEF IInv
<1>2. InSource = Marked(tokens, unit) /\ AreNodes(tokens, unit)
  BY SourceShows
<1>3. success /\ \A k \in DOMAIN unit : Stated(tokens, unit[k])
  BY DEF FormInv, AtEof, Formed
<1>4. IsSeq(unit) /\ Len(unit) \in Nat /\ DOMAIN unit = 1 .. Len(unit)
  BY <1>2, SeqFacts DEF AreNodes
<1>5. u = [k \in DOMAIN unit |-> u[k]] /\ \A k \in DOMAIN unit : u[k] = UnitStatement(unit[k])
  OBVIOUS
<1> HIDE DEF u
<1>6. IsSeq(u) /\ Len(u) = Len(unit) /\ DOMAIN u = DOMAIN unit
  BY <1>4, <1>5, Replaced
<1>7. \A k \in DOMAIN u : Legible(u[k])
  BY <1>1, <1>3, <1>5, <1>6, StatementRead
<1>8. ASSUME \A k \in DOMAIN u : ReturnsOnly(u[k])
      PROVE  InSource = Given(u, Len(u))
  <2>1. \A k \in DOMAIN unit : Shows(tokens, unit[k]) = Shown(u[k])
    BY <1>1, <1>3, <1>5, <1>6, <1>8, StatementRead
  <2>2. [k \in DOMAIN unit |-> Shows(tokens, unit[k])] = [k \in 1 .. Len(u) |-> Shown(u[k])]
    BY <1>4, <1>6, <2>1
  <2> QED
    BY <1>2, <2>2 DEF Marked, Given
<1> QED
  BY <1>6, <1>7, <1>8 DEF ReadOf, u

\* One statement more, and none.
LEMMA GivenNext ==
  ASSUME NEW u, \A k \in DOMAIN u : Legible(u[k]), NEW n \in Nat, DOMAIN u = 1 .. Len(u),
         Len(u) \in Nat, n + 1 <= Len(u)
  PROVE  Given(u, n) \in Words /\ Given(u, n + 1) = Given(u, n) \o Shown(u[n + 1])
<1> DEFINE p == [k \in 1 .. n |-> Shown(u[k])]
           q == [k \in 1 .. n + 1 |-> Shown(u[k])]
<1>1. \A k \in 1 .. n + 1 : Shown(u[k]) \in Words
  BY ShownType
<1>2. /\ p \in [1 .. n -> Words] /\ q \in [1 .. n + 1 -> Words] /\ q[n + 1] = Shown(u[n + 1])
      /\ \A k \in 1 .. n : q[k] = p[k]
  BY <1>1
<1> HIDE DEF p, q
<1>3. FlattenSeq(p) \in Words /\ FlattenSeq(q) = FlattenSeq(p) \o q[n + 1]
  BY <1>2, FlatGrow
<1> QED
  BY <1>2, <1>3 DEF Given, p, q

LEMMA GivenNone ==
  ASSUME NEW u
  PROVE  Given(u, 0) = << >>
<1>1. [k \in 1 .. 0 |-> Shown(u[k])] = << >>
  <2>1. 1 .. 0 = {}
    OBVIOUS
  <2> QED
    BY <2>1
<1> QED
  BY <1>1, FlatEmpty DEF Given

-----------------------------------------------------------------------------
(***************************************************************************)
(* The IR that the checker makes.                                          *)
(***************************************************************************)

\* A function of the IR; a declaration has no blocks.
Made(x) ==
  /\ Readable(x.header) /\ x.is_declaration \in BOOLEAN
  /\ IsSeq(x.blocks) /\ \A b \in DOMAIN x.blocks : IsSeq(x.blocks[b].instructions)
  /\ x.is_declaration => x.blocks = << >>

IRMade(r) == IsSeq(r) /\ \A g \in DOMAIN r : Made(r[g])

\* What it shows: itself and its returns.
Returned(blocks) == FlattenSeq([b \in DOMAIN blocks |-> Times(Len(blocks[b].instructions), "return")])
Drew(x)          == << "func" >> \o Returned(x.blocks)
Drawn(r)         == FlattenSeq([g \in DOMAIN r |-> Drew(r[g])])

\* A block more shows its returns behind the others.
LEMMA ReturnedAppend ==
  ASSUME NEW blocks, IsSeq(blocks), \A b \in DOMAIN blocks : IsSeq(blocks[b].instructions),
         NEW x, IsSeq(x.instructions)
  PROVE  /\ Returned(blocks) \in Words
         /\ Returned(Append(blocks, x)) = Returned(blocks) \o Times(Len(x.instructions), "return")
         /\ \A b \in DOMAIN Append(blocks, x) : IsSeq(Append(blocks, x)[b].instructions)
<1> DEFINE a == Append(blocks, x)
           n == Len(blocks)
           p == [b \in DOMAIN blocks |-> Times(Len(blocks[b].instructions), "return")]
           q == [b \in DOMAIN a |-> Times(Len(a[b].instructions), "return")]
<1>1. n \in Nat /\ DOMAIN blocks = 1 .. n
  BY SeqFacts
<1>2. /\ IsSeq(a) /\ Len(a) = n + 1 /\ a[n + 1] = x
      /\ \A k \in 1 .. n : a[k] = blocks[k]
  BY AppendFacts
<1>3. DOMAIN a = 1 .. n + 1
  BY <1>2, SeqFacts
<1> HIDE DEF a, n
<1>4. \A k \in 1 .. n + 1 : k = n + 1 \/ k \in 1 .. n
  BY <1>1
<1>5. \A k \in 1 .. n + 1 : IsSeq(a[k].instructions)
  BY <1>1, <1>2, <1>4
<1>6. "return" \in Kinds
  BY DEF Kinds
<1>7. \A k \in 1 .. n + 1 : Len(a[k].instructions) \in Nat
  BY <1>5, SeqFacts
<1>8. \A k \in 1 .. n + 1 : Times(Len(a[k].instructions), "return") \in Words
  BY <1>6, <1>7, TimesFacts
<1>9. n + 1 \in 1 .. n + 1 /\ \A k \in 1 .. n : k \in 1 .. n + 1
  BY <1>1
<1>10. q \in [1 .. n + 1 -> Words] /\ q[n + 1] = Times(Len(x.instructions), "return")
  BY <1>2, <1>3, <1>8, <1>9
<1>11. p \in [1 .. n -> Words] /\ \A k \in 1 .. n : q[k] = p[k]
  BY <1>1, <1>2, <1>3, <1>8, <1>9
<1> HIDE DEF p, q
<1>12. FlattenSeq(p) \in Words /\ FlattenSeq(q) = FlattenSeq(p) \o q[n + 1]
  BY <1>1, <1>10, <1>11, FlatGrow
<1> QED
  BY <1>3, <1>5, <1>10, <1>12 DEF Returned, p, q, a

\* No blocks show nothing.
LEMMA ReturnedNone == Returned(<< >>) = << >>
<1>1. [b \in DOMAIN << >> |-> Times(Len(<< >>[b].instructions), "return")] = << >>
  OBVIOUS
<1> QED
  BY <1>1, FlatEmpty DEF Returned

\* What the blocks of a function show is a text, and what the function does.
LEMMA DrewType ==
  ASSUME NEW x, Made(x)
  PROVE  Returned(x.blocks) \in Words /\ Drew(x) \in Words
<1>1. Returned(x.blocks) \in Words
  <2> DEFINE e == [instructions |-> << >>]
  <2>1. IsSeq(e.instructions)
    BY DEF IsSeq
  <2> HIDE DEF e
  <2> QED
    BY <2>1, ReturnedAppend DEF Made
<1>2. << "func" >> \in Words
  BY MarksFacts DEF Kinds
<1> QED
  BY <1>1, <1>2, JoinType DEF Drew

\* A function more ...
LEMMA DrawnAppend ==
  ASSUME NEW r, IRMade(r), NEW x, Made(x)
  PROVE  /\ IRMade(Append(r, x)) /\ Drawn(r) \in Words
         /\ Drawn(Append(r, x)) = Drawn(r) \o Drew(x)
<1> DEFINE a == Append(r, x)
           n == Len(r)
           p == [g \in DOMAIN r |-> Drew(r[g])]
           q == [g \in DOMAIN a |-> Drew(a[g])]
<1>1. n \in Nat /\ DOMAIN r = 1 .. n /\ IsSeq(r)
  BY SeqFacts DEF IRMade
<1>2. /\ IsSeq(a) /\ Len(a) = n + 1 /\ a[n + 1] = x
      /\ \A k \in 1 .. n : a[k] = r[k]
  BY <1>1, AppendFacts
<1>3. DOMAIN a = 1 .. n + 1
  BY <1>2, SeqFacts
<1> HIDE DEF a, n
<1>4. \A k \in 1 .. n + 1 : k = n + 1 \/ k \in 1 .. n
  BY <1>1
<1>5. \A k \in 1 .. n + 1 : Made(a[k])
  BY <1>1, <1>2, <1>4 DEF IRMade
<1>6. \A k \in 1 .. n + 1 : Drew(a[k]) \in Words
  BY <1>5, DrewType
<1>7. n + 1 \in 1 .. n + 1 /\ \A k \in 1 .. n : k \in 1 .. n + 1
  BY <1>1
<1>8. q \in [1 .. n + 1 -> Words] /\ q[n + 1] = Drew(x)
  BY <1>2, <1>3, <1>6, <1>7
<1>9. p \in [1 .. n -> Words] /\ \A k \in 1 .. n : q[k] = p[k]
  BY <1>1, <1>2, <1>3, <1>6, <1>7
<1> HIDE DEF p, q
<1>10. FlattenSeq(p) \in Words /\ FlattenSeq(q) = FlattenSeq(p) \o q[n + 1]
  BY <1>1, <1>8, <1>9, FlatGrow
<1> QED
  BY <1>2, <1>3, <1>5, <1>8, <1>10 DEF Drawn, IRMade, p, q, a

\* ... or the last one with a text behind it.
LEMMA DrawnReplace ==
  ASSUME NEW r, IRMade(r), r # << >>, NEW x, Made(x), NEW y \in Words,
         Drew(x) = Drew(r[Len(r)]) \o y
  PROVE  IRMade(Replace(r, x)) /\ Drawn(r) \in Words /\ Drawn(Replace(r, x)) = Drawn(r) \o y
<1> DEFINE a == Replace(r, x)
           n == Len(r) - 1
           e == [g \in 1 .. n |-> Drew(r[g])]
           p == [g \in DOMAIN r |-> Drew(r[g])]
           q == [g \in DOMAIN a |-> Drew(a[g])]
<1>1. IsSeq(r) /\ Len(r) \in Nat /\ Len(r) > 0 /\ DOMAIN r = 1 .. Len(r)
  BY SeqFacts DEF IRMade
<1>2. n \in Nat /\ n + 1 = Len(r) /\ DOMAIN r = 1 .. n + 1
  BY <1>1
<1>3. IsSeq(a) /\ Len(a) = Len(r) /\ a[Len(r)] = x /\ \A k \in 1 .. Len(r) - 1 : a[k] = r[k]
  BY <1>1, ReplaceFacts
<1>4. DOMAIN a = 1 .. n + 1 /\ a[n + 1] = x /\ \A k \in 1 .. n : a[k] = r[k]
  BY <1>2, <1>3, SeqFacts
<1> HIDE DEF a, n
<1>5. n + 1 \in 1 .. n + 1 /\ \A k \in 1 .. n + 1 : k = n + 1 \/ k \in 1 .. n
  BY <1>2
<1>6. \A k \in 1 .. n : k \in 1 .. n + 1
  BY <1>2
<1>7. \A k \in 1 .. n + 1 : Made(r[k]) /\ Made(a[k])
  BY <1>2, <1>4, <1>5, <1>6 DEF IRMade
<1>8. \A k \in 1 .. n + 1 : Drew(r[k]) \in Words /\ Drew(a[k]) \in Words
  BY <1>7, DrewType
<1>9. e \in [1 .. n -> Words]
  BY <1>6, <1>8
<1>10. p \in [1 .. n + 1 -> Words] /\ p[n + 1] = Drew(r[n + 1]) /\ \A k \in 1 .. n : p[k] = e[k]
  BY <1>2, <1>5, <1>6, <1>8
<1>11. q \in [1 .. n + 1 -> Words] /\ q[n + 1] = Drew(x) /\ \A k \in 1 .. n : q[k] = e[k]
  BY <1>4, <1>5, <1>6, <1>8
<1> HIDE DEF e, p, q
<1>12. FlattenSeq(e) \in Words /\ p[n + 1] \in Words /\ FlattenSeq(p) = FlattenSeq(e) \o p[n + 1]
  BY <1>2, <1>9, <1>10, FlatGrow
<1>13. FlattenSeq(q) = FlattenSeq(e) \o q[n + 1]
  BY <1>2, <1>9, <1>11, FlatGrow
<1>14. q[n + 1] = p[n + 1] \o y
  BY <1>2, <1>10, <1>11
<1>15. FlattenSeq(q) = FlattenSeq(p) \o y /\ FlattenSeq(p) \in Words
  <2>1. FlattenSeq(p) \in Words
    BY <1>12, JoinType
  <2>2. (FlattenSeq(e) \o p[n + 1]) \o y = FlattenSeq(e) \o (p[n + 1] \o y)
    BY <1>12, JoinAssoc
  <2> QED
    BY <1>12, <1>13, <1>14, <2>1, <2>2
<1> QED
  BY <1>3, <1>4, <1>7, <1>15 DEF Drawn, IRMade, p, q, a

\* No functions show nothing.
LEMMA DrawnNone == Drawn(<< >>) = << >>
<1>1. [g \in DOMAIN << >> |-> Drew(<< >>[g])] = << >>
  OBVIOUS
<1> QED
  BY <1>1, FlatEmpty DEF Drawn

-----------------------------------------------------------------------------
(***************************************************************************)
(* The invariant of the checker, of any unit that can be read.             *)
(***************************************************************************)

ReadInv == ReadOf(checked)

\* As long as the unit passes, the functions show what the statements do that it has gone
\* through, and what it has of the one it is at.
Unspoiled ==
  /\ \A k \in 1 .. s - 1 : ReturnsOnly(checked[k])
  /\ checking = "unit" =>
       /\ s > Len(checked) => i = 1
       /\ s <= Len(checked) => /\ i <= Len(checked[s].headers) + 1
                               /\ checked[s].holds = "func_def" => i = 1
       /\ Drawn(functions) = Given(checked, s - 1) \o Times(i - 1, "func")
  /\ checking = "enter" =>
       i = 1 /\ Drawn(functions) = Given(checked, s - 1) \o << "func" >>
  /\ checking = "block" =>
       /\ i <= Len(checked[s].block) + 1
       /\ \A k \in 1 .. i - 1 : checked[s].block[k].holds = "return"
       /\ Drawn(functions) = Given(checked, s - 1) \o (<< "func" >> \o Times(i - 1, "return"))
  /\ checking = "passed" =>
       s = Len(checked) + 1 /\ Drawn(functions) = Given(checked, Len(checked))

CheckInv ==
  /\ IRMade(functions)
  /\ checking \in {"unit", "enter", "block"} \cup Check!Final
  /\ s \in 1 .. Len(checked) + 1 /\ i \in Nat \ {0}
  /\ checking \in {"enter", "block"} =>
       /\ s \in DOMAIN checked /\ checked[s].holds = "func_def"
       /\ functions # << >> /\ parent_fn.at = Len(functions)
       /\ ~functions[Len(functions)].is_declaration
  /\ checking = "block" => new_block = Check!EmptyBlock(new_block.id)
  /\ passed \in BOOLEAN /\ complaints \in Nat /\ (passed <=> complaints = 0)
  /\ checking = "passed" => passed
  /\ checking = "failed" => ~passed
  /\ passed => Unspoiled

\* The unit, as a sequence.
LEMMA CheckedFacts ==
  ASSUME ReadInv
  PROVE  /\ IsSeq(checked) /\ Len(checked) \in Nat /\ DOMAIN checked = 1 .. Len(checked)
         /\ \A k \in DOMAIN checked : Legible(checked[k])
BY SeqFacts DEF ReadInv, ReadOf

\* It holds before the checker has begun.
LEMMA CheckBegins ==
  ASSUME ReadInv, checking = "unit", passed = TRUE, complaints = 0, s = 1, i = 1,
         functions = << >>
  PROVE  CheckInv
<1>1. Len(checked) \in Nat /\ DOMAIN checked = 1 .. Len(checked)
      /\ \A k \in DOMAIN checked : Legible(checked[k])
  BY CheckedFacts
<1>2. IRMade(functions)
  BY DEF IRMade, IsSeq
<1>3. Drawn(functions) = Given(checked, s - 1) \o Times(i - 1, "func")
  <2>1. s - 1 = 0 /\ i - 1 = 0
    OBVIOUS
  <2>2. Times(0, "func") = << >>
    BY TimesFacts DEF Kinds
  <2>3. << >> \o << >> = << >>
    OBVIOUS
  <2> QED
    BY <2>1, <2>2, <2>3, DrawnNone, GivenNone
<1>4. 1 <= Len(checked) => 1 <= Len(checked[1].headers) + 1
  <2> SUFFICES ASSUME 1 <= Len(checked) PROVE 1 <= Len(checked[1].headers) + 1
    OBVIOUS
  <2>1. 1 \in DOMAIN checked
    BY <1>1
  <2>2. Len(checked[1].headers) \in Nat
    BY <1>1, <2>1, SeqFacts DEF Legible
  <2> QED
    BY <2>2
<1>5. Unspoiled
  <2>1. 1 .. s - 1 = {}
    OBVIOUS
  <2> QED
    BY <1>3, <1>4, <2>1 DEF Unspoiled
<1> QED
  BY <1>1, <1>2, <1>5 DEF CheckInv

\* A function can be made of a header ...
LEMMA NewFunction ==
  ASSUME NEW x, Readable(x), NEW b \in BOOLEAN, NEW y,
         y = [header |-> x, is_declaration |-> b, blocks |-> << >>, tmp_counter |-> 0]
  PROVE  Made(y) /\ Drew(y) = << "func" >> /\ y.is_declaration = b
<1>1. y.header = x /\ y.is_declaration = b /\ y.blocks = << >>
  OBVIOUS
<1>2. IsSeq(y.blocks) /\ DOMAIN y.blocks = {}
  BY <1>1 DEF IsSeq
<1>3. << "func" >> \o << >> = << "func" >>
  OBVIOUS
<1> QED
  BY <1>1, <1>2, <1>3, ReturnedNone DEF Made, Drew

\* ... to which one is at.
LEMMA AtHeaderFacts ==
  ASSUME ReadInv, CheckInv, Check!AtHeader
  PROVE  /\ checking = "unit" /\ s \in DOMAIN checked /\ s <= Len(checked)
         /\ Check!statement = checked[s] /\ Check!header = checked[s].headers[i]
         /\ i \in 1 .. Len(checked[s].headers) /\ Len(checked[s].headers) \in Nat
         /\ Legible(checked[s]) /\ Readable(Check!header)
         /\ (Check!is_definition <=> checked[s].holds = "func_def")
<1>1. /\ Len(checked) \in Nat /\ DOMAIN checked = 1 .. Len(checked)
      /\ \A k \in DOMAIN checked : Legible(checked[k])
  BY CheckedFacts
<1>2. /\ checking = "unit" /\ s <= Len(checked) /\ i <= Len(checked[s].headers)
      /\ Check!statement = checked[s] /\ Check!header = checked[s].headers[i]
      /\ (Check!is_definition <=> checked[s].holds = "func_def")
  BY DEF Check!AtHeader, Check!statement, Check!header, Check!is_definition
<1>3. s \in DOMAIN checked
  BY <1>1, <1>2 DEF CheckInv
<1>4. Legible(checked[s])
  BY <1>1, <1>3
<1>5. Len(checked[s].headers) \in Nat /\ DOMAIN checked[s].headers = 1 .. Len(checked[s].headers)
  BY <1>4, SeqFacts DEF Legible
<1>6. i \in Nat /\ i >= 1
  BY DEF CheckInv
<1>7. i \in 1 .. Len(checked[s].headers)
  BY <1>2, <1>5, <1>6
<1>8. Readable(checked[s].headers[i])
  BY <1>4, <1>5, <1>7 DEF Legible
<1> QED
  BY <1>2, <1>3, <1>4, <1>5, <1>7, <1>8

\* check_function_header pushes a function.
LEMMA DeclareChecks ==
  ASSUME ReadInv, CheckInv, Check!Declare
  PROVE  CheckInv'
<1> DEFINE x == Check!header
           b == ~Check!is_definition
           y == [header |-> x, is_declaration |-> b, blocks |-> << >>, tmp_counter |-> 0]
           n == Len(functions)
<1>1. /\ checking = "unit" /\ s \in DOMAIN checked /\ s <= Len(checked)
      /\ i \in 1 .. Len(checked[s].headers) /\ Len(checked[s].headers) \in Nat
      /\ Legible(checked[s]) /\ Readable(x)
      /\ (Check!is_definition <=> checked[s].holds = "func_def")
  BY AtHeaderFacts DEF Check!Declare
<1>2. /\ Check!is_definition \in BOOLEAN /\ b \in BOOLEAN
  BY DEF Check!is_definition
<1>3. /\ functions' = Append(functions, y) /\ parent_fn'.at = Len(functions')
      /\ checking' = (IF Check!is_definition THEN "enter" ELSE "unit")
      /\ i' = (IF Check!is_definition THEN 1 ELSE i + 1)
      /\ UNCHANGED << checked, s, new_block, passed, complaints >>
  BY DEF Check!Declare
<1>4. Made(y) /\ Drew(y) = << "func" >> /\ y.is_declaration = b
  BY <1>1, <1>2, NewFunction
<1> HIDE DEF y, x
<1>5. /\ IRMade(functions') /\ Drawn(functions) \in Words
      /\ Drawn(functions') = Drawn(functions) \o << "func" >>
  BY <1>3, <1>4, DrawnAppend DEF CheckInv
<1>6. functions' # << >> /\ Len(functions') = n + 1 /\ functions'[n + 1] = y
  BY <1>3, AppendFacts DEF CheckInv, IRMade
<1>7. ASSUME passed
      PROVE  Unspoiled'
  <2>1. Unspoiled
    BY <1>7 DEF CheckInv
  <2>2. /\ (checked[s].holds = "func_def" => i = 1)
        /\ Drawn(functions) = Given(checked, s - 1) \o Times(i - 1, "func")
    BY <1>1, <2>1 DEF Unspoiled
  <2>3. i - 1 \in Nat /\ i - 1 + 1 = i /\ i + 1 - 1 = i
    BY <1>1
  <2>4. "func" \in Kinds
    BY DEF Kinds
  <2>5. Times(i - 1, "func") \in Words /\ Times(i, "func") = Times(i - 1, "func") \o << "func" >>
    BY <2>3, <2>4, TimesFacts
  <2>6. Given(checked, s - 1) \in Words /\ << "func" >> \in Words
    <3>1. s - 1 \in Nat /\ s - 1 + 1 <= Len(checked)
      BY <1>1, CheckedFacts
    <3> QED
      BY <2>4, <3>1, CheckedFacts, GivenNext, MarksFacts
  <2>7. Drawn(functions') = Given(checked, s - 1) \o Times(i, "func")
    BY <1>5, <2>2, <2>5, <2>6, JoinAssoc
  <2>8. CASE checked[s].holds = "func_def"
    <3>1. i = 1 /\ Times(1, "func") = << "func" >>
      <4>1. Times(1, "func") = << >> \o << "func" >>
        BY <2>2, <2>3, <2>4, <2>5, <2>8, TimesFacts
      <4> QED
        BY <2>2, <2>8, <4>1
    <3>2. checking' = "enter" /\ i' = 1
      BY <1>1, <1>3, <2>8
    <3> QED
      BY <1>3, <2>1, <2>7, <3>1, <3>2 DEF Unspoiled
  <2>9. CASE checked[s].holds # "func_def"
    <3>1. checking' = "unit" /\ i' = i + 1
      BY <1>1, <1>3, <2>9
    <3>2. ~(s > Len(checked)) /\ i + 1 <= Len(checked[s].headers) + 1
      BY <1>1, CheckedFacts
    <3>3. Times(i' - 1, "func") = Times(i, "func")
      BY <2>3, <3>1
    <3>4. /\ i' <= Len(checked[s].headers) + 1 /\ s' = s /\ checked' = checked
          /\ Drawn(functions') = Given(checked, s - 1) \o Times(i' - 1, "func")
      BY <1>3, <2>7, <3>1, <3>2, <3>3
    <3> QED
      BY <2>1, <2>9, <3>1, <3>2, <3>4 DEF Unspoiled
  <2> QED
    BY <2>8, <2>9
<1>8. i' \in Nat \ {0}
  BY <1>1, <1>3
<1>9. checking' \in {"enter", "block"} => checked[s].holds = "func_def" /\ ~y.is_declaration
  BY <1>1, <1>3, <1>4
<1>10. checking' \in {"unit", "enter"}
  BY <1>3
<1> QED
  BY <1>1, <1>3, <1>5, <1>6, <1>7, <1>8, <1>9, <1>10 DEF CheckInv, Check!Final

\* It finds one of that name.
LEMMA RedeclareChecks ==
  ASSUME ReadInv, CheckInv, Check!Redeclare
  PROVE  CheckInv'
<1>1. /\ checking = "unit" /\ i' = i + 1 /\ complaints' = complaints + 1 /\ passed' = FALSE
      /\ UNCHANGED << checked, checking, s, functions, parent_fn, new_block >>
  BY DEF Check!Redeclare, Check!AtHeader
<1>2. i' \in Nat \ {0} /\ complaints' \in Nat /\ complaints' # 0
  BY <1>1 DEF CheckInv
<1>3. passed' \in BOOLEAN /\ ~passed' /\ checking' = "unit"
  BY <1>1
<1> QED
  BY <1>1, <1>2, <1>3 DEF CheckInv

\* The loop goes on.
LEMMA NextStatementChecks ==
  ASSUME ReadInv, CheckInv, Check!NextStatement
  PROVE  CheckInv'
<1>1. /\ checking = "unit" /\ s <= Len(checked) /\ i > Len(checked[s].headers)
      /\ s' = s + 1 /\ i' = 1
      /\ UNCHANGED << checked, checking, functions, parent_fn, new_block, passed, complaints >>
  BY DEF Check!NextStatement, Check!statement
<1>2. /\ Len(checked) \in Nat /\ DOMAIN checked = 1 .. Len(checked)
      /\ \A k \in DOMAIN checked : Legible(checked[k])
  BY CheckedFacts
<1>3. s \in 1 .. Len(checked) /\ s \in DOMAIN checked /\ i \in Nat
  BY <1>1, <1>2 DEF CheckInv
<1>4. s' \in 1 .. Len(checked) + 1 /\ s' - 1 = s /\ s - 1 \in Nat /\ s - 1 + 1 = s
  BY <1>1, <1>2, <1>3
<1>5. ASSUME passed
      PROVE  Unspoiled'
  <2>1. Unspoiled
    BY <1>5 DEF CheckInv
  <2>2. Legible(checked[s])
    BY <1>2, <1>3
  <2>3. Len(checked[s].headers) \in Nat
    BY <2>2, SeqFacts DEF Legible
  <2>4. i = Len(checked[s].headers) + 1 /\ checked[s].holds # "func_def"
    <3>1. i <= Len(checked[s].headers) + 1 /\ (checked[s].holds = "func_def" => i = 1)
      BY <1>1, <2>1 DEF Unspoiled
    <3>2. checked[s].holds = "func_def" => Len(checked[s].headers) = 1
      BY <2>2 DEF Legible
    <3> DEFINE h == Len(checked[s].headers)
    <3>3. i > h /\ i <= h + 1 /\ i \in Nat /\ h \in Nat
      BY <1>1, <1>3, <2>3, <3>1
    <3>4. checked[s].holds = "func_def" => h = 1 /\ i = 1
      BY <3>1, <3>2
    <3> HIDE DEF h
    <3>5. i = h + 1
      BY ONLY <3>3
    <3>6. checked[s].holds # "func_def"
      BY ONLY <3>3, <3>4
    <3> QED
      BY <3>5, <3>6 DEF h
  <2>5. i - 1 = Len(checked[s].headers)
    BY <2>3, <2>4
  <2>6. Shown(checked[s]) = Times(i - 1, "func")
    BY <2>4, <2>5 DEF Shown
  <2>7. Given(checked, s) = Given(checked, s - 1) \o Shown(checked[s])
        /\ Given(checked, s) \in Words
    <3>1. s - 1 + 1 <= Len(checked)
      BY <1>2, <1>3
    <3>2. Given(checked, s - 1) \in Words
          /\ Given(checked, s - 1 + 1) = Given(checked, s - 1) \o Shown(checked[s - 1 + 1])
      BY <1>2, <1>4, <3>1, GivenNext
    <3>3. Shown(checked[s]) \in Words
      BY <2>2, ShownType
    <3>4. Given(checked, s) = Given(checked, s - 1) \o Shown(checked[s])
      BY <1>4, <3>2
    <3> QED
      BY <3>2, <3>3, <3>4, JoinType
  <2>8. Drawn(functions) = Given(checked, s)
    BY <1>1, <2>1, <2>6, <2>7 DEF Unspoiled
  <2>9. Times(i' - 1, "func") = << >>
    <3>1. i' - 1 = 0
      BY <1>1
    <3> QED
      BY <3>1, TimesFacts DEF Kinds
  <2>10. Drawn(functions') = Given(checked, s' - 1) \o Times(i' - 1, "func")
    BY <1>1, <1>4, <2>7, <2>8, <2>9, JoinNothing
  <2>11. \A k \in 1 .. s' - 1 : ReturnsOnly(checked[k])
    <3>1. \A k \in 1 .. s' - 1 : k = s \/ k \in 1 .. s - 1
      <4>1. s \in Nat
        BY <1>2, <1>3
      <4>2. \A k \in 1 .. s : k = s \/ k \in 1 .. s - 1
        BY <4>1
      <4> QED
        BY <1>4, <4>2
    <3>2. ReturnsOnly(checked[s])
      BY <2>4 DEF ReturnsOnly
    <3> QED
      BY <2>1, <3>1, <3>2 DEF Unspoiled
  <2>12. s' <= Len(checked) => i' <= Len(checked[s'].headers) + 1
    <3> SUFFICES ASSUME s' <= Len(checked) PROVE i' <= Len(checked[s'].headers) + 1
      OBVIOUS
    <3>1. s' \in DOMAIN checked
      BY <1>2, <1>4
    <3>2. Len(checked[s'].headers) \in Nat
      BY <1>2, <3>1, SeqFacts DEF Legible
    <3> QED
      BY <1>1, <3>2
  <2> QED
    BY <1>1, <2>10, <2>11, <2>12 DEF Unspoiled
<1> QED
  BY <1>1, <1>4, <1>5 DEF CheckInv

\* jac_check_unit returns.
LEMMA FinishChecks ==
  ASSUME ReadInv, CheckInv, Check!Finish
  PROVE  CheckInv'
<1>1. /\ checking = "unit" /\ s > Len(checked)
      /\ checking' = (IF passed THEN "passed" ELSE "failed")
      /\ UNCHANGED << checked, s, i, functions, parent_fn, new_block, passed, complaints >>
  BY DEF Check!Finish
<1>2. Len(checked) \in Nat
  BY CheckedFacts
<1>3. s = Len(checked) + 1 /\ s - 1 = Len(checked)
  BY <1>1, <1>2 DEF CheckInv
<1>4. ASSUME passed
      PROVE  Unspoiled'
  <2>1. Unspoiled /\ i = 1
    BY <1>1, <1>4 DEF CheckInv, Unspoiled
  <2>2. Drawn(functions) = Given(checked, s - 1) \o Times(i - 1, "func")
    BY <1>1, <2>1 DEF Unspoiled
  <2>3. Times(i - 1, "func") = << >>
    <3>1. i - 1 = 0
      BY <2>1
    <3> QED
      BY <3>1, TimesFacts DEF Kinds
  <2>4. Given(checked, s - 1) \in Words
    <3> DEFINE e == Given(checked, 0)
    <3>1. CASE Len(checked) = 0
      <4>1. s - 1 = 0
        BY <1>3, <3>1
      <4> QED
        BY <4>1, GivenNone, JoinEmpty
    <3>2. CASE Len(checked) # 0
      <4> DEFINE m == Len(checked) - 1
      <4>1. m \in Nat /\ m + 1 = Len(checked) /\ m + 1 <= Len(checked) /\ m + 1 \in 1 .. Len(checked)
        BY <1>2, <3>2
      <4> HIDE DEF m
      <4>2. Given(checked, m) \in Words
            /\ Given(checked, m + 1) = Given(checked, m) \o Shown(checked[m + 1])
        BY <1>2, <4>1, CheckedFacts, GivenNext
      <4>3. Shown(checked[m + 1]) \in Words
        BY <4>1, CheckedFacts, ShownType
      <4> QED
        BY <1>3, <4>1, <4>2, <4>3, JoinType
    <3> QED
      BY <3>1, <3>2
  <2>5. Drawn(functions) = Given(checked, Len(checked))
    BY <1>3, <2>2, <2>3, <2>4, JoinNothing
  <2>6. checking' = "passed"
    BY <1>1, <1>4
  <2> QED
    BY <1>1, <1>3, <2>1, <2>5, <2>6 DEF Unspoiled
<1> QED
  BY <1>1, <1>4 DEF CheckInv, Check!Final

\* What check_block writes through parent_fn goes to the last function.
LEMMA ParentMade ==
  ASSUME CheckInv, checking \in {"enter", "block"}, NEW bl, NEW tc, NEW y \in Words, IsSeq(bl),
         \A b \in DOMAIN bl : IsSeq(bl[b].instructions),
         Returned(bl) = Returned(functions[Len(functions)].blocks) \o y
  PROVE  /\ IRMade(Check!Parent(bl, tc)) /\ Check!Parent(bl, tc) # << >>
         /\ Len(Check!Parent(bl, tc)) = Len(functions)
         /\ ~Check!Parent(bl, tc)[Len(functions)].is_declaration
         /\ Drawn(functions) \in Words /\ Drawn(Check!Parent(bl, tc)) = Drawn(functions) \o y
<1> DEFINE n == Len(functions)
           x == functions[n]
           z == [header |-> x.header, is_declaration |-> x.is_declaration, blocks |-> bl,
                 tmp_counter |-> tc]
<1>1. IRMade(functions) /\ functions # << >> /\ parent_fn.at = n /\ ~x.is_declaration
  BY DEF CheckInv
<1>2. IsSeq(functions) /\ n \in DOMAIN functions
  <2>1. IsSeq(functions)
    BY <1>1 DEF IRMade
  <2>2. n \in Nat /\ n > 0 /\ DOMAIN functions = 1 .. n
    BY <1>1, <2>1, SeqFacts
  <2> HIDE DEF n
  <2> QED
    BY <2>1, <2>2
<1>3. Check!Parent(bl, tc) = Replace(functions, z)
  BY <1>1 DEF Check!Parent, Check!parent, Replace
<1>4. Made(x)
  BY <1>1, <1>2 DEF IRMade
<1>5. z.header = x.header /\ z.is_declaration = x.is_declaration /\ z.blocks = bl
  OBVIOUS
<1> HIDE DEF z
<1>6. Made(z)
  BY <1>1, <1>4, <1>5 DEF Made
<1>7. Drew(z) = Drew(x) \o y
  <2>1. Returned(x.blocks) \in Words /\ << "func" >> \in Words
    BY <1>4, DrewType, MarksFacts DEF Kinds
  <2>2. Returned(bl) = Returned(x.blocks) \o y
    OBVIOUS
  <2>3. (<< "func" >> \o Returned(x.blocks)) \o y = << "func" >> \o (Returned(x.blocks) \o y)
    BY <2>1, JoinAssoc
  <2> QED
    BY <1>5, <2>2, <2>3 DEF Drew
<1>8. /\ IRMade(Replace(functions, z)) /\ Drawn(functions) \in Words
      /\ Drawn(Replace(functions, z)) = Drawn(functions) \o y
  BY <1>1, <1>6, <1>7, DrawnReplace
<1>9. /\ Len(Replace(functions, z)) = n /\ Replace(functions, z)[n] = z
      /\ Replace(functions, z) # << >>
  BY <1>1, <1>2, ReplaceFacts
<1> QED
  BY <1>1, <1>3, <1>5, <1>8, <1>9

\* The function whose body is checked, and the statement.
LEMMA BodyFacts ==
  ASSUME ReadInv, CheckInv, checking \in {"enter", "block"}
  PROVE  /\ Check!parent = functions[Len(functions)] /\ Made(functions[Len(functions)])
         /\ s \in DOMAIN checked /\ s <= Len(checked) /\ Check!statement = checked[s]
         /\ checked[s].holds = "func_def" /\ Len(checked[s].block) \in Nat
         /\ i \in Nat /\ i >= 1 /\ s \in Nat /\ s - 1 \in Nat /\ s - 1 + 1 = s
         /\ Given(checked, s - 1) \in Words
         /\ Given(checked, s) = Given(checked, s - 1) \o (<< "func" >> \o Times(Len(checked[s].block), "return"))
<1>1. /\ Len(checked) \in Nat /\ DOMAIN checked = 1 .. Len(checked)
      /\ \A k \in DOMAIN checked : Legible(checked[k])
  BY CheckedFacts
<1>2. /\ IRMade(functions) /\ functions # << >> /\ parent_fn.at = Len(functions)
      /\ s \in DOMAIN checked /\ checked[s].holds = "func_def"
  BY DEF CheckInv
<1>3. Made(functions[Len(functions)])
  <2> DEFINE n == Len(functions)
  <2>1. n \in Nat /\ n > 0 /\ DOMAIN functions = 1 .. n
    BY <1>2, SeqFacts DEF IRMade
  <2> HIDE DEF n
  <2>2. n \in DOMAIN functions
    BY <2>1
  <2> QED
    BY <1>2, <2>2 DEF IRMade, n
<1>4. s \in Nat /\ s - 1 \in Nat /\ s - 1 + 1 = s /\ s <= Len(checked)
  BY <1>1, <1>2
<1>5. Given(checked, s - 1) \in Words
      /\ Given(checked, s - 1 + 1) = Given(checked, s - 1) \o Shown(checked[s - 1 + 1])
  <2>1. s - 1 + 1 <= Len(checked)
    BY <1>4
  <2> QED
    BY <1>1, <1>4, <2>1, GivenNext
<1>6. Given(checked, s) = Given(checked, s - 1) \o Shown(checked[s])
  BY <1>4, <1>5
<1>7. Shown(checked[s]) = << "func" >> \o Times(Len(checked[s].block), "return")
  BY <1>2 DEF Shown
<1>8. Len(checked[s].block) \in Nat
  BY <1>1, <1>2, SeqFacts DEF Legible
<1>9. i \in Nat /\ i >= 1
  BY DEF CheckInv
<1>10. Check!parent = functions[Len(functions)] /\ Check!statement = checked[s]
  BY <1>2 DEF Check!parent, Check!statement
<1> QED
  BY <1>2, <1>3, <1>4, <1>5, <1>6, <1>7, <1>8, <1>9, <1>10

\* check_block begins a block ...
LEMMA EnterChecks ==
  ASSUME ReadInv, CheckInv, Check!Enter
  PROVE  CheckInv'
<1> DEFINE x == functions[Len(functions)]
           tc == Check!parent.tmp_counter + 1
<1>1. /\ checking = "enter" /\ checking' = "block" /\ functions' = Check!Parent(Check!parent.blocks, tc)
      /\ new_block' = Check!EmptyBlock(Check!parent.tmp_counter)
      /\ UNCHANGED << checked, s, i, parent_fn, passed, complaints >>
  BY DEF Check!Enter
<1> HIDE DEF tc
<1>2. /\ Check!parent = x /\ Made(x) /\ s \in DOMAIN checked /\ Len(checked[s].block) \in Nat
      /\ Given(checked, s - 1) \in Words
  BY <1>1, BodyFacts
<1>3. << >> \in Words /\ Returned(x.blocks) = Returned(x.blocks) \o << >>
  BY <1>2, DrewType, JoinEmpty
<1>4. functions' = Check!Parent(x.blocks, tc)
  BY <1>1, <1>2
<1>5. IsSeq(x.blocks) /\ \A b \in DOMAIN x.blocks : IsSeq(x.blocks[b].instructions)
  BY <1>2 DEF Made
<1>6. /\ IRMade(functions') /\ functions' # << >> /\ Len(functions') = Len(functions)
      /\ ~functions'[Len(functions)].is_declaration
      /\ Drawn(functions) \in Words /\ Drawn(functions') = Drawn(functions) \o << >>
  <2> DEFINE bl == x.blocks
             w == << >>
  <2>1. /\ w \in Words /\ IsSeq(bl) /\ (\A b \in DOMAIN bl : IsSeq(bl[b].instructions))
        /\ Returned(bl) = Returned(functions[Len(functions)].blocks) \o w
        /\ checking \in {"enter", "block"} /\ functions' = Check!Parent(bl, tc)
    BY <1>1, <1>3, <1>4, <1>5
  <2> HIDE DEF bl, w, x
  <2>2. /\ IRMade(Check!Parent(bl, tc)) /\ Check!Parent(bl, tc) # << >>
        /\ Len(Check!Parent(bl, tc)) = Len(functions)
        /\ ~Check!Parent(bl, tc)[Len(functions)].is_declaration
        /\ Drawn(functions) \in Words /\ Drawn(Check!Parent(bl, tc)) = Drawn(functions) \o w
    BY <2>1, ParentMade
  <2> QED
    BY <2>1, <2>2 DEF w
<1>7. new_block' = Check!EmptyBlock(new_block'.id)
  BY <1>1 DEF Check!EmptyBlock
<1>8. ASSUME passed
      PROVE  Unspoiled'
  <2>1. Unspoiled /\ i = 1 /\ Drawn(functions) = Given(checked, s - 1) \o << "func" >>
    BY <1>1, <1>8 DEF CheckInv, Unspoiled
  <2>2. Times(i - 1, "return") = << >> /\ << "func" >> \o << >> = << "func" >>
    <3>1. i - 1 = 0
      BY <2>1
    <3>2. "return" \in Kinds
      BY DEF Kinds
    <3>3. Times(0, "return") = << >>
      BY <3>2, TimesFacts
    <3>4. << "func" >> \o << >> = << "func" >>
      OBVIOUS
    <3> QED
      BY <3>1, <3>3, <3>4
  <2>3. Drawn(functions') = Given(checked, s - 1) \o (<< "func" >> \o Times(i - 1, "return"))
    BY <1>6, <2>1, <2>2, JoinNothing
  <2>4. 1 .. i - 1 = {} /\ i <= Len(checked[s].block) + 1
    BY <1>2, <2>1
  <2> QED
    BY <1>1, <2>1, <2>3, <2>4 DEF Unspoiled
<1> QED
  BY <1>1, <1>6, <1>7, <1>8 DEF CheckInv

\* ... puts a return into it ...
LEMMA CheckReturnChecks ==
  ASSUME ReadInv, CheckInv, Check!CheckReturn
  PROVE  CheckInv'
<1> DEFINE x == functions[Len(functions)]
           tc == Check!parent.tmp_counter + 1
           y == Check!Closed
           bl == Append(x.blocks, y)
           w == << "return" >>
<1>1. /\ checking = "block" /\ i <= Len(Check!statement.block) /\ Check!scope.holds = "return"
      /\ functions' = Check!Parent(Append(Check!parent.blocks, y), tc)
      /\ new_block' = Check!EmptyBlock(Check!parent.tmp_counter) /\ i' = i + 1
      /\ UNCHANGED << checked, checking, s, parent_fn, passed, complaints >>
  BY DEF Check!CheckReturn, Check!InLoop
<1>2. IsSeq(y.instructions) /\ Len(y.instructions) = 1
  <2> DEFINE ins == [op |-> "RET", operands |-> << Check!scope.expression.token >>]
  <2>1. new_block = [id |-> new_block.id, instructions |-> << >>]
    BY <1>1 DEF CheckInv, Check!EmptyBlock
  <2>2. y = [new_block EXCEPT !.instructions = Append(@, ins)]
    BY DEF Check!Closed
  <2> HIDE DEF ins
  <2>3. PICK id : new_block = [id |-> id, instructions |-> << >>]
    BY <2>1
  <2>4. y.instructions = Append(<< >>, ins)
    BY ONLY <2>2, <2>3
  <2>5. Append(<< >>, ins) \in Seq({ins}) /\ Len(Append(<< >>, ins)) = 1
    OBVIOUS
  <2> QED
    BY <2>4, <2>5 DEF IsSeq
<1> HIDE DEF tc, y
<1>3. /\ Check!parent = x /\ Made(x) /\ s \in DOMAIN checked /\ Len(checked[s].block) \in Nat
      /\ Given(checked, s - 1) \in Words /\ i \in Nat /\ i >= 1 /\ Check!statement = checked[s]
  BY <1>1, BodyFacts
<1>4. functions' = Check!Parent(bl, tc)
  BY <1>1, <1>3
<1>5. "return" \in Kinds /\ "func" \in Kinds
  BY DEF Kinds
<1>6. w \in Words /\ Times(1, "return") = w
  <2>1. Times(0 + 1, "return") = Times(0, "return") \o w /\ Times(0, "return") = << >>
    BY <1>5, TimesFacts
  <2>2. << >> \o w = w /\ 0 + 1 = 1
    OBVIOUS
  <2> QED
    BY <1>5, <2>1, <2>2, MarksFacts
<1>7. IsSeq(x.blocks) /\ \A b \in DOMAIN x.blocks : IsSeq(x.blocks[b].instructions)
  BY <1>3 DEF Made
<1>8. IsSeq(bl)
  BY <1>7, AppendFacts
<1>9. /\ Returned(bl) = Returned(x.blocks) \o Times(Len(y.instructions), "return")
      /\ \A b \in DOMAIN bl : IsSeq(bl[b].instructions)
  BY <1>2, <1>7, ReturnedAppend
<1> HIDE DEF bl
<1>10. Returned(bl) = Returned(x.blocks) \o w
  BY <1>2, <1>6, <1>9
<1> HIDE DEF w
<1>11. /\ IRMade(functions') /\ functions' # << >> /\ Len(functions') = Len(functions)
       /\ ~functions'[Len(functions)].is_declaration
       /\ Drawn(functions) \in Words /\ Drawn(functions') = Drawn(functions) \o w
  <2>1. Returned(bl) = Returned(functions[Len(functions)].blocks) \o w
    BY <1>10
  <2> HIDE DEF x
  <2>2. /\ IRMade(Check!Parent(bl, tc)) /\ Check!Parent(bl, tc) # << >>
        /\ Len(Check!Parent(bl, tc)) = Len(functions)
        /\ ~Check!Parent(bl, tc)[Len(functions)].is_declaration
        /\ Drawn(functions) \in Words /\ Drawn(Check!Parent(bl, tc)) = Drawn(functions) \o w
    BY <1>1, <1>6, <1>8, <1>9, <2>1, ParentMade
  <2> QED
    BY <1>4, <2>2
<1>12. new_block' = Check!EmptyBlock(new_block'.id)
  BY <1>1 DEF Check!EmptyBlock
<1>13. i' \in Nat \ {0} /\ i' - 1 = i /\ i - 1 \in Nat /\ i - 1 + 1 = i
  BY <1>1, <1>3
<1>14. ASSUME passed
       PROVE  Unspoiled'
  <2> DEFINE p == Given(checked, s - 1)
             q == Times(i - 1, "return")
             fu == << "func" >>
  <2>1. Unspoiled /\ Drawn(functions) = p \o (fu \o q)
    BY <1>1, <1>14 DEF CheckInv, Unspoiled
  <2>2. p \in Words /\ q \in Words /\ fu \in Words /\ Times(i, "return") = q \o w
    BY <1>3, <1>5, <1>13, TimesFacts, MarksFacts DEF w
  <2> HIDE DEF p, q, fu
  <2>3. Drawn(functions') = p \o (fu \o Times(i, "return"))
    <3>1. fu \o q \in Words
      BY <2>2, JoinType
    <3>2. (p \o (fu \o q)) \o w = p \o ((fu \o q) \o w) /\ (fu \o q) \o w = fu \o (q \o w)
      BY <1>6, <2>2, <3>1, JoinAssoc, ZenonT(40)
    <3> QED
      BY <1>11, <2>1, <2>2, <3>2
  <2>4. \A k \in 1 .. i : checked[s].block[k].holds = "return"
    <3>1. checked[s].block[i].holds = "return"
      BY <1>1, <1>3 DEF Check!scope
    <3>2. \A k \in 1 .. i : k = i \/ k \in 1 .. i - 1
      BY <1>3
    <3> QED
      BY <1>1, <2>1, <3>1, <3>2 DEF Unspoiled
  <2>5. i' <= Len(checked[s].block) + 1
    BY <1>1, <1>3
  <2>6. Drawn(functions') = Given(checked, s - 1) \o (<< "func" >> \o Times(i' - 1, "return"))
    BY <1>13, <2>3 DEF p, fu
  <2>7. \A k \in 1 .. i' - 1 : checked[s].block[k].holds = "return"
    BY <1>13, <2>4
  <2> QED
    BY <1>1, <2>1, <2>5, <2>6, <2>7 DEF Unspoiled
<1> QED
  BY <1>1, <1>11, <1>12, <1>13, <1>14 DEF CheckInv

\* ... stops in an assertion or a read of what is not there ...
LEMMA StopChecks ==
  ASSUME CheckInv, Check!NullExpression \/ Check!Unreachable
  PROVE  CheckInv'
<1>1. /\ checking' \in {"aborted", "crashed"}
      /\ UNCHANGED << checked, s, i, functions, parent_fn, new_block, passed, complaints >>
  BY DEF Check!NullExpression, Check!Unreachable
<1>2. Unspoiled => Unspoiled'
  BY <1>1 DEF Unspoiled
<1> QED
  BY <1>1, <1>2 DEF CheckInv, Check!Final

\* ... and ends the last one.
LEMMA EndBlockChecks ==
  ASSUME ReadInv, CheckInv, Check!EndBlock
  PROVE  CheckInv'
<1> DEFINE x == functions[Len(functions)]
           tc == Check!parent.tmp_counter
           y == new_block
           bl == Append(x.blocks, y)
<1>1. /\ checking = "block" /\ i > Len(Check!statement.block) /\ checking' = "unit"
      /\ functions' = Check!Parent(Append(Check!parent.blocks, y), tc) /\ s' = s + 1 /\ i' = 1
      /\ UNCHANGED << checked, parent_fn, new_block, passed, complaints >>
  BY DEF Check!EndBlock
<1>2. IsSeq(y.instructions) /\ Len(y.instructions) = 0
  <2>1. y.instructions = << >>
    BY <1>1 DEF CheckInv, Check!EmptyBlock
  <2> QED
    BY <2>1 DEF IsSeq
<1> HIDE DEF tc, y
<1>3. /\ Check!parent = x /\ Made(x) /\ s \in DOMAIN checked /\ Len(checked[s].block) \in Nat
      /\ i \in Nat /\ i >= 1 /\ Check!statement = checked[s] /\ s \in Nat /\ s <= Len(checked)
      /\ Given(checked, s - 1) \in Words /\ checked[s].holds = "func_def"
      /\ Given(checked, s) = Given(checked, s - 1) \o (<< "func" >> \o Times(Len(checked[s].block), "return"))
  BY <1>1, BodyFacts
<1>4. functions' = Check!Parent(bl, tc)
  BY <1>1, <1>3
<1>5. << >> \in Words /\ Times(0, "return") = << >>
  BY TimesFacts, JoinEmpty DEF Kinds
<1>6. IsSeq(x.blocks) /\ \A b \in DOMAIN x.blocks : IsSeq(x.blocks[b].instructions)
  BY <1>3 DEF Made
<1>7. IsSeq(bl)
  BY <1>6, AppendFacts
<1>8. /\ Returned(bl) = Returned(x.blocks) \o Times(Len(y.instructions), "return")
      /\ \A b \in DOMAIN bl : IsSeq(bl[b].instructions)
  BY <1>2, <1>6, ReturnedAppend
<1> HIDE DEF bl
<1>9. Returned(bl) = Returned(x.blocks) \o << >>
  BY <1>2, <1>5, <1>8
<1>10. /\ IRMade(functions') /\ functions' # << >>
       /\ Drawn(functions) \in Words /\ Drawn(functions') = Drawn(functions) \o << >>
  BY <1>1, <1>4, <1>5, <1>7, <1>8, <1>9, ParentMade
<1>11. /\ Len(checked) \in Nat /\ DOMAIN checked = 1 .. Len(checked)
       /\ \A k \in DOMAIN checked : Legible(checked[k])
  BY CheckedFacts
<1>12. s' \in 1 .. Len(checked) + 1 /\ s' - 1 = s
  BY <1>1, <1>3, <1>11
<1>13. ASSUME passed
       PROVE  Unspoiled'
  <2>1. Unspoiled /\ i <= Len(checked[s].block) + 1
        /\ Drawn(functions) = Given(checked, s - 1) \o (<< "func" >> \o Times(i - 1, "return"))
    BY <1>1, <1>13 DEF CheckInv, Unspoiled
  <2>2. i - 1 = Len(checked[s].block)
    BY <1>1, <1>3, <2>1
  <2>3. Drawn(functions') = Given(checked, s)
    BY <1>3, <1>10, <2>1, <2>2, JoinNothing
  <2>4. Times(i' - 1, "func") = << >>
    <3>1. i' - 1 = 0
      BY <1>1
    <3> QED
      BY <3>1, TimesFacts DEF Kinds
  <2>5. Given(checked, s) \in Words
    BY <1>10, <2>3, JoinNothing
  <2>6. Drawn(functions') = Given(checked, s' - 1) \o Times(i' - 1, "func")
    BY <1>12, <2>3, <2>4, <2>5, JoinNothing
  <2>7. \A k \in 1 .. s' - 1 : ReturnsOnly(checked[k])
    <3>1. \A k \in 1 .. s : k = s \/ k \in 1 .. s - 1
      BY <1>3
    <3>2. ReturnsOnly(checked[s])
      <4>1. \A k \in 1 .. i - 1 : checked[s].block[k].holds = "return"
        BY <1>1, <2>1 DEF Unspoiled
      <4>2. DOMAIN checked[s].block = 1 .. Len(checked[s].block)
        BY <1>3, <1>11, SeqFacts DEF Legible
      <4> QED
        BY <2>2, <4>1, <4>2 DEF ReturnsOnly
    <3>3. \A k \in 1 .. s : ReturnsOnly(checked[k])
      BY <2>1, <3>1, <3>2 DEF Unspoiled
    <3> QED
      BY <1>12, <3>3
  <2>8. s' <= Len(checked) => i' <= Len(checked[s'].headers) + 1
    <3> SUFFICES ASSUME s' <= Len(checked) PROVE i' <= Len(checked[s'].headers) + 1
      OBVIOUS
    <3>1. s' \in DOMAIN checked
      BY <1>11, <1>12
    <3>2. Len(checked[s'].headers) \in Nat
      BY <1>11, <3>1, SeqFacts DEF Legible
    <3> QED
      BY <1>1, <3>2
  <2> QED
    BY <1>1, <2>6, <2>7, <2>8 DEF Unspoiled
<1> QED
  BY <1>1, <1>10, <1>12, <1>13 DEF CheckInv

\* Every step of the checker keeps it.
LEMMA CheckStep ==
  ASSUME ReadInv, CheckInv, Check!Next
  PROVE  CheckInv'
BY DeclareChecks, RedeclareChecks, NextStatementChecks, FinishChecks, EnterChecks,
   CheckReturnChecks, StopChecks, EndBlockChecks DEF Check!Next

-----------------------------------------------------------------------------
(***************************************************************************)
(* Sequences of anything, and of the sets that their elements are in.      *)
(***************************************************************************)

\* Two sequences are of one set.
LEMMA OneSet ==
  ASSUME NEW q, IsSeq(q), NEW r, IsSeq(r)
  PROVE  \E V : q \in Seq(V) /\ r \in Seq(V)
<1>1. PICK S : q \in Seq(S)
  BY DEF IsSeq
<1>2. PICK T : r \in Seq(T)
  BY DEF IsSeq
<1> DEFINE V == S \cup T
<1>3. q \in Seq(V) /\ r \in Seq(V)
  BY <1>1, <1>2
<1> QED
  BY <1>3

\* Joined they are one sequence ...
LEMMA SeqsJoin ==
  ASSUME NEW q, IsSeq(q), NEW r, IsSeq(r)
  PROVE  /\ IsSeq(q \o r) /\ Len(q \o r) = Len(q) + Len(r)
         /\ \A k \in 1 .. Len(q) : (q \o r)[k] = q[k]
         /\ q \o << >> = q /\ << >> \o q = q
<1>1. PICK V : q \in Seq(V) /\ r \in Seq(V)
  BY OneSet
<1>2. q \o r \in Seq(V) /\ Len(q \o r) = Len(q) + Len(r)
  BY <1>1
<1>3. \A k \in 1 .. Len(q) : (q \o r)[k] = q[k]
  BY <1>1
<1>4. q \o << >> = q /\ << >> \o q = q
  BY <1>1
<1> QED
  BY <1>2, <1>3, <1>4 DEF IsSeq

\* ... in any order.
LEMMA SeqsAssoc ==
  ASSUME NEW q, IsSeq(q), NEW r, IsSeq(r), NEW t, IsSeq(t)
  PROVE  (q \o r) \o t = q \o (r \o t)
<1>1. PICK V : q \in Seq(V) /\ r \in Seq(V)
  BY OneSet
<1>2. PICK T : t \in Seq(T)
  BY DEF IsSeq
<1> DEFINE W == V \cup T
<1>3. q \in Seq(W) /\ r \in Seq(W) /\ t \in Seq(W)
  BY <1>1, <1>2
<1> HIDE DEF W
<1> QED
  BY <1>3

\* What matches, joined, ...
LEMMA PiecesJoin ==
  ASSUME NEW v, IsSeq(v), NEW w, IsSeq(w), NEW x, IsSeq(x), NEW y, IsSeq(y),
         Matches(v, w), Matches(x, y)
  PROVE  Matches(v \o x, w \o y)
<1>1. PICK V : v \in Seq(V) /\ x \in Seq(V)
  BY OneSet
<1>2. PICK W : w \in Seq(W) /\ y \in Seq(W)
  BY OneSet
<1> QED
  BY <1>1, <1>2, MatchesJoin

\* ... one by one.
LEMMA PieceAppend ==
  ASSUME NEW v, IsSeq(v), NEW w, IsSeq(w), Matches(v, w), NEW x, NEW y, x \in y
  PROVE  IsSeq(Append(v, x)) /\ IsSeq(w \o << y >>) /\ Matches(Append(v, x), w \o << y >>)
<1> DEFINE a == << x >>
           b == << y >>
<1>1. a \in Seq({x}) /\ b \in Seq({y}) /\ Len(a) = 1 /\ Len(b) = 1 /\ a[1] = x /\ b[1] = y
  OBVIOUS
<1> HIDE DEF a, b
<1>2. IsSeq(a) /\ IsSeq(b)
  BY <1>1 DEF IsSeq
<1>3. Matches(a, b)
  <2>1. \A k \in 1 .. 1 : k = 1
    OBVIOUS
  <2> QED
    BY <1>1, <2>1 DEF Matches
<1>4. Append(v, x) = v \o a
  <2>1. PICK V : v \in Seq(V)
    BY DEF IsSeq
  <2> DEFINE W == V \cup {x}
  <2>2. v \in Seq(W) /\ x \in W
    BY <2>1
  <2> HIDE DEF W
  <2> QED
    BY <2>2 DEF a
<1>5. IsSeq(w \o b)
  BY <1>2, SeqsJoin
<1>6. IsSeq(Append(v, x))
  BY AppendFacts
<1> QED
  BY <1>2, <1>3, <1>4, <1>5, <1>6, PiecesJoin DEF b

\* What is matched by a beginning of a listing is that of the listing.
LEMMA BeginningOf ==
  ASSUME NEW v, IsSeq(v), NEW w, IsSeq(w), NEW r, IsSeq(r), Matches(v, w)
  PROVE  /\ Len(v) <= Len(w \o r)
         /\ \A k \in DOMAIN v : v[k] \in (w \o r)[k]
<1>1. /\ Len(w \o r) = Len(w) + Len(r) /\ Len(w) \in Nat /\ Len(r) \in Nat /\ Len(v) = Len(w)
      /\ DOMAIN v = 1 .. Len(v) /\ \A k \in 1 .. Len(w) : (w \o r)[k] = w[k]
  BY SeqsJoin, SeqFacts DEF Matches
<1>2. Len(v) <= Len(w) + Len(r)
  BY <1>1
<1> QED
  BY <1>1, <1>2 DEF Matches

-----------------------------------------------------------------------------
(***************************************************************************)
(* The IR that is printed.                                                 *)
(***************************************************************************)

\* A function as the printer reads it, and what of its blocks is printed.
Typeset(x) ==
  /\ IsSeq(x.args) /\ Len(x.args) < Size /\ x.returns \in BOOLEAN /\ x.is_declaration \in BOOLEAN
  /\ IsSeq(x.blocks) /\ \A b \in DOMAIN x.blocks : IsSeq(x.blocks[b])

IRTypeset(r) == IsSeq(r) /\ \A g \in DOMAIN r : Typeset(r[g])

Inside(x) == IF x.is_declaration THEN << >> ELSE x.blocks
Inked(x)  == << "func" >> \o FlattenSeq([b \in DOMAIN Inside(x) |-> Times(Len(Inside(x)[b]), "return")])

\* A function that is handed over shows what the one that was made does.
LEMMA FunctionHanded ==
  ASSUME NEW x, Made(x)
  PROVE  Typeset(Printed(x)) /\ Inked(Printed(x)) = Drew(x)
<1> DEFINE y == Printed(x)
           instructions(b) == x.blocks[b].instructions
           line(b) == [k \in DOMAIN instructions(b) |-> instructions(b)[k].operands[1]]
           bl == [b \in DOMAIN x.blocks |-> line(b)]
<1>1. /\ y.args = x.header.args /\ y.returns = x.header.returns
      /\ y.is_declaration = x.is_declaration /\ y.blocks = bl
  BY DEF Printed
<1>2. /\ Readable(x.header) /\ x.is_declaration \in BOOLEAN /\ IsSeq(x.blocks)
      /\ (\A b \in DOMAIN x.blocks : IsSeq(instructions(b)))
      /\ (x.is_declaration => x.blocks = << >>)
  BY DEF Made
<1>3. \A b \in DOMAIN x.blocks : line(b) = [k \in DOMAIN instructions(b) |-> line(b)[k]]
  OBVIOUS
<1>4. bl = [b \in DOMAIN x.blocks |-> bl[b]] /\ \A b \in DOMAIN x.blocks : bl[b] = line(b)
  OBVIOUS
<1> HIDE DEF y, line, instructions, bl
<1>5. \A b \in DOMAIN x.blocks : IsSeq(line(b)) /\ Len(line(b)) = Len(instructions(b))
  BY <1>2, <1>3, Replaced
<1>6. IsSeq(bl) /\ DOMAIN bl = DOMAIN x.blocks /\ Len(bl) = Len(x.blocks)
  BY <1>2, <1>4, Replaced
<1>7. Typeset(y)
  BY <1>1, <1>2, <1>4, <1>5, <1>6 DEF Typeset, Readable
<1>8. Inside(y) = bl
  <2>1. CASE y.is_declaration
    <3>1. x.blocks = << >>
      BY <1>1, <1>2, <2>1
    <3>2. Len(bl) = 0
      BY <1>6, <3>1
    <3>3. bl = << >>
      BY <1>6, <3>2, SeqFacts
    <3> QED
      BY <2>1, <3>3 DEF Inside
  <2>2. CASE ~y.is_declaration
    BY <1>1, <2>2 DEF Inside
  <2> QED
    BY <2>1, <2>2
<1>9. [b \in DOMAIN bl |-> Times(Len(bl[b]), "return")]
      = [b \in DOMAIN x.blocks |-> Times(Len(instructions(b)), "return")]
  BY <1>4, <1>5, <1>6
<1>10. Returned(x.blocks) = FlattenSeq([b \in DOMAIN x.blocks |-> Times(Len(instructions(b)), "return")])
  BY DEF Returned, instructions
<1> QED
  BY <1>7, <1>8, <1>9, <1>10 DEF Inked, Drew, y

\* So does the IR.
LEMMA IRHanded ==
  ASSUME NEW r, IRMade(r), NEW t, t = [k \in DOMAIN r |-> Printed(r[k])]
  PROVE  IRTypeset(t) /\ FlattenSeq([g \in DOMAIN t |-> Inked(t[g])]) = Drawn(r)
<1>1. IsSeq(r) /\ \A k \in DOMAIN r : Made(r[k])
  BY DEF IRMade
<1>2. t = [k \in DOMAIN r |-> t[k]] /\ \A k \in DOMAIN r : t[k] = Printed(r[k])
  OBVIOUS
<1>3. IsSeq(t) /\ DOMAIN t = DOMAIN r
  BY <1>1, <1>2, Replaced
<1>4. \A k \in DOMAIN r : Typeset(t[k]) /\ Inked(t[k]) = Drew(r[k])
  BY <1>1, <1>2, FunctionHanded
<1>5. [g \in DOMAIN t |-> Inked(t[g])] = [g \in DOMAIN r |-> Drew(r[g])]
  BY <1>3, <1>4
<1> QED
  BY <1>3, <1>4, <1>5 DEF IRTypeset, Drawn

\* Sequences in a sequence are of one set.
LEMMA CommonSet ==
  ASSUME NEW t, IsSeq(t), \A b \in DOMAIN t : IsSeq(t[b])
  PROVE  \E V : t \in Seq(Seq(V))
<1> DEFINE V == UNION {{t[b][k] : k \in DOMAIN t[b]} : b \in DOMAIN t}
           n == Len(t)
<1>1. n \in Nat /\ DOMAIN t = 1 .. n
  BY SeqFacts
<1>2. ASSUME NEW b \in DOMAIN t
      PROVE  t[b] \in Seq(V)
  <2> DEFINE x == t[b]
             m == Len(x)
  <2>1. IsSeq(x)
    OBVIOUS
  <2>2. \A k \in DOMAIN x : x[k] \in V
    OBVIOUS
  <2> HIDE DEF x, V
  <2>3. PICK S : x \in Seq(S)
    BY <2>1 DEF IsSeq
  <2>4. m \in Nat /\ DOMAIN x = 1 .. m /\ x \in [1 .. m -> S]
    BY <2>3
  <2>5. x \in [1 .. m -> V]
    BY <2>2, <2>4
  <2>6. x \in Seq(V)
    BY <2>4, <2>5, MadeSeq
  <2> QED
    BY <2>6 DEF x
<1> HIDE DEF V
<1>3. PICK S : t \in Seq(S)
  BY DEF IsSeq
<1>4. t \in [1 .. n -> S]
  BY <1>3
<1>5. t \in [1 .. n -> Seq(V)]
  BY <1>1, <1>2, <1>4
<1>6. t \in Seq(Seq(V))
  BY <1>1, <1>5, MadeSeq
<1> QED
  BY <1>6

\* Joined they are one.
LEMMA FlatSeq ==
  ASSUME NEW t, IsSeq(t), \A b \in DOMAIN t : IsSeq(t[b])
  PROVE  IsSeq(FlattenSeq(t))
<1>1. PICK V : t \in Seq(Seq(V))
  BY CommonSet
<1> DEFINE W == Seq(V)
<1>2. W = Seq(V) /\ t \in Seq(W)
  BY <1>1
<1> HIDE DEF W
<1>3. FlattenSeq(t) \in W
  BY <1>2, JoinedType
<1> QED
  BY <1>2, <1>3 DEF IsSeq

\* A function that is made of a number of things.
LEMMA Built ==
  ASSUME NEW m \in Nat, NEW r, r = [k \in 1 .. m |-> r[k]]
  PROVE  IsSeq(r) /\ Len(r) = m /\ DOMAIN r = 1 .. m
<1> DEFINE R == {r[k] : k \in 1 .. m}
<1>1. r \in [1 .. m -> R]
  OBVIOUS
<1> HIDE DEF R
<1>2. r \in Seq(R) /\ Len(r) = m
  BY <1>1, MadeSeq
<1> QED
  BY <1>1, <1>2 DEF IsSeq

-----------------------------------------------------------------------------
(***************************************************************************)
(* The listing, function by function.                                      *)
(***************************************************************************)

\* Its lines: a header, arguments and blocks.
Arity(g)      == Len(printed[g].args)
Printable(g)  == IF Arity(g) = 0 THEN Mapped ELSE Arity(g)
HeadOf(g)     == << {Listing!Header(g)} >>
ArgsOf(g, k)  == [j \in 1 .. k |-> Listing!ArgItems(g, j)]
Opened(g, k)  == HeadOf(g) \o ArgsOf(g, k)
BlockOf(g, b) == Listing!print_block(Inside(printed[g])[b], b)
LineOf(g, b)  == [k \in 1 .. Len(Inside(printed[g])[b]) + 2 |-> {BlockOf(g, b)[k]}]
BlocksOf(g)   == FlattenSeq([b \in DOMAIN Inside(printed[g]) |-> LineOf(g, b)])
Until(m)      == FlattenSeq([g \in 1 .. m |-> Listing!Lines(g)])

\* The printer's own name for the operator.
LEMMA ListingFlat ==
  ASSUME NEW t
  PROVE  Listing!FlattenSeq(t) = FlattenSeq(t)
BY DEF Listing!FlattenSeq, FlattenSeq

LEMMA LinesAre ==
  ASSUME NEW g
  PROVE  Listing!Lines(g) = Opened(g, Printable(g)) \o BlocksOf(g)
<1> DEFINE count == Len(printed[g].args)
           bl == IF printed[g].is_declaration THEN << >> ELSE printed[g].blocks
           p == [k \in 1 .. (IF count = 0 THEN Mapped ELSE count) |-> Listing!ArgItems(g, k)]
           t == [b \in DOMAIN bl |->
                  [k \in 1 .. Len(bl[b]) + 2 |-> {Listing!print_block(bl[b], b)[k]}]]
           q == Listing!FlattenSeq(t)
           x == << {Listing!Header(g)} >>
<1>1. Listing!Lines(g) = (x \o p) \o q
  BY DEF Listing!Lines
<1>2. p = ArgsOf(g, Printable(g))
  BY DEF ArgsOf, Printable, Arity
<1>3. q = BlocksOf(g)
  <2>1. BlocksOf(g) = FlattenSeq(t)
    BY DEF BlocksOf, LineOf, BlockOf, Inside
  <2> HIDE DEF t
  <2> QED
    BY <2>1, ListingFlat
<1>4. x = HeadOf(g)
  BY DEF HeadOf
<1> HIDE DEF p, q, x
<1> QED
  BY <1>1, <1>2, <1>3, <1>4 DEF Opened

\* A block, with its labels and returns.
LEMMA BlockIs ==
  ASSUME NEW rets, IsSeq(rets), NEW b
  PROVE  /\ IsSeq(Listing!print_block(rets, b))
         /\ Len(Listing!print_block(rets, b)) = Len(rets) + 2
<1> DEFINE x == << Listing!Label(b - 1, 0) >>
           y == [k \in DOMAIN rets |-> Listing!Ret(rets[k])]
           z == << Listing!Label(b - 1, 1) >>
<1>1. IsSeq(x) /\ Len(x) = 1 /\ IsSeq(z) /\ Len(z) = 1
  <2>1. x \in Seq({Listing!Label(b - 1, 0)}) /\ z \in Seq({Listing!Label(b - 1, 1)})
    OBVIOUS
  <2> QED
    BY <2>1 DEF IsSeq
<1>2. y = [k \in DOMAIN rets |-> y[k]]
  OBVIOUS
<1> HIDE DEF x, y, z
<1>3. IsSeq(y) /\ Len(y) = Len(rets)
  BY <1>2, Replaced
<1>4. IsSeq(x \o y) /\ Len(x \o y) = Len(x) + Len(y)
  BY <1>1, <1>3, SeqsJoin
<1>5. IsSeq((x \o y) \o z) /\ Len((x \o y) \o z) = Len(x \o y) + Len(z)
  BY <1>1, <1>4, SeqsJoin
<1>6. Len(rets) \in Nat
  BY SeqFacts
<1>7. Listing!print_block(rets, b) = (x \o y) \o z
  BY DEF Listing!print_block, x, y, z
<1> QED
  BY <1>1, <1>3, <1>4, <1>5, <1>6, <1>7

\* The blocks of a function are those of the listing.
LEMMA BlocksMatch ==
  ASSUME IRTypeset(printed), NEW g \in DOMAIN printed,
         NEW v, v = FlattenSeq([b \in DOMAIN Inside(printed[g]) |-> BlockOf(g, b)])
  PROVE  IsSeq(v) /\ IsSeq(BlocksOf(g)) /\ Matches(v, BlocksOf(g))
<1> DEFINE t == Inside(printed[g])
           p == [b \in DOMAIN t |-> BlockOf(g, b)]
           q == [b \in DOMAIN t |-> LineOf(g, b)]
<1>1. IsSeq(t) /\ \A b \in DOMAIN t : IsSeq(t[b])
  <2>1. Typeset(printed[g])
    BY DEF IRTypeset
  <2>2. CASE printed[g].is_declaration
    <3>1. t = << >>
      BY <2>2 DEF Inside
    <3> HIDE DEF t
    <3> QED
      BY <3>1 DEF IsSeq
  <2>3. CASE ~printed[g].is_declaration
    BY <2>1, <2>3 DEF Inside, Typeset
  <2> QED
    BY <2>2, <2>3
<1>2. /\ p = [b \in DOMAIN t |-> p[b]] /\ q = [b \in DOMAIN t |-> q[b]]
      /\ \A b \in DOMAIN t : p[b] = BlockOf(g, b) /\ q[b] = LineOf(g, b)
  OBVIOUS
<1>3. ASSUME NEW b \in DOMAIN t
      PROVE  IsSeq(BlockOf(g, b)) /\ IsSeq(LineOf(g, b)) /\ Matches(BlockOf(g, b), LineOf(g, b))
  <2> DEFINE x == BlockOf(g, b)
             y == LineOf(g, b)
             m == Len(t[b]) + 2
  <2>1. IsSeq(x) /\ Len(x) = m
    BY <1>1, BlockIs DEF BlockOf
  <2>2. m \in Nat
    BY <1>1, SeqFacts
  <2>3. y = [k \in 1 .. m |-> {x[k]}]
    BY DEF LineOf
  <2> HIDE DEF x, y, m
  <2>4. y = [k \in 1 .. m |-> y[k]] /\ \A k \in 1 .. m : y[k] = {x[k]}
    BY <2>3
  <2>5. IsSeq(y) /\ Len(y) = m
    BY <2>2, <2>4, Built
  <2>6. Matches(x, y)
    BY <2>1, <2>4, <2>5 DEF Matches
  <2> QED
    BY <2>1, <2>5, <2>6 DEF x, y
<1> HIDE DEF p, q, t
<1>4. IsSeq(p) /\ Len(p) = Len(t) /\ DOMAIN p = DOMAIN t
  BY <1>1, <1>2, Replaced
<1>5. IsSeq(q) /\ Len(q) = Len(t) /\ DOMAIN q = DOMAIN t
  BY <1>1, <1>2, Replaced
<1>6. \A b \in DOMAIN t : IsSeq(p[b]) /\ IsSeq(q[b]) /\ Matches(p[b], q[b])
  BY <1>2, <1>3
<1>7. DOMAIN t = 1 .. Len(p)
  BY <1>4, SeqFacts
<1>8. PICK V : p \in Seq(Seq(V))
  BY <1>4, <1>6, CommonSet
<1>9. PICK W : q \in Seq(Seq(W))
  BY <1>5, <1>6, CommonSet
<1>10. Matches(FlattenSeq(p), FlattenSeq(q))
  BY <1>4, <1>5, <1>6, <1>7, <1>8, <1>9, MatchesFlat
<1>11. IsSeq(FlattenSeq(p)) /\ IsSeq(FlattenSeq(q))
  BY <1>4, <1>5, <1>6, FlatSeq
<1> QED
  BY <1>10, <1>11 DEF BlocksOf, p, q, t

\* The arguments, one by one.
LEMMA OpenedFacts ==
  ASSUME NEW g, NEW k \in Nat
  PROVE  /\ IsSeq(HeadOf(g)) /\ IsSeq(Opened(g, k)) /\ IsSeq(ArgsOf(g, k))
         /\ Opened(g, 0) = HeadOf(g)
         /\ Opened(g, k + 1) = Opened(g, k) \o << Listing!ArgItems(g, k + 1) >>
<1> DEFINE h == HeadOf(g)
           p == ArgsOf(g, k)
           q == ArgsOf(g, k + 1)
           x == Listing!ArgItems(g, k + 1)
           y == << x >>
<1>1. IsSeq(h)
  <2>1. h \in Seq({{Listing!Header(g)}})
    BY DEF HeadOf
  <2> QED
    BY <2>1 DEF IsSeq
<1>2. /\ p = [j \in 1 .. k |-> p[j]] /\ q = [j \in 1 .. k + 1 |-> q[j]] /\ k + 1 \in Nat
      /\ (\A j \in 1 .. k : p[j] = q[j]) /\ q[k + 1] = x
  BY DEF ArgsOf
<1>3. ArgsOf(g, 0) = << >>
  <2>1. 1 .. 0 = {}
    OBVIOUS
  <2> QED
    BY <2>1 DEF ArgsOf
<1>4. IsSeq(y) /\ Len(y) = 1 /\ y[1] = x
  <2>1. y \in Seq({x}) /\ Len(y) = 1 /\ y[1] = x
    OBVIOUS
  <2> QED
    BY <2>1 DEF IsSeq
<1> HIDE DEF h, p, q, x, y
<1>5. IsSeq(p) /\ Len(p) = k
  BY <1>2, Built
<1>6. IsSeq(q) /\ Len(q) = k + 1
  BY <1>2, Built
<1>7. q = p \o y
  <2>1. PICK V : p \in Seq(V) /\ y \in Seq(V)
    BY <1>4, <1>5, OneSet
  <2>2. PICK W : q \in Seq(W)
    BY <1>6 DEF IsSeq
  <2>3. \A j \in 1 .. k + 1 : j = k + 1 \/ j \in 1 .. k
    OBVIOUS
  <2> DEFINE U == V \cup W
             z == p \o y
  <2>4. p \in Seq(U) /\ y \in Seq(U) /\ q \in Seq(U)
    BY <2>1, <2>2
  <2> HIDE DEF U
  <2>5. /\ z \in Seq(U) /\ Len(z) = k + 1
        /\ \A j \in 1 .. k + 1 : z[j] = IF j <= k THEN p[j] ELSE y[j - k]
    BY <1>4, <1>5, <2>4
  <2>6. ASSUME NEW j \in 1 .. k + 1
        PROVE  q[j] = z[j]
    <3>1. CASE j = k + 1
      <4>1. ~(j <= k) /\ j - k = 1
        BY <3>1
      <4>2. z[j] = y[1]
        BY <2>5, <4>1
      <4> QED
        BY <1>2, <1>4, <3>1, <4>2
    <3>2. CASE j \in 1 .. k
      <4>1. j <= k
        BY <3>2
      <4>2. z[j] = p[j]
        BY <2>5, <4>1
      <4> QED
        BY <1>2, <3>2, <4>2
    <3> QED
      BY <2>3, <3>1, <3>2
  <2> HIDE DEF z
  <2>7. q = z
    BY <1>6, <2>4, <2>5, <2>6
  <2> QED
    BY <2>7 DEF z
<1>8. IsSeq(h \o p) /\ h \o << >> = h
  BY <1>1, <1>5, SeqsJoin
<1>9. (h \o p) \o y = h \o (p \o y)
  BY <1>1, <1>4, <1>5, SeqsAssoc
<1>10. Opened(g, k) = h \o p /\ Opened(g, k + 1) = h \o q /\ Opened(g, 0) = h \o << >>
  BY <1>3 DEF Opened, h, p, q
<1> QED
  BY <1>1, <1>5, <1>7, <1>8, <1>9, <1>10 DEF h, p, x, y

\* All of them begin with some.
LEMMA OpenedBegins ==
  ASSUME NEW g, NEW k \in Nat, NEW m \in Nat, k <= m
  PROVE  \E r : IsSeq(r) /\ Opened(g, m) = Opened(g, k) \o r
<1> DEFINE S == {d \in Nat : \E r : IsSeq(r) /\ Opened(g, k + d) = Opened(g, k) \o r}
<1>1. 0 \in S
  <2>1. IsSeq(Opened(g, k))
    BY OpenedFacts
  <2>2. Opened(g, k) \o << >> = Opened(g, k)
    BY <2>1, SeqsJoin
  <2>3. IsSeq(<< >>) /\ k + 0 = k
    BY DEF IsSeq
  <2> QED
    BY <2>2, <2>3
<1>2. ASSUME NEW d \in Nat, d \in S
      PROVE  d + 1 \in S
  <2> DEFINE y == << Listing!ArgItems(g, k + d + 1) >>
  <2>1. PICK r : IsSeq(r) /\ Opened(g, k + d) = Opened(g, k) \o r
    BY <1>2
  <2>2. k + d \in Nat /\ k + (d + 1) = (k + d) + 1 /\ d + 1 \in Nat
    OBVIOUS
  <2>3. IsSeq(y)
    <3>1. y \in Seq({Listing!ArgItems(g, k + d + 1)})
      OBVIOUS
    <3> QED
      BY <3>1 DEF IsSeq
  <2>4. Opened(g, (k + d) + 1) = Opened(g, k + d) \o y
    BY <2>2, OpenedFacts
  <2> HIDE DEF y
  <2>5. IsSeq(Opened(g, k))
    BY OpenedFacts
  <2>6. (Opened(g, k) \o r) \o y = Opened(g, k) \o (r \o y)
    BY <2>1, <2>3, <2>5, SeqsAssoc
  <2>7. IsSeq(r \o y)
    BY <2>1, <2>3, SeqsJoin
  <2>8. Opened(g, k + (d + 1)) = Opened(g, k) \o (r \o y)
    BY <2>1, <2>2, <2>4, <2>6
  <2> QED
    BY <2>2, <2>7, <2>8
<1>3. \A d \in Nat : d \in S
  <2> HIDE DEF S
  <2> QED
    BY <1>1, <1>2, InductionOnNat
<1>4. m - k \in Nat /\ k + (m - k) = m
  OBVIOUS
<1> QED
  BY <1>3, <1>4

\* The lines of a function are a sequence ...
LEMMA LinesType ==
  ASSUME IRTypeset(printed), NEW g \in DOMAIN printed
  PROVE  IsSeq(Listing!Lines(g)) /\ IsSeq(BlocksOf(g)) /\ Printable(g) \in Nat /\ Arity(g) \in Nat
<1> DEFINE v == FlattenSeq([b \in DOMAIN Inside(printed[g]) |-> BlockOf(g, b)])
<1>1. IsSeq(BlocksOf(g))
  <2>1. v = FlattenSeq([b \in DOMAIN Inside(printed[g]) |-> BlockOf(g, b)])
    OBVIOUS
  <2> HIDE DEF v
  <2> QED
    BY <2>1, BlocksMatch
<1>2. Arity(g) \in Nat
  BY SeqFacts DEF IRTypeset, Typeset, Arity
<1>3. Printable(g) \in Nat
  BY <1>2, SizeAssumption DEF Printable
<1>4. IsSeq(Opened(g, Printable(g)))
  BY <1>3, OpenedFacts
<1>5. IsSeq(Opened(g, Printable(g)) \o BlocksOf(g))
  BY <1>1, <1>4, SeqsJoin
<1> QED
  BY <1>1, <1>2, <1>3, <1>5, LinesAre

\* ... and so is the listing, that begins with those of the first functions.
LEMMA UntilFacts ==
  ASSUME IRTypeset(printed), NEW m \in Nat, m <= Len(printed)
  PROVE  /\ IsSeq(Until(m)) /\ Until(0) = << >>
         /\ m + 1 <= Len(printed) => Until(m + 1) = Until(m) \o Listing!Lines(m + 1)
         /\ \E r : IsSeq(r) /\ Until(Len(printed)) = Until(m) \o r
<1> DEFINE n == Len(printed)
           t == [g \in 1 .. n |-> Listing!Lines(g)]
<1>1. IsSeq(printed) /\ n \in Nat /\ DOMAIN printed = 1 .. n
  BY SeqFacts DEF IRTypeset
<1>2. t = [g \in 1 .. n |-> t[g]] /\ \A g \in 1 .. n : t[g] = Listing!Lines(g)
  OBVIOUS
<1>3. \A g \in 1 .. n : IsSeq(Listing!Lines(g))
  BY <1>1, LinesType
<1> HIDE DEF t, n
<1>4. IsSeq(t) /\ Len(t) = n /\ DOMAIN t = 1 .. n
  BY <1>1, <1>2, Built
<1>5. PICK V : t \in Seq(Seq(V))
  BY <1>2, <1>3, <1>4, CommonSet
<1> DEFINE W == Seq(V)
<1>6. W = Seq(V) /\ t \in Seq(W)
  BY <1>5
<1> HIDE DEF W
<1>7. ASSUME NEW j \in Nat, j <= n
      PROVE  Until(j) = FlattenSeq(SubSeq(t, 1, j))
  <2>1. SubSeq(t, 1, j) = [g \in 1 .. j |-> t[g]]
    BY <1>4, <1>6, <1>7
  <2>2. \A g \in 1 .. j : t[g] = Listing!Lines(g)
    BY <1>1, <1>2, <1>7
  <2>3. SubSeq(t, 1, j) = [g \in 1 .. j |-> Listing!Lines(g)]
    BY <2>1, <2>2
  <2> QED
    BY <2>3 DEF Until
<1>8. m <= Len(t) /\ m <= n
  BY <1>4 DEF n
<1>9. FlattenSeq(SubSeq(t, 1, m)) \in W /\ \E r \in W : FlattenSeq(t) = FlattenSeq(SubSeq(t, 1, m)) \o r
  BY <1>6, <1>8, FlatPrefix
<1>10. Until(m) = FlattenSeq(SubSeq(t, 1, m))
  BY <1>7, <1>8
<1>11. Until(n) = FlattenSeq(t)
  BY <1>2 DEF Until, t
<1>12. \A r \in W : IsSeq(r)
  BY <1>6 DEF IsSeq
<1>13. Until(0) = << >>
  <2>1. [g \in 1 .. 0 |-> Listing!Lines(g)] = << >>
    <3>1. 1 .. 0 = {}
      OBVIOUS
    <3> QED
      BY <3>1
  <2> QED
    BY <2>1, FlatEmpty DEF Until
<1>14. ASSUME m + 1 <= n
       PROVE  Until(m + 1) = Until(m) \o Listing!Lines(m + 1)
  <2>1. m + 1 \in Nat /\ m + 1 \in 1 .. n /\ m + 1 <= Len(t)
    BY <1>1, <1>4, <1>14
  <2>2. FlattenSeq(SubSeq(t, 1, m + 1)) = FlattenSeq(SubSeq(t, 1, m)) \o t[m + 1]
    BY <1>6, <2>1, FlatNext
  <2>3. Until(m + 1) = FlattenSeq(SubSeq(t, 1, m + 1))
    BY <1>7, <1>14, <2>1
  <2> QED
    BY <1>2, <1>10, <2>1, <2>2, <2>3
<1> QED
  BY <1>9, <1>10, <1>11, <1>12, <1>13, <1>14 DEF n

-----------------------------------------------------------------------------
(***************************************************************************)
(* The invariant of the printer, of any IR that can be read.               *)
(***************************************************************************)

\* What has been read unset, and what has been printed: the functions before the one it is
\* at, and of that one its header and some arguments.
OneArgument(g) == printed[g].returns /\ Arity(g) = 1

UnsetInv ==
  /\ \A g \in 1 .. pf - 1 : (g \in undefined <=> ~OneArgument(g)) /\ Arity(g) # 0
  /\ \A g \in undefined : g \in 1 .. pf /\ ~OneArgument(g)
  /\ printing = "function" => pf \notin undefined
  /\ printing = "args" => (pf \in undefined <=> ~printed[pf].returns \/ pi # 0)

ArgsInv ==
  /\ pf <= Len(printed) /\ pi \in Nat /\ parg = pi
  /\ IF Arity(pf) = 0 THEN pi <= Mapped ELSE pi <= Arity(pf) - 1
  /\ Matches(out, Until(pf - 1) \o Opened(pf, pi))

StoppedInv ==
  /\ pf <= Len(printed)
  /\ \/ Matches(out, Until(pf - 1))
     \/ \E k \in Nat : k <= Printable(pf) /\ Matches(out, Until(pf - 1) \o Opened(pf, k))

PrintInv ==
  /\ IsSeq(out) /\ pf \in 1 .. Len(printed) + 1
  /\ printing \in {"function", "args"} \cup Listing!Final
  /\ UnsetInv
  /\ printing = "function" => Matches(out, Until(pf - 1))
  /\ printing = "args" => ArgsInv
  /\ printing = "printed" => pf = Len(printed) + 1 /\ Matches(out, Until(Len(printed)))
  /\ printing = "crashed" => StoppedInv

PrintedInv == IRTypeset(printed)

\* count - 1 in a size_t.
LEMMA BoundIs ==
  ASSUME PrintedInv, pf \in DOMAIN printed
  PROVE  /\ Listing!n = Arity(pf) /\ Listing!function = printed[pf] /\ Arity(pf) \in Nat
         /\ Arity(pf) = 0 => Listing!bound = Size - 1
         /\ Arity(pf) # 0 => Listing!bound = Arity(pf) - 1
<1> DEFINE m == Arity(pf)
<1>1. Listing!function = printed[pf]
  BY DEF Listing!function
<1>2. Listing!n = m
  BY <1>1 DEF Listing!n, Arity
<1>3. Listing!bound = (m - 1) % Size
  BY <1>2 DEF Listing!bound
<1>4. m \in Nat /\ m < Size
  BY LinesType DEF PrintedInv, IRTypeset, Typeset, Arity
<1> HIDE DEF m
<1>5. Size \in Nat /\ Size > 0
  BY SizeAssumption
<1>6. m = 0 => (m - 1) % Size = Size - 1
  BY <1>5
<1>7. m # 0 => (m - 1) % Size = m - 1
  <2>1. \A j \in Int, z \in Nat : z > 0 /\ 0 <= j /\ j < z => j % z = j
    OBVIOUS
  <2>2. m # 0 => 0 <= m - 1 /\ m - 1 < Size /\ m - 1 \in Int
    BY <1>4, <1>5
  <2> QED
    BY <1>5, <2>1, <2>2
<1> QED
  BY <1>1, <1>2, <1>3, <1>4, <1>6, <1>7 DEF m

\* The functions.
LEMMA PrintedFacts ==
  ASSUME PrintedInv, PrintInv
  PROVE  /\ IsSeq(printed) /\ Len(printed) \in Nat /\ DOMAIN printed = 1 .. Len(printed)
         /\ pf \in Nat /\ pf >= 1 /\ pf - 1 \in Nat /\ pf - 1 <= Len(printed) /\ pf - 1 + 1 = pf
         /\ pf <= Len(printed) => pf \in DOMAIN printed
<1>1. IsSeq(printed) /\ Len(printed) \in Nat /\ DOMAIN printed = 1 .. Len(printed)
  BY SeqFacts DEF PrintedInv, IRTypeset
<1> QED
  BY <1>1 DEF PrintInv

\* Nothing is printed at first.
LEMMA PrintBegins ==
  ASSUME PrintedInv, printing = "function", pf = 1, out = << >>, undefined = {}
  PROVE  PrintInv
<1>1. IsSeq(printed) /\ Len(printed) \in Nat
  BY SeqFacts DEF PrintedInv, IRTypeset
<1>2. Until(0) = << >>
  BY <1>1, UntilFacts DEF PrintedInv
<1>3. Matches(out, Until(pf - 1))
  <2>1. pf - 1 = 0 /\ Len(<< >>) = 0 /\ 1 .. 0 = {}
    OBVIOUS
  <2> QED
    BY <1>2, <2>1 DEF Matches
<1>4. IsSeq(out) /\ 1 .. pf - 1 = {}
  BY DEF IsSeq
<1> QED
  BY <1>1, <1>3, <1>4 DEF PrintInv, UnsetInv

\* The listing is that of the IR.
LEMMA ListingStays ==
  ASSUME printed' = printed, NEW j
  PROVE  /\ Arity(j)' = Arity(j) /\ Printable(j)' = Printable(j) /\ Until(j)' = Until(j)
         /\ \A k : Opened(j, k)' = Opened(j, k)
BY DEF Until, Printable, Arity, Opened, HeadOf, ArgsOf, Listing!Lines, Listing!Header, Listing!ArgItems

\* What has been printed of it stays.
LEMMA StoppedStays ==
  ASSUME printed' = printed, pf' = pf, out' = out, StoppedInv
  PROVE  StoppedInv'
<1>1. PICK j : j = pf - 1
  OBVIOUS
<1>2. PICK g : g = pf
  OBVIOUS
<1>3. /\ g <= Len(printed)
      /\ \/ Matches(out, Until(j))
         \/ \E k \in Nat : k <= Printable(g) /\ Matches(out, Until(j) \o Opened(g, k))
  BY <1>1, <1>2 DEF StoppedInv
<1>4. Printable(g)' = Printable(g) /\ Until(j)' = Until(j) /\ \A k : Opened(g, k)' = Opened(g, k)
  BY ListingStays
<1>5. pf' = g /\ pf' - 1 = j
  BY <1>1, <1>2
<1>6. CASE Matches(out, Until(j))
  <2>1. Matches(out', Until(pf - 1)')
    <3>1. Until(pf - 1)' = Until(j)'
      BY <1>1, <1>5 DEF Until
    <3> QED
      BY <1>4, <1>6, <3>1
  <2> QED
    BY <1>2, <1>3, <2>1 DEF StoppedInv
<1>7. CASE \E k \in Nat : k <= Printable(g) /\ Matches(out, Until(j) \o Opened(g, k))
  <2>1. PICK k \in Nat : k <= Printable(g) /\ Matches(out, Until(j) \o Opened(g, k))
    BY <1>7
  <2>2. Until(pf - 1)' = Until(j)' /\ Printable(pf)' = Printable(g)' /\ Opened(pf, k)' = Opened(g, k)'
    BY <1>1, <1>2, <1>5 DEF Until, Printable, Arity, Opened, HeadOf, ArgsOf
  <2>3. k <= Printable(pf)' /\ Matches(out', Until(pf - 1)' \o Opened(pf, k)')
    BY <1>4, <2>1, <2>2
  <2> QED
    BY <1>2, <1>3, <2>3 DEF StoppedInv
<1> QED
  BY <1>3, <1>6, <1>7

\* print_function stops in a read ...
LEMMA CrashPrints ==
  ASSUME PrintedInv, PrintInv, Listing!Crash
  PROVE  PrintInv'
<1>1. /\ printing' = "crashed" /\ undefined' = undefined \cup {pf} /\ Listing!ReadsUnset
      /\ UNCHANGED << printed, pf, pi, parg, out >>
  BY DEF Listing!Crash
<1>2. CASE Listing!AtHeader
  <2>1. printing = "function" /\ pf <= Len(printed) /\ ~printed[pf].returns
    BY <1>1, <1>2 DEF Listing!ReadsUnset, Listing!AtHeader, Listing!InArgs, Listing!function
  <2>2. ~OneArgument(pf)
    BY <2>1 DEF OneArgument
  <2>3. pf \in 1 .. pf /\ pf \notin 1 .. pf - 1
    BY PrintedFacts
  <2>4. UnsetInv'
    BY <1>1, <2>1, <2>2, <2>3 DEF PrintInv, UnsetInv, OneArgument, Arity
  <2>5. StoppedInv'
    <3>1. StoppedInv
      BY <2>1 DEF PrintInv, StoppedInv
    <3> QED
      BY <1>1, <3>1, StoppedStays
  <2> QED
    BY <1>1, <2>4, <2>5 DEF PrintInv, Listing!Final
<1>3. CASE Listing!InArgs
  <2>1. printing = "args" /\ pi < Listing!bound
    BY <1>3 DEF Listing!InArgs
  <2>2. ArgsInv
    BY <2>1 DEF PrintInv
  <2>3. pf \in DOMAIN printed /\ pf <= Len(printed)
    BY <2>2, PrintedFacts DEF ArgsInv
  <2>4. Arity(pf) # 1
    <3>1. Arity(pf) # 0 => Listing!bound = Arity(pf) - 1
      BY <2>3, BoundIs
    <3>2. pi \in Nat
      BY <2>2 DEF ArgsInv
    <3> QED
      BY <2>1, <3>1, <3>2
  <2>5. ~OneArgument(pf)
    BY <2>4 DEF OneArgument
  <2>6. pf \in 1 .. pf /\ pf \notin 1 .. pf - 1
    BY PrintedFacts
  <2>7. UnsetInv'
    BY <1>1, <2>1, <2>5, <2>6 DEF PrintInv, UnsetInv, OneArgument, Arity
  <2>8. pi \in Nat /\ pi <= Printable(pf)
    <3>1. Printable(pf) \in Nat /\ Arity(pf) \in Nat
      BY <2>3, LinesType DEF PrintedInv
    <3> QED
      BY <2>2, <3>1 DEF ArgsInv, Printable
  <2>9. Matches(out, Until(pf - 1) \o Opened(pf, pi))
    BY <2>2 DEF ArgsInv
  <2>10. StoppedInv
    BY <2>3, <2>8, <2>9 DEF StoppedInv
  <2>11. StoppedInv'
    BY <1>1, <2>10, StoppedStays
  <2> QED
    BY <1>1, <2>7, <2>11 DEF PrintInv, Listing!Final
<1> QED
  BY <1>1, <1>2, <1>3 DEF Listing!ReadsUnset

\* ... prints the header ...
LEMMA HeaderPrints ==
  ASSUME PrintedInv, PrintInv, Listing!PrintHeader
  PROVE  PrintInv'
<1>1. /\ printing = "function" /\ pf <= Len(printed) /\ printing' = "args" /\ pi' = 0 /\ parg' = 0
      /\ out' = Append(out, Listing!Header(pf))
      /\ undefined' = (IF Listing!ReadsUnset THEN undefined \cup {pf} ELSE undefined)
      /\ UNCHANGED << printed, pf >>
  BY DEF Listing!PrintHeader, Listing!AtHeader
<1>2. Listing!ReadsUnset <=> ~printed[pf].returns
  BY <1>1 DEF Listing!ReadsUnset, Listing!AtHeader, Listing!InArgs, Listing!function
<1>3. pf \in DOMAIN printed /\ pf - 1 \in Nat /\ pf - 1 <= Len(printed) /\ pf \in Nat
  BY <1>1, PrintedFacts
<1>4. IsSeq(Until(pf - 1))
  BY <1>3, UntilFacts DEF PrintedInv
<1>5. /\ IsSeq(Append(out, Listing!Header(pf)))
      /\ Matches(Append(out, Listing!Header(pf)), Until(pf - 1) \o << {Listing!Header(pf)} >>)
  <2> DEFINE x == Listing!Header(pf)
             y == {x}
             w == Until(pf - 1)
  <2>1. IsSeq(out) /\ IsSeq(w) /\ Matches(out, w) /\ x \in y
    BY <1>1, <1>4 DEF PrintInv
  <2> HIDE DEF x, y, w
  <2>2. IsSeq(Append(out, x)) /\ Matches(Append(out, x), w \o << y >>)
    BY <2>1, PieceAppend
  <2> QED
    BY <2>2 DEF x, y, w
<1>6. Opened(pf, 0) = << {Listing!Header(pf)} >>
  BY OpenedFacts DEF HeadOf
<1>7. /\ Arity(pf)' = Arity(pf) /\ Until(pf - 1)' = Until(pf - 1) /\ Opened(pf, 0)' = Opened(pf, 0)
      /\ \A g : OneArgument(g)' <=> OneArgument(g)
  BY <1>1 DEF Arity, Until, Opened, HeadOf, ArgsOf, Listing!Lines, Listing!Header, Listing!ArgItems,
              OneArgument
<1>8. Matches(out', Until(pf - 1) \o Opened(pf, 0))
  BY <1>1, <1>5, <1>6
<1>9. Arity(pf) \in Nat /\ 0 <= Mapped
  BY <1>3, LinesType, SizeAssumption DEF PrintedInv
<1>10. ArgsInv'
  <2>1. Opened(pf, pi)' = Opened(pf, 0)
    BY <1>1, <1>7 DEF Opened, HeadOf, ArgsOf
  <2>2. Matches(out', Until(pf - 1)' \o Opened(pf, pi)')
    BY <1>7, <1>8, <2>1
  <2>3. IF Arity(pf) = 0 THEN 0 <= Mapped ELSE 0 <= Arity(pf) - 1
    BY <1>9
  <2> QED
    BY <1>1, <1>7, <2>2, <2>3 DEF ArgsInv
<1>11. UnsetInv'
  <2>1. UnsetInv /\ pf \notin undefined
    BY <1>1 DEF PrintInv, UnsetInv
  <2>2. pf \in 1 .. pf /\ pf \notin 1 .. pf - 1
    BY PrintedFacts
  <2>3. ~printed[pf].returns => ~OneArgument(pf)
    BY DEF OneArgument
  <2>4. \A g : g \in undefined' <=> g \in undefined \/ (g = pf /\ ~printed[pf].returns)
    BY <1>1, <1>2
  <2>5. \A g \in 1 .. pf - 1 : (g \in undefined' <=> ~OneArgument(g)) /\ Arity(g) # 0
    BY <2>1, <2>2, <2>4 DEF UnsetInv
  <2>6. \A g \in undefined' : g \in 1 .. pf /\ ~OneArgument(g)
    BY <2>1, <2>2, <2>3, <2>4 DEF UnsetInv
  <2>7. pf \in undefined' <=> ~printed[pf].returns
    BY <2>1, <2>4
  <2> QED
    BY <1>1, <2>5, <2>6, <2>7 DEF UnsetInv, OneArgument, Arity
<1> QED
  BY <1>1, <1>5, <1>10, <1>11 DEF PrintInv

\* ... an argument of the loop ...
LEMMA ArgumentPrints ==
  ASSUME PrintedInv, PrintInv, Listing!PrintArgument
  PROVE  PrintInv'
<1>1. /\ printing = "args" /\ pi < Listing!bound /\ pi < Listing!n + Mapped
      /\ parg' = pi + 1 /\ pi' = pi + 1
      /\ undefined' = (IF Listing!ReadsUnset THEN undefined \cup {pf} ELSE undefined)
      /\ UNCHANGED << printed, pf, printing >>
  BY DEF Listing!PrintArgument, Listing!InArgs
<1>2. PICK stars \in Listing!Stars(parg) : out' = Append(out, Listing!Arg(pi + 1, stars))
  BY DEF Listing!PrintArgument
<1>3. ArgsInv /\ IsSeq(out) /\ UnsetInv
  BY <1>1 DEF PrintInv
<1>4. /\ pf <= Len(printed) /\ pi \in Nat /\ parg = pi
      /\ (IF Arity(pf) = 0 THEN pi <= Mapped ELSE pi <= Arity(pf) - 1)
      /\ Matches(out, Until(pf - 1) \o Opened(pf, pi))
  BY <1>3 DEF ArgsInv
<1>5. pf \in DOMAIN printed /\ pf - 1 \in Nat /\ pf - 1 <= Len(printed) /\ pf \in Nat
  BY <1>4, PrintedFacts
<1>6. /\ Listing!n = Arity(pf) /\ Listing!function = printed[pf] /\ Arity(pf) \in Nat
      /\ (Arity(pf) # 0 => Listing!bound = Arity(pf) - 1)
  BY <1>5, BoundIs
<1>7. /\ IF Arity(pf) = 0 THEN pi + 1 <= Mapped ELSE pi + 1 <= Arity(pf) - 1
      /\ pi + 1 \in Nat /\ pi + 1 # 0 /\ Arity(pf) # 1
  <2>1. Mapped \in Nat
    BY SizeAssumption
  <2> QED
    BY <1>1, <1>4, <1>6, <2>1
<1>8. Listing!Arg(pi + 1, stars) \in Listing!ArgItems(pf, pi + 1)
  <2> DEFINE args == printed[pf].args
  <2>1. Listing!Stars(parg) = IF pi \in 1 .. Len(args) THEN {args[pi]} ELSE 0 .. MaxStars
    BY <1>4, <1>6 DEF Listing!Stars, Arity
  <2>2. pi + 1 # Len(args) /\ Len(args) \in Nat
    BY <1>6, <1>7 DEF Arity
  <2>3. Listing!ArgItems(pf, pi + 1)
        = {Listing!Arg(pi + 1, x) : x \in CASE pi + 1 = Len(args) -> {args[pi + 1]}
                                   [] pi + 1 # Len(args) /\ pi + 1 \in 2 .. Len(args) -> {args[pi + 1 - 1]}
                                   [] OTHER -> 0 .. MaxStars}
    BY DEF Listing!ArgItems
  <2> DEFINE X == CASE pi + 1 = Len(args) -> {args[pi + 1]}
                    [] pi + 1 # Len(args) /\ pi + 1 \in 2 .. Len(args) -> {args[pi + 1 - 1]}
                    [] OTHER -> 0 .. MaxStars
  <2>4. stars \in X
    <3>1. CASE pi \in 1 .. Len(args)
      <4>1. pi + 1 \in 2 .. Len(args) /\ pi + 1 - 1 = pi
        BY <1>4, <1>6, <1>7, <2>2, <3>1 DEF Arity
      <4>2. stars = args[pi]
        BY <2>1, <3>1
      <4> QED
        BY <2>2, <4>1, <4>2
    <3>2. CASE pi \notin 1 .. Len(args)
      <4>1. pi + 1 \notin 2 .. Len(args)
        BY <1>4, <2>2, <3>2
      <4>2. stars \in 0 .. MaxStars
        BY <2>1, <3>2
      <4> QED
        BY <2>2, <4>1, <4>2
    <3> QED
      BY <3>1, <3>2
  <2> HIDE DEF X, args
  <2>5. Listing!ArgItems(pf, pi + 1) = {Listing!Arg(pi + 1, x) : x \in X}
    BY <2>3 DEF X
  <2> QED
    BY <2>4, <2>5
<1>9. IsSeq(Until(pf - 1)) /\ IsSeq(Opened(pf, pi))
      /\ Opened(pf, pi + 1) = Opened(pf, pi) \o << Listing!ArgItems(pf, pi + 1) >>
  BY <1>4, <1>5, UntilFacts, OpenedFacts DEF PrintedInv
<1>10. IsSeq(out') /\ Matches(out', Until(pf - 1) \o Opened(pf, pi + 1))
  <2> DEFINE x == Listing!Arg(pi + 1, stars)
             y == Listing!ArgItems(pf, pi + 1)
             u == Until(pf - 1)
             v == Opened(pf, pi)
             w == u \o v
             z == << y >>
  <2>1. IsSeq(w) /\ Matches(out, w) /\ x \in y
    BY <1>4, <1>8, <1>9, SeqsJoin
  <2>2. IsSeq(u) /\ IsSeq(v) /\ IsSeq(z)
    <3>1. z \in Seq({y})
      OBVIOUS
    <3> QED
      BY <1>9, <3>1 DEF IsSeq
  <2> HIDE DEF x, y, u, v, w
  <2>3. IsSeq(Append(out, x)) /\ Matches(Append(out, x), w \o << y >>)
    BY <1>3, <2>1, PieceAppend
  <2> HIDE DEF z
  <2>4. (u \o v) \o z = u \o (v \o z)
    BY <2>2, SeqsAssoc
  <2> QED
    BY <1>2, <1>9, <2>3, <2>4 DEF x, y, u, v, w, z
<1>11. /\ Arity(pf)' = Arity(pf) /\ Until(pf - 1)' = Until(pf - 1)
       /\ Opened(pf, pi)' = Opened(pf, pi + 1)
  BY <1>1 DEF Arity, Until, Opened, HeadOf, ArgsOf, Listing!Lines, Listing!Header, Listing!ArgItems
<1>12. ArgsInv'
  BY <1>1, <1>4, <1>7, <1>10, <1>11 DEF ArgsInv
<1>13. Listing!ReadsUnset <=> pi = 0 \/ pi >= Arity(pf)
  BY <1>1, <1>4, <1>6 DEF Listing!ReadsUnset, Listing!AtHeader, Listing!InArgs
<1>14. UnsetInv'
  <2>1. pf \in 1 .. pf /\ pf \notin 1 .. pf - 1
    BY <1>5, PrintedFacts
  <2>2. ~OneArgument(pf)
    BY <1>7 DEF OneArgument
  <2>3. pf \in undefined'
    BY <1>1, <1>3, <1>13 DEF UnsetInv
  <2>4. \A g : g \in undefined' <=> g \in undefined \/ g = pf
    BY <1>1, <2>3
  <2>5. \A g \in 1 .. pf - 1 : (g \in undefined' <=> ~OneArgument(g)) /\ Arity(g) # 0
    BY <1>3, <2>1, <2>4 DEF UnsetInv
  <2>6. \A g \in undefined' : g \in 1 .. pf /\ ~OneArgument(g)
    BY <1>3, <2>1, <2>2, <2>4 DEF UnsetInv
  <2>7. pi' # 0
    BY <1>1, <1>7
  <2> QED
    BY <1>1, <2>3, <2>5, <2>6, <2>7 DEF UnsetInv, OneArgument, Arity
<1> QED
  BY <1>1, <1>10, <1>12, <1>14 DEF PrintInv

\* ... the last one and the blocks.
LEMMA LastPrints ==
  ASSUME PrintedInv, PrintInv, Listing!PrintLast
  PROVE  PrintInv'
<1> DEFINE m == Arity(pf)
           x == Listing!Arg(m, printed[pf].args[m])
           e == FlattenSeq([b \in DOMAIN Inside(printed[pf]) |-> BlockOf(pf, b)])
           y == Listing!ArgItems(pf, m)
<1>1. /\ printing = "args" /\ pi >= Listing!bound /\ printing' = "function" /\ pf' = pf + 1
      /\ UNCHANGED << printed, pi, undefined >>
  BY DEF Listing!PrintLast
<1>2. ArgsInv /\ IsSeq(out) /\ UnsetInv
  BY <1>1 DEF PrintInv
<1>3. /\ pf <= Len(printed) /\ pi \in Nat /\ parg = pi
      /\ (IF m = 0 THEN pi <= Mapped ELSE pi <= m - 1)
      /\ Matches(out, Until(pf - 1) \o Opened(pf, pi))
  BY <1>2 DEF ArgsInv
<1>4. /\ pf \in DOMAIN printed /\ pf - 1 \in Nat /\ pf - 1 <= Len(printed) /\ pf \in Nat
      /\ pf - 1 + 1 = pf
  BY <1>3, PrintedFacts
<1>5. /\ Listing!n = m /\ Listing!function = printed[pf] /\ m \in Nat
      /\ (m # 0 => Listing!bound = m - 1) /\ (m = 0 => Listing!bound = Size - 1)
  BY <1>4, BoundIs
<1>6. m # 0 /\ pi = m - 1 /\ pi + 1 = m
  <2>1. Mapped \in Nat /\ Size \in Nat /\ Mapped + 1 < Size
    BY SizeAssumption
  <2> HIDE DEF m
  <2> QED
    BY <1>1, <1>3, <1>5, <2>1
<1>7. out' = Append(out, x) \o e
  <2> DEFINE r == [b \in DOMAIN printed[pf].blocks |-> Listing!print_block(printed[pf].blocks[b], b)]
             a == Append(out, Listing!Arg(Listing!n, Listing!function.args[Listing!n]))
  <2>1. out' = a \o (IF printed[pf].is_declaration THEN << >> ELSE Listing!FlattenSeq(r))
    BY <1>5 DEF Listing!PrintLast
  <2>2. a = Append(out, x)
    BY <1>5
  <2>3. CASE printed[pf].is_declaration
    <3>1. Inside(printed[pf]) = << >>
      BY <2>3 DEF Inside
    <3>2. [b \in DOMAIN Inside(printed[pf]) |-> BlockOf(pf, b)] = << >>
      BY <3>1
    <3> QED
      BY <2>1, <2>2, <2>3, <3>2, FlatEmpty
  <2>4. CASE ~printed[pf].is_declaration
    <3>1. Inside(printed[pf]) = printed[pf].blocks
      BY <2>4 DEF Inside
    <3>2. e = FlattenSeq(r)
      BY <3>1 DEF BlockOf
    <3> HIDE DEF e, r, a
    <3>3. e = Listing!FlattenSeq(r)
      BY <3>2, ListingFlat
    <3> QED
      BY <2>1, <2>2, <2>4, <3>3
  <2> QED
    BY <2>3, <2>4
<1>8. x \in y
  <2>1. y = {Listing!Arg(m, z) : z \in CASE m = Len(printed[pf].args) -> {printed[pf].args[m]}
                                   [] m # Len(printed[pf].args) /\ m \in 2 .. Len(printed[pf].args) -> {printed[pf].args[m - 1]}
                                   [] OTHER -> 0 .. MaxStars}
    BY DEF Listing!ArgItems
  <2>2. m = Len(printed[pf].args)
    BY DEF Arity
  <2> QED
    BY <2>1, <2>2
<1>9. /\ IsSeq(Until(pf - 1)) /\ Until(pf) = Until(pf - 1) \o Listing!Lines(pf)
  BY <1>3, <1>4, UntilFacts DEF PrintedInv
<1>10. /\ IsSeq(Opened(pf, pi)) /\ IsSeq(Opened(pf, m)) /\ Opened(pf, m) = Opened(pf, pi) \o << y >>
  BY <1>3, <1>5, <1>6, OpenedFacts
<1>11. Listing!Lines(pf) = Opened(pf, m) \o BlocksOf(pf)
  BY <1>6, LinesAre DEF Printable
<1>12. IsSeq(e) /\ IsSeq(BlocksOf(pf)) /\ Matches(e, BlocksOf(pf))
  <2>1. e = FlattenSeq([b \in DOMAIN Inside(printed[pf]) |-> BlockOf(pf, b)])
    OBVIOUS
  <2> HIDE DEF e
  <2> QED
    BY <1>4, <2>1, BlocksMatch DEF PrintedInv
<1>13. IsSeq(out') /\ Matches(out', Until(pf))
  <2> DEFINE u == Until(pf - 1)
             v == Opened(pf, pi)
             w == u \o v
             t == BlocksOf(pf)
             z == << y >>
             a == Append(out, x)
             o == Opened(pf, m)
  <2>1. IsSeq(w) /\ Matches(out, w) /\ x \in y
    BY <1>3, <1>8, <1>9, <1>10, SeqsJoin
  <2>2. IsSeq(u) /\ IsSeq(v) /\ IsSeq(z)
    <3>1. z \in Seq({y})
      OBVIOUS
    <3> QED
      BY <1>9, <1>10, <3>1 DEF IsSeq
  <2> HIDE DEF x, y, u, v, w, e, t
  <2>3. IsSeq(a) /\ IsSeq(w \o z) /\ Matches(a, w \o z)
    BY <1>2, <2>1, PieceAppend
  <2> HIDE DEF z, a
  <2>4. IsSeq(a \o e) /\ Matches(a \o e, (w \o z) \o t)
    BY <1>12, <2>3, PiecesJoin, SeqsJoin DEF t
  <2>5. w \o z = u \o o
    BY <1>10, <2>2, SeqsAssoc DEF w, z, v
  <2> HIDE DEF o
  <2>6. (u \o o) \o t = u \o (o \o t)
    BY <1>9, <1>10, <1>12, SeqsAssoc, SMTT(30) DEF u, o, t
  <2>7. Until(pf) = u \o (o \o t)
    BY <1>9, <1>11 DEF u, o, t
  <2>8. Matches(a \o e, Until(pf))
    BY <2>4, <2>5, <2>6, <2>7
  <2>9. out' = a \o e
    BY <1>7 DEF a
  <2> QED
    BY <2>4, <2>8, <2>9
<1>14. pf' - 1 = pf /\ pf' \in 1 .. Len(printed) + 1
  BY <1>1, <1>3, <1>4, PrintedFacts
<1>15. Matches(out, Until(pf - 1))'
  <2>1. PICK g : g = pf
    OBVIOUS
  <2>2. Until(pf - 1)' = Until(g)'
    BY <1>14, <2>1 DEF Until
  <2>3. Until(g)' = Until(g)
    BY <1>1, ListingStays
  <2>4. Matches(out', Until(g)')
    BY <1>13, <2>1, <2>3
  <2> QED
    BY <2>2, <2>4
<1>16. UnsetInv'
  <2>1. OneArgument(pf) <=> printed[pf].returns /\ pi = 0
    BY <1>3, <1>6 DEF OneArgument
  <2>2. pf \in undefined <=> ~OneArgument(pf)
    BY <1>1, <1>2, <2>1 DEF UnsetInv
  <2>3. \A g \in 1 .. pf' - 1 : g = pf \/ g \in 1 .. pf - 1
    <3>1. \A g \in 1 .. pf : g = pf \/ g \in 1 .. pf - 1
      BY <1>4
    <3> QED
      BY <1>14, <3>1
  <2>4. \A g \in 1 .. pf' - 1 : (g \in undefined <=> ~OneArgument(g)) /\ Arity(g) # 0
    BY <1>2, <1>6, <2>2, <2>3 DEF UnsetInv
  <2>5. \A g \in 1 .. pf : g \in 1 .. pf' /\ g # pf'
    BY <1>1, <1>4
  <2>6. \A g \in undefined : g \in 1 .. pf' /\ g # pf' /\ ~OneArgument(g)
    BY <1>2, <2>5 DEF UnsetInv
  <2>7. pf' \notin undefined
    BY <2>6
  <2> QED
    BY <1>1, <2>4, <2>6, <2>7 DEF UnsetInv, OneArgument, Arity
<1>17. pf' \in 1 .. Len(printed') + 1 /\ IsSeq(out') /\ printing' = "function"
  BY <1>1, <1>13, <1>14
<1> QED
  BY <1>15, <1>16, <1>17 DEF PrintInv

\* jac_print_ir returns.
LEMMA FinishPrints ==
  ASSUME PrintedInv, PrintInv, Listing!Finish
  PROVE  PrintInv'
<1>1. /\ printing = "function" /\ pf > Len(printed) /\ printing' = "printed"
      /\ UNCHANGED << printed, pf, pi, parg, out, undefined >>
  BY DEF Listing!Finish
<1>2. pf = Len(printed) + 1 /\ pf - 1 = Len(printed)
  BY <1>1, PrintedFacts DEF PrintInv
<1>3. Matches(out, Until(Len(printed)))
  BY <1>1, <1>2 DEF PrintInv
<1>4. Until(Len(printed))' = Until(Len(printed))
  BY <1>1 DEF Until, Listing!Lines, Listing!Header, Listing!ArgItems
<1>5. UnsetInv'
  BY <1>1 DEF PrintInv, UnsetInv, OneArgument, Arity
<1> QED
  BY <1>1, <1>2, <1>3, <1>4, <1>5 DEF PrintInv, Listing!Final

\* Every step of the printer keeps it.
LEMMA PrintStep ==
  ASSUME PrintedInv, PrintInv, Listing!Next
  PROVE  PrintInv'
BY CrashPrints, HeaderPrints, ArgumentPrints, LastPrints, FinishPrints DEF Listing!Next

-----------------------------------------------------------------------------
(***************************************************************************)
(* What the printer promises.                                              *)
(***************************************************************************)

\* What it reads unset ...
LEMMA PrintReads ==
  ASSUME PrintedInv, PrintInv
  PROVE  UnsetReads
<1>1. \A g : Listing!UnsetReads <=>
        /\ \A x \in 1 .. pf - 1 : x \in undefined <=> ~(printed[x].returns /\ Len(printed[x].args) = 1)
        /\ \A x \in undefined : ~(printed[x].returns /\ Len(printed[x].args) = 1)
        /\ \A x \in 1 .. pf - 1 : printed[x].args # << >>
  BY DEF Listing!UnsetReads
<1>2. UnsetInv
  BY DEF PrintInv
<1>3. \A x \in 1 .. pf - 1 : printed[x].args # << >>
  <2>1. Len(<< >>) = 0
    OBVIOUS
  <2> QED
    BY <1>2, <2>1 DEF UnsetInv, Arity
<1> QED
  BY <1>1, <1>2, <1>3 DEF UnsetReads, UnsetInv, OneArgument, Arity

\* ... and that the listing begins with what it prints, and ends with it in the end.
LEMMA PrintList ==
  ASSUME PrintedInv, PrintInv
  PROVE  OutIsTheListing
<1> DEFINE n == Len(printed)
           listing == Until(n)
<1>1. /\ DOMAIN printed = 1 .. n /\ n \in Nat /\ n <= n /\ pf \in Nat /\ pf - 1 \in Nat
      /\ pf - 1 <= n /\ pf - 1 + 1 = pf /\ (pf <= n => pf \in DOMAIN printed)
  BY PrintedFacts
<1>2. IsSeq(listing)
  BY <1>1, UntilFacts DEF PrintedInv
<1>3. IsSeq(Until(pf - 1)) /\ \E r : IsSeq(r) /\ listing = Until(pf - 1) \o r
  BY <1>1, UntilFacts DEF PrintedInv
<1>4. ASSUME pf <= n
      PROVE  /\ Until(pf) = Until(pf - 1) \o Listing!Lines(pf)
             /\ \E r : IsSeq(r) /\ listing = Until(pf) \o r
  <2>1. pf - 1 + 1 <= n
    BY <1>1, <1>4
  <2>2. Until(pf - 1 + 1) = Until(pf - 1) \o Listing!Lines(pf - 1 + 1)
    BY <1>1, <2>1, UntilFacts DEF PrintedInv
  <2>3. \E r : IsSeq(r) /\ listing = Until(pf) \o r
    BY <1>1, <1>4, UntilFacts DEF PrintedInv
  <2> QED
    BY <1>1, <2>2, <2>3
<1>5. IsSeq(out) /\ Len(out) \in Nat
  BY SeqFacts DEF PrintInv
<1> DEFINE Begins == /\ Len(out) <= Len(listing)
                     /\ \A k \in DOMAIN out : out[k] \in listing[k]
<1> HIDE DEF n, listing
<1>6. ASSUME Matches(out, Until(pf - 1))
      PROVE  Begins
  <2>1. PICK r : IsSeq(r) /\ listing = Until(pf - 1) \o r
    BY <1>3
  <2> QED
    BY <1>3, <1>5, <1>6, <2>1, BeginningOf
<1>7. ASSUME pf <= n, NEW k \in Nat, k <= Printable(pf), Matches(out, Until(pf - 1) \o Opened(pf, k))
      PROVE  Begins
  <2> DEFINE u == Until(pf - 1)
             v == Opened(pf, k)
             o == Opened(pf, Printable(pf))
             t == BlocksOf(pf)
  <2>1. IsSeq(t) /\ Printable(pf) \in Nat
    BY <1>1, <1>7, LinesType DEF PrintedInv
  <2>2. PICK r : IsSeq(r) /\ o = v \o r
    BY <1>7, <2>1, OpenedBegins
  <2>3. PICK q : IsSeq(q) /\ listing = Until(pf) \o q
    BY <1>4, <1>7
  <2>4. Until(pf) = u \o (o \o t)
    BY <1>4, <1>7, LinesAre
  <2>5. IsSeq(u) /\ IsSeq(v)
    BY <1>3, <1>7, OpenedFacts
  <2>6. Matches(out, u \o v)
    BY <1>7
  <2> HIDE DEF u, v, o, t
  <2>7. o \o t = v \o (r \o t) /\ IsSeq(r \o t)
    BY <2>1, <2>2, <2>5, SeqsAssoc, SeqsJoin
  <2> DEFINE y == r \o t
  <2>8. IsSeq(y) /\ o \o t = v \o y
    BY <2>7
  <2> HIDE DEF y
  <2>9. u \o (v \o y) = (u \o v) \o y /\ IsSeq(u \o v)
    BY <2>5, <2>8, SeqsAssoc, SeqsJoin
  <2> DEFINE w == u \o v
  <2>10. IsSeq(w) /\ Until(pf) = w \o y /\ Matches(out, w)
    BY <2>4, <2>6, <2>8, <2>9
  <2> HIDE DEF w
  <2>11. (w \o y) \o q = w \o (y \o q)
    BY <2>3, <2>8, <2>10, SeqsAssoc
  <2>12. IsSeq(y \o q)
    BY <2>3, <2>8, SeqsJoin
  <2> DEFINE z == y \o q
  <2>13. IsSeq(z) /\ listing = w \o z
    BY <2>3, <2>10, <2>11, <2>12
  <2> HIDE DEF z
  <2> QED
    BY <1>5, <2>10, <2>13, BeginningOf
<1>8. ASSUME StoppedInv
      PROVE  Begins
  BY <1>6, <1>7, <1>8 DEF StoppedInv, n
<1>9. ASSUME printing = "args"
      PROVE  Begins
  <2>1. ArgsInv
    BY <1>9 DEF PrintInv
  <2>2. pf <= n /\ pi \in Nat /\ Matches(out, Until(pf - 1) \o Opened(pf, pi))
    BY <2>1 DEF ArgsInv, n
  <2>3. pi <= Printable(pf)
    <3>1. Arity(pf) \in Nat
      BY <1>1, <2>2, LinesType DEF PrintedInv
    <3> QED
      BY <2>1, <2>2, <3>1 DEF ArgsInv, Printable
  <2> QED
    BY <1>7, <2>2, <2>3
<1>10. ASSUME printing = "printed"
       PROVE  Begins /\ Len(out) = Len(listing)
  <2>1. Matches(out, listing)
    BY <1>10 DEF PrintInv, listing, n
  <2>2. IsSeq(<< >>) /\ listing \o << >> = listing
    <3>1. IsSeq(<< >>)
      BY DEF IsSeq
    <3> QED
      BY <1>2, <3>1, SeqsJoin
  <2>3. Len(out) = Len(listing)
    BY <2>1 DEF Matches
  <2>4. Begins
    BY <1>2, <1>5, <2>1, <2>3, SeqFacts DEF Matches
  <2> QED
    BY <2>3, <2>4
<1>11. Begins /\ (printing = "printed" => Len(out) = Len(listing))
  <2>1. printing \in {"function", "args", "printed", "crashed"}
    BY DEF PrintInv, Listing!Final
  <2>2. printing = "function" => Begins
    BY <1>6 DEF PrintInv
  <2>3. printing = "crashed" => Begins
    BY <1>8 DEF PrintInv
  <2> QED
    BY <1>9, <1>10, <2>1, <2>2, <2>3
<1>12. listing = Listing!FlattenSeq([g \in DOMAIN printed |-> Listing!Lines(g)])
  <2> DEFINE t == [g \in DOMAIN printed |-> Listing!Lines(g)]
  <2>1. listing = FlattenSeq(t)
    BY <1>1 DEF listing, n, Until
  <2> HIDE DEF t
  <2>2. listing = Listing!FlattenSeq(t)
    BY <2>1, ListingFlat
  <2> QED
    BY <2>2 DEF t
<1> QED
  BY <1>11, <1>12 DEF OutIsTheListing, Listing!OutIsTheListing

-----------------------------------------------------------------------------
(***************************************************************************)
(* The marks of the output are those of the IR.                            *)
(***************************************************************************)

\* What pieces show, and what sets of pieces do that all show the same.
Ink(q)     == FlattenSeq([k \in DOMAIN q |-> PieceShows(q[k])])
Alike(x)   == \A y \in x : \A z \in x : PieceShows(y) = PieceShows(z)
Stamp(x)   == IF x = {} THEN << >> ELSE PieceShows(CHOOSE y \in x : TRUE)
Stamped(q) == FlattenSeq([k \in DOMAIN q |-> Stamp(q[k])])
Even(q)    == IsSeq(q) /\ \A k \in DOMAIN q : Alike(q[k])

LEMMA StampType ==
  ASSUME NEW x
  PROVE  /\ PieceShows(x) \in Words /\ Stamp(x) \in Words
         /\ \A y \in x : Alike(x) => Stamp(x) = PieceShows(y)
<1>1. << >> \in Words /\ << "func" >> \in Words /\ << "return" >> \in Words
  BY DEF Words, Kinds
<1>2. \A y : PieceShows(y) \in Words
  BY <1>1 DEF PieceShows
<1>3. Stamp(x) \in Words
  BY <1>1, <1>2 DEF Stamp
<1>4. ASSUME NEW y \in x, Alike(x)
      PROVE  Stamp(x) = PieceShows(y)
  <2>1. (CHOOSE z \in x : TRUE) \in x
    OBVIOUS
  <2> QED
    BY <1>4, <2>1 DEF Stamp, Alike
<1> QED
  BY <1>2, <1>3, <1>4

\* What pieces show joins ...
LEMMA InkJoin ==
  ASSUME NEW q, IsSeq(q), NEW r, IsSeq(r)
  PROVE  Ink(q) \in Words /\ Ink(q \o r) = Ink(q) \o Ink(r)
<1>1. PICK V : q \in Seq(V) /\ r \in Seq(V)
  BY OneSet
<1> DEFINE m == [x \in V |-> PieceShows(x)]
           K == Kinds
<1>2. Maps(m, V, K)
  BY StampType DEF Maps, Goes, Words
<1>3. q \o r \in Seq(V)
  BY <1>1
<1>4. ASSUME NEW w \in Seq(V)
      PROVE  Picture(m, w) = Ink(w)
  <2>1. \A k \in DOMAIN w : m[w[k]] = PieceShows(w[k])
    OBVIOUS
  <2> QED
    BY <2>1 DEF Picture, Ink
<1> HIDE DEF m, K
<1>5. Picture(m, q) \in Seq(K) /\ Picture(m, q \o r) = Picture(m, q) \o Picture(m, r)
  BY <1>1, <1>2, PictureType, PictureJoin
<1> QED
  BY <1>1, <1>3, <1>4, <1>5 DEF K, Words

\* ... and so does what sets of them show, ...
LEMMA StampedJoin ==
  ASSUME NEW q, IsSeq(q), NEW r, IsSeq(r)
  PROVE  Stamped(q) \in Words /\ Stamped(q \o r) = Stamped(q) \o Stamped(r)
<1>1. PICK V : q \in Seq(V) /\ r \in Seq(V)
  BY OneSet
<1> DEFINE m == [x \in V |-> Stamp(x)]
           K == Kinds
<1>2. Maps(m, V, K)
  BY StampType DEF Maps, Goes, Words
<1>3. q \o r \in Seq(V)
  BY <1>1
<1>4. ASSUME NEW w \in Seq(V)
      PROVE  Picture(m, w) = Stamped(w)
  <2>1. \A k \in DOMAIN w : m[w[k]] = Stamp(w[k])
    OBVIOUS
  <2> QED
    BY <2>1 DEF Picture, Stamped
<1> HIDE DEF m, K
<1>5. Picture(m, q) \in Seq(K) /\ Picture(m, q \o r) = Picture(m, q) \o Picture(m, r)
  BY <1>1, <1>2, PictureType, PictureJoin
<1> QED
  BY <1>1, <1>3, <1>4, <1>5 DEF K, Words

\* ... of many sequences too.
LEMMA StampedFlat ==
  ASSUME NEW t, IsSeq(t), \A b \in DOMAIN t : Even(t[b])
  PROVE  /\ Even(FlattenSeq(t))
         /\ Stamped(FlattenSeq(t)) = FlattenSeq([b \in DOMAIN t |-> Stamped(t[b])])
<1>1. PICK V : t \in Seq(Seq(V))
  BY CommonSet DEF Even
<1> DEFINE U == {x \in V : Alike(x)}
           W == Seq(U)
           n == Len(t)
           m == [x \in U |-> Stamp(x)]
           K == Kinds
<1>2. ASSUME NEW b \in DOMAIN t
      PROVE  t[b] \in W
  <2> DEFINE q == t[b]
  <2>1. q \in Seq(V) /\ \A k \in DOMAIN q : Alike(q[k])
    BY <1>1 DEF Even
  <2> HIDE DEF q
  <2>2. Len(q) \in Nat /\ DOMAIN q = 1 .. Len(q) /\ q \in [1 .. Len(q) -> V]
    BY <2>1
  <2>3. q \in [1 .. Len(q) -> U]
    BY <2>1, <2>2
  <2> HIDE DEF U
  <2>4. q \in W
    BY <2>2, <2>3, MadeSeq
  <2> QED
    BY <2>4 DEF q
<1>3. Maps(m, U, K)
  BY StampType DEF Maps, Goes, Words
<1>4. \A x \in U : Alike(x) /\ m[x] = Stamp(x)
  OBVIOUS
<1> HIDE DEF U, m, K
<1>5. n \in Nat /\ DOMAIN t = 1 .. n /\ t \in [1 .. n -> Seq(V)]
  BY <1>1
<1> HIDE DEF W
<1>6. t \in [1 .. n -> W]
  BY <1>2, <1>5
<1>7. t \in Seq(W)
  BY <1>5, <1>6, MadeSeq
<1>8. FlattenSeq(t) \in W
  BY <1>7, JoinedType DEF W
<1>9. t \in Seq(Seq(U))
  BY <1>7 DEF W
<1>10. ASSUME NEW q \in W
       PROVE  Even(q) /\ Picture(m, q) = Stamped(q)
  <2>1. q \in Seq(U)
    BY DEF W
  <2>2. \A k \in DOMAIN q : q[k] \in U
    BY <2>1
  <2>3. [k \in DOMAIN q |-> m[q[k]]] = [k \in DOMAIN q |-> Stamp(q[k])]
    BY <1>4, <2>2
  <2> QED
    BY <1>4, <2>1, <2>2, <2>3 DEF Even, IsSeq, Picture, Stamped
<1>11. Picture(m, FlattenSeq(t)) = FlattenSeq([b \in DOMAIN t |-> Picture(m, t[b])])
  BY <1>3, <1>9, PictureFlat
<1>12. [b \in DOMAIN t |-> Picture(m, t[b])] = [b \in DOMAIN t |-> Stamped(t[b])]
  BY <1>2, <1>10
<1> QED
  BY <1>8, <1>10, <1>11, <1>12

\* Joined they are even as they were.
LEMMA EvenJoin ==
  ASSUME NEW q, Even(q), NEW r, Even(r)
  PROVE  Even(q \o r)
<1>1. PICK V : q \in Seq(V) /\ r \in Seq(V)
  BY OneSet DEF Even
<1> DEFINE z == q \o r
<1>2. z \in Seq(V) /\ Len(z) = Len(q) + Len(r) /\ Len(q) \in Nat /\ Len(r) \in Nat
      /\ DOMAIN z = 1 .. Len(z) /\ DOMAIN q = 1 .. Len(q) /\ DOMAIN r = 1 .. Len(r)
      /\ \A k \in 1 .. Len(z) : z[k] = IF k <= Len(q) THEN q[k] ELSE r[k - Len(q)]
  BY <1>1
<1> HIDE DEF z
<1>3. ASSUME NEW k \in DOMAIN z
      PROVE  Alike(z[k])
  <2>1. CASE k <= Len(q)
    <3>1. k \in 1 .. Len(q) /\ z[k] = q[k]
      BY <1>2, <2>1
    <3> QED
      BY <1>2, <3>1 DEF Even
  <2>2. CASE ~(k <= Len(q))
    <3> DEFINE j == k - Len(q)
    <3>1. j \in 1 .. Len(r) /\ z[k] = r[j]
      BY <1>2, <2>2
    <3> QED
      BY <1>2, <3>1 DEF Even
  <2> QED
    BY <2>1, <2>2
<1>4. IsSeq(z)
  BY <1>2 DEF IsSeq
<1> QED
  BY <1>3, <1>4 DEF Even, z

\* What matches sets that are alike shows what they do.
LEMMA MatchShows ==
  ASSUME NEW v, IsSeq(v), NEW w, Even(w), Matches(v, w)
  PROVE  Ink(v) = Stamped(w)
<1>1. /\ DOMAIN v = 1 .. Len(v) /\ DOMAIN w = 1 .. Len(w) /\ Len(v) = Len(w)
      /\ \A k \in 1 .. Len(v) : v[k] \in w[k]
  BY SeqFacts DEF Even, Matches
<1>2. \A k \in DOMAIN v : PieceShows(v[k]) = Stamp(w[k])
  BY <1>1, StampType DEF Even
<1>3. [k \in DOMAIN v |-> PieceShows(v[k])] = [k \in DOMAIN w |-> Stamp(w[k])]
  BY <1>1, <1>2
<1> QED
  BY <1>3 DEF Ink, Stamped

\* Nothing, a number of times.
LEMMA Nothings ==
  ASSUME NEW m \in Nat
  PROVE  FlattenSeq([k \in 1 .. m |-> << >>]) = << >>
<1> DEFINE f(n) == [k \in 1 .. n |-> << >>]
           S == {n \in Nat : FlattenSeq(f(n)) = << >>}
<1>0. << >> \in Words
  BY DEF Words
<1>1. 0 \in S
  <2>1. f(0) = << >>
    <3>1. 1 .. 0 = {}
      OBVIOUS
    <3> QED
      BY <3>1
  <2>2. FlattenSeq(f(0)) = << >>
    BY <2>1, FlatEmpty
  <2> HIDE DEF f
  <2> QED
    BY <2>2
<1>2. ASSUME NEW n \in Nat, n \in S
      PROVE  n + 1 \in S
  <2> DEFINE p == f(n)
             q == f(n + 1)
  <2>1. n + 1 \in Nat /\ p \in [1 .. n -> Words] /\ q \in [1 .. n + 1 -> Words]
        /\ (\A k \in 1 .. n : p[k] = << >>) /\ \A k \in 1 .. n + 1 : q[k] = << >>
    BY <1>0
  <2> HIDE DEF p, q, f
  <2>2. FlattenSeq(q) = FlattenSeq(p) \o q[n + 1]
    BY <2>1, FlatGrow
  <2>3. FlattenSeq(p) = << >>
    BY <1>2 DEF p
  <2>4. n + 1 \in 1 .. n + 1
    OBVIOUS
  <2>5. q[n + 1] = << >>
    BY <2>1, <2>4
  <2>6. FlattenSeq(q) = << >>
    BY <2>2, <2>3, <2>5
  <2> QED
    BY <2>1, <2>6 DEF q
<1>3. \A n \in Nat : n \in S
  <2> HIDE DEF S
  <2> QED
    BY <1>1, <1>2, InductionOnNat
<1> QED
  BY <1>3

\* A piece alone.
LEMMA OnePiece ==
  ASSUME NEW x
  PROVE  /\ IsSeq(<< x >>) /\ Ink(<< x >>) = PieceShows(x)
         /\ Alike({x}) /\ Stamp({x}) = PieceShows(x)
<1> DEFINE y == PieceShows(x)
           f == [k \in DOMAIN << x >> |-> PieceShows(<< x >>[k])]
<1>1. << x >> \in Seq({x})
  OBVIOUS
<1>2. f = << y >>
  <2>1. DOMAIN << x >> = 1 .. 1 /\ \A k \in 1 .. 1 : << x >>[k] = x
    OBVIOUS
  <2>2. f = [k \in 1 .. 1 |-> y]
    BY <2>1
  <2> HIDE DEF y, f
  <2>3. << y >> = [k \in 1 .. 1 |-> y]
    OBVIOUS
  <2> QED
    BY <2>2, <2>3
<1>3. y \in Words
  BY StampType
<1>4. FlattenSeq(<< y >>) = y
  <2> DEFINE e == [k \in 1 .. 0 |-> << >>]
             p == << y >>
  <2>1. e \in [1 .. 0 -> Words] /\ p \in [1 .. 0 + 1 -> Words] /\ p[0 + 1] = y /\ e = << >>
    <3>1. 1 .. 0 = {} /\ 0 + 1 = 1 /\ \A k \in 1 .. 1 : k = 1
      OBVIOUS
    <3> HIDE DEF y
    <3> QED
      BY <1>3, <3>1
  <2>2. \A k \in 1 .. 0 : p[k] = e[k]
    OBVIOUS
  <2> HIDE DEF p, e, y
  <2>3. FlattenSeq(p) = FlattenSeq(e) \o p[0 + 1]
    BY <2>1, <2>2, FlatGrow
  <2>4. FlattenSeq(e) = << >>
    BY <2>1, FlatEmpty
  <2>5. y \in Seq(Kinds)
    BY <1>3 DEF Words
  <2>6. << >> \o y = y
    BY <2>5
  <2>7. FlattenSeq(p) = y
    BY <2>1, <2>3, <2>4, <2>6
  <2> QED
    BY <2>7 DEF p
<1>5. Ink(<< x >>) = FlattenSeq(f)
  BY DEF Ink
<1>6. Alike({x}) /\ Stamp({x}) = PieceShows(x)
  <2>1. Alike({x})
    BY DEF Alike
  <2> QED
    BY <2>1, StampType
<1> QED
  BY <1>1, <1>2, <1>4, <1>5, <1>6 DEF IsSeq

\* A header shows its function ...
LEMMA HeadShows ==
  ASSUME NEW g
  PROVE  Even(HeadOf(g)) /\ Stamped(HeadOf(g)) = << "func" >>
<1> DEFINE x == Listing!Header(g)
           q == << x >>
           w == HeadOf(g)
<1>1. PieceShows(x) = << "func" >>
  BY DEF PieceShows, Listing!Header
<1>2. IsSeq(w) /\ Len(w) = 1 /\ w[1] = {x}
  <2>1. w = << {x} >>
    BY DEF HeadOf
  <2>2. << {x} >> \in Seq({{x}}) /\ Len(<< {x} >>) = 1 /\ << {x} >>[1] = {x}
    OBVIOUS
  <2> QED
    BY <2>1, <2>2 DEF IsSeq
<1>3. Len(q) = 1 /\ q[1] = x
  OBVIOUS
<1> HIDE DEF x, w
<1>4. \A k \in 1 .. 1 : k = 1
  OBVIOUS
<1>5. Even(w)
  <2>1. DOMAIN w = 1 .. 1
    BY <1>2, SeqFacts
  <2> QED
    BY <1>2, <1>4, <2>1, OnePiece DEF Even
<1>6. Matches(q, w)
  BY <1>2, <1>3, <1>4 DEF Matches
<1>7. IsSeq(q) /\ Ink(q) = PieceShows(x)
  BY OnePiece
<1> HIDE DEF q
<1> QED
  BY <1>1, <1>5, <1>6, <1>7, MatchShows DEF w

\* ... its arguments nothing ...
LEMMA ArgsShow ==
  ASSUME NEW g, NEW m \in Nat
  PROVE  Even(ArgsOf(g, m)) /\ Stamped(ArgsOf(g, m)) = << >>
<1> DEFINE p == ArgsOf(g, m)
<1>1. ASSUME NEW k
      PROVE  Alike(Listing!ArgItems(g, k)) /\ Stamp(Listing!ArgItems(g, k)) = << >>
  <2> DEFINE x == Listing!ArgItems(g, k)
  <2>1. \A y \in x : y.piece = "arg"
    BY DEF Listing!ArgItems, Listing!Arg
  <2> HIDE DEF x
  <2>2. \A y \in x : PieceShows(y) = << >>
    BY <2>1 DEF PieceShows
  <2> QED
    BY <2>2 DEF Alike, Stamp, x
<1>2. p = [k \in 1 .. m |-> p[k]] /\ \A k \in 1 .. m : p[k] = Listing!ArgItems(g, k)
  BY DEF ArgsOf
<1> HIDE DEF p
<1>3. IsSeq(p) /\ DOMAIN p = 1 .. m
  BY <1>2, Built
<1>4. Even(p)
  BY <1>1, <1>2, <1>3 DEF Even
<1>5. [k \in DOMAIN p |-> Stamp(p[k])] = [k \in 1 .. m |-> << >>]
  BY <1>1, <1>2, <1>3
<1>6. Stamped(p) = << >>
  BY <1>5, Nothings DEF Stamped
<1> QED
  BY <1>4, <1>6 DEF p

\* ... and a block its returns.
LEMMA BlockShows ==
  ASSUME NEW rets, IsSeq(rets), NEW b
  PROVE  Ink(Listing!print_block(rets, b)) = Times(Len(rets), "return")
<1> DEFINE u == Listing!Label(b - 1, 0)
           v == Listing!Label(b - 1, 1)
           x == << u >>
           y == [k \in DOMAIN rets |-> Listing!Ret(rets[k])]
           z == << v >>
           n == Len(rets)
<1>1. PieceShows(u) = << >> /\ PieceShows(v) = << >>
  BY DEF PieceShows, Listing!Label
<1>2. \A k \in DOMAIN rets : PieceShows(y[k]) = << "return" >>
  BY DEF PieceShows, Listing!Ret
<1>3. y = [k \in DOMAIN rets |-> y[k]]
  OBVIOUS
<1>4. Listing!print_block(rets, b) = (x \o y) \o z
  BY DEF Listing!print_block
<1> HIDE DEF u, v, y
<1>5. IsSeq(x) /\ IsSeq(z) /\ Ink(x) = << >> /\ Ink(z) = << >>
  BY <1>1, OnePiece
<1> HIDE DEF x, z
<1>6. IsSeq(y) /\ DOMAIN y = DOMAIN rets
  BY <1>3, Replaced
<1>7. n \in Nat /\ DOMAIN rets = 1 .. n
  BY SeqFacts
<1> HIDE DEF n
<1>8. Ink(y) = Times(n, "return")
  <2>1. [k \in DOMAIN y |-> PieceShows(y[k])] = [k \in 1 .. n |-> << "return" >>]
    BY <1>2, <1>6, <1>7
  <2>2. "return" \in Kinds
    BY DEF Kinds
  <2> QED
    BY <1>7, <2>1, <2>2, Singles DEF Ink
<1>9. IsSeq(x \o y)
  BY <1>5, <1>6, SeqsJoin
<1>10. Ink(x \o y) = << >> \o Ink(y) /\ Ink(y) \in Words
  BY <1>5, <1>6, InkJoin
<1>11. Ink((x \o y) \o z) = Ink(x \o y) \o << >>
  BY <1>5, <1>9, InkJoin
<1>12. << >> \o Ink(y) = Ink(y) /\ Ink(y) \o << >> = Ink(y)
  <2>1. Ink(y) \in Seq(Kinds)
    BY <1>10 DEF Words
  <2> QED
    BY <2>1
<1> QED
  BY <1>4, <1>8, <1>10, <1>11, <1>12 DEF n

\* So a function shows itself and its returns, ...
LEMMA LinesShow ==
  ASSUME IRTypeset(printed), NEW g \in DOMAIN printed
  PROVE  Even(Listing!Lines(g)) /\ Stamped(Listing!Lines(g)) = Inked(printed[g])
<1> DEFINE t == Inside(printed[g])
           q == [b \in DOMAIN t |-> LineOf(g, b)]
           h == HeadOf(g)
           p == ArgsOf(g, Printable(g))
           e == BlocksOf(g)
<1>1. IsSeq(t) /\ \A b \in DOMAIN t : IsSeq(t[b])
  <2>1. Typeset(printed[g])
    BY DEF IRTypeset
  <2>2. CASE printed[g].is_declaration
    <3>1. t = << >>
      BY <2>2 DEF Inside
    <3> HIDE DEF t
    <3> QED
      BY <3>1 DEF IsSeq
  <2>3. CASE ~printed[g].is_declaration
    BY <2>1, <2>3 DEF Inside, Typeset
  <2> QED
    BY <2>2, <2>3
<1>2. ASSUME NEW b \in DOMAIN t
      PROVE  Even(LineOf(g, b)) /\ Stamped(LineOf(g, b)) = Times(Len(t[b]), "return")
  <2> DEFINE x == BlockOf(g, b)
             y == LineOf(g, b)
             m == Len(t[b]) + 2
  <2>1. IsSeq(x) /\ Len(x) = m
    BY <1>1, BlockIs DEF BlockOf
  <2>2. Ink(x) = Times(Len(t[b]), "return")
    BY <1>1, BlockShows DEF BlockOf
  <2>3. m \in Nat
    BY <1>1, SeqFacts
  <2>4. y = [k \in 1 .. m |-> {x[k]}]
    BY DEF LineOf
  <2> HIDE DEF x, y, m
  <2>5. y = [k \in 1 .. m |-> y[k]] /\ \A k \in 1 .. m : y[k] = {x[k]}
    BY <2>4
  <2>6. IsSeq(y) /\ Len(y) = m /\ DOMAIN y = 1 .. m
    BY <2>3, <2>5, Built
  <2>7. Even(y)
    BY <2>5, <2>6, OnePiece DEF Even
  <2>8. Matches(x, y)
    BY <2>1, <2>5, <2>6 DEF Matches
  <2>9. Ink(x) = Stamped(y)
    BY <2>1, <2>7, <2>8, MatchShows
  <2> QED
    BY <2>2, <2>7, <2>9 DEF y
<1>3. q = [b \in DOMAIN t |-> q[b]] /\ \A b \in DOMAIN t : q[b] = LineOf(g, b)
  OBVIOUS
<1>4. e = FlattenSeq(q)
  BY DEF BlocksOf
<1>5. Inked(printed[g]) = << "func" >> \o FlattenSeq([b \in DOMAIN t |-> Times(Len(t[b]), "return")])
  BY DEF Inked
<1>6. Printable(g) \in Nat
  BY LinesType
<1>7. Even(h) /\ Stamped(h) = << "func" >> /\ Even(p) /\ Stamped(p) = << >>
  BY <1>6, HeadShows, ArgsShow
<1>8. Listing!Lines(g) = (h \o p) \o e
  BY LinesAre DEF Opened
<1> HIDE DEF q, t, h, p, e
<1>9. IsSeq(q) /\ DOMAIN q = DOMAIN t
  BY <1>1, <1>3, Replaced
<1>10. \A b \in DOMAIN q : Even(q[b])
  BY <1>2, <1>3, <1>9
<1>11. Even(e) /\ Stamped(e) = FlattenSeq([b \in DOMAIN q |-> Stamped(q[b])])
  BY <1>4, <1>9, <1>10, StampedFlat
<1>12. [b \in DOMAIN q |-> Stamped(q[b])] = [b \in DOMAIN t |-> Times(Len(t[b]), "return")]
  BY <1>2, <1>3, <1>9
<1>13. Even(h \o p)
  BY <1>7, EvenJoin
<1>14. Stamped(h \o p) = << "func" >> \o << >>
  BY <1>7, StampedJoin DEF Even
<1>15. Even((h \o p) \o e) /\ Stamped((h \o p) \o e) = Stamped(h \o p) \o Stamped(e)
  BY <1>11, <1>13, EvenJoin, StampedJoin DEF Even
<1>16. << "func" >> \o << >> = << "func" >>
  OBVIOUS
<1> QED
  BY <1>5, <1>8, <1>11, <1>12, <1>14, <1>15, <1>16

\* ... and a listing that is printed all of the IR.
LEMMA OutputShows ==
  ASSUME PrintedInv, PrintInv, printing = "printed"
  PROVE  InOutput = FlattenSeq([g \in DOMAIN printed |-> Inked(printed[g])])
<1> DEFINE n == Len(printed)
           t == [g \in 1 .. n |-> Listing!Lines(g)]
<1>1. IsSeq(printed) /\ n \in Nat /\ DOMAIN printed = 1 .. n
  BY SeqFacts DEF PrintedInv, IRTypeset
<1>2. t = [g \in 1 .. n |-> t[g]] /\ \A g \in 1 .. n : t[g] = Listing!Lines(g)
  OBVIOUS
<1>3. \A g \in 1 .. n : Even(Listing!Lines(g)) /\ Stamped(Listing!Lines(g)) = Inked(printed[g])
  BY <1>1, LinesShow DEF PrintedInv
<1>4. Until(n) = FlattenSeq(t)
  BY DEF Until
<1>5. IsSeq(out) /\ Matches(out, Until(n))
  BY DEF PrintInv
<1> HIDE DEF t, n
<1>6. IsSeq(t) /\ DOMAIN t = 1 .. n
  BY <1>1, <1>2, Built
<1>7. \A g \in DOMAIN t : Even(t[g])
  BY <1>2, <1>3, <1>6
<1>8. Even(FlattenSeq(t)) /\ Stamped(FlattenSeq(t)) = FlattenSeq([g \in DOMAIN t |-> Stamped(t[g])])
  BY <1>6, <1>7, StampedFlat
<1>9. [g \in DOMAIN t |-> Stamped(t[g])] = [g \in DOMAIN printed |-> Inked(printed[g])]
  BY <1>1, <1>2, <1>3, <1>6
<1>10. Ink(out) = Stamped(Until(n))
  BY <1>4, <1>5, <1>8, MatchShows
<1>11. InOutput = Ink(out)
  BY DEF InOutput, Ink
<1> QED
  BY <1>4, <1>8, <1>9, <1>10, <1>11

-----------------------------------------------------------------------------
(***************************************************************************)
(* main.                                                                   *)
(***************************************************************************)

\* What main has at each call: nothing parsed yet, a unit that is accepted, or what it has
\* still to free, behind which lies the IR only.
Everything == << "unit", "arena", "tokens", "source" >>
Behind3    == << "arena", "tokens", "source" >>
Orders     == {Everything, Behind3, << "tokens", "source" >>, << "source" >>, << >>}

IR == IF mode = "accepted" THEN {"ir"} ELSE {}

\* The parser has not begun, or the unit is all there.
Before == mode = "unit" /\ pending = << >> /\ freed = << >> /\ checking = "unit"
Whole  == mode = "accepted" /\ pending = << >> /\ freed = << >>

\* What decides whether the unit is left.
Outcome ==
  \/ mode # "accepted" /\ checking = "unit"
  \/ Whole /\ checking = "failed"
  \/ mode = "accepted" /\ checking = "passed" /\ Cleaned

MainInv ==
  /\ at \in {"start", "tokenize", "parse", "check", "print"} \cup Freeing \cup Ends
  /\ at = "start" => Before /\ held = {} /\ todo = << >>
  /\ at = "tokenize" => Before /\ held = {"source"} /\ todo = << >>
  /\ at = "parse" => /\ checking = "unit" /\ todo = << >> /\ held = {"source", "tokens", "arena"}
                     /\ mode = "accepted" => Whole
  /\ at \in {"check", "print"} => /\ Whole /\ todo = << >>
                                  /\ held = {"source", "tokens", "arena", "ir"}
  /\ at = "print" => checking = "passed"
  /\ at \in Freeing => todo \in Orders /\ held = (ToSet(todo) \ {"unit"}) \cup IR
  /\ at = "give up" => todo # Everything /\ Outcome
  /\ at = "finish" => /\ mode = "accepted" /\ checking = "passed"
                      /\ todo # Everything => Cleaned
  /\ at \in {"exit 0", "exit 1"} => held = IR /\ Outcome

CompilerInv == OwnershipInv /\ MainInv

\* The orders are five.
LEMMA OrderSets ==
  /\ ToSet(Everything) = {"unit", "arena", "tokens", "source"}
  /\ ToSet(Behind3) = {"arena", "tokens", "source"}
  /\ ToSet(<< "tokens", "source" >>) = {"tokens", "source"}
  /\ ToSet(<< "source" >>) = {"source"} /\ ToSet(<< >>) = {}
<1>1. ToSet(Everything) = {"unit", "arena", "tokens", "source"}
  BY DEF ToSet, Everything
<1>2. ToSet(Behind3) = {"arena", "tokens", "source"}
  BY DEF ToSet, Behind3
<1>3. ToSet(<< "tokens", "source" >>) = {"tokens", "source"}
  BY DEF ToSet
<1>4. ToSet(<< "source" >>) = {"source"}
  BY DEF ToSet
<1>5. ToSet(<< >>) = {}
  BY DEF ToSet
<1> QED
  BY <1>1, <1>2, <1>3, <1>4, <1>5

\* What is freed behind each thing ...
LEMMA OrderTails ==
  /\ Tail(Everything) = Behind3 /\ Tail(Behind3) = << "tokens", "source" >>
  /\ Tail(<< "tokens", "source" >>) = << "source" >> /\ Tail(<< "source" >>) = << >>
<1>1. Tail(Everything) = Behind3
  BY DEF Everything, Behind3
<1>2. Tail(Behind3) = << "tokens", "source" >>
  BY DEF Behind3
<1>3. Tail(<< "tokens", "source" >>) = << "source" >>
  OBVIOUS
<1>4. Tail(<< "source" >>) = << >>
  OBVIOUS
<1> QED
  BY <1>1, <1>2, <1>3, <1>4

\* ... and what is freed first.
LEMMA OrderHeads ==
  /\ Head(Everything) = "unit" /\ Head(Behind3) = "arena"
  /\ Head(<< "tokens", "source" >>) = "tokens" /\ Head(<< "source" >>) = "source"
  /\ Everything # << >> /\ Behind3 # << >> /\ << "tokens", "source" >> # << >>
  /\ << "source" >> # << >> /\ Behind3 # Everything /\ << "tokens", "source" >> # Everything
  /\ << "source" >> # Everything /\ << >> # Everything
BY DEF Everything, Behind3

\* The unit is there before its cleanup, and gone behind it.
LEMMA UnitThere ==
  ASSUME HeapInv, pending = << >>, freed = << >>
  PROVE  << "unit", 0 >> \in live
BY DEF HeapInv, HeapInvOf, Parsing

\* Of an accepted unit that is cleaned up nothing but names is left.
LEMMA UnitGone ==
  ASSUME OwnershipInv, mode = "accepted", Cleaned
  PROVE  << "unit", 0 >> \notin live
<1>1. freed # << >> /\ pending = << >>
  BY DEF Cleaned
<1>2. PICK h : HeapInvOf(h)
  BY DEF OwnershipInv, HeapInv
<1>3. Cleaning(h)
  BY <1>1, <1>2 DEF HeapInvOf
<1>4. AllHeld(h, pending) = {}
  BY <1>1, NoneHeld
<1>5. failed = {} /\ \A a \in live : Left(h, a)
  BY <1>3 DEF Cleaning
<1>6. 0 \notin dropped
  BY DEF OwnershipInv, IInv, TypeOK
<1> QED
  BY <1>4, <1>5, <1>6 DEF Left

\* As long as the parser runs, no cleanup has begun.
LEMMA NotCleaning ==
  ASSUME HeapInv, mode \notin {"accepted", "rejected"}
  PROVE  pending = << >> /\ freed = << >>
BY DEF HeapInv, HeapInvOf, Cleaning

\* The variables of the parser stay as they are.
LEMMA Still ==
  ASSUME UNCHANGED parserVars
  PROVE  UNCHANGED << mode, pending, freed, live, unit, success, dropped, diags, tokens >>
BY DEF parserVars, vars, heap

\* The invariant of main holds at the start.
LEMMA MainStart ==
  ASSUME CompilerInit
  PROVE  CompilerInv
<1>1. OwnershipInv
  BY OwnershipStart DEF CompilerInit
<1>2. Before /\ at = "start" /\ held = {} /\ todo = << >>
  BY DEF CompilerInit, HeapInit, Init, Before
<1>3. MainInv
  BY <1>2 DEF MainInv, Freeing
<1> QED
  BY <1>1, <1>3 DEF CompilerInv

\* The calls before the parser's.
LEMMA EarlyMain ==
  ASSUME MainInv, NoFile \/ ReadFile \/ Tokenize
  PROVE  MainInv'
<1>1. UNCHANGED parserVars /\ checking' = checking
  BY DEF NoFile, ReadFile, Tokenize, checkerVars
<1>2. UNCHANGED << mode, pending, freed >>
  BY <1>1, Still
<1>3. at \in {"start", "tokenize"} /\ Before /\ todo = << >>
  BY DEF NoFile, ReadFile, Tokenize, MainInv
<1>4. Before'
  BY <1>1, <1>2, <1>3 DEF Before
<1>5. IR' = {} /\ Outcome'
  BY <1>4 DEF Before, IR, Outcome
<1>6. CASE NoFile
  <2>1. at' \in {"exit 0", "exit 1"} /\ held' = {}
    BY <1>6 DEF NoFile, MainInv
  <2> QED
    BY <1>5, <2>1 DEF MainInv, Freeing, Ends
<1>7. CASE ReadFile
  <2>1. at' = "tokenize" /\ held' = {"source"} /\ todo' = << >>
    BY <1>3, <1>7 DEF ReadFile
  <2> QED
    BY <1>4, <2>1 DEF MainInv, Freeing, Ends
<1>8. CASE Tokenize
  <2>1. at = "tokenize" /\ held = {"source"}
    BY <1>8 DEF Tokenize, MainInv
  <2>2. CASE at' = "parse" /\ held' = held \cup {"tokens", "arena"} /\ todo' = todo
    <3>1. held' = {"source", "tokens", "arena"} /\ todo' = << >> /\ checking' = "unit" /\ mode' # "accepted"
      BY <1>3, <1>4, <2>1, <2>2 DEF Before
    <3> QED
      BY <2>2, <3>1 DEF MainInv, Freeing, Ends
  <2>3. CASE at' = "give up" /\ todo' = << "source" >> /\ held' = held
    <3>1. todo' \in Orders /\ held' = (ToSet(todo') \ {"unit"}) \cup IR' /\ todo' # Everything
      BY <1>5, <2>1, <2>3, OrderSets, OrderHeads DEF Orders
    <3> QED
      BY <1>5, <2>3, <3>1 DEF MainInv, Freeing, Ends
  <2>4. CASE at' = "crashed"
    BY <2>4 DEF MainInv, Freeing, Ends
  <2> QED
    BY <1>8, <2>2, <2>3, <2>4 DEF Tokenize
<1> QED
  BY <1>6, <1>7, <1>8

\* jac_parse_unit runs ...
LEMMA ParseMain ==
  ASSUME OwnershipInv, MainInv, Parse, HeapInv'
  PROVE  MainInv'
<1>1. /\ at = "parse" /\ HeapNext /\ (mode \notin Final \/ pending # << >>)
      /\ UNCHANGED << at, held, todo, checking >>
  BY DEF Parse, mainVars, checkerVars
<1>2. checking = "unit" /\ todo = << >> /\ held = {"source", "tokens", "arena"}
      /\ (mode = "accepted" => Whole)
  BY <1>1 DEF MainInv
<1>3. mode # "accepted"
  BY <1>1, <1>2 DEF Whole, Final
<1>4. mode' = "accepted" => Whole'
  <2> SUFFICES ASSUME mode' = "accepted"
               PROVE  pending' = << >> /\ freed' = << >>
    BY DEF Whole
  <2>1. Accept
    BY <1>1, <1>3 DEF HeapNext, HeapWork, NewArray, OtherToken, NewName, OtherBranch, Fail, GiveUp, Quiet,
                      FreeUnit, FreeNode, FreeArray, vars, ParseStatement, Finish, Expect, ExpectFails,
                      Branch, CallParse, ReturnTrue, ReturnFalse, ReturnNothing, StatementFails,
                      SkipToken, SkipClose, SkipEof, Running
  <2>2. mode = "unit" /\ UNCHANGED << pending, freed >>
    BY <2>1 DEF Accept, Finish, heap
  <2> QED
    BY <2>2, NotCleaning DEF OwnershipInv
<1> QED
  BY <1>1, <1>2, <1>4 DEF MainInv, Freeing, Ends

\* ... and has returned.
LEMMA ParsedMain ==
  ASSUME MainInv, Parsed
  PROVE  MainInv'
<1>1. /\ at = "parse" /\ UNCHANGED parserVars /\ checking' = checking /\ mode \in Final
      /\ pending = << >>
  BY DEF Parsed
<1>2. UNCHANGED << mode, pending, freed >>
  BY <1>1, Still
<1>3. checking = "unit" /\ held = {"source", "tokens", "arena"} /\ (mode = "accepted" => Whole)
  BY <1>1 DEF MainInv
<1>4. CASE mode = "accepted"
  <2>1. at' = "check" /\ todo' = << >> /\ held' = {"source", "tokens", "arena", "ir"}
    BY <1>3, <1>4 DEF Parsed
  <2>2. Whole'
    BY <1>2, <1>3, <1>4 DEF Whole
  <2> QED
    BY <2>1, <2>2 DEF MainInv, Freeing, Ends
<1>5. CASE mode = "rejected"
  <2>1. at' = "give up" /\ todo' = Behind3 /\ held' = held
    BY <1>5 DEF Parsed, Behind3
  <2>2. IR' = {} /\ Outcome'
    BY <1>1, <1>2, <1>3, <1>5 DEF IR, Outcome
  <2>3. todo' \in Orders /\ held' = (ToSet(todo') \ {"unit"}) \cup IR' /\ todo' # Everything
    BY <1>3, <2>1, <2>2, OrderSets, OrderHeads DEF Orders
  <2> QED
    BY <2>1, <2>2, <2>3 DEF MainInv, Freeing, Ends
<1>6. CASE mode = "aborted"
  <2>1. at' = "aborted"
    BY <1>6 DEF Parsed
  <2> QED
    BY <2>1 DEF MainInv, Freeing, Ends
<1> QED
  BY <1>1, <1>4, <1>5, <1>6 DEF Final

\* jac_check_unit and jac_print_ir run ...
LEMMA RunMain ==
  ASSUME MainInv, CheckUnit \/ PrintIR
  PROVE  MainInv'
<1>1. /\ at \in {"check", "print"} /\ UNCHANGED << at, held, todo >> /\ UNCHANGED parserVars
      /\ (at = "print" => checking' = checking)
  BY DEF CheckUnit, PrintIR, mainVars, checkerVars
<1>2. UNCHANGED << mode, pending, freed >>
  BY <1>1, Still
<1>3. Whole'
  BY <1>1, <1>2 DEF MainInv, Whole
<1> QED
  BY <1>1, <1>3 DEF MainInv, Freeing, Ends

\* ... and have returned: the check ...
LEMMA CheckedMain ==
  ASSUME MainInv, Checked
  PROVE  MainInv'
<1>1. /\ at = "check" /\ checking \in Check!Final /\ checking' = checking /\ held' = held
      /\ UNCHANGED parserVars
      /\ at' = CASE checking = "passed" -> "print" [] checking = "failed" -> "give up"
                 [] OTHER -> checking
      /\ todo' = IF checking = "failed" THEN Behind3 ELSE << >>
  BY DEF Checked, checkerVars, Behind3
<1>2. UNCHANGED << mode, pending, freed >>
  BY <1>1, Still
<1>3. Whole' /\ held' = {"source", "tokens", "arena", "ir"}
  BY <1>1, <1>2 DEF MainInv, Whole
<1>4. CASE checking = "passed"
  <2>1. at' = "print" /\ todo' = << >> /\ checking' = "passed"
    BY <1>1, <1>4
  <2> QED
    BY <1>3, <2>1 DEF MainInv, Freeing, Ends
<1>5. CASE checking = "failed"
  <2>1. at' = "give up" /\ todo' = Behind3
    BY <1>1, <1>5
  <2>2. IR' = {"ir"} /\ Outcome'
    BY <1>1, <1>3, <1>5 DEF IR, Outcome, Whole
  <2>3. todo' \in Orders /\ held' = (ToSet(todo') \ {"unit"}) \cup IR' /\ todo' # Everything
    BY <1>3, <2>1, <2>2, OrderSets, OrderHeads DEF Orders
  <2> QED
    BY <2>1, <2>2, <2>3 DEF MainInv, Freeing, Ends
<1>6. CASE checking \in {"aborted", "crashed"}
  <2>1. at' \in {"aborted", "crashed"}
    BY <1>1, <1>6
  <2> QED
    BY <2>1 DEF MainInv, Freeing, Ends
<1> QED
  BY <1>1, <1>4, <1>5, <1>6 DEF Check!Final

\* ... and the printer.
LEMMA FinishedMain ==
  ASSUME MainInv, Finished
  PROVE  MainInv'
<1>1. /\ at = "print" /\ printing \in Listing!Final /\ checking' = checking /\ held' = held
      /\ UNCHANGED parserVars
      /\ at' = IF printing = "printed" THEN "finish" ELSE printing
      /\ todo' = Everything
  BY DEF Finished, checkerVars, Everything
<1>2. UNCHANGED << mode, pending, freed >>
  BY <1>1, Still
<1>3. mode' = "accepted" /\ checking' = "passed" /\ held' = {"source", "tokens", "arena", "ir"}
  BY <1>1, <1>2 DEF MainInv, Whole
<1>4. CASE printing = "printed"
  <2>1. IR' = {"ir"}
    BY <1>3 DEF IR
  <2>2. todo' \in Orders /\ held' = (ToSet(todo') \ {"unit"}) \cup IR'
    BY <1>1, <1>3, <2>1, OrderSets DEF Orders
  <2> QED
    BY <1>1, <1>3, <1>4, <2>2 DEF MainInv, Freeing, Ends
<1>5. CASE printing = "crashed"
  BY <1>1, <1>5 DEF MainInv, Freeing, Ends
<1> QED
  BY <1>1, <1>4, <1>5 DEF Listing!Final

\* What is to be freed is freed in its order.
LEMMA NextOfOrder ==
  ASSUME todo \in Orders, todo # << >>
  PROVE  /\ Tail(todo) \in Orders /\ Tail(todo) # Everything
         /\ Head(todo) \in {"unit", "arena", "tokens", "source"}
         /\ ToSet(todo) = {Head(todo)} \cup ToSet(Tail(todo)) /\ Head(todo) \notin ToSet(Tail(todo))
         /\ (Head(todo) = "unit" <=> todo = Everything)
         /\ "unit" \notin ToSet(Tail(todo))
         /\ (Head(todo) = "unit" => "arena" \in ToSet(todo))
<1> DEFINE y == << "tokens", "source" >>
           z == << "source" >>
<1>1. /\ ToSet(Everything) = {"unit", "arena", "tokens", "source"}
      /\ ToSet(Behind3) = {"arena", "tokens", "source"}
      /\ ToSet(y) = {"tokens", "source"} /\ ToSet(z) = {"source"} /\ ToSet(<< >>) = {}
  BY OrderSets
<1>2. /\ Tail(Everything) = Behind3 /\ Tail(Behind3) = y /\ Tail(y) = z /\ Tail(z) = << >>
  BY OrderTails
<1>3. /\ Head(Everything) = "unit" /\ Head(Behind3) = "arena" /\ Head(y) = "tokens" /\ Head(z) = "source"
      /\ Behind3 # Everything /\ y # Everything /\ z # Everything /\ << >> # Everything
  BY OrderHeads
<1>4. todo \in {Everything, Behind3, y, z} /\ Orders = {Everything, Behind3, y, z, << >>}
  BY DEF Orders
<1> HIDE DEF y, z
<1> QED
  BY <1>1, <1>2, <1>3, <1>4

\* One of main's own calls of free, or jac_free_arena or jac_free_tokens.
LEMMA ReleaseMain ==
  ASSUME MainInv, Release
  PROVE  MainInv'
<1>1. /\ at \in Freeing /\ todo # << >> /\ Head(todo) # "unit" /\ UNCHANGED << at, checking >>
      /\ held' = held \ {Head(todo)} /\ todo' = Tail(todo) /\ UNCHANGED parserVars
  BY DEF Release, checkerVars
<1>2. UNCHANGED << mode, pending, freed >>
  BY <1>1, Still
<1>3. IR' = IR /\ Outcome' = Outcome /\ Cleaned' = Cleaned
  BY <1>1, <1>2 DEF IR, Outcome, Whole, Cleaned
<1>4. todo \in Orders /\ held = (ToSet(todo) \ {"unit"}) \cup IR
  BY <1>1 DEF MainInv
<1>5. /\ todo' \in Orders /\ todo' # Everything /\ todo # Everything
      /\ ToSet(todo) = {Head(todo)} \cup ToSet(todo') /\ Head(todo) \notin ToSet(todo')
      /\ Head(todo) # "ir"
  BY <1>1, <1>4, NextOfOrder
<1>6. Head(todo) \notin IR
  BY <1>5 DEF IR
<1>7. held' = (ToSet(todo') \ {"unit"}) \cup IR'
  BY <1>1, <1>3, <1>4, <1>5, <1>6
<1> QED
  BY <1>1, <1>2, <1>3, <1>5, <1>7 DEF MainInv, Freeing, Ends

\* A step of jac_free_unit.
LEMMA ReleaseUnitMain ==
  ASSUME MainInv, ReleaseUnit, OwnershipInv, HeapInv'
  PROVE  MainInv'
<1>1. /\ at \in Freeing /\ todo # << >> /\ Head(todo) = "unit" /\ UNCHANGED << at, held, checking >>
      /\ FreeUnit \/ FreeNode \/ FreeArray
      /\ todo' = IF pending' = << >> THEN Tail(todo) ELSE todo
  BY DEF ReleaseUnit, checkerVars
<1>2. todo \in Orders /\ held = (ToSet(todo) \ {"unit"}) \cup IR
  BY <1>1 DEF MainInv
<1>3. /\ todo = Everything /\ Tail(todo) \in Orders /\ Tail(todo) # Everything
      /\ ToSet(todo) \ {"unit"} = ToSet(Tail(todo)) \ {"unit"}
  BY <1>1, <1>2, NextOfOrder
<1>4. at = "finish" /\ mode = "accepted" /\ checking = "passed"
  BY <1>1, <1>3 DEF MainInv, Freeing
<1>5. mode' = mode
  BY <1>1 DEF FreeUnit, FreeNode, FreeArray, vars
<1>6. IR' = IR
  BY <1>5 DEF IR
<1>7. todo' \in Orders /\ held' = (ToSet(todo') \ {"unit"}) \cup IR'
  BY <1>1, <1>2, <1>3, <1>6
<1>8. todo' # Everything => Cleaned'
  <2> SUFFICES ASSUME todo' # Everything
               PROVE  pending' = << >> /\ freed' # << >>
    BY DEF Cleaned
  <2>1. pending' = << >>
    BY <1>1, <1>3
  <2>2. CASE FreeUnit \/ FreeNode
    <3>1. PICK h : HeapInvOf(h)
      BY DEF OwnershipInv, HeapInv
    <3>2. CASE FreeUnit
      <4>1. IsSeq(unit)
        BY <3>1, <3>2 DEF HeapInvOf, Parsing, Apart, FreeUnit
      <4>2. pending' = Append(unit, darray_free("unit", 0))
        BY <3>2 DEF FreeUnit, Free, jac_free_unit
      <4> QED
        BY <2>1, <4>1, <4>2, FreedAppended
    <3>3. CASE FreeNode
      <4>1. Ledger(h, live) /\ Cleaning(h)
        BY <3>1, <3>3 DEF HeapInvOf, FreeNode
      <4> QED
        BY <2>1, <3>3, <4>1, FreeNodeKeeps
    <3> QED
      BY <2>2, <3>2, <3>3
  <2>3. CASE FreeArray
    <3>1. PICK h : HeapInvOf(h)
      BY DEF OwnershipInv, HeapInv
    <3>2. Ledger(h, live) /\ Cleaning(h)
      BY <2>3, <3>1 DEF HeapInvOf, FreeArray
    <3> QED
      BY <2>1, <2>3, <3>2, FreeArrayKeeps
  <2> QED
    BY <1>1, <2>2, <2>3
<1> QED
  BY <1>1, <1>4, <1>5, <1>7, <1>8 DEF MainInv, Freeing, Ends

\* main returns.
LEMMA ExitMain ==
  ASSUME MainInv, Exit
  PROVE  MainInv'
<1>1. /\ at \in Freeing /\ todo = << >> /\ UNCHANGED << held, todo, checking >> /\ UNCHANGED parserVars
      /\ at' \in {"exit 0", "exit 1"}
  BY DEF Exit, checkerVars
<1>2. UNCHANGED << mode, pending, freed >>
  BY <1>1, Still
<1>3. IR' = IR /\ Outcome' = Outcome
  BY <1>1, <1>2 DEF IR, Outcome, Whole, Cleaned
<1>4. held = IR
  BY <1>1, OrderSets DEF MainInv
<1>5. Outcome
  <2>1. CASE at = "give up"
    BY <2>1 DEF MainInv
  <2>2. CASE at = "finish"
    <3>1. todo # Everything
      BY <1>1, OrderHeads
    <3> QED
      BY <2>2, <3>1 DEF MainInv, Outcome
  <2> QED
    BY <1>1, <2>1, <2>2 DEF Freeing
<1> QED
  BY <1>1, <1>3, <1>4, <1>5 DEF MainInv, Freeing, Ends

\* The arena stops it.
LEMMA StopMain ==
  ASSUME MainInv, ParseAborts \/ Strays
  PROVE  MainInv'
<1>1. at' \in {"aborted", "crashed"}
  BY DEF ParseAborts, Strays
<1> QED
  BY <1>1 DEF MainInv, Freeing, Ends

\* The steps of main, and those in which main is not heard of.
LEMMA CompilerStep ==
  ASSUME CompilerInv, CompilerNext \/ UNCHANGED CompilerVars
  PROVE  CompilerInv'
<1>1. OwnershipInv'
  <2>1. HeapNext \/ UNCHANGED << vars, heap >>
    BY DEF CompilerNext, NoFile, ReadFile, Tokenize, Parse, ParseAborts, Parsed, CheckUnit, Checked,
           PrintIR, Finished, Release, ReleaseUnit, Exit, Strays, HeapNext, HeapWork, parserVars,
           CompilerVars
  <2> QED
    BY <2>1, OwnershipStep DEF CompilerInv
<1>2. HeapInv'
  BY <1>1 DEF OwnershipInv
<1>3. CASE CompilerNext
  <2>1. MainInv'
    BY <1>2, <1>3, EarlyMain, ParseMain, ParsedMain, RunMain, CheckedMain, FinishedMain, ReleaseMain,
       ReleaseUnitMain, ExitMain, StopMain DEF CompilerNext, CompilerInv
  <2> QED
    BY <1>1, <2>1 DEF CompilerInv
<1>4. CASE UNCHANGED CompilerVars
  <2>1. UNCHANGED << at, held, todo, checking, mode, pending, freed >>
    BY <1>4, Still DEF CompilerVars, mainVars, checkerVars
  <2>2. MainInv'
    BY <2>1 DEF CompilerInv, MainInv, Before, Whole, IR, Outcome, Cleaned
  <2> QED
    BY <1>1, <2>2 DEF CompilerInv
<1> QED
  BY <1>3, <1>4

\* The invariant of main holds in every state.
LEMMA CompilerInvariance == CompilerSpec => []CompilerInv
<1>1. CompilerInit => CompilerInv
  BY MainStart
<1>2. CompilerInv /\ [CompilerNext]_CompilerVars => CompilerInv'
  BY CompilerStep
<1> QED
  BY <1>1, <1>2, PTL DEF CompilerSpec

-----------------------------------------------------------------------------
(***************************************************************************)
(* The nodes in the arena.                                                 *)
(***************************************************************************)

\* The array is as it was reserved, with every node in it, or the nodes have outgrown the
\* reserve.
ArenaInv ==
  /\ memory \in Nodes!Headers /\ IsSeq(objects)
  /\ \/ /\ memory.capacity = Nodes!Grown(Reserve + 1)
        /\ \A k \in DOMAIN objects : objects[k].block = home
     \/ memory.count > Reserve + 2

\* The capacity that is claimed at first is above the reserve.
LEMMA FirstCapacity ==
  /\ Nodes!Grown(Reserve + 1) \in Nat /\ Nodes!Grown(Reserve + 1) > Reserve + 2
BY ArenaAssumption DEF Nodes!Grown

\* Nothing is in it at first.
LEMMA ArenaStart ==
  ASSUME CompilerInit
  PROVE  ArenaInv
<1>1. /\ memory = [count |-> 0, capacity |-> Nodes!Grown(Reserve + 1), room |-> Reserve + 1]
      /\ objects = << >>
  BY DEF CompilerInit, Nodes!new_impl
<1>2. memory \in Nodes!Headers
  BY <1>1, FirstCapacity, ArenaAssumption DEF Nodes!Headers
<1>3. IsSeq(objects) /\ DOMAIN objects = {}
  BY <1>1 DEF IsSeq
<1> QED
  BY <1>1, <1>2, <1>3 DEF ArenaInv

\* A node that is stored has a size.
LEMMA StoredSize ==
  ASSUME Stores
  PROVE  Stored \in Nat \ {0}
<1> DEFINE kind == Last(top.kids).fn
<1>1. top.fn \in DOMAIN InArena /\ kind \in InArena[top.fn]
  BY DEF Stores
<1>2. kind \in {"expression", "statement_expression_call", "assignment", "variable_definition",
                "statement_expression", "statement_return", "function_definition"}
  <2> HIDE DEF kind
  <2> QED
    BY <1>1 DEF InArena
<1>3. Stored = NodeSize[kind]
  BY DEF Stored
<1> HIDE DEF kind
<1> QED
  BY <1>2, <1>3, ArenaAssumption

\* What a header becomes by a node.
LEMMA HeaderGrows ==
  ASSUME NEW h \in Nodes!Headers, NEW size \in Nat \ {0}
  PROVE  LET g == Nodes!grow_impl(h, size)
         IN  /\ g \in Nodes!Headers /\ g.count = h.count + size
             /\ ~Nodes!Grows(h, size) => g.capacity = h.capacity
<1>1. /\ h = [count |-> h.count, capacity |-> h.capacity, room |-> h.room]
      /\ h.count \in Nat /\ h.capacity \in Nat /\ h.room \in Nat
  BY DEF Nodes!Headers
<1>2. CASE Nodes!Grows(h, size)
  <2> DEFINE p == size * h.capacity
  <2>1. p \in Nat
    BY <1>1
  <2>2. Nodes!Grown(p) \in Nat
    <3> HIDE DEF p
    <3> QED
      BY <2>1 DEF Nodes!Grown
  <2>3. Nodes!grow_impl(h, size)
          = [count |-> h.count + size, capacity |-> Nodes!Grown(p), room |-> Nodes!Grown(p)]
    BY <1>2 DEF Nodes!grow_impl, Nodes!resize_impl
  <2> HIDE DEF p
  <2> QED
    BY <1>1, <1>2, <2>2, <2>3 DEF Nodes!Headers
<1>3. CASE ~Nodes!Grows(h, size)
  <2>1. Nodes!grow_impl(h, size) = [count |-> h.count + size, capacity |-> h.capacity, room |-> h.room]
    BY <1>1, <1>3 DEF Nodes!grow_impl
  <2> QED
    BY <1>1, <1>3, <2>1 DEF Nodes!Headers
<1> QED
  BY <1>2, <1>3

\* A node is stored: in the block where the others are, or beyond the reserve.
LEMMA StoreArena ==
  ASSUME ArenaInv, NEW size \in Nat \ {0}, NEW first_byte, Nodes!jac_arena_alloc(size, first_byte)
  PROVE  ArenaInv'
<1> DEFINE g == Nodes!grow_impl(memory, size)
<1>1. /\ memory \in Nodes!Headers /\ memory.count \in Nat /\ memory.capacity \in Nat
      /\ g \in Nodes!Headers /\ g.count = memory.count + size
      /\ ~Nodes!Grows(memory, size) => g.capacity = memory.capacity
  BY HeaderGrows DEF ArenaInv, Nodes!Headers
<1>2. /\ memory' = g
      /\ ~Nodes!Grows(memory, size) => home' = home
      /\ \E e : objects' = Append(objects, e) /\ e.block = home'
  BY DEF Nodes!jac_arena_alloc
<1> HIDE DEF g
<1>3. PICK e : objects' = Append(objects, e) /\ e.block = home'
  BY <1>2
<1>4. IsSeq(objects) /\ IsSeq(objects') /\ Len(objects) \in Nat /\ DOMAIN objects = 1 .. Len(objects)
      /\ DOMAIN objects' = 1 .. Len(objects) + 1
      /\ objects'[Len(objects) + 1] = e /\ \A k \in 1 .. Len(objects) : objects'[k] = objects[k]
  BY <1>3, AppendFacts, SeqFacts DEF ArenaInv
<1>5. CASE memory.count > Reserve + 2
  <2>1. memory'.count > Reserve + 2
    BY <1>1, <1>2, <1>5, ArenaAssumption
  <2> QED
    BY <1>1, <1>2, <1>4, <2>1 DEF ArenaInv
<1>6. CASE memory.capacity = Nodes!Grown(Reserve + 1) /\ \A k \in DOMAIN objects : objects[k].block = home
  <2>1. CASE Nodes!Grows(memory, size)
    <3>1. memory.count + size >= memory.capacity
      BY <2>1 DEF Nodes!Grows
    <3>2. memory'.count > Reserve + 2
      BY <1>1, <1>2, <1>6, <3>1, FirstCapacity, ArenaAssumption
    <3> QED
      BY <1>1, <1>2, <1>4, <3>2 DEF ArenaInv
  <2>2. CASE ~Nodes!Grows(memory, size)
    <3>1. \A k \in DOMAIN objects' : objects'[k].block = home'
      BY <1>2, <1>3, <1>4, <1>6, <2>2
    <3>2. memory'.capacity = Nodes!Grown(Reserve + 1)
      BY <1>1, <1>2, <1>6, <2>2
    <3> QED
      BY <1>1, <1>2, <1>4, <3>1, <3>2 DEF ArenaInv
  <2> QED
    BY <2>1, <2>2
<1> QED
  BY <1>5, <1>6 DEF ArenaInv

\* Only the parser stores nodes.
LEMMA ArenaStep ==
  ASSUME ArenaInv, CompilerNext \/ UNCHANGED CompilerVars
  PROVE  ArenaInv'
<1>1. CASE Parse /\ Stores
  <2>1. PICK first_byte \in FirstBytes : Nodes!jac_arena_alloc(Stored, first_byte)
    BY <1>1 DEF Parse
  <2> QED
    BY <1>1, <2>1, StoredSize, StoreArena
<1>2. CASE UNCHANGED arenaVars
  BY <1>2 DEF ArenaInv, arenaVars
<1>3. CASE ParseAborts
  <2>1. UNCHANGED arenaVars
    BY <1>3 DEF ParseAborts, Nodes!ReallocFails, arenaVars
  <2> QED
    BY <1>2, <2>1
<1>4. CASE (CompilerNext \/ UNCHANGED CompilerVars) /\ ~(Parse /\ Stores) /\ ~ParseAborts
  <2>1. UNCHANGED arenaVars
    BY <1>4 DEF CompilerNext, NoFile, ReadFile, Tokenize, Parse, Parsed, CheckUnit, Checked, PrintIR,
                Finished, Release, ReleaseUnit, Exit, Strays, parserVars, CompilerVars
  <2> QED
    BY <1>2, <2>1
<1> QED
  BY <1>1, <1>3, <1>4

\* So the arena is one block as long as the nodes fit into the reserve.
LEMMA ArenaInvariance == CompilerSpec => []ArenaInv
<1>1. CompilerInit => ArenaInv
  BY ArenaStart
<1>2. ArenaInv /\ [CompilerNext]_CompilerVars => ArenaInv'
  BY ArenaStep
<1> QED
  BY <1>1, <1>2, PTL DEF CompilerSpec

\* Whatever the source and whatever checker and printer do, no call of main reads or frees
\* what has been freed, but for the nodes that a growth of the arena has left behind, and
\* those neither as long as the nodes fit into the reserve (main, jac_arena_alloc_impl).
THEOREM ReadsCorrect == CompilerSpec => []ReadsWhatIsLive
<1>1. ASSUME CompilerInv, ArenaInv PROVE ReadsWhatIsLive
  <2>1. /\ NodeBlocks \subseteq {"arena", "old arena"} /\ FreeReads \subseteq NodeBlocks
        /\ WithinReserve => NodeBlocks = {"arena"}
    <3>1. WithinReserve => ~LeftBehind
      <4>1. memory.count \in Nat
        BY <1>1 DEF ArenaInv, Nodes!Headers
      <4> QED
        BY <1>1, <4>1, ArenaAssumption DEF ArenaInv, WithinReserve, LeftBehind
    <3> QED
      BY <3>1 DEF NodeBlocks, FreeReads
  <2>2. Reads \subseteq held \cup (NodeBlocks \ {"arena"})
    <3>1. CASE at \in Freeing /\ todo # << >>
      <4>1. todo \in Orders /\ held = (ToSet(todo) \ {"unit"}) \cup IR
        BY <1>1, <3>1 DEF CompilerInv, MainInv
      <4>2. Reads = IF Head(todo) = "unit" THEN FreeReads ELSE {Head(todo)}
        BY <3>1 DEF Reads, Freeing
      <4>3. /\ Head(todo) \in ToSet(todo) /\ (Head(todo) = "unit" => "arena" \in ToSet(todo))
        BY <3>1, <4>1, NextOfOrder
      <4> QED
        BY <2>1, <4>1, <4>2, <4>3
    <3>2. CASE at \in {"tokenize", "parse", "check", "print"}
      BY <1>1, <2>1, <3>2 DEF Reads, CompilerInv, MainInv
    <3>3. CASE ~(at \in Freeing /\ todo # << >>) /\ at \notin {"tokenize", "parse", "check", "print"}
      BY <3>3 DEF Reads
    <3> QED
      BY <3>1, <3>2, <3>3
  <2>3. Reads \subseteq held \cup {"old arena"} /\ (WithinReserve => Reads \subseteq held)
    BY <2>1, <2>2
  <2>4. at \in {"check", "print"} => << "unit", 0 >> \in live
    BY <1>1, UnitThere DEF CompilerInv, OwnershipInv, MainInv, Whole
  <2> QED
    BY <2>3, <2>4 DEF ReadsWhatIsLive
<1> QED
  BY <1>1, CompilerInvariance, ArenaInvariance, PTL

\* Whatever the source, main has freed what is its own when it returns, but for the IR, and
\* for the unit when the check has failed (main).
THEOREM LeftCorrect == CompilerSpec => []LeftAtExit
<1>1. ASSUME CompilerInv PROVE LeftAtExit
  <2> SUFFICES ASSUME at \in {"exit 0", "exit 1"}
               PROVE  /\ held = IF mode = "accepted" THEN {"ir"} ELSE {}
                      /\ (<< "unit", 0 >> \in live /\ mode = "accepted") <=> checking = "failed"
    BY DEF LeftAtExit
  <2>1. held = IR /\ Outcome
    BY <1>1 DEF CompilerInv, MainInv
  <2>2. CASE mode # "accepted" /\ checking = "unit"
    BY <2>1, <2>2 DEF IR
  <2>3. CASE Whole /\ checking = "failed"
    BY <1>1, <2>1, <2>3, UnitThere DEF IR, Whole, CompilerInv, OwnershipInv
  <2>4. CASE mode = "accepted" /\ checking = "passed" /\ Cleaned
    BY <1>1, <2>1, <2>4, UnitGone DEF IR, CompilerInv
  <2> QED
    BY <2>1, <2>2, <2>3, <2>4 DEF Outcome
<1> QED
  BY <1>1, CompilerInvariance, PTL

-----------------------------------------------------------------------------
(***************************************************************************)
(* main, and what it hands on.                                             *)
(***************************************************************************)

\* The checker has not begun, nor the printer.
Idle      == checking = "unit" /\ passed = TRUE /\ complaints = 0 /\ s = 1 /\ i = 1 /\ functions = << >>
Unprinted == printing = "function" /\ pf = 1 /\ out = << >> /\ undefined = {}

\* What is printed of a unit that passed shows what the source does.
HandedInv ==
  /\ FormInv /\ AtEof /\ PrintedInv /\ PrintInv
  /\ at \in {"start", "tokenize", "parse"} => Idle
  /\ at \in {"start", "tokenize", "parse", "check"} => Unprinted
  /\ at = "check" => ReadInv /\ CheckInv
  /\ at \in {"print", "finish", "exit 0"} /\ mode \in Final =>
       /\ mode = "accepted" /\ complaints = 0
       /\ InSource = FlattenSeq([g \in DOMAIN printed |-> Inked(printed[g])])
  /\ at \in {"finish", "exit 0"} /\ mode \in Final => printing = "printed"
  /\ at \in {"give up", "exit 1"} /\ mode \in Final =>
       complaints \in Nat /\ (mode = "rejected" \/ complaints > 0)

PassInv == CompilerInv /\ HandedInv

\* Checker and printer begin, after a step too.
LEMMA RunsBegin ==
  /\ (ReadInv /\ Idle)' => CheckInv'
  /\ (PrintedInv /\ Unprinted)' => PrintInv'
<1>1. ReadInv /\ Idle => CheckInv
  BY CheckBegins DEF Idle
<1>2. PrintedInv /\ Unprinted => PrintInv
  BY PrintBegins DEF Unprinted
<1> QED
  BY <1>1, <1>2, PTL

\* The source is the tokens'.
LEMMA SourceStays ==
  ASSUME tokens' = tokens, NEW u
  PROVE  InSource' = InSource /\ ReadOf(u)' = ReadOf(u)
BY DEF InSource, ReadOf

\* Nothing is handed on at first.
LEMMA HandedStart ==
  ASSUME CompilerInit
  PROVE  HandedInv
<1>1. FormInv /\ AtEof
  BY InitForm DEF CompilerInit, HeapInit, Init, AtEof
<1>2. printed = << >> /\ Unprinted /\ Idle /\ at = "start"
  BY DEF CompilerInit, Unprinted, Idle
<1>3. PrintedInv
  BY <1>2 DEF PrintedInv, IRTypeset, IsSeq
<1>4. PrintInv
  BY <1>2, <1>3, PrintBegins DEF Unprinted
<1> QED
  BY <1>1, <1>2, <1>3, <1>4 DEF HandedInv

\* What the printer has, as long as it stays.
LEMMA PrinterStays ==
  ASSUME UNCHANGED printerVars, PrintedInv, PrintInv
  PROVE  PrintedInv' /\ PrintInv'
<1>1. UNCHANGED << printed, printing, pf, pi, parg, out, undefined >>
  BY DEF printerVars
<1>2. PrintedInv'
  BY <1>1 DEF PrintedInv
<1>3. UnsetInv' = UnsetInv
  BY <1>1 DEF UnsetInv, OneArgument, Arity
<1>4. PICK g, j, k : g = pf /\ j = pf - 1 /\ k = pi
  OBVIOUS
<1>5. /\ Until(j)' = Until(j) /\ Arity(g)' = Arity(g) /\ Opened(g, k)' = Opened(g, k)
  BY <1>1, ListingStays
<1>6. Until(pf - 1)' = Until(pf - 1)
  <2>1. Until(pf - 1)' = Until(j)'
    BY <1>1, <1>4 DEF Until
  <2> QED
    BY <1>4, <1>5, <2>1
<1>7. ArgsInv' = ArgsInv
  <2>1. Arity(pf)' = Arity(g)'
    BY <1>1, <1>4 DEF Arity
  <2>2. Opened(pf, pi)' = Opened(g, k)'
    BY <1>1, <1>4 DEF Opened, HeadOf, ArgsOf
  <2>3. Arity(pf)' = Arity(pf) /\ Opened(pf, pi)' = Opened(pf, pi)
    BY <1>4, <1>5, <2>1, <2>2
  <2> QED
    BY <1>1, <1>6, <2>3 DEF ArgsInv
<1>8. Until(Len(printed))' = Until(Len(printed))
  <2>1. PICK n : n = Len(printed)
    OBVIOUS
  <2>2. Until(n)' = Until(n)
    BY <1>1, ListingStays
  <2>3. Until(Len(printed))' = Until(n)'
    BY <1>1, <2>1 DEF Until
  <2> QED
    BY <2>1, <2>2, <2>3
<1>9. StoppedInv => StoppedInv'
  BY <1>1, StoppedStays
<1> QED
  BY <1>1, <1>2, <1>3, <1>6, <1>7, <1>8, <1>9 DEF PrintInv, Listing!Final

\* The parser's invariants after a step.
LEMMA HeapForm ==
  ASSUME OwnershipInv, FormInv, AtEof, HeapNext \/ UNCHANGED parserVars
  PROVE  FormInv' /\ AtEof'
<1>1. [Next]_vars
  BY HeapStepIs DEF parserVars
<1> QED
  BY <1>1, StepForm, AtEofStep DEF OwnershipInv

\* The calls before the parser's, and the parser's.
LEMMA EarlyHanded ==
  ASSUME OwnershipInv, MainInv, HandedInv, NoFile \/ ReadFile \/ Tokenize \/ Parse
  PROVE  HandedInv'
<1>1. /\ UNCHANGED checkerVars /\ UNCHANGED printerVars
      /\ HeapNext \/ UNCHANGED parserVars
      /\ at \in {"start", "tokenize", "parse"}
  BY DEF NoFile, ReadFile, Tokenize, Parse
<1>2. FormInv' /\ AtEof'
  BY <1>1, HeapForm DEF HandedInv
<1>3. PrintedInv' /\ PrintInv'
  BY <1>1, PrinterStays DEF HandedInv
<1>4. Idle' /\ Unprinted'
  <2>1. Idle /\ Unprinted
    BY <1>1 DEF HandedInv
  <2>2. UNCHANGED << checking, passed, complaints, s, i, functions, printing, pf, out, undefined >>
    BY <1>1 DEF checkerVars, printerVars
  <2> QED
    BY <2>1, <2>2 DEF Idle, Unprinted
<1>5. CASE Parse
  <2>1. at' = "parse"
    BY <1>5 DEF Parse, mainVars
  <2> QED
    BY <1>2, <1>3, <1>4, <2>1 DEF HandedInv
<1>6. CASE NoFile \/ ReadFile \/ Tokenize
  <2>1. mode \notin Final
    BY <1>6 DEF NoFile, ReadFile, Tokenize, MainInv, Before, Final
  <2>2. mode' = mode
    BY <1>6, Still DEF NoFile, ReadFile, Tokenize
  <2>3. mode' \notin Final
    BY <2>1, <2>2 DEF Final
  <2>4. at' # "check"
    BY <1>6 DEF NoFile, ReadFile, Tokenize
  <2> QED
    BY <1>2, <1>3, <1>4, <2>3, <2>4 DEF HandedInv
<1> QED
  BY <1>5, <1>6

\* The parser hands over the AST.
LEMMA ParsedHanded ==
  ASSUME OwnershipInv, MainInv, HandedInv, Parsed
  PROVE  HandedInv'
<1>1. /\ UNCHANGED parserVars /\ UNCHANGED printerVars
      /\ UNCHANGED << checking, passed, complaints, s, i, functions >>
      /\ at = "parse" /\ mode \in Final
      /\ at' = CASE mode = "accepted" -> "check" [] mode = "rejected" -> "give up"
                 [] OTHER -> "aborted"
      /\ checked' = [k \in DOMAIN unit |-> UnitStatement(unit[k])]
  BY DEF Parsed
<1>2. FormInv' /\ AtEof'
  BY <1>1, HeapForm DEF HandedInv
<1>3. PrintedInv' /\ PrintInv'
  BY <1>1, PrinterStays DEF HandedInv
<1>4. Idle' /\ Unprinted'
  <2>1. Idle /\ Unprinted
    BY <1>1 DEF HandedInv
  <2>2. UNCHANGED << printing, pf, out, undefined >>
    BY <1>1 DEF printerVars
  <2> QED
    BY <1>1, <2>1, <2>2 DEF Idle, Unprinted
<1>5. mode' = mode /\ tokens' = tokens
  BY <1>1, Still
<1>6. CASE mode = "accepted"
  <2>1. PICK u : u = [k \in DOMAIN unit |-> UnitStatement(unit[k])]
    OBVIOUS
  <2>2. ReadOf(u)
    BY <1>6, <2>1, UnitRead DEF OwnershipInv, HandedInv
  <2>3. ReadOf(u)'
    BY <1>5, <2>2, SourceStays
  <2>4. ReadInv'
    <3>1. checked' = u
      BY <1>1, <2>1
    <3> QED
      BY <2>3, <3>1 DEF ReadInv, ReadOf
  <2>5. CheckInv'
    BY <1>4, <2>4, RunsBegin
  <2>6. at' = "check"
    BY <1>1, <1>6
  <2> QED
    BY <1>2, <1>3, <1>4, <2>4, <2>5, <2>6 DEF HandedInv
<1>7. CASE mode = "rejected"
  <2>1. at' = "give up" /\ mode' = "rejected"
    BY <1>1, <1>5, <1>7
  <2>2. complaints' = 0
    BY <1>4 DEF Idle
  <2> QED
    BY <1>2, <1>3, <1>4, <2>1, <2>2 DEF HandedInv
<1>8. CASE mode \notin {"accepted", "rejected"}
  <2>1. at' = "aborted"
    BY <1>1, <1>8
  <2> QED
    BY <1>2, <1>3, <1>4, <2>1 DEF HandedInv
<1> QED
  BY <1>6, <1>7, <1>8

\* A step of the checker.
LEMMA CheckHanded ==
  ASSUME OwnershipInv, MainInv, HandedInv, CheckUnit
  PROVE  HandedInv'
<1>1. /\ at = "check" /\ Check!Next /\ at' = at
      /\ UNCHANGED parserVars /\ UNCHANGED printerVars
  BY DEF CheckUnit, mainVars
<1>2. FormInv' /\ AtEof'
  BY <1>1, HeapForm DEF HandedInv
<1>3. PrintedInv' /\ PrintInv'
  BY <1>1, PrinterStays DEF HandedInv
<1>4. Unprinted'
  BY <1>1 DEF HandedInv, Unprinted, printerVars
<1>5. checked' = checked
  BY <1>1 DEF Check!Next, Check!Declare, Check!Redeclare, Check!NextStatement, Check!Finish,
              Check!Enter, Check!CheckReturn, Check!NullExpression, Check!Unreachable, Check!EndBlock
<1>6. ReadInv'
  <2>1. PICK u : u = checked
    OBVIOUS
  <2>2. tokens' = tokens
    BY <1>1, Still
  <2>3. ReadOf(u)
    BY <1>1, <2>1 DEF HandedInv, ReadInv
  <2>4. ReadOf(u)'
    BY <2>2, <2>3, SourceStays
  <2>5. checked' = u
    BY <1>5, <2>1
  <2> QED
    BY <2>4, <2>5 DEF ReadInv, ReadOf
<1>7. CheckInv'
  BY <1>1, CheckStep DEF HandedInv
<1> QED
  BY <1>1, <1>2, <1>3, <1>4, <1>6, <1>7 DEF HandedInv

\* It hands over the IR.
LEMMA CheckedHanded ==
  ASSUME OwnershipInv, MainInv, HandedInv, Checked
  PROVE  HandedInv'
<1>1. /\ at = "check" /\ checking \in Check!Final /\ UNCHANGED << printing, pf, out, undefined >>
      /\ at' = CASE checking = "passed" -> "print" [] checking = "failed" -> "give up"
                 [] OTHER -> checking
      /\ printed' = [k \in DOMAIN functions |-> Printed(functions[k])]
      /\ UNCHANGED parserVars /\ UNCHANGED checkerVars
  BY DEF Checked, HandOver
<1>2. FormInv' /\ AtEof'
  BY <1>1, HeapForm DEF HandedInv
<1>3. ReadInv /\ CheckInv /\ Unprinted
  BY <1>1 DEF HandedInv
<1>4. PICK t : t = [k \in DOMAIN functions |-> Printed(functions[k])]
  OBVIOUS
<1>5. IRTypeset(t) /\ FlattenSeq([g \in DOMAIN t |-> Inked(t[g])]) = Drawn(functions)
  <2>1. PICK r : r = functions
    OBVIOUS
  <2>2. IRMade(r) /\ t = [k \in DOMAIN r |-> Printed(r[k])]
    BY <1>3, <1>4, <2>1 DEF CheckInv
  <2>3. IRTypeset(t) /\ FlattenSeq([g \in DOMAIN t |-> Inked(t[g])]) = Drawn(r)
    BY <2>2, IRHanded
  <2> QED
    BY <2>1, <2>3
<1>6. printed' = t
  BY <1>1, <1>4
<1>7. PrintedInv'
  BY <1>5, <1>6 DEF PrintedInv
<1>8. Unprinted'
  BY <1>1, <1>3 DEF Unprinted
<1>9. PrintInv'
  BY <1>7, <1>8, RunsBegin
<1>10. /\ mode' = mode /\ tokens' = tokens /\ complaints' = complaints /\ mode = "accepted"
  BY <1>1, Still DEF checkerVars, MainInv, Whole
<1>11. CASE checking = "passed"
  <2>1. passed /\ complaints = 0
    BY <1>3, <1>11 DEF CheckInv
  <2>2. Unspoiled
    BY <1>3, <2>1 DEF CheckInv
  <2>3. /\ s = Len(checked) + 1 /\ Drawn(functions) = Given(checked, Len(checked))
        /\ \A k \in 1 .. s - 1 : ReturnsOnly(checked[k])
    BY <1>11, <2>2 DEF Unspoiled
  <2>4. DOMAIN checked = 1 .. s - 1
    <3>1. DOMAIN checked = 1 .. Len(checked) /\ Len(checked) \in Nat
      BY <1>3, CheckedFacts
    <3>2. s - 1 = Len(checked)
      BY <2>3, <3>1
    <3> QED
      BY <3>1, <3>2
  <2>5. InSource = Given(checked, Len(checked))
    BY <1>3, <2>3, <2>4 DEF ReadInv, ReadOf
  <2>6. InSource = FlattenSeq([g \in DOMAIN t |-> Inked(t[g])])
    BY <1>5, <2>3, <2>5
  <2>7. InSource' = InSource
    BY <1>10, SourceStays
  <2>8. (InSource = FlattenSeq([g \in DOMAIN printed |-> Inked(printed[g])]))'
    BY <1>6, <2>6, <2>7
  <2>9. at' = "print" /\ mode' = "accepted" /\ complaints' = 0
    BY <1>1, <1>10, <1>11, <2>1
  <2> QED
    BY <1>2, <1>7, <1>8, <1>9, <2>8, <2>9 DEF HandedInv
<1>12. CASE checking = "failed"
  <2>1. complaints \in Nat /\ complaints > 0
    BY <1>3, <1>12 DEF CheckInv
  <2>2. at' = "give up" /\ complaints' \in Nat /\ complaints' > 0
    BY <1>1, <1>10, <1>12, <2>1
  <2> QED
    BY <1>2, <1>7, <1>9, <2>2 DEF HandedInv
<1>13. CASE checking \in {"aborted", "crashed"}
  <2>1. at' \in {"aborted", "crashed"}
    BY <1>1, <1>13
  <2> QED
    BY <1>2, <1>7, <1>9, <2>1 DEF HandedInv
<1> QED
  BY <1>1, <1>11, <1>12, <1>13 DEF Check!Final

\* A step of the printer.
LEMMA PrintHanded ==
  ASSUME OwnershipInv, MainInv, HandedInv, PrintIR
  PROVE  HandedInv'
<1>1. /\ at = "print" /\ Listing!Next /\ at' = at
      /\ UNCHANGED parserVars /\ UNCHANGED checkerVars
  BY DEF PrintIR, mainVars
<1>2. FormInv' /\ AtEof'
  BY <1>1, HeapForm DEF HandedInv
<1>3. printed' = printed
  BY <1>1 DEF Listing!Next, Listing!Crash, Listing!PrintHeader, Listing!PrintArgument,
              Listing!PrintLast, Listing!Finish
<1>4. PrintInv' /\ PrintedInv'
  BY <1>1, <1>3, PrintStep DEF HandedInv, PrintedInv
<1>5. mode' = mode /\ tokens' = tokens /\ complaints' = complaints /\ mode = "accepted"
  BY <1>1, Still DEF checkerVars, MainInv, Whole
<1>6. InSource' = InSource
  BY <1>5, SourceStays
<1>7. mode \in Final
  BY <1>5 DEF Final
<1>8. complaints = 0 /\ InSource = FlattenSeq([g \in DOMAIN printed |-> Inked(printed[g])])
  BY <1>1, <1>7 DEF HandedInv
<1>9. (InSource = FlattenSeq([g \in DOMAIN printed |-> Inked(printed[g])]))'
  BY <1>3, <1>6, <1>8
<1> QED
  BY <1>1, <1>2, <1>4, <1>5, <1>8, <1>9 DEF HandedInv

\* Behind it.
LEMMA FreeHanded ==
  ASSUME OwnershipInv, MainInv, HandedInv, Finished \/ Release \/ ReleaseUnit \/ Exit
  PROVE  HandedInv'
<1>1. /\ UNCHANGED checkerVars /\ UNCHANGED printerVars
      /\ HeapNext \/ UNCHANGED parserVars
  BY DEF Finished, Release, ReleaseUnit, Exit, HeapNext, HeapWork
<1>2. FormInv' /\ AtEof'
  BY <1>1, HeapForm DEF HandedInv
<1>3. PrintedInv' /\ PrintInv'
  BY <1>1, PrinterStays DEF HandedInv
<1>4. mode' = mode /\ tokens' = tokens /\ complaints' = complaints /\ printed' = printed
      /\ printing' = printing
  <2>1. CASE Finished \/ Release \/ Exit
    <3>1. UNCHANGED parserVars
      BY <2>1 DEF Finished, Release, Exit
    <3> QED
      BY <1>1, <3>1, Still DEF checkerVars, printerVars
  <2>2. CASE ReleaseUnit
    <3>1. FreeUnit \/ FreeNode \/ FreeArray
      BY <2>2 DEF ReleaseUnit
    <3>2. mode' = mode /\ tokens' = tokens
      BY <3>1 DEF FreeUnit, FreeNode, FreeArray, vars
    <3> QED
      BY <1>1, <3>2 DEF checkerVars, printerVars
  <2> QED
    BY <2>1, <2>2
<1>5. InSource' = InSource
  BY <1>4, SourceStays
<1>6. (mode \in Final)' <=> mode \in Final
  BY <1>4 DEF Final
<1>7. (InSource = FlattenSeq([g \in DOMAIN printed |-> Inked(printed[g])]))'
      <=> InSource = FlattenSeq([g \in DOMAIN printed |-> Inked(printed[g])])
  BY <1>4, <1>5
<1>8. CASE Finished
  <2>1. at = "print" /\ printing \in {"printed", "crashed"}
        /\ at' = IF printing = "printed" THEN "finish" ELSE printing
    BY <1>8 DEF Finished, Listing!Final
  <2>2. CASE printing = "printed"
    <3>1. at' = "finish" /\ printing' = "printed"
      BY <1>4, <2>1, <2>2
    <3> QED
      BY <1>2, <1>3, <1>4, <1>6, <1>7, <2>1, <3>1 DEF HandedInv
  <2>3. CASE printing = "crashed"
    <3>1. at' = "crashed"
      BY <2>1, <2>3
    <3> QED
      BY <1>2, <1>3, <3>1 DEF HandedInv
  <2> QED
    BY <2>1, <2>2, <2>3
<1>9. CASE Release \/ ReleaseUnit
  <2>1. at \in {"finish", "give up"} /\ at' = at
    BY <1>9 DEF Release, ReleaseUnit, Freeing
  <2> QED
    BY <1>2, <1>3, <1>4, <1>6, <1>7, <2>1 DEF HandedInv
<1>10. CASE Exit
  <2>1. at \in {"finish", "give up"} /\ at' = IF at = "finish" THEN "exit 0" ELSE "exit 1"
    BY <1>10 DEF Exit, Freeing
  <2> QED
    BY <1>2, <1>3, <1>4, <1>6, <1>7, <2>1 DEF HandedInv
<1> QED
  BY <1>8, <1>9, <1>10

\* The arena stops it, and nothing is handed on.
LEMMA StopHanded ==
  ASSUME OwnershipInv, HandedInv, ParseAborts \/ Strays
  PROVE  HandedInv'
<1>1. at' \in {"aborted", "crashed"} /\ UNCHANGED printerVars /\ UNCHANGED parserVars
  BY DEF ParseAborts, Strays, Nodes!ReallocFails, parserVars, arenaVars
<1>2. FormInv' /\ AtEof'
  BY <1>1, HeapForm DEF HandedInv
<1>3. PrintedInv' /\ PrintInv'
  BY <1>1, PrinterStays DEF HandedInv
<1> QED
  BY <1>1, <1>2, <1>3 DEF HandedInv

\* Nothing but the variables of no one changes.
LEMMA HandedStays ==
  ASSUME OwnershipInv, HandedInv, UNCHANGED CompilerVars
  PROVE  HandedInv'
<1>1. UNCHANGED parserVars /\ UNCHANGED printerVars /\ UNCHANGED checkerVars /\ at' = at
  BY DEF CompilerVars, mainVars
<1>2. FormInv' /\ AtEof'
  BY <1>1, HeapForm DEF HandedInv
<1>3. PrintedInv' /\ PrintInv'
  BY <1>1, PrinterStays DEF HandedInv
<1>4. mode' = mode /\ tokens' = tokens
  BY <1>1, Still
<1>5. /\ UNCHANGED << checked, checking, passed, complaints, s, i, functions, parent_fn, new_block >>
      /\ UNCHANGED << printed, printing, pf, out, undefined >>
  BY <1>1 DEF checkerVars, printerVars
<1>6. InSource' = InSource
  BY <1>4, SourceStays
<1>7. Idle' = Idle /\ Unprinted' = Unprinted
  BY <1>5 DEF Idle, Unprinted
<1>8. ReadInv' = ReadInv
  BY <1>5, <1>6 DEF ReadInv, ReadOf
<1>9. CheckInv' = CheckInv
  BY <1>5 DEF CheckInv, Unspoiled, Check!Final
<1>10. (InSource = FlattenSeq([g \in DOMAIN printed |-> Inked(printed[g])]))'
      <=> InSource = FlattenSeq([g \in DOMAIN printed |-> Inked(printed[g])])
  BY <1>5, <1>6
<1> QED
  BY <1>1, <1>2, <1>3, <1>4, <1>5, <1>7, <1>8, <1>9, <1>10 DEF HandedInv, Final

\* The steps of main keep what it hands on.
LEMMA PassStep ==
  ASSUME PassInv, CompilerNext \/ UNCHANGED CompilerVars
  PROVE  PassInv'
<1>1. OwnershipInv /\ MainInv /\ HandedInv
  BY DEF PassInv, CompilerInv
<1>2. CompilerInv'
  BY CompilerStep DEF PassInv
<1>3. CASE NoFile \/ ReadFile \/ Tokenize \/ Parse
  BY <1>1, <1>2, <1>3, EarlyHanded DEF PassInv
<1>4. CASE Parsed
  BY <1>1, <1>2, <1>4, ParsedHanded DEF PassInv
<1>5. CASE CheckUnit
  BY <1>1, <1>2, <1>5, CheckHanded DEF PassInv
<1>6. CASE Checked
  BY <1>1, <1>2, <1>6, CheckedHanded DEF PassInv
<1>7. CASE PrintIR
  BY <1>1, <1>2, <1>7, PrintHanded DEF PassInv
<1>8. CASE Finished \/ Release \/ ReleaseUnit \/ Exit
  BY <1>1, <1>2, <1>8, FreeHanded DEF PassInv
<1>9. CASE ParseAborts \/ Strays
  BY <1>1, <1>2, <1>9, StopHanded DEF PassInv
<1>10. CASE UNCHANGED CompilerVars
  BY <1>1, <1>2, <1>10, HandedStays DEF PassInv
<1> QED
  BY <1>3, <1>4, <1>5, <1>6, <1>7, <1>8, <1>9, <1>10 DEF CompilerNext

\* So it holds in every state.
LEMMA PassInvariance == CompilerSpec => []PassInv
<1>1. CompilerInit => PassInv
  BY MainStart, HandedStart DEF PassInv
<1>2. PassInv /\ [CompilerNext]_CompilerVars => PassInv'
  BY PassStep
<1> QED
  BY <1>1, <1>2, PTL DEF CompilerSpec

\* Whatever the source, of a function of its own the printer reads nothing unset exactly if it
\* has a return type and one argument, and it comes to the end of no function that has no
\* argument (jac_print_ir, on the IR that jac_check_unit has made).
THEOREM UnsetCorrect == CompilerSpec => []UnsetReads
<1>1. ASSUME PassInv PROVE UnsetReads
  BY <1>1, PrintReads DEF PassInv, HandedInv
<1> QED
  BY <1>1, PassInvariance, PTL

\* Whatever the source, what is printed is a beginning of the listing of the IR, piece by piece,
\* and all of it when jac_print_ir returns (jac_print_ir, print_function).
THEOREM OutCorrect == CompilerSpec => []OutIsTheListing
<1>1. ASSUME PassInv PROVE OutIsTheListing
  BY <1>1, PrintList DEF PassInv, HandedInv
<1> QED
  BY <1>1, PassInvariance, PTL

\* Whatever the source, main returns 0 from a compilation only if there was no diagnostic and
\* every function and every return of the source has come through parser, checker and printer,
\* in order; and 1 only with a diagnostic (main).
THEOREM StatusCorrect == CompilerSpec => []StatusIsTrue
<1>1. ASSUME PassInv PROVE StatusIsTrue
  <2> SUFFICES ASSUME mode \in Final
               PROVE  /\ at = "exit 0" => diags = 0 /\ complaints = 0 /\ InOutput = InSource
                      /\ at = "exit 1" => diags + complaints > 0
    BY DEF StatusIsTrue
  <2>1. /\ HandedInv /\ diags \in Nat
        /\ (mode = "accepted" => success) /\ (mode = "rejected" => ~success)
        /\ (~success => diags > 0) /\ (diags > 0 => ~success \/ mode = "fail")
    BY <1>1 DEF PassInv, CompilerInv, OwnershipInv, IInv, TypeOK, DiagInv
  <2>2. ASSUME at = "exit 0"
        PROVE  diags = 0 /\ complaints = 0 /\ InOutput = InSource
    <3>1. /\ mode = "accepted" /\ complaints = 0 /\ printing = "printed" /\ PrintedInv /\ PrintInv
          /\ InSource = FlattenSeq([g \in DOMAIN printed |-> Inked(printed[g])])
      BY <2>1, <2>2 DEF HandedInv
    <3>2. InOutput = FlattenSeq([g \in DOMAIN printed |-> Inked(printed[g])])
      BY <3>1, OutputShows
    <3>3. diags = 0
      BY <2>1, <3>1
    <3> QED
      BY <3>1, <3>2, <3>3
  <2>3. ASSUME at = "exit 1"
        PROVE  diags + complaints > 0
    <3>1. complaints \in Nat /\ (mode = "rejected" \/ complaints > 0)
      BY <2>1, <2>3 DEF HandedInv
    <3>2. CASE complaints > 0
      BY <2>1, <3>1, <3>2
    <3>3. CASE mode = "rejected"
      BY <2>1, <3>1, <3>3
    <3> QED
      BY <3>1, <3>2, <3>3
  <2> QED
    BY <2>2, <2>3
<1> QED
  BY <1>1, PassInvariance, PTL
=============================================================================
