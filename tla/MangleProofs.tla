---------------------------- MODULE MangleProofs ----------------------------
(***************************************************************************)
(* For every set of signatures and every size of the buffer, the limit and *)
(* a byte: the name fits into its allocation, it is the encoding of the    *)
(* signature or a beginning of it, and the encoding can be read in one way *)
(* only.  A number is read from the left: its digits end at the text they  *)
(* count, which does not start with one; and the stars end at the code.    *)
(***************************************************************************)
EXTENDS Mangle, Induction

\* The decimal of a number.

\* A text.
Text == Seq(Char)

DigitSet == {Digit[k] : k \in 1 .. 10}

Code == {"C", "i"}

LEMMA DigitFacts ==
  /\ \A k \in 1 .. 10 : Digit[k] \in DigitSet
  /\ \A j, k \in 1 .. 10 : Digit[j] = Digit[k] => j = k
  /\ DigitSet \subseteq Char /\ Code \subseteq Char \ (DigitSet \cup {"P"})
  /\ "P" \in Char \ DigitSet
<1>1. DOMAIN Digit = 1 .. 10
  BY DEF Digit
<1>2. \A j, k \in 1 .. 10 : Digit[j] = Digit[k] => j = k
  BY DEF Digit
<1>3. DigitSet = {"0", "1", "2", "3", "4", "5", "6", "7", "8", "9"}
  <2>1. \A k : k \in 1 .. 10 <=> k \in {1, 2, 3, 4, 5, 6, 7, 8, 9, 10}
    OBVIOUS
  <2> QED
    BY <2>1 DEF Digit, DigitSet
<1>4. DigitSet \subseteq Char /\ \A k \in 1 .. 10 : Digit[k] \in DigitSet
  BY <1>1, CharAssumption DEF DigitSet
<1>5. {"C", "i", "P"} \subseteq Char \ DigitSet
  BY <1>3, CharAssumption
<1> QED
  BY <1>2, <1>4, <1>5 DEF Code

LEMMA CodeFacts ==
  /\ type_coding["UINT8"] \in Code /\ type_coding["INT32"] \in Code
  /\ type_coding["UINT8"] # type_coding["INT32"]
BY DEF type_coding, Code

LEMMA WordFacts ==
  ASSUME NEW text \in Text, IsWord(text)
  PROVE  Len(text) \in Nat \ {0} /\ text[1] \notin DigitSet
<1>1. DOMAIN Digit = 1 .. 10
  BY DEF Digit
<1> QED
  BY <1>1 DEF DigitSet, IsWord, Text

LEMMA DivideFacts ==
  ASSUME NEW n \in Nat, n # 0
  PROVE  /\ n \div Radix \in 0 .. n - 1 /\ (n % Radix) + 1 \in 1 .. 10
         /\ \A m \in Nat : m \div Radix = n \div Radix /\ m % Radix = n % Radix => m = n
<1>1. Radix \in Nat /\ Radix > 1 /\ Radix <= 10
  BY MangleAssumption
<1> DEFINE q == n \div Radix
           r == n % Radix
<1>2. /\ q \in Int /\ r \in 0 .. Radix - 1 /\ n = Radix * q + r
      /\ \A m \in Nat : m = Radix * (m \div Radix) + (m % Radix)
  BY <1>1
<1> HIDE DEF q, r
<1>3. q \in 0 .. n - 1
  <2>1. CASE q < 0
    <3>1. Radix * q <= Radix * (-1)
      BY <1>1, <1>2, <2>1
    <3> QED
      BY <1>1, <1>2, <3>1
  <2>2. CASE q = 0
    BY <1>1, <1>2, <2>2
  <2>3. CASE q > 0
    <3>1. 2 * q <= Radix * q
      BY <1>1, <1>2, <2>3
    <3> QED
      BY <1>1, <1>2, <2>3, <3>1
  <2> QED
    BY <1>2, <2>1, <2>2, <2>3
<1> QED
  BY <1>1, <1>2, <1>3 DEF q, r

\* A number is written digit by digit, the last one behind the others.
Decimals == CHOOSE f : f = [n \in Nat |-> IF n = 0 THEN <<>>
                                          ELSE Append(f[n \div Radix], Digit[(n % Radix) + 1])]

LEMMA DecimalsExist ==
  \E f : f = [n \in Nat |-> IF n = 0 THEN <<>>
                            ELSE Append(f[n \div Radix], Digit[(n % Radix) + 1])]
<1> DEFINE V       == [Nat -> Text]
           More(g) == [n \in Nat |-> IF n = 0 THEN <<>>
                                     ELSE Append(g[n \div Radix], Digit[(n % Radix) + 1])]
           none    == [n \in Nat |-> <<>>]
           step    == [p \in Nat \X V |-> More(p[2])]
<1>0. \A n \in Nat \ {0} : n \div Radix \in Nat /\ Digit[(n % Radix) + 1] \in Char
  <2> SUFFICES ASSUME NEW n \in Nat \ {0}
               PROVE  n \div Radix \in Nat /\ Digit[(n % Radix) + 1] \in Char
    OBVIOUS
  <2>1. n \div Radix \in Nat /\ (n % Radix) + 1 \in 1 .. 10
    BY DivideFacts
  <2> QED
    BY <2>1, DigitFacts
<1>1. \A g \in V : More(g) \in V
  <2> SUFFICES ASSUME NEW g \in [Nat -> Seq(Char)]
               PROVE  More(g) \in [Nat -> Seq(Char)]
    BY DEF Text
  <2>1. ASSUME NEW n \in Nat, n # 0
        PROVE  Append(g[n \div Radix], Digit[(n % Radix) + 1]) \in Seq(Char)
    <3>1. g[n \div Radix] \in Seq(Char) /\ Digit[(n % Radix) + 1] \in Char
      BY <1>0, <2>1
    <3> QED
      BY <3>1
  <2>2. <<>> \in Seq(Char)
    OBVIOUS
  <2> QED
    BY <2>1, <2>2
<1>2. none \in V
  BY DEF Text
<1>3. step \in [Nat \X V -> V] /\ \A k \in Nat : \A g \in V : step[<<k, g>>] = More(g)
  <2> HIDE DEF V, More
  <2> QED
    BY <1>1
<1> HIDE DEF step, V
<1>4. PICK F \in [Nat -> V] : Iterates(F, none, step)
  <2>1. step \in Steps(V)
    BY <1>3 DEF Steps
  <2> QED
    BY <1>2, <2>1, Recursion
<1> HIDE DEF More
<1>5. F[0] = none /\ \A k \in Nat : F[k + 1] = More(F[k]) /\ k + 1 \in Nat
  <2>1. F[0] = none /\ \A k \in Nat : F[k] \in V /\ F[k + 1] = step[<<k, F[k]>>]
    BY <1>4 DEF Iterates
  <2> HIDE DEF none
  <2>2. \A k \in Nat : step[<<k, F[k]>>] = More(F[k])
    BY <1>3, <2>1
  <2>3. \A k \in Nat : k + 1 \in Nat
    OBVIOUS
  <2> QED
    BY <2>1, <2>2, <2>3, Zenon
<1>6. \A g : More(g)[0] = <<>> /\ \A n \in Nat \ {0} :
        More(g)[n] = Append(g[n \div Radix], Digit[(n % Radix) + 1])
  BY DEF More
\* The first k applications of the step settle the numbers up to k.
<1>7. \A k \in Nat : \A n \in 0 .. k : F[k + 1][n] = F[k][n]
  <2> DEFINE S == {k \in Nat : \A n \in 0 .. k : F[k + 1][n] = F[k][n]}
  <2>0. \A k \in Nat : F[k][0] = <<>>
    <3> SUFFICES ASSUME NEW k \in Nat
                 PROVE  F[k][0] = <<>>
      OBVIOUS
    <3>1. CASE k = 0
      BY <1>5, <3>1
    <3>2. CASE k # 0
      <4>1. k - 1 \in Nat /\ k = (k - 1) + 1
        BY <3>2
      <4>2. F[k] = More(F[k - 1])
        BY <1>5, <4>1
      <4> QED
        BY <1>6, <4>2
    <3> QED
      BY <3>1, <3>2
  <2>1. 0 \in S
    <3>1. \A n \in 0 .. 0 : n = 0 /\ 0 + 1 \in Nat
      OBVIOUS
    <3> QED
      BY <2>0, <3>1
  <2>2. ASSUME NEW k \in Nat, k \in S
        PROVE  k + 1 \in S
    <3> SUFFICES ASSUME NEW n \in 0 .. k + 1
                 PROVE  F[(k + 1) + 1][n] = F[k + 1][n]
      OBVIOUS
    <3>1. CASE n = 0
      BY <2>0, <3>1
    <3>2. CASE n # 0
      <4>1. n \in Nat \ {0} /\ n \div Radix \in 0 .. n - 1
        BY <3>2, DivideFacts
      <4>2. n \div Radix \in 0 .. k
        BY <4>1
      <4>3. F[k + 1][n \div Radix] = F[k][n \div Radix]
        BY <2>2, <4>2
      <4>4. F[(k + 1) + 1] = More(F[k + 1]) /\ F[k + 1] = More(F[k])
        BY <1>5
      <4>5. \A g : More(g)[n] = Append(g[n \div Radix], Digit[(n % Radix) + 1])
        BY <1>6, <4>1
      <4> QED
        BY <4>3, <4>4, <4>5
    <3> QED
      BY <3>1, <3>2
  <2> HIDE DEF S
  <2>3. \A k \in Nat : k \in S
    BY <2>1, <2>2, InductionOnNat
  <2> QED
    BY <2>3 DEF S
<1>8. \A k \in Nat : \A n \in Nat : n <= k => F[k][n] = F[n][n]
  <2> DEFINE S == {k \in Nat : \A n \in Nat : n <= k => F[k][n] = F[n][n]}
  <2>1. 0 \in S
    OBVIOUS
  <2>2. ASSUME NEW k \in Nat, k \in S
        PROVE  k + 1 \in S
    <3> SUFFICES ASSUME NEW n \in Nat, n <= k + 1
                 PROVE  F[k + 1][n] = F[n][n]
      OBVIOUS
    <3>1. CASE n <= k
      BY <1>7, <2>2, <3>1
    <3>2. CASE ~(n <= k)
      <4>1. n = k + 1
        BY <3>2
      <4> QED
        BY <4>1
    <3> QED
      BY <3>1, <3>2
  <2> HIDE DEF S
  <2>3. \A k \in Nat : k \in S
    BY <2>1, <2>2, InductionOnNat
  <2> QED
    BY <2>3 DEF S
<1> DEFINE f == [n \in Nat |-> F[n][n]]
<1>9. \A n \in Nat : f[n] = More(f)[n]
  <2> SUFFICES ASSUME NEW n \in Nat
               PROVE  f[n] = More(f)[n]
    OBVIOUS
  <2>1. CASE n = 0
    BY <1>5, <1>6, <2>1
  <2>2. CASE n # 0
    <3>1. PICK k \in Nat : n = k + 1
      <4>1. n - 1 \in Nat /\ n = (n - 1) + 1
        BY <2>2
      <4> QED
        BY <4>1
    <3>2. n \div Radix \in Nat /\ n \div Radix <= k /\ n \in Nat \ {0}
      BY <2>2, <3>1, DivideFacts
    <3>3. F[n] = More(F[k])
      BY <1>5, <3>1
    <3>4. F[k][n \div Radix] = F[n \div Radix][n \div Radix]
      BY <1>8, <3>2
    <3>5. f[n] = F[n][n] /\ f[n \div Radix] = F[n \div Radix][n \div Radix]
      BY <3>2
    <3> HIDE DEF f
    <3>6. \A g : More(g)[n] = Append(g[n \div Radix], Digit[(n % Radix) + 1])
      BY <1>6, <3>2
    <3> QED
      BY <3>3, <3>4, <3>5, <3>6
  <2> QED
    BY <2>1, <2>2
<1>10. f = [n \in Nat |-> f[n]] /\ More(f) = [n \in Nat |-> More(f)[n]]
  BY DEF More
<1>11. f = More(f)
  <2> HIDE DEF f
  <2> QED
    BY <1>9, <1>10
<1> QED
  BY <1>11 DEF More

LEMMA DecimalFacts ==
  /\ Decimals[0] = <<>>
  /\ \A n \in Nat \ {0} : Decimals[n] = Append(Decimals[n \div Radix], Digit[(n % Radix) + 1])
<1> DEFINE Is(f) == f = [n \in Nat |-> IF n = 0 THEN <<>>
                                       ELSE Append(f[n \div Radix], Digit[(n % Radix) + 1])]
<1>2. \E f : Is(f)
  BY DecimalsExist
<1>3. Decimals = CHOOSE f : Is(f)
  BY DEF Decimals
<1>4. Is(Decimals)
  <2> HIDE DEF Is
  <2> QED
    BY <1>2, <1>3
<1>5. \A n \in Nat \ {0} : n \div Radix \in Nat
  BY DivideFacts
<1> QED
  BY <1>4, <1>5

LEMMA DecimalType == \A n \in Nat : Decimals[n] \in Seq(DigitSet)
<1> DEFINE S == {k \in Nat : \A n \in 0 .. k : Decimals[n] \in Seq(DigitSet)}
<1>0. Decimals[0] \in Seq(DigitSet)
  <2>1. Decimals[0] = <<>>
    BY DecimalFacts
  <2> QED
    BY <2>1
<1>1. 0 \in S
  BY <1>0
<1>2. ASSUME NEW k \in Nat, k \in S
      PROVE  k + 1 \in S
  <2> SUFFICES ASSUME NEW n \in 0 .. k + 1, n # 0
               PROVE  Decimals[n] \in Seq(DigitSet)
    BY <1>0
  <2>1. n \div Radix \in 0 .. k /\ (n % Radix) + 1 \in 1 .. 10 /\ n \in Nat \ {0}
    BY DivideFacts
  <2>2. Decimals[n \div Radix] \in Seq(DigitSet) /\ Digit[(n % Radix) + 1] \in DigitSet
    BY <1>2, <2>1 DEF DigitSet
  <2>3. Decimals[n] = Append(Decimals[n \div Radix], Digit[(n % Radix) + 1])
    BY <2>1, DecimalFacts
  <2> QED
    BY <2>2, <2>3
<1> HIDE DEF S
<1>3. \A k \in Nat : k \in S
  BY <1>1, <1>2, InductionOnNat
<1>4. \A n \in Nat : n \in 0 .. n
  OBVIOUS
<1> QED
  BY <1>3, <1>4 DEF S

\* No two numbers are written in the same way.
LEMMA DecimalUnique == \A m, n \in Nat : Decimals[m] = Decimals[n] => m = n
<1> DEFINE S == {k \in Nat : \A n \in 0 .. k, m \in Nat : Decimals[m] = Decimals[n] => m = n}
<1>0. \A n \in Nat \ {0} : /\ Decimals[n] # <<>> /\ n \div Radix \in Nat
                          /\ Decimals[n \div Radix] \in Seq(DigitSet)
                          /\ Digit[(n % Radix) + 1] \in DigitSet
  <2> SUFFICES ASSUME NEW n \in Nat \ {0}
               PROVE  /\ Decimals[n] # <<>> /\ n \div Radix \in Nat
                      /\ Decimals[n \div Radix] \in Seq(DigitSet)
                      /\ Digit[(n % Radix) + 1] \in DigitSet
    OBVIOUS
  <2>1. n \div Radix \in Nat /\ (n % Radix) + 1 \in 1 .. 10
    BY DivideFacts
  <2>2. Decimals[n \div Radix] \in Seq(DigitSet) /\ Digit[(n % Radix) + 1] \in DigitSet
    BY <2>1, DecimalType DEF DigitSet
  <2> QED
    BY <2>1, <2>2, DecimalFacts
<1>1. 0 \in S
  BY <1>0, DecimalFacts
<1>2. ASSUME NEW k \in Nat, k \in S
      PROVE  k + 1 \in S
  <2> SUFFICES ASSUME NEW n \in 0 .. k + 1, NEW m \in Nat, Decimals[m] = Decimals[n]
               PROVE  m = n
    OBVIOUS
  <2>1. CASE n = 0 \/ m = 0
    BY <1>0, <2>1, DecimalFacts
  <2>2. CASE n # 0 /\ m # 0
    <3>1. m \in Nat \ {0} /\ n \in Nat \ {0} /\ n \div Radix \in 0 .. k
      BY <2>2, DivideFacts
    <3>2. Decimals[m \div Radix] = Decimals[n \div Radix]
          /\ Digit[(m % Radix) + 1] = Digit[(n % Radix) + 1]
      <4> DEFINE a == Decimals[m \div Radix]
                 b == Decimals[n \div Radix]
                 d == Digit[(m % Radix) + 1]
                 e == Digit[(n % Radix) + 1]
      <4>1. Append(a, d) = Append(b, e) /\ a \in Seq(DigitSet) /\ b \in Seq(DigitSet)
            /\ d \in DigitSet /\ e \in DigitSet
        BY <1>0, <3>1, DecimalFacts
      <4> HIDE DEF a, b, d, e
      <4>2. Len(a) = Len(b) /\ Len(a) \in Nat
        BY <4>1
      <4>3. d = e
        BY <4>1, <4>2
      <4>4. \A i \in 1 .. Len(a) : a[i] = b[i]
        BY <4>1, <4>2
      <4>5. a = b
        BY <4>1, <4>2, <4>4
      <4> QED
        BY <4>3, <4>5 DEF a, b, d, e
    <3>3. m \div Radix = n \div Radix
      BY <1>0, <1>2, <3>1, <3>2
    <3>4. m % Radix = n % Radix
      <4>1. (m % Radix) + 1 \in 1 .. 10 /\ (n % Radix) + 1 \in 1 .. 10
        BY <3>1, DivideFacts
      <4>2. (m % Radix) + 1 = (n % Radix) + 1
        BY <3>2, <4>1, DigitFacts
      <4>3. m % Radix \in Int /\ n % Radix \in Int
        BY <3>1, MangleAssumption
      <4> QED
        BY <4>2, <4>3
    <3> QED
      BY <3>1, <3>3, <3>4, DivideFacts
  <2> QED
    BY <2>1, <2>2
<1> HIDE DEF S
<1>3. \A k \in Nat : k \in S
  BY <1>1, <1>2, InductionOnNat
<1>4. \A n \in Nat : n \in 0 .. n
  OBVIOUS
<1> QED
  BY <1>3, <1>4 DEF S

LEMMA CountedIs == \A text : Counted(text) = Decimals[Len(text)] \o text
BY DEF Counted, Decimal, Decimals

-----------------------------------------------------------------------------
\* Texts, and how two equal ones come apart.

LEMMA ConcatType ==
  ASSUME NEW q \in Text, NEW r \in Text
  PROVE  /\ q \o r \in Text /\ Len(q \o r) = Len(q) + Len(r) /\ Len(q) \in Nat /\ Len(r) \in Nat
         /\ \A k \in 1 .. Len(q) : (q \o r)[k] = q[k]
         /\ \A k \in 1 .. Len(r) : (q \o r)[Len(q) + k] = r[k]
BY DEF Text

LEMMA ConcatIs ==
  ASSUME NEW q \in Text, NEW r \in Text, NEW x, x = q \o r
  PROVE  /\ Len(x) = Len(q) + Len(r) /\ Len(q) \in Nat /\ Len(r) \in Nat
         /\ \A k \in 1 .. Len(q) : x[k] = q[k]
         /\ \A k \in 1 .. Len(r) : x[Len(q) + k] = r[k]
BY ConcatType

Joins(x, q, r) == x = q \o r

\* Where the characters of two texts are in what they are joined to.
Laid(x, q, r) ==
  /\ Len(x) = Len(q) + Len(r) /\ Len(q) \in Nat /\ Len(r) \in Nat
  /\ \A k \in 1 .. Len(q) : x[k] = q[k]
  /\ \A k \in 1 .. Len(r) : x[Len(q) + k] = r[k]

LEMMA JoinsLaid ==
  ASSUME NEW q \in Text, NEW r \in Text, NEW x, Joins(x, q, r)
  PROVE  Laid(x, q, r)
BY ConcatIs DEF Joins, Laid

LEMMA ConcatStart ==
  ASSUME NEW q \in Text, NEW r \in Text, Len(q) # 0
  PROVE  q \o r \in Text /\ Len(q \o r) # 0 /\ (q \o r)[1] = q[1]
<1>1. Len(q) \in Nat /\ Len(r) \in Nat /\ Len(q \o r) = Len(q) + Len(r) /\ q \o r \in Text
  BY ConcatType
<1>2. 1 \in 1 .. Len(q)
  BY <1>1
<1> QED
  BY <1>1, <1>2, ConcatType

LEMMA TextsEqual ==
  ASSUME NEW q \in Text, NEW r \in Text, Len(q) = Len(r), \A k \in 1 .. Len(q) : q[k] = r[k]
  PROVE  q = r
BY DEF Text

LEMMA ConcatAssoc ==
  ASSUME NEW q \in Text, NEW r \in Text, NEW t \in Text
  PROVE  (q \o r) \o t = q \o (r \o t)
BY DEF Text

LEMMA ConcatEmpty ==
  ASSUME NEW q \in Text
  PROVE  q \o <<>> = q /\ <<>> \o q = q /\ <<>> \in Text
BY DEF Text

\* What is in front of two equal texts and equally long is equal.
LEMMA Cancel ==
  ASSUME NEW q \in Text, NEW r \in Text, NEW t \in Text, NEW u \in Text,
         q \o r = t \o u, Len(q) = Len(t)
  PROVE  q = t /\ r = u
<1>0. PICK x : Joins(x, q, r) /\ Joins(x, t, u)
  BY DEF Joins
<1>a. Laid(x, q, r)
  BY <1>0, JoinsLaid
<1>b. Laid(x, t, u)
  BY <1>0, JoinsLaid
<1>1. Len(r) = Len(u)
  BY <1>a, <1>b DEF Laid
<1>2. \A k \in 1 .. Len(q) : q[k] = t[k]
  BY <1>a, <1>b DEF Laid
<1>3. \A k \in 1 .. Len(r) : r[k] = u[k]
  <2> SUFFICES ASSUME NEW k \in 1 .. Len(r)
               PROVE  r[k] = u[k]
    OBVIOUS
  <2>1. x[Len(q) + k] = r[k] /\ x[Len(t) + k] = u[k]
    BY <1>1, <1>a, <1>b DEF Laid
  <2> QED
    BY <2>1
<1> QED
  BY <1>1, <1>2, <1>3, TextsEqual

OnlyOf(C, q) == \A k \in 1 .. Len(q) : q[k] \in C

\* A run of one class of characters ends where the other text's run ends.
LEMMA SameRun ==
  ASSUME NEW C, NEW q \in Text, NEW r \in Text, NEW t \in Text, NEW u \in Text,
         OnlyOf(C, q), OnlyOf(C, t),
         Len(r) # 0, r[1] \notin C, Len(u) # 0, u[1] \notin C, q \o r = t \o u
  PROVE  q = t /\ r = u
<1>0. PICK x : Joins(x, q, r) /\ Joins(x, t, u)
  BY DEF Joins
<1>a. Laid(x, q, r)
  BY <1>0, JoinsLaid
<1>b. Laid(x, t, u)
  BY <1>0, JoinsLaid
<1>1. Len(q) \in Nat /\ Len(t) \in Nat /\ Len(r) \in Nat \ {0} /\ Len(u) \in Nat \ {0}
  BY ConcatType
<1>2. ~(Len(q) < Len(t))
  <2> SUFFICES ASSUME Len(q) < Len(t) PROVE FALSE
    OBVIOUS
  <2>1. Len(q) + 1 \in 1 .. Len(t) /\ 1 \in 1 .. Len(r)
    BY <1>1
  <2>2. x[Len(q) + 1] = r[1] /\ x[Len(q) + 1] = t[Len(q) + 1]
    BY <1>1, <1>a, <1>b, <2>1 DEF Laid
  <2> QED
    BY <2>1, <2>2 DEF OnlyOf
<1>3. ~(Len(t) < Len(q))
  <2> SUFFICES ASSUME Len(t) < Len(q) PROVE FALSE
    OBVIOUS
  <2>1. Len(t) + 1 \in 1 .. Len(q) /\ 1 \in 1 .. Len(u)
    BY <1>1
  <2>2. x[Len(t) + 1] = u[1] /\ x[Len(t) + 1] = q[Len(t) + 1]
    BY <1>1, <1>a, <1>b, <2>1 DEF Laid
  <2> QED
    BY <2>1, <2>2 DEF OnlyOf
<1>4. Len(q) = Len(t)
  BY <1>1, <1>2, <1>3
<1> QED
  BY <1>4, Cancel

LEMMA CountedType ==
  ASSUME NEW text \in Text
  PROVE  /\ Counted(text) \in Text /\ Decimals[Len(text)] \in Text
         /\ Len(text) \in Nat
         /\ \A k \in 1 .. Len(Decimals[Len(text)]) : Decimals[Len(text)][k] \in DigitSet
<1>1. Len(text) \in Nat
  BY DEF Text
<1> DEFINE d == Decimals[Len(text)]
<1>2. d \in Seq(DigitSet)
  BY <1>1, DecimalType
<1> HIDE DEF d
<1>3. d \in Text /\ \A k \in 1 .. Len(d) : d[k] \in DigitSet
  <2>1. DigitSet \subseteq Char
    BY DigitFacts
  <2> QED
    BY <1>2, <2>1 DEF Text
<1>4. d \o text \in Text
  BY <1>3, ConcatType
<1> QED
  BY <1>1, <1>3, <1>4, CountedIs DEF d

\* What stands behind a counted text can be told from it.
LEMMA CountedUnique ==
  ASSUME NEW s \in Text, NEW t \in Text, IsWord(s), IsWord(t), NEW q \in Text, NEW r \in Text,
         NEW x, x = Counted(s) \o q, x = Counted(t) \o r
  PROVE  s = t /\ q = r
<1> DEFINE d == Decimals[Len(s)]
           e == Decimals[Len(t)]
<1>1. /\ Counted(s) = d \o s /\ Counted(t) = e \o t /\ d \in Text /\ e \in Text
      /\ \A k \in 1 .. Len(d) : d[k] \in DigitSet
      /\ \A k \in 1 .. Len(e) : e[k] \in DigitSet
  BY CountedIs, CountedType
<1>2. Len(s) \in Nat \ {0} /\ s[1] \notin DigitSet /\ Len(t) \in Nat \ {0} /\ t[1] \notin DigitSet
  BY WordFacts
<1> HIDE DEF d, e
<1>3. d \o (s \o q) = e \o (t \o r)
  <2>1. (d \o s) \o q = d \o (s \o q)
    BY <1>1, ConcatAssoc
  <2>2. (e \o t) \o r = e \o (t \o r)
    BY <1>1, ConcatAssoc
  <2> QED
    BY <1>1, <2>1, <2>2
<1>4. s \o q \in Text /\ Len(s \o q) # 0 /\ (s \o q)[1] = s[1]
  BY <1>2, ConcatStart
<1>7. t \o r \in Text /\ Len(t \o r) # 0 /\ (t \o r)[1] = t[1]
  BY <1>2, ConcatStart
<1>5. d = e /\ s \o q = t \o r
  <2>1. OnlyOf(DigitSet, d) /\ OnlyOf(DigitSet, e)
    BY <1>1 DEF OnlyOf
  <2> QED
    BY <1>1, <1>2, <1>3, <1>4, <1>7, <2>1, SameRun
<1>6. Len(s) = Len(t)
  BY <1>2, <1>5, DecimalUnique DEF d, e
<1> QED
  BY <1>5, <1>6, Cancel

-----------------------------------------------------------------------------

LEMMA StarsType ==
  ASSUME NEW a, a.stars \in Nat
  PROVE  /\ Stars(a) \in Text /\ Len(Stars(a)) = indirection(a)
         /\ \A k \in 1 .. Len(Stars(a)) : Stars(a)[k] = "P"
<1>1. indirection(a) \in Nat /\ "P" \in Char
  BY MangleAssumption, DigitFacts DEF indirection
<1> QED
  BY <1>1 DEF Stars, Text

\* What an argument adds behind its stars.
Base(a) == IF a.kind = "CUSTOM" THEN Counted(a.token) ELSE <<type_coding[a.kind]>>

IsArgument(a) ==
  /\ a.stars \in Nat /\ a.kind \in Types /\ a.token \in Text
  /\ IF a.kind = "CUSTOM" THEN IsWord(a.token) ELSE a.token = keywords[a.kind]

LEMMA BaseType ==
  ASSUME NEW a, IsArgument(a)
  PROVE  /\ Base(a) \in Text /\ Len(Base(a)) # 0 /\ Base(a)[1] # "P"
         /\ IF a.kind = "CUSTOM" THEN Base(a)[1] \in DigitSet
            ELSE Base(a) = <<type_coding[a.kind]>> /\ type_coding[a.kind] \in Code
<1>1. CASE a.kind = "CUSTOM"
  <2> DEFINE d == Decimals[Len(a.token)]
  <2>1. /\ d \in Text /\ Len(a.token) \in Nat \ {0} /\ a.token \in Text
        /\ \A k \in 1 .. Len(d) : d[k] \in DigitSet
    BY <1>1, CountedType, WordFacts DEF IsArgument
  <2>2. d # <<>>
    <3>1. Decimals[0] = <<>> /\ Len(a.token) # 0 /\ 0 \in Nat
      BY <2>1, DecimalFacts
    <3> QED
      BY <2>1, <3>1, DecimalUnique
  <2>3. Len(d) \in Nat \ {0}
    BY <2>1, <2>2 DEF Text
  <2>4. d[1] \in DigitSet
    BY <2>1, <2>3
  <2>5. Base(a) = d \o a.token
    BY <1>1, CountedIs DEF Base
  <2> HIDE DEF d
  <2>6. d \o a.token \in Text /\ Len(d \o a.token) # 0 /\ (d \o a.token)[1] = d[1]
    BY <2>1, <2>3, ConcatStart
  <2> QED
    BY <1>1, <2>4, <2>5, <2>6, DigitFacts
<1>2. CASE a.kind # "CUSTOM"
  <2>1. a.kind \in {"UINT8", "INT32"}
    BY <1>2 DEF IsArgument, Types
  <2>2. type_coding[a.kind] \in Code
    BY <2>1, CodeFacts
  <2>3. type_coding[a.kind] \in Char \ {"P"}
    BY <2>2, DigitFacts
  <2>4. Base(a) = <<type_coding[a.kind]>>
    BY <1>2 DEF Base
  <2> QED
    BY <1>2, <2>2, <2>3, <2>4 DEF Text
<1> QED
  BY <1>1, <1>2

LEMMA EncodedType ==
  ASSUME NEW a, IsArgument(a)
  PROVE  Encoded(a) = Stars(a) \o Base(a) /\ Encoded(a) \in Text /\ Len(Encoded(a)) # 0
<1>1. Encoded(a) = Stars(a) \o Base(a)
  BY DEF Encoded, Base
<1>2. Stars(a) \in Text /\ Base(a) \in Text /\ Len(Base(a)) # 0
  BY StarsType, BaseType DEF IsArgument
<1>3. Stars(a) \o Base(a) \in Text /\ Len(Stars(a)) \in Nat /\ Len(Base(a)) \in Nat
      /\ Len(Stars(a) \o Base(a)) = Len(Stars(a)) + Len(Base(a))
  BY <1>2, ConcatType
<1> QED
  BY <1>1, <1>2, <1>3

\* An argument can be told from what stands behind it.
LEMMA EncodedUnique ==
  ASSUME NEW a, NEW b, IsArgument(a), IsArgument(b), NEW q \in Text, NEW r \in Text,
         NEW x, Joins(x, Encoded(a), q), Joins(x, Encoded(b), r)
  PROVE  /\ indirection(a) = indirection(b) /\ a.token = b.token /\ q = r
         /\ Encoded(a) = Encoded(b)
<1> DEFINE s == Stars(a)
           t == Stars(b)
<1>1. /\ s \in Text /\ t \in Text /\ Len(s) = indirection(a) /\ Len(t) = indirection(b)
      /\ \A k \in 1 .. Len(s) : s[k] \in {"P"}
      /\ \A k \in 1 .. Len(t) : t[k] \in {"P"}
  BY StarsType DEF IsArgument
<1>2. /\ Base(a) \in Text /\ Len(Base(a)) # 0 /\ Base(a)[1] \notin {"P"}
      /\ Base(b) \in Text /\ Len(Base(b)) # 0 /\ Base(b)[1] \notin {"P"}
      /\ Encoded(a) = s \o Base(a) /\ Encoded(b) = t \o Base(b)
  BY BaseType, EncodedType
<1> HIDE DEF s, t
<1>3a. Encoded(a) \o q = Encoded(b) \o r
  BY DEF Joins
<1>3. s \o (Base(a) \o q) = t \o (Base(b) \o r)
  <2>1. (s \o Base(a)) \o q = s \o (Base(a) \o q)
    BY <1>1, <1>2, ConcatAssoc
  <2>2. (t \o Base(b)) \o r = t \o (Base(b) \o r)
    BY <1>1, <1>2, ConcatAssoc
  <2> QED
    BY <1>2, <1>3a, <2>1, <2>2
<1>4. Base(a) \o q \in Text /\ Len(Base(a) \o q) # 0 /\ (Base(a) \o q)[1] = Base(a)[1]
  BY <1>2, ConcatStart
<1>5. Base(b) \o r \in Text /\ Len(Base(b) \o r) # 0 /\ (Base(b) \o r)[1] = Base(b)[1]
  BY <1>2, ConcatStart
<1>6. s = t /\ Base(a) \o q = Base(b) \o r
  <2> DEFINE C == {"P"}
  <2>1. (Base(a) \o q)[1] \notin C /\ (Base(b) \o r)[1] \notin C
    BY <1>2, <1>4, <1>5
  <2>2. OnlyOf(C, s) /\ OnlyOf(C, t)
    BY <1>1 DEF OnlyOf
  <2> HIDE DEF C
  <2> QED
    BY <1>1, <1>3, <1>4, <1>5, <2>1, <2>2, SameRun
<1>7. indirection(a) = indirection(b)
  BY <1>1, <1>6
<1>8. Base(a)[1] = Base(b)[1]
  BY <1>4, <1>5, <1>6
<1>9. CASE a.kind = "CUSTOM"
  <2>1. b.kind = "CUSTOM"
    <3> SUFFICES ASSUME b.kind # "CUSTOM" PROVE FALSE
      OBVIOUS
    <3>1. Base(a)[1] \in DigitSet /\ Base(b)[1] \in Code
      <4>1. Base(b) = <<type_coding[b.kind]>> /\ type_coding[b.kind] \in Code
        BY BaseType
      <4> QED
        BY <1>9, <4>1, BaseType
    <3> QED
      BY <1>8, <3>1, DigitFacts
  <2> DEFINE v == a.token
             w == b.token
  <2>2. v \in Text /\ w \in Text /\ IsWord(v) /\ IsWord(w)
    BY <1>9, <2>1 DEF IsArgument
  <2>3. Counted(v) \o q = Counted(w) \o r
    BY <1>6, <1>9, <2>1 DEF Base
  <2> HIDE DEF v, w
  <2>4. v = w /\ q = r
    <3>1. PICK y : y = Counted(v) \o q /\ y = Counted(w) \o r
      BY <2>3
    <3> QED
      BY <2>2, <3>1, CountedUnique
  <2>5. Base(a) = Base(b)
    BY <1>9, <2>1, <2>4 DEF Base, v, w
  <2> QED
    BY <1>2, <1>6, <1>7, <2>4, <2>5 DEF v, w
<1>10. CASE a.kind # "CUSTOM"
  <2>1. Base(a) = <<type_coding[a.kind]>> /\ type_coding[a.kind] \in Code
    BY <1>10, BaseType
  <2>2. b.kind # "CUSTOM"
    <3> SUFFICES ASSUME b.kind = "CUSTOM" PROVE FALSE
      OBVIOUS
    <3>1. Base(b)[1] \in DigitSet /\ Base(a)[1] \in Code
      BY <2>1, BaseType
    <3> QED
      BY <1>8, <3>1, DigitFacts
  <2>3. Base(b) = <<type_coding[b.kind]>>
    BY <2>2, BaseType
  <2>4. type_coding[a.kind] = type_coding[b.kind]
    BY <1>8, <2>1, <2>3
  <2>5. a.kind \in {"UINT8", "INT32"} /\ b.kind \in {"UINT8", "INT32"}
    BY <1>10, <2>2 DEF IsArgument, Types
  <2>6. a.kind = b.kind
    BY <2>4, <2>5, CodeFacts
  <2>7. a.token = b.token
    BY <1>10, <2>2, <2>6 DEF IsArgument
  <2>8. Base(a) = Base(b)
    BY <2>1, <2>3, <2>4
  <2>9. q = r
    BY <1>2, <1>6, <2>8, Cancel
  <2> QED
    BY <1>2, <1>6, <1>7, <2>7, <2>8, <2>9
<1> QED
  BY <1>9, <1>10

-----------------------------------------------------------------------------
\* The encoding of a signature, joined from the encodings of its arguments.

LEMMA SignatureFacts ==
  ASSUME NEW sig \in Signatures
  PROVE  /\ sig.identifier \in Text /\ IsWord(sig.identifier)
         /\ Len(sig.args) \in Nat /\ DOMAIN sig.args = 1 .. Len(sig.args)
         /\ \A k \in 1 .. Len(sig.args) : IsArgument(sig.args[k])
<1>1. sig \in [identifier : Seq(Char), args : Seq(Argument)]
  BY MangleAssumption
<1>2. /\ sig.identifier \in Text /\ Len(sig.args) \in Nat
      /\ DOMAIN sig.args = 1 .. Len(sig.args)
      /\ \A k \in 1 .. Len(sig.args) : sig.args[k] \in Argument
  BY <1>1 DEF Text
<1>3. IsWord(sig.identifier)
  BY MangleAssumption
<1>4. ASSUME NEW k \in 1 .. Len(sig.args)
      PROVE  IsArgument(sig.args[k])
  <2> DEFINE a == sig.args[k]
  <2>1. IF a.kind = "CUSTOM" THEN IsWord(a.token) ELSE a.token = keywords[a.kind]
    BY <1>2, MangleAssumption
  <2>2. a.stars \in Nat /\ a.kind \in Types /\ a.token \in Text
    BY <1>2 DEF Argument, Text
  <2> QED
    BY <2>1, <2>2 DEF IsArgument
<1> QED
  BY <1>2, <1>3, <1>4

\* The encodings of the first arguments, one behind the other.
Joined(sig) ==
  CHOOSE f : f = [n \in Nat |-> IF n = 0 THEN <<>>
                                ELSE IF n <= Len(sig.args) THEN f[n - 1] \o Encoded(sig.args[n])
                                ELSE f[n - 1]]

LEMMA JoinedFacts ==
  ASSUME NEW sig \in Signatures
  PROVE  /\ Joined(sig)[0] = <<>>
         /\ \A n \in Nat : Joined(sig)[n] \in Text
         /\ \A n \in Nat : n + 1 <= Len(sig.args)
              => Joined(sig)[n + 1] = Joined(sig)[n] \o Encoded(sig.args[n + 1])
<1> DEFINE More(n, before) == IF n + 1 <= Len(sig.args) THEN before \o Encoded(sig.args[n + 1])
                              ELSE before
           step  == [p \in Nat \X Text |-> More(p[1], p[2])]
           Is(f) == f = [n \in Nat |-> IF n = 0 THEN <<>>
                                       ELSE IF n <= Len(sig.args) THEN f[n - 1] \o Encoded(sig.args[n])
                                       ELSE f[n - 1]]
<1>1. \A n \in Nat : n + 1 <= Len(sig.args) => Encoded(sig.args[n + 1]) \in Text
  <2> SUFFICES ASSUME NEW n \in Nat, n + 1 <= Len(sig.args)
               PROVE  Encoded(sig.args[n + 1]) \in Text
    OBVIOUS
  <2>1. n + 1 \in 1 .. Len(sig.args)
    BY SignatureFacts
  <2> QED
    BY <2>1, SignatureFacts, EncodedType
<1>2. \A n \in Nat : \A t \in Text : More(n, t) \in Text
  BY <1>1, ConcatType
<1>3. step \in [Nat \X Text -> Text] /\ \A n \in Nat : \A t \in Text : step[<<n, t>>] = More(n, t)
  <2> HIDE DEF More
  <2> QED
    BY <1>2
<1> HIDE DEF step
<1>4. PICK f \in [Nat -> Text] : Iterates(f, <<>>, step)
  <2>1. step \in Steps(Text) /\ <<>> \in Text
    BY <1>3, ConcatEmpty DEF Steps, Text
  <2> QED
    BY <2>1, Recursion
<1>5. f[0] = <<>> /\ \A n \in Nat : f[n + 1] = More(n, f[n])
  <2>1. f[0] = <<>> /\ \A n \in Nat : f[n] \in Text /\ f[n + 1] = step[<<n, f[n]>>]
    BY <1>4 DEF Iterates
  <2> HIDE DEF More
  <2> QED
    BY <1>3, <2>1
<1>6. Is(f)
  <2> DEFINE g == [n \in Nat |-> IF n = 0 THEN <<>>
                                 ELSE IF n <= Len(sig.args) THEN f[n - 1] \o Encoded(sig.args[n])
                                 ELSE f[n - 1]]
  <2>1. ASSUME NEW n \in Nat PROVE f[n] = g[n]
    <3>1. CASE n = 0
      BY <1>5, <3>1
    <3>2. CASE n # 0
      <4>1. PICK m \in Nat : m = n - 1 /\ n = m + 1
        BY <3>2
      <4> QED
        BY <1>5, <3>2, <4>1
    <3> QED
      BY <3>1, <3>2
  <2>2. f = [n \in Nat |-> f[n]] /\ g = [n \in Nat |-> g[n]]
    OBVIOUS
  <2>3. f = g
    <3> HIDE DEF g
    <3> QED
      BY <2>1, <2>2
  <2> QED
    BY <2>3
<1> DEFINE j == Joined(sig)
<1>7. j = CHOOSE e : Is(e)
  BY DEF Joined
<1> HIDE DEF j
<1>8. Is(j)
  <2> HIDE DEF Is
  <2> QED
    BY <1>6, <1>7
<1>9. j[0] = <<>>
  BY <1>8
<1>10. \A n \in Nat : j[n + 1] = More(n, j[n])
  <2> SUFFICES ASSUME NEW n \in Nat
               PROVE  j[n + 1] = More(n, j[n])
    OBVIOUS
  <2>1. n + 1 \in Nat /\ n + 1 # 0 /\ (n + 1) - 1 = n
    OBVIOUS
  <2> QED
    BY <1>8, <2>1
<1>11. \A n \in Nat : j[n] \in Text
  <2> DEFINE S == {n \in Nat : j[n] \in Text}
  <2>1. 0 \in S
    BY <1>9, ConcatEmpty DEF Text
  <2>2. ASSUME NEW n \in Nat, n \in S
        PROVE  n + 1 \in S
    <3> HIDE DEF More
    <3> QED
      BY <1>2, <1>10, <2>2
  <2> HIDE DEF S
  <2>3. \A n \in Nat : n \in S
    BY <2>1, <2>2, InductionOnNat
  <2> QED
    BY <2>3 DEF S
<1> QED
  BY <1>9, <1>10, <1>11 DEF j

LEMMA FlattenIs ==
  ASSUME NEW sig \in Signatures
  PROVE  FlattenSeq([k \in DOMAIN sig.args |-> Encoded(sig.args[k])]) = Joined(sig)[Len(sig.args)]
<1> DEFINE L    == Len(sig.args)
           seqs == [k \in DOMAIN sig.args |-> Encoded(sig.args[k])]
           j    == Joined(sig)
<1>1. L \in Nat /\ DOMAIN sig.args = 1 .. L
  BY SignatureFacts
<1>2. \A n \in 1 .. L : Encoded(sig.args[n]) \in Text
  BY SignatureFacts, EncodedType
<1>3. seqs \in Seq(Text) /\ Len(seqs) = L
  BY <1>1, <1>2
<1>4. /\ j[0] = <<>> /\ \A n \in Nat : j[n] \in Text
      /\ \A n \in Nat : n + 1 <= L => j[n + 1] = j[n] \o Encoded(sig.args[n + 1])
  BY JoinedFacts
<1> HIDE DEF j
<1>5. CASE L = 0
  <2>1. seqs = <<>>
    BY <1>3, <1>5
  <2> HIDE DEF seqs
  <2> QED
    BY <1>3, <1>4, <1>5, <2>1 DEF FlattenSeq, seqs, j
<1>6. CASE L # 0
  <2> DEFINE Is(f) == f = [i \in 1 .. L |-> IF i = 1 THEN seqs[i] ELSE f[i - 1] \o seqs[i]]
             flatten == CHOOSE f : Is(f)
             g       == [i \in 1 .. L |-> j[i]]
  <2>1. \A i \in 1 .. L : seqs[i] = Encoded(sig.args[i]) /\ seqs[i] \in Text
    BY <1>1, <1>2
  <2> HIDE DEF seqs
  <2>2. \A i \in 1 .. L : j[i] = IF i = 1 THEN seqs[i] ELSE j[i - 1] \o seqs[i]
    <3> SUFFICES ASSUME NEW i \in 1 .. L
                 PROVE  j[i] = IF i = 1 THEN seqs[i] ELSE j[i - 1] \o seqs[i]
      OBVIOUS
    <3>1. i - 1 \in Nat /\ (i - 1) + 1 = i /\ (i - 1) + 1 <= L
      BY <1>1
    <3>2. j[i] = j[i - 1] \o seqs[i] /\ seqs[i] \in Text
      BY <1>4, <2>1, <3>1
    <3>3. CASE i = 1
      <4>1. j[i - 1] = <<>>
        BY <1>4, <3>3
      <4>2. <<>> \o seqs[i] = seqs[i]
        BY <3>2, ConcatEmpty
      <4> QED
        BY <3>2, <3>3, <4>1, <4>2
    <3> QED
      BY <3>2, <3>3
  <2>3. Is(g)
    <3> DEFINE h == [i \in 1 .. L |-> IF i = 1 THEN seqs[i] ELSE g[i - 1] \o seqs[i]]
    <3>1. ASSUME NEW i \in 1 .. L PROVE g[i] = h[i]
      <4>1. i # 1 => i - 1 \in 1 .. L
        BY <1>1
      <4> QED
        BY <2>2, <4>1
    <3>2. g = [i \in 1 .. L |-> g[i]]
      OBVIOUS
    <3>4. h = [i \in 1 .. L |-> h[i]]
      <4> HIDE DEF g
      <4> QED
        OBVIOUS
    <3>3. g = h
      <4> HIDE DEF g, h
      <4> QED
        BY <3>1, <3>2, <3>4
    <3> QED
      BY <3>3
  <2>4. Is(flatten)
    <3> HIDE DEF Is
    <3> QED
      BY <2>3
  <2>5. FlattenSeq(seqs) = flatten[L]
    BY <1>3, <1>6 DEF FlattenSeq
  <2> HIDE DEF flatten
  <2>6. \A n \in Nat : n + 1 <= L => flatten[n + 1] = j[n + 1]
    <3> DEFINE S == {n \in Nat : n + 1 <= L => flatten[n + 1] = j[n + 1]}
    <3>1. 0 \in S
      <4>1. CASE 1 <= L
        <5>1. 1 \in 1 .. L
          BY <1>1, <4>1
        <5> QED
          BY <2>2, <2>4, <5>1
      <4> QED
        BY <4>1
    <3>2. ASSUME NEW n \in Nat, n \in S
          PROVE  n + 1 \in S
      <4> SUFFICES ASSUME (n + 1) + 1 <= L
                   PROVE  flatten[(n + 1) + 1] = j[(n + 1) + 1]
        OBVIOUS
      <4> DEFINE i == (n + 1) + 1
      <4>1. i \in 1 .. L /\ i # 1 /\ i - 1 = n + 1 /\ n + 1 <= L
        BY <1>1
      <4> HIDE DEF i
      <4>2. flatten[i] = flatten[i - 1] \o seqs[i] /\ j[i] = j[i - 1] \o seqs[i]
        BY <2>2, <2>4, <4>1
      <4>3. flatten[i - 1] = j[i - 1]
        BY <3>2, <4>1
      <4> QED
        BY <4>2, <4>3 DEF i
    <3> HIDE DEF S
    <3>3. \A n \in Nat : n \in S
      BY <3>1, <3>2, InductionOnNat
    <3> QED
      BY <3>3 DEF S
  <2>7. flatten[L] = j[L]
    <3>1. PICK n \in Nat : n + 1 = L /\ n + 1 <= L
      <4>1. L - 1 \in Nat /\ (L - 1) + 1 = L /\ (L - 1) + 1 <= L
        BY <1>1, <1>6
      <4> QED
        BY <4>1
    <3>2. flatten[n + 1] = j[n + 1]
      BY <2>6, <3>1
    <3> QED
      BY <3>1, <3>2
  <2> QED
    BY <2>5, <2>7 DEF seqs, j
<1> QED
  BY <1>5, <1>6

HeadOf(sig) == <<"_", "N">> \o Counted(sig.identifier)

\* What the function has written when it comes to the n-th argument.
Written(sig, n) == IF n = 0 THEN <<>> ELSE HeadOf(sig) \o Joined(sig)[n - 1]

LEMMA PairType ==
  ASSUME NEW a \in Char, NEW b \in Char
  PROVE  <<a, b>> \in Text
BY DEF Text

LEMMA HeadType ==
  ASSUME NEW sig \in Signatures
  PROVE  HeadOf(sig) \in Text /\ <<"_", "N">> \in Text /\ Counted(sig.identifier) \in Text
<1>1. <<"_", "N">> \in Text
  <2>1. "_" \in Char /\ "N" \in Char
    BY CharAssumption
  <2> QED
    BY <2>1, PairType
<1>2. Counted(sig.identifier) \in Text
  BY SignatureFacts, CountedType
<1> QED
  BY <1>1, <1>2, ConcatType DEF HeadOf

LEMMA WrittenFacts ==
  ASSUME NEW sig \in Signatures
  PROVE  /\ Written(sig, 0) = <<>> /\ Written(sig, 1) = HeadOf(sig)
         /\ \A n \in Nat : Written(sig, n) \in Text
         /\ \A n \in 1 .. Len(sig.args) :
              Written(sig, n + 1) = Written(sig, n) \o Encoded(sig.args[n])
         /\ Encoding(sig) = Written(sig, Len(sig.args) + 1)
<1> DEFINE L == Len(sig.args)
<1>1. L \in Nat /\ HeadOf(sig) \in Text
  BY SignatureFacts, HeadType
<1>2. Joined(sig)[0] = <<>> /\ \A n \in Nat : Joined(sig)[n] \in Text
  BY JoinedFacts
<1>3. Written(sig, 0) = <<>>
  BY DEF Written
<1>4. Written(sig, 1) = HeadOf(sig)
  <2>1. Written(sig, 1) = HeadOf(sig) \o Joined(sig)[0]
    BY DEF Written
  <2> QED
    BY <1>1, <1>2, <2>1, ConcatEmpty
<1>5. \A n \in Nat : Written(sig, n) \in Text
  <2> SUFFICES ASSUME NEW n \in Nat
               PROVE  Written(sig, n) \in Text
    OBVIOUS
  <2>1. CASE n = 0
    <3>1. <<>> \in Text
      BY DEF Text
    <3> QED
      BY <1>3, <2>1, <3>1
  <2>2. CASE n # 0
    <3>1. n - 1 \in Nat
      BY <2>2
    <3>2. HeadOf(sig) \o Joined(sig)[n - 1] \in Text
      BY <1>1, <1>2, <3>1, ConcatType
    <3> QED
      BY <2>2, <3>2 DEF Written
  <2> QED
    BY <2>1, <2>2
<1>6. ASSUME NEW n \in 1 .. L
      PROVE  Written(sig, n + 1) = Written(sig, n) \o Encoded(sig.args[n])
  <2>1. PICK m \in Nat : n = m + 1 /\ m = n - 1 /\ m + 1 <= L
    <3>1. n - 1 \in Nat /\ n = (n - 1) + 1 /\ (n - 1) + 1 <= L
      BY <1>1
    <3> QED
      BY <3>1
  <2>2. Joined(sig)[m + 1] = Joined(sig)[m] \o Encoded(sig.args[m + 1])
    BY <2>1, JoinedFacts
  <2>3. Encoded(sig.args[n]) \in Text
    BY SignatureFacts, EncodedType
  <2>4. Written(sig, n) = HeadOf(sig) \o Joined(sig)[m]
    BY <2>1 DEF Written
  <2>5. Written(sig, n + 1) = HeadOf(sig) \o Joined(sig)[n]
    <3>1. n + 1 # 0 /\ (n + 1) - 1 = n
      BY <2>1
    <3> QED
      BY <3>1 DEF Written
  <2>6. HeadOf(sig) \o (Joined(sig)[m] \o Encoded(sig.args[n]))
          = (HeadOf(sig) \o Joined(sig)[m]) \o Encoded(sig.args[n])
    BY <1>1, <1>2, <2>3, ConcatAssoc
  <2> QED
    BY <2>1, <2>2, <2>4, <2>5, <2>6
<1>7. Encoding(sig) = Written(sig, L + 1)
  <2>1. L + 1 # 0 /\ (L + 1) - 1 = L
    BY <1>1
  <2>2. Written(sig, L + 1) = HeadOf(sig) \o Joined(sig)[L]
    BY <2>1 DEF Written
  <2>3. FlattenSeq([k \in DOMAIN sig.args |-> Encoded(sig.args[k])]) = Joined(sig)[L]
    BY FlattenIs
  <2> QED
    BY <2>2, <2>3 DEF Encoding, HeadOf
<1> QED
  BY <1>3, <1>4, <1>5, <1>6, <1>7

\* Two texts that begin alike differ behind that.
LEMMA CancelFront ==
  ASSUME NEW w \in Text, NEW c \in Text, NEW d \in Text, NEW q \in Text, NEW r \in Text,
         NEW x, Joins(x, w \o c, q), Joins(x, w \o d, r)
  PROVE  \E y : Joins(y, c, q) /\ Joins(y, d, r)
<1>1. (w \o c) \o q = w \o (c \o q) /\ c \o q \in Text
  <2>1. (w \o c) \o q = w \o (c \o q)
    BY ConcatAssoc
  <2>2. c \o q \in Text
    BY ConcatType
  <2> QED
    BY <2>1, <2>2
<1>2. (w \o d) \o r = w \o (d \o r) /\ d \o r \in Text
  <2>1. (w \o d) \o r = w \o (d \o r)
    BY ConcatAssoc
  <2>2. d \o r \in Text
    BY ConcatType
  <2> QED
    BY <2>1, <2>2
<1> DEFINE y == c \o q
           z == d \o r
<1>3. y \in Text /\ z \in Text /\ w \o y = w \o z
  BY <1>1, <1>2 DEF Joins
<1> HIDE DEF y, z
<1>4. y = z
  BY <1>3, Cancel
<1> QED
  BY <1>4 DEF y, z, Joins

\* A text is not continued by itself.
LEMMA NothingBehind ==
  ASSUME NEW v \in Text, NEW c \in Text, NEW r \in Text, NEW x, x = v, x = (v \o c) \o r
  PROVE  Len(c) = 0
<1> DEFINE vc == v \o c
<1>1. vc \in Text /\ Len(vc) = Len(v) + Len(c) /\ Len(v) \in Nat /\ Len(c) \in Nat
  BY ConcatType
<1>2. Len(x) = Len(vc) + Len(r) /\ Len(r) \in Nat
  <2>1. x = vc \o r
    OBVIOUS
  <2> HIDE DEF vc
  <2> QED
    BY <1>1, <2>1, ConcatIs
<1> QED
  BY <1>1, <1>2

\* What is written stays in front of what is written later.
LEMMA WrittenGrows ==
  ASSUME NEW sig \in Signatures
  PROVE  \A n \in 0 .. Len(sig.args) + 1 : \E r \in Text : Encoding(sig) = Written(sig, n) \o r
<1> DEFINE L == Len(sig.args)
           e == Encoding(sig)
           Reached(n) == \E r \in Text : e = Written(sig, n) \o r
           S == {d \in Nat : \A n \in 1 .. L + 1 : L + 1 = n + d => Reached(n)}
<1>1. L \in Nat /\ e = Written(sig, L + 1) /\ \A n \in Nat : Written(sig, n) \in Text
  BY SignatureFacts, WrittenFacts
<1>2. e \in Text /\ <<>> \in Text /\ e \o <<>> = e /\ <<>> \o e = e
  <2>1. e \in Text
    BY <1>1
  <2> QED
    BY <2>1, ConcatEmpty DEF Text
<1> HIDE DEF e
<1>3. 0 \in S
  <2> SUFFICES ASSUME NEW n \in 1 .. L + 1, L + 1 = n + 0
               PROVE  Reached(n)
    <3> HIDE DEF Reached
    <3> QED
      OBVIOUS
  <2>1. n = L + 1
    BY <1>1
  <2>2. e = Written(sig, n) \o <<>>
    BY <1>1, <1>2, <2>1
  <2> QED
    BY <1>2, <2>2
<1>4. ASSUME NEW d \in Nat, d \in S
      PROVE  d + 1 \in S
  <2> SUFFICES ASSUME NEW n \in 1 .. L + 1, L + 1 = n + (d + 1)
               PROVE  Reached(n)
    <3> HIDE DEF Reached
    <3> QED
      OBVIOUS
  <2>1. n \in 1 .. L /\ n + 1 \in 1 .. L + 1 /\ L + 1 = (n + 1) + d /\ n \in Nat
    BY <1>1
  <2>2. PICK r \in Text : e = Written(sig, n + 1) \o r
    BY <1>4, <2>1
  <2>3. Written(sig, n + 1) = Written(sig, n) \o Encoded(sig.args[n])
    BY <2>1, WrittenFacts
  <2>4. Encoded(sig.args[n]) \in Text
    BY <2>1, SignatureFacts, EncodedType
  <2>5. Encoded(sig.args[n]) \o r \in Text
    BY <2>4, ConcatType
  <2>6. (Written(sig, n) \o Encoded(sig.args[n])) \o r
          = Written(sig, n) \o (Encoded(sig.args[n]) \o r)
    BY <1>1, <2>1, <2>4, ConcatAssoc
  <2> QED
    BY <2>2, <2>3, <2>5, <2>6
<1> HIDE DEF S
<1>5. \A d \in Nat : d \in S
  BY <1>3, <1>4, InductionOnNat
<1>6. ASSUME NEW n \in 0 .. L + 1
      PROVE  \E r \in Text : e = Written(sig, n) \o r
  <2>1. CASE n = 0
    BY <1>2, <2>1, WrittenFacts
  <2>2. CASE n # 0
    <3>1. PICK d \in Nat : L + 1 = n + d /\ n \in 1 .. L + 1
      <4>1. (L + 1) - n \in Nat /\ L + 1 = n + ((L + 1) - n) /\ n \in 1 .. L + 1
        BY <1>1, <2>2
      <4> QED
        BY <4>1
    <3> QED
      BY <1>5, <3>1 DEF S
  <2> QED
    BY <2>1, <2>2
<1> QED
  BY <1>6 DEF e

\* Encodings are equal only if the signatures are the same to the compiler.
LEMMA EncodingUnique ==
  ASSUME NEW sig \in Signatures, NEW other \in Signatures, Encoding(other) = Encoding(sig)
  PROVE  SameSignature(other, sig)
<1> DEFINE L  == Len(sig.args)
           M  == Len(other.args)
           W(n) == Written(sig, n)
           V(n) == Written(other, n)
           Same(k) == /\ indirection(sig.args[k]) = indirection(other.args[k])
                      /\ sig.args[k].token = other.args[k].token
           S  == {n \in Nat : n <= L /\ n <= M => /\ W(n + 1) = V(n + 1)
                                                  /\ \A k \in 1 .. n : Same(k)}
<1> PICK e : e = Encoding(sig) /\ e = Encoding(other)
  OBVIOUS
<1>1. /\ L \in Nat /\ M \in Nat /\ sig.identifier \in Text /\ other.identifier \in Text
      /\ IsWord(sig.identifier) /\ IsWord(other.identifier)
      /\ DOMAIN sig.args = 1 .. L /\ DOMAIN other.args = 1 .. M
      /\ \A k \in 1 .. L : IsArgument(sig.args[k])
      /\ \A k \in 1 .. M : IsArgument(other.args[k])
  BY SignatureFacts
<1>2. \A n \in Nat : W(n) \in Text /\ V(n) \in Text
  BY WrittenFacts
<1>3. sig.identifier = other.identifier /\ HeadOf(sig) = HeadOf(other)
  <2> DEFINE c == Counted(sig.identifier)
             d == Counted(other.identifier)
             p == <<"_", "N">>
  <2>1. PICK q \in Text, r \in Text : e = HeadOf(sig) \o q /\ e = HeadOf(other) \o r
    <3>1. 1 \in 0 .. L + 1 /\ 1 \in 0 .. M + 1
      BY <1>1
    <3>2. PICK q \in Text : e = W(1) \o q
      BY <3>1, WrittenGrows
    <3>3. PICK r \in Text : e = V(1) \o r
      BY <3>1, WrittenGrows
    <3> QED
      BY <3>2, <3>3, WrittenFacts
  <2>2. p \in Text /\ c \in Text /\ d \in Text /\ HeadOf(sig) = p \o c /\ HeadOf(other) = p \o d
    BY HeadType DEF HeadOf
  <2> HIDE DEF c, d, p
  <2>5. \E y : Joins(y, c, q) /\ Joins(y, d, r)
    <3>1. Joins(e, p \o c, q) /\ Joins(e, p \o d, r)
      BY <2>1, <2>2 DEF Joins
    <3> QED
      BY <2>2, <3>1, CancelFront
  <2>6. PICK x : Joins(x, c, q) /\ Joins(x, d, r)
    BY <2>5
  <2>7. sig.identifier = other.identifier
    <3> DEFINE s == sig.identifier
               t == other.identifier
    <3>1. s \in Text /\ t \in Text /\ IsWord(s) /\ IsWord(t) /\ c = Counted(s) /\ d = Counted(t)
      BY <1>1 DEF c, d
    <3> HIDE DEF s, t
    <3>2. s = t
      BY <2>6, <3>1, CountedUnique DEF Joins
    <3> QED
      BY <3>2 DEF s, t
  <2> QED
    BY <2>7 DEF HeadOf
<1>4. 0 \in S
  <2>1. W(1) = V(1)
    BY <1>3, WrittenFacts
  <2> QED
    BY <2>1
<1>5. ASSUME NEW n \in Nat, n \in S
      PROVE  n + 1 \in S
  <2> SUFFICES ASSUME n + 1 <= L, n + 1 <= M
               PROVE  W((n + 1) + 1) = V((n + 1) + 1) /\ \A k \in 1 .. n + 1 : Same(k)
    OBVIOUS
  <2> DEFINE k == n + 1
             a == sig.args[k]
             b == other.args[k]
  <2>1. /\ k \in 1 .. L /\ k \in 1 .. M /\ k \in Nat /\ k + 1 \in 0 .. L + 1 /\ k + 1 \in 0 .. M + 1
        /\ n <= L /\ n <= M /\ k + 1 \in Nat
    BY <1>1
  <2>2. W(k) = V(k) /\ \A i \in 1 .. n : Same(i)
    BY <1>5, <2>1
  <2> HIDE DEF k
  <2>3. IsArgument(a) /\ IsArgument(b) /\ Encoded(a) \in Text /\ Encoded(b) \in Text
    BY <1>1, <2>1, EncodedType
  <2>4. W(k + 1) = W(k) \o Encoded(a)
    BY <2>1, WrittenFacts
  <2>5. V(k + 1) = V(k) \o Encoded(b)
    BY <2>1, WrittenFacts
  <2>6. PICK q \in Text : e = W(k + 1) \o q
    BY <2>1, WrittenGrows
  <2>7. PICK r \in Text : e = V(k + 1) \o r
    BY <2>1, WrittenGrows
  <2> DEFINE w == W(k)
             c == Encoded(a)
             d == Encoded(b)
  <2>8. /\ w \in Text /\ c \in Text /\ d \in Text /\ e = (w \o c) \o q /\ e = (w \o d) \o r
    BY <1>2, <2>1, <2>2, <2>3, <2>4, <2>5, <2>6, <2>7
  <2>9. PICK x : Joins(x, c, q) /\ Joins(x, d, r)
    <3> HIDE DEF w, c, d
    <3>1. Joins(e, w \o c, q) /\ Joins(e, w \o d, r)
      BY <2>8 DEF Joins
    <3>2. w \in Text /\ c \in Text /\ d \in Text
      BY <2>8
    <3> QED
      BY <3>1, <3>2, CancelFront
  <2>10. indirection(a) = indirection(b) /\ a.token = b.token /\ c = d
    <3> HIDE DEF a, b
    <3> QED
      BY <2>3, <2>9, EncodedUnique
  <2>12. W(k + 1) = V(k + 1)
    BY <2>2, <2>4, <2>5, <2>10
  <2>13. \A i \in 1 .. n + 1 : Same(i)
    <3>1. \A i \in 1 .. n + 1 : i \in 1 .. n \/ i = k
      BY DEF k
    <3> QED
      BY <2>2, <2>10, <3>1
  <2> QED
    BY <2>12, <2>13 DEF k
<1> HIDE DEF S
<1>6. \A n \in Nat : n \in S
  BY <1>4, <1>5, InductionOnNat
<1>7. ~(L < M)
  <2> SUFFICES ASSUME L < M PROVE FALSE
    OBVIOUS
  <2>1. W(L + 1) = V(L + 1)
    BY <1>1, <1>6 DEF S
  <2>2. L + 1 \in 1 .. M /\ (L + 1) + 1 \in 0 .. M + 1 /\ L + 1 \in Nat
    BY <1>1
  <2>3. PICK r \in Text : e = V((L + 1) + 1) \o r
    BY <2>2, WrittenGrows
  <2> DEFINE b == other.args[L + 1]
             v == V(L + 1)
             c == Encoded(b)
  <2>4. V((L + 1) + 1) = v \o c /\ c \in Text /\ Len(c) # 0 /\ v \in Text /\ e = v
    BY <1>1, <1>2, <2>1, <2>2, WrittenFacts, EncodedType
  <2>5. e = (v \o c) \o r
    BY <2>3, <2>4
  <2> HIDE DEF v, c
  <2> QED
    BY <2>4, <2>5, NothingBehind
<1>8. ~(M < L)
  <2> SUFFICES ASSUME M < L PROVE FALSE
    OBVIOUS
  <2>1. W(M + 1) = V(M + 1)
    BY <1>1, <1>6 DEF S
  <2>2. M + 1 \in 1 .. L /\ (M + 1) + 1 \in 0 .. L + 1 /\ M + 1 \in Nat
    BY <1>1
  <2>3. PICK r \in Text : e = W((M + 1) + 1) \o r
    BY <2>2, WrittenGrows
  <2> DEFINE b == sig.args[M + 1]
             v == W(M + 1)
             c == Encoded(b)
  <2>4. W((M + 1) + 1) = v \o c /\ c \in Text /\ Len(c) # 0 /\ v \in Text /\ e = v
    BY <1>1, <1>2, <2>1, <2>2, WrittenFacts, EncodedType
  <2>5. e = (v \o c) \o r
    BY <2>3, <2>4
  <2> HIDE DEF v, c
  <2> QED
    BY <2>4, <2>5, NothingBehind
<1>9. L = M
  BY <1>1, <1>7, <1>8
<1>10. \A k \in 1 .. L : Same(k)
  BY <1>1, <1>6, <1>9 DEF S
<1>11. [k \in DOMAIN other.args |-> <<indirection(other.args[k]), other.args[k].token>>]
         = [k \in DOMAIN sig.args |-> <<indirection(sig.args[k]), sig.args[k].token>>]
  BY <1>1, <1>9, <1>10
<1> QED
  BY <1>3, <1>11 DEF SameSignature

-----------------------------------------------------------------------------
\* What the two ways of writing do to the buffer.

Begins(t, s) == \E r \in Text : s = t \o r

\* What a reader of the buffer finds, if s has been written into it.
Matches(m, s) ==
  /\ m \in [text : Text, cut : BOOLEAN, end : Nat, reached : Nat]
  /\ m.end = Len(s) /\ m.reached <= Len(s) + 1 /\ Begins(m.text, s)
  /\ IF m.cut THEN Len(m.text) < Len(s) ELSE m.text = s

LEMMA LargerWithin ==
  ASSUME NEW a \in Nat, NEW b \in Nat, NEW c \in Nat, a <= c, b <= c
  PROVE  Larger(a, b) \in Nat /\ Larger(a, b) <= c
BY DEF Larger

LEMMA BeginsLonger ==
  ASSUME NEW t \in Text, NEW s \in Text, Begins(t, s), NEW x \in Text
  PROVE  Begins(t, s \o x) /\ Len(t) <= Len(s)
<1>1. PICK r \in Text : s = t \o r
  BY DEF Begins
<1>2. r \o x \in Text /\ Len(s) = Len(t) + Len(r) /\ Len(t) \in Nat /\ Len(r) \in Nat
  <2>1. r \o x \in Text
    BY ConcatType
  <2> QED
    BY <1>1, <2>1, ConcatIs
<1>3. (t \o r) \o x = t \o (r \o x)
  BY ConcatAssoc
<1> DEFINE rx == r \o x
<1>4. s \o x = t \o rx /\ rx \in Text
  BY <1>1, <1>2, <1>3
<1> HIDE DEF rx
<1>5. Begins(t, s \o x)
  BY <1>4 DEF Begins
<1> QED
  BY <1>2, <1>5

LEMMA BeginsWithin ==
  ASSUME NEW t \in Text, NEW y \in Text, NEW x \in Text, Begins(y, x)
  PROVE  Begins(t \o y, t \o x)
<1>1. PICK r \in Text : x = y \o r
  BY DEF Begins
<1>2. (t \o y) \o r = t \o (y \o r)
  BY ConcatAssoc
<1>3. t \o x = (t \o y) \o r
  BY <1>1, <1>2
<1> QED
  BY <1>3 DEF Begins

LEMMA BeginsItself ==
  ASSUME NEW t \in Text
  PROVE  Begins(t, t)
<1>1. <<>> \in Text /\ t = t \o <<>>
  BY ConcatEmpty
<1> QED
  BY <1>1 DEF Begins

LEMMA CutText ==
  ASSUME NEW x \in Text, NEW w \in Nat, w <= Len(x)
  PROVE  /\ SubSeq(x, 1, w) \in Text /\ Len(SubSeq(x, 1, w)) = w /\ Begins(SubSeq(x, 1, w), x)
         /\ w = Len(x) => SubSeq(x, 1, w) = x
<1> DEFINE y == SubSeq(x, 1, w)
           z == SubSeq(x, w + 1, Len(x))
<1>0. Len(x) \in Nat
  BY DEF Text
<1>1. y \in Text /\ Len(y) = w /\ \A k \in 1 .. w : y[k] = x[k]
  BY <1>0 DEF Text
<1>2. z \in Text /\ Len(z) = Len(x) - w /\ \A k \in 1 .. Len(x) - w : z[k] = x[w + k]
  BY <1>0 DEF Text
<1> HIDE DEF y, z
<1>3. /\ y \o z \in Text /\ Len(y \o z) = Len(x)
      /\ \A k \in 1 .. Len(y) : (y \o z)[k] = y[k]
      /\ \A k \in 1 .. Len(z) : (y \o z)[Len(y) + k] = z[k]
  <2>1. /\ y \o z \in Text /\ Len(y \o z) = Len(y) + Len(z)
        /\ \A k \in 1 .. Len(y) : (y \o z)[k] = y[k]
        /\ \A k \in 1 .. Len(z) : (y \o z)[Len(y) + k] = z[k]
    <3>1. y \in Text /\ z \in Text
      BY <1>1, <1>2
    <3> QED
      BY <3>1, ConcatType
  <2> QED
    BY <1>0, <1>1, <1>2, <2>1
<1>4. ASSUME NEW k \in 1 .. Len(x)
      PROVE  (y \o z)[k] = x[k]
  <2>1. CASE k <= w
    <3>1. k \in 1 .. w
      BY <1>0, <2>1
    <3> QED
      BY <1>1, <1>3, <3>1
  <2>2. CASE k > w
    <3>1. PICK j \in 1 .. Len(x) - w : k = w + j
      <4>1. k - w \in 1 .. Len(x) - w /\ k = w + (k - w)
        BY <1>0, <2>2
      <4> QED
        BY <4>1
    <3> QED
      BY <1>1, <1>2, <1>3, <3>1
  <2>3. k <= w \/ k > w
    BY <1>0
  <2> QED
    BY <2>1, <2>2, <2>3
<1>5. y \o z = x
  BY <1>3, <1>4, TextsEqual
<1>6. ASSUME w = Len(x)
      PROVE  y = x
  BY <1>1, <1>6, TextsEqual
<1> QED
  BY <1>1, <1>2, <1>5, <1>6 DEF Begins, y

LEMMA PutMatches ==
  ASSUME NEW m, NEW s \in Text, NEW x \in Text, Matches(m, s)
  PROVE  Matches(Put(m, x), s \o x) /\ Put(m, x).cut = m.cut
<1> DEFINE n  == Put(m, x)
           sx == s \o x
<1>1. /\ sx \in Text /\ Len(sx) = Len(s) + Len(x) /\ Len(s) \in Nat /\ Len(x) \in Nat
      /\ m.text \in Text /\ m.cut \in BOOLEAN /\ m.end = Len(s) /\ m.reached \in Nat
      /\ m.reached <= Len(s) + 1 /\ Begins(m.text, s)
  BY ConcatType DEF Matches
<1>2. n = [text |-> IF m.cut THEN m.text ELSE m.text \o x, cut |-> m.cut,
           end |-> m.end + Len(x), reached |-> Larger(m.reached, m.end + Len(x))]
  BY DEF Put
<1> DEFINE l == Larger(m.reached, m.end + Len(x))
<1>3. l \in Nat /\ l <= Len(sx) + 1
  <2>1. m.end + Len(x) \in Nat /\ Len(sx) + 1 \in Nat /\ m.reached <= Len(sx) + 1
        /\ m.end + Len(x) <= Len(sx) + 1 /\ m.reached \in Nat
    BY <1>1
  <2> DEFINE a == m.reached
             b == m.end + Len(x)
             c == Len(sx) + 1
  <2>2. a \in Nat /\ b \in Nat /\ c \in Nat /\ a <= c /\ b <= c
    BY <2>1
  <2>3. l = Larger(a, b)
    OBVIOUS
  <2> HIDE DEF a, b, c, l
  <2>4. l \in Nat /\ l <= c
    BY <2>2, <2>3, LargerWithin
  <2> QED
    BY <2>4 DEF c
<1> HIDE DEF n, l
<1>4. CASE m.cut
  <2>1. Begins(m.text, sx) /\ Len(m.text) < Len(s) /\ Len(m.text) \in Nat
    BY <1>1, <1>4, BeginsLonger DEF Matches, Text
  <2> HIDE DEF sx
  <2>2. n = [text |-> m.text, cut |-> m.cut, end |-> m.end + Len(x), reached |-> l]
    BY <1>2, <1>4 DEF l
  <2> QED
    BY <1>1, <1>3, <1>4, <2>1, <2>2 DEF Matches, n, sx
<1>5. CASE ~m.cut
  <2>1. m.text = s /\ Begins(sx, sx)
    BY <1>1, <1>5, BeginsItself DEF Matches
  <2>2. n = [text |-> sx, cut |-> m.cut, end |-> m.end + Len(x), reached |-> l]
    BY <1>2, <1>5, <2>1 DEF l
  <2> HIDE DEF sx
  <2> QED
    BY <1>1, <1>3, <1>5, <2>1, <2>2 DEF Matches, n, sx
<1> QED
  BY <1>1, <1>4, <1>5

LEMMA snprintfMatches ==
  ASSUME NEW m, NEW s \in Text, NEW x \in Text, Matches(m, s)
  PROVE  /\ Matches(snprintf(m, x), s \o x)
         /\ snprintf(m, x).cut <=> m.cut \/ Len(x) >= Limit
<1> DEFINE n  == snprintf(m, x)
           sx == s \o x
           w  == Smaller(Len(x), Limit - 1)
           y  == SubSeq(x, 1, w)
           l  == Larger(m.reached, m.end + w + 1)
<1>1. /\ sx \in Text /\ Len(sx) = Len(s) + Len(x) /\ Len(s) \in Nat /\ Len(x) \in Nat
      /\ m.text \in Text /\ m.cut \in BOOLEAN /\ m.end = Len(s) /\ m.reached \in Nat
      /\ m.reached <= Len(s) + 1 /\ Begins(m.text, s) /\ Len(m.text) \in Nat
  BY ConcatType DEF Matches, Text
<1>2. w \in Nat /\ w <= Len(x) /\ (w < Len(x) <=> Len(x) >= Limit)
  <2>1. Limit \in Nat /\ Limit > 0
    BY MangleAssumption
  <2> QED
    BY <1>1, <2>1 DEF Smaller
<1>3. n = [text |-> IF m.cut THEN m.text ELSE m.text \o y, cut |-> m.cut \/ w < Len(x),
           end |-> m.end + Len(x), reached |-> l]
  BY DEF snprintf
<1> HIDE DEF w
<1>4. l \in Nat /\ l <= Len(sx) + 1
  <2>1. m.end + w + 1 \in Nat /\ Len(sx) + 1 \in Nat /\ m.reached <= Len(sx) + 1
        /\ m.end + w + 1 <= Len(sx) + 1 /\ m.reached \in Nat
    BY <1>1, <1>2
  <2> DEFINE a == m.reached
             b == m.end + w + 1
             c == Len(sx) + 1
  <2>2. a \in Nat /\ b \in Nat /\ c \in Nat /\ a <= c /\ b <= c
    BY <2>1
  <2>3. l = Larger(a, b)
    OBVIOUS
  <2> HIDE DEF a, b, c, l
  <2>4. l \in Nat /\ l <= c
    BY <2>2, <2>3, LargerWithin
  <2> QED
    BY <2>4 DEF c
<1>5. y \in Text /\ Len(y) = w /\ Begins(y, x) /\ (w = Len(x) => y = x)
  BY <1>1, <1>2, CutText
<1> HIDE DEF n, l, y
<1>6. CASE m.cut
  <2>1. Begins(m.text, sx) /\ Len(m.text) < Len(s)
    BY <1>1, <1>6, BeginsLonger DEF Matches
  <2>2. n = [text |-> m.text, cut |-> TRUE, end |-> m.end + Len(x), reached |-> l]
    BY <1>3, <1>6
  <2> HIDE DEF sx
  <2> QED
    BY <1>1, <1>4, <1>6, <2>1, <2>2 DEF Matches, n, sx
<1>7. CASE ~m.cut /\ w < Len(x)
  <2> DEFINE sy == s \o y
  <2>1. sy \in Text /\ Len(sy) = Len(s) + w /\ Begins(sy, sx)
    BY <1>5, ConcatType, BeginsWithin
  <2>2. m.text = s
    BY <1>7 DEF Matches
  <2>3. n = [text |-> sy, cut |-> TRUE, end |-> m.end + Len(x), reached |-> l]
    BY <1>3, <1>7, <2>2
  <2> HIDE DEF sx, sy
  <2>4. Len(sy) < Len(sx)
    BY <1>1, <1>2, <1>7, <2>1
  <2>5. Len(x) >= Limit
    BY <1>2, <1>7
  <2> QED
    BY <1>1, <1>4, <2>1, <2>3, <2>4, <2>5 DEF Matches, n, sx
<1>8. CASE ~m.cut /\ ~(w < Len(x))
  <2>1. w = Len(x) /\ y = x
    BY <1>1, <1>2, <1>5, <1>8
  <2>2. m.text = s
    BY <1>8 DEF Matches
  <2>3. n = [text |-> sx, cut |-> FALSE, end |-> m.end + Len(x), reached |-> l]
    BY <1>3, <1>8, <2>1, <2>2
  <2>4. Begins(sx, sx)
    BY <1>1, BeginsItself
  <2>5. ~(Len(x) >= Limit)
    BY <1>2, <1>8
  <2> HIDE DEF sx
  <2> QED
    BY <1>1, <1>4, <1>8, <2>3, <2>4, <2>5 DEF Matches, n, sx
<1> QED
  BY <1>6, <1>7, <1>8

-----------------------------------------------------------------------------
\* The invariant.

\* A piece that snprintf cuts is among the first n.
LongSoFar(sig, n) ==
  /\ n > 0
  /\ \/ Len(Counted(sig.identifier)) >= Limit
     \/ \E k \in DOMAIN sig.args : /\ k < n /\ sig.args[k].kind = "CUSTOM"
                                   /\ Len(Counted(sig.args[k].token)) >= Limit

BufferInv ==
  /\ signature \in Signatures
  /\ arg \in 0 .. Len(signature.args) + 1
  /\ Matches(mangled, Written(signature, arg))
  /\ mangled.cut <=> LongSoFar(signature, arg)

OutInv ==
  \/ out = Working /\ mangled.reached <= Buffer
  \/ out = Overrun /\ Len(Written(signature, arg)) >= Buffer
  \/ /\ out = Name(mangled.text, mangled.end + 1)
     /\ arg = Len(signature.args) + 1 /\ mangled.reached <= Buffer
     /\ Len(Written(signature, arg)) < Buffer

\* The inductive invariant.
IInv == BufferInv /\ OutInv

LEMMA WriteOut ==
  ASSUME NEW m, NEW s \in Text, Matches(m, s), Write(m),
         signature' \in Signatures, s = Written(signature', arg')
  PROVE  mangled' = m /\ OutInv'
<1>1. mangled' = m /\ out' = IF m.reached > Buffer THEN Overrun ELSE Working
  BY DEF Write
<1>2. m.reached \in Nat /\ m.reached <= Len(s) + 1 /\ Len(s) \in Nat /\ Buffer \in Nat
  BY MangleAssumption DEF Matches, Text
<1>3. CASE m.reached > Buffer
  <2>1. Len(s) >= Buffer
    BY <1>2, <1>3
  <2> QED
    BY <1>1, <1>3, <2>1 DEF OutInv
<1>4. CASE ~(m.reached > Buffer)
  <2>1. m.reached <= Buffer
    BY <1>2, <1>4
  <2> QED
    BY <1>1, <1>4, <2>1 DEF OutInv
<1> QED
  BY <1>3, <1>4

LEMMA InitInv == Init => IInv
<1> SUFFICES ASSUME Init PROVE IInv
  OBVIOUS
<1> DEFINE m == [text |-> <<>>, cut |-> FALSE, end |-> 0, reached |-> 0]
<1>1. signature \in Signatures /\ arg = 0 /\ mangled = m /\ out = Working
  BY DEF Init
<1>2. Len(signature.args) \in Nat /\ Written(signature, 0) = <<>>
  BY <1>1, SignatureFacts, WrittenFacts
<1>3. <<>> \in Text /\ Begins(<<>>, <<>>)
  <2>1. <<>> \in Text
    BY DEF Text
  <2> QED
    BY <2>1, BeginsItself
<1>4. Matches(m, <<>>)
  BY <1>3 DEF Matches
<1>5. BufferInv
  BY <1>1, <1>2, <1>4 DEF BufferInv, LongSoFar
<1>6. OutInv
  BY <1>1, MangleAssumption DEF OutInv
<1> QED
  BY <1>5, <1>6 DEF IInv

LEMMA IdentifierInv == IInv /\ MangleIdentifier => IInv'
<1> SUFFICES ASSUME IInv, MangleIdentifier PROVE IInv'
  OBVIOUS
<1> DEFINE p == <<"_", "N">>
           c == Counted(signature.identifier)
           b == Put(mangled, p)
           m == snprintf(b, c)
<1>1. arg = 0 /\ arg' = 1 /\ signature' = signature /\ signature \in Signatures /\ Write(m)
  BY DEF MangleIdentifier, IInv, BufferInv
<1>2. /\ Len(signature.args) \in Nat /\ Written(signature, 0) = <<>>
      /\ Written(signature, 1) = p \o c /\ p \in Text /\ c \in Text /\ p \o c \in Text
  <2>1. Written(signature, 0) = <<>> /\ Written(signature, 1) = HeadOf(signature)
        /\ Len(signature.args) \in Nat
    BY <1>1, SignatureFacts, WrittenFacts
  <2>2. p \in Text /\ c \in Text /\ HeadOf(signature) = p \o c /\ HeadOf(signature) \in Text
    BY <1>1, HeadType DEF HeadOf
  <2> QED
    BY <2>1, <2>2
<1>3. Matches(mangled, <<>>) /\ ~mangled.cut
  <2>1. Matches(mangled, Written(signature, arg)) /\ (mangled.cut <=> LongSoFar(signature, arg))
    BY DEF IInv, BufferInv
  <2>2. ~LongSoFar(signature, arg)
    <3>1. arg = 0
      BY <1>1
    <3>2. ~(0 > 0)
      OBVIOUS
    <3> QED
      BY <3>1, <3>2, Zenon DEF LongSoFar
  <2> QED
    BY <1>1, <1>2, <2>1, <2>2
<1>4. <<>> \in Text /\ <<>> \o p = p
  BY <1>2, ConcatEmpty
<1> HIDE DEF p, c
<1>5. Matches(b, p) /\ ~b.cut
  BY <1>2, <1>3, <1>4, PutMatches
<1> HIDE DEF b
<1>6. Matches(m, p \o c) /\ (m.cut <=> Len(c) >= Limit)
  BY <1>2, <1>5, snprintfMatches
<1> HIDE DEF m
<1>7. mangled' = m /\ OutInv'
  BY <1>1, <1>2, <1>6, WriteOut
<1>8. LongSoFar(signature, 1) <=> Len(c) >= Limit
  <2>1. \A k \in DOMAIN signature.args : ~(k < 1)
    BY <1>1, SignatureFacts
  <2> QED
    BY <2>1 DEF LongSoFar, c
<1>9. BufferInv'
  <2>1. 1 \in 0 .. Len(signature.args) + 1
    BY <1>2
  <2> QED
    BY <1>1, <1>2, <1>6, <1>7, <1>8, <2>1 DEF BufferInv
<1> QED
  BY <1>7, <1>9 DEF IInv

LEMMA ArgumentInv == IInv /\ MangleArgument => IInv'
<1> SUFFICES ASSUME IInv, MangleArgument PROVE IInv'
  OBVIOUS
<1> DEFINE a == signature.args[arg]
           s == Written(signature, arg)
           b == Put(mangled, Stars(a))
           m == IF a.kind = "CUSTOM" THEN snprintf(b, Counted(a.token))
                ELSE Put(b, <<type_coding[a.kind]>>)
<1>1. /\ arg \in 1 .. Len(signature.args) /\ arg' = arg + 1 /\ signature' = signature
      /\ signature \in Signatures /\ Write(m)
  BY DEF MangleArgument, IInv, BufferInv
<1>2. /\ Len(signature.args) \in Nat /\ DOMAIN signature.args = 1 .. Len(signature.args)
      /\ IsArgument(a)
  BY <1>1, SignatureFacts
<1>3. /\ s \in Text /\ Stars(a) \in Text /\ Base(a) \in Text
      /\ Written(signature, arg + 1) = s \o Encoded(a) /\ Encoded(a) = Stars(a) \o Base(a)
      /\ Written(signature, arg + 1) \in Text
  <2>1. arg \in Nat /\ arg + 1 \in Nat
    BY <1>1, <1>2
  <2>2. s \in Text /\ Written(signature, arg + 1) = s \o Encoded(a)
        /\ Written(signature, arg + 1) \in Text
    BY <1>1, <2>1, WrittenFacts
  <2>3. Stars(a) \in Text /\ Base(a) \in Text /\ Encoded(a) = Stars(a) \o Base(a)
    BY <1>2, StarsType, BaseType, EncodedType DEF IsArgument
  <2> QED
    BY <2>2, <2>3
<1>4. Matches(mangled, s) /\ (mangled.cut <=> LongSoFar(signature, arg))
  BY DEF IInv, BufferInv
<1> DEFINE Long == a.kind = "CUSTOM" /\ Len(Counted(a.token)) >= Limit
           t    == Stars(a)
           e    == Base(a)
           sum  == Written(signature, arg + 1)
<1>5. sum = (s \o t) \o e /\ s \o t \in Text /\ s \in Text /\ t \in Text /\ e \in Text /\ sum \in Text
  <2>1. (s \o t) \o e = s \o (t \o e)
    BY <1>3, ConcatAssoc
  <2>2. s \o t \in Text
    BY <1>3, ConcatType
  <2>3. sum = s \o (t \o e)
    BY <1>3
  <2> QED
    BY <1>3, <2>1, <2>2, <2>3
<1>6. Matches(b, s \o t) /\ b.cut = mangled.cut
  <2> HIDE DEF s
  <2> QED
    BY <1>4, <1>5, PutMatches
<1>7. Matches(m, sum) /\ (m.cut <=> b.cut \/ Long)
  <2>1. CASE a.kind = "CUSTOM"
    <3>1. e = Counted(a.token) /\ m = snprintf(b, e)
      BY <2>1 DEF Base
    <3>2. Matches(snprintf(b, e), (s \o t) \o e)
          /\ (snprintf(b, e).cut <=> b.cut \/ Len(e) >= Limit)
      <4> HIDE DEF b, e, s, t
      <4> QED
        BY <1>5, <1>6, snprintfMatches
    <3> QED
      BY <1>5, <2>1, <3>1, <3>2
  <2>2. CASE a.kind # "CUSTOM"
    <3>1. e = <<type_coding[a.kind]>> /\ m = Put(b, e)
      BY <2>2 DEF Base
    <3>2. Matches(Put(b, e), (s \o t) \o e) /\ Put(b, e).cut = b.cut
      <4> HIDE DEF b, e, s, t
      <4> QED
        BY <1>5, <1>6, PutMatches
    <3>3. b.cut \in BOOLEAN
      BY <1>6 DEF Matches
    <3> QED
      BY <1>5, <2>2, <3>1, <3>2, <3>3
  <2> QED
    BY <2>1, <2>2
<1> HIDE DEF b, m
<1>8. mangled' = m /\ OutInv'
  <2>1. sum = Written(signature', arg') /\ signature' \in Signatures
    BY <1>1
  <2> HIDE DEF sum
  <2> QED
    BY <1>1, <1>5, <1>7, <2>1, WriteOut
<1>9. LongSoFar(signature, arg + 1) <=> LongSoFar(signature, arg) \/ Long
  <2>1. arg > 0 /\ arg + 1 > 0 /\ \A k \in DOMAIN signature.args : k < arg + 1 <=> k < arg \/ k = arg
    BY <1>1, <1>2
  <2>2. arg \in DOMAIN signature.args
    BY <1>1, <1>2
  <2> QED
    BY <2>1, <2>2 DEF LongSoFar
<1>10. BufferInv'
  <2>1. arg + 1 \in 0 .. Len(signature.args) + 1
    BY <1>1, <1>2
  <2>2. m.cut <=> LongSoFar(signature, arg + 1)
    BY <1>4, <1>6, <1>7, <1>9
  <2> QED
    BY <1>1, <1>7, <1>8, <2>1, <2>2 DEF BufferInv
<1> QED
  BY <1>8, <1>10 DEF IInv

LEMMA FinishInv == IInv /\ Finish => IInv'
<1> SUFFICES ASSUME IInv, Finish PROVE IInv'
  OBVIOUS
<1> DEFINE L == Len(signature.args)
           s == Written(signature, arg)
           l == Larger(mangled.reached, mangled.end + 1)
<1>1. /\ out = Working /\ signature \in Signatures /\ arg \in 0 .. L + 1 /\ arg > L
      /\ signature' = signature /\ arg' = arg
      /\ Matches(mangled, s) /\ (mangled.cut <=> LongSoFar(signature, arg))
      /\ mangled' = [mangled EXCEPT !.reached = l]
  BY DEF Finish, IInv, BufferInv
<1>2. /\ out' = IF mangled.end + 1 > Buffer THEN Overrun ELSE Name(mangled.text, mangled.end + 1)
  BY DEF Finish
<1>3. mangled.reached <= Buffer
  BY <1>1 DEF IInv, OutInv, Working, Overrun, Name
<1>4. L \in Nat /\ arg = L + 1 /\ s \in Text /\ Buffer \in Nat /\ Len(s) \in Nat
  <2>1. L \in Nat
    BY <1>1, SignatureFacts
  <2>2. arg = L + 1 /\ arg \in Nat
    BY <1>1, <2>1
  <2>3. s \in Text
    BY <1>1, <2>2, WrittenFacts
  <2> QED
    BY <2>1, <2>2, <2>3, MangleAssumption DEF Text
<1> HIDE DEF s
<1>5. /\ mangled \in [text : Text, cut : BOOLEAN, end : Nat, reached : Nat]
      /\ mangled.end = Len(s) /\ mangled.reached <= Len(s) + 1 /\ mangled.reached \in Nat
  BY <1>1 DEF Matches
<1>6. l \in Nat /\ l <= Len(s) + 1 /\ (mangled.end + 1 <= Buffer => l <= Buffer)
  BY <1>3, <1>4, <1>5 DEF Larger
<1> HIDE DEF l
<1>7. /\ mangled' \in [text : Text, cut : BOOLEAN, end : Nat, reached : Nat]
      /\ mangled'.text = mangled.text /\ mangled'.cut = mangled.cut
      /\ mangled'.end = mangled.end /\ mangled'.reached = l
  BY <1>1, <1>5, <1>6
<1>8. Matches(mangled', s)
  BY <1>1, <1>6, <1>7 DEF Matches
<1>9. BufferInv'
  BY <1>1, <1>7, <1>8 DEF BufferInv, s
<1>10. OutInv'
  <2>1. CASE mangled.end + 1 > Buffer
    <3>1. out' = Overrun /\ Len(s) >= Buffer
      BY <1>2, <1>4, <1>5, <2>1
    <3> QED
      BY <1>1, <3>1 DEF OutInv, s
  <2>2. CASE ~(mangled.end + 1 > Buffer)
    <3>1. out' = Name(mangled.text, mangled.end + 1) /\ Len(s) < Buffer /\ l <= Buffer
      BY <1>2, <1>4, <1>5, <1>6, <2>2
    <3> QED
      BY <1>1, <1>4, <1>7, <3>1 DEF OutInv, s
  <2> QED
    BY <2>1, <2>2
<1> QED
  BY <1>9, <1>10 DEF IInv

LEMMA StutterInv == IInv /\ UNCHANGED vars => IInv'
BY DEF IInv, BufferInv, OutInv, vars

\* The invariant holds in every state.
LEMMA Invariant == Spec => []IInv
<1>1. IInv /\ [Next]_vars => IInv'
  BY IdentifierInv, ArgumentInv, FinishInv, StutterInv DEF Next
<1> QED
  BY <1>1, InitInv, PTL DEF Spec

-----------------------------------------------------------------------------

LEMMA InvType == IInv => TypeOK
<1> SUFFICES ASSUME IInv PROVE TypeOK
  OBVIOUS
<1>1. Len(signature.args) \in Nat
  BY SignatureFacts DEF IInv, BufferInv
<1>2. /\ mangled.text \in Text /\ mangled.cut \in BOOLEAN /\ mangled.end \in Nat
      /\ mangled.reached \in Nat /\ arg \in Nat
  BY <1>1 DEF IInv, BufferInv, Matches
<1>3. Len(mangled.text) \in Nat
  BY <1>2 DEF Text
<1>4. out.holds \in {"nothing", "name"} => mangled.reached <= Buffer
  BY DEF IInv, OutInv, Working, Overrun, Name
<1> QED
  BY <1>2, <1>3, <1>4 DEF TypeOK

\* What is put into the buffer has its type, and a name is returned only if the
\* buffer held it (src/symbol.c:8).
LEMMA TypeCorrect == Spec => []TypeOK
BY Invariant, InvType, PTL

LEMMA InvCopy == IInv => CopyFits
<1> SUFFICES ASSUME IInv PROVE CopyFits
  OBVIOUS
<1> DEFINE s == Written(signature, arg)
<1>1. signature \in Signatures /\ Matches(mangled, s) /\ arg \in 0 .. Len(signature.args) + 1
  BY DEF IInv, BufferInv
<1>2. s \in Text
  <2>1. Len(signature.args) \in Nat
    BY <1>1, SignatureFacts
  <2>2. arg \in Nat
    BY <1>1, <2>1
  <2> QED
    BY <1>1, <2>2, WrittenFacts
<1> HIDE DEF s
<1>3. /\ mangled.text \in Text /\ mangled.cut \in BOOLEAN /\ mangled.end = Len(s)
      /\ IF mangled.cut THEN Len(mangled.text) < Len(s) ELSE mangled.text = s
  BY <1>1 DEF Matches
<1>4. Len(mangled.text) \in Nat /\ Len(s) \in Nat
  BY <1>2, <1>3 DEF Text
<1>5. Len(mangled.text) <= mangled.end /\ (mangled.cut <=> Len(mangled.text) < mangled.end)
  BY <1>3, <1>4
<1>6. out.holds = "name" => out.text = mangled.text /\ out.size = mangled.end + 1
  BY DEF IInv, OutInv, Working, Overrun, Name
<1> QED
  BY <1>3, <1>4, <1>5, <1>6 DEF CopyFits

\* strcpy stays within what malloc returned (src/symbol.c:45), whatever is cut.
THEOREM CopyCorrect == Spec => []CopyFits
BY Invariant, InvCopy, PTL

LEMMA BeginsIsPrefix ==
  ASSUME NEW t \in Text, NEW s \in Text, Begins(t, s)
  PROVE  IsPrefix(t, s)
<1>1. PICK r \in Text : s = t \o r
  BY DEF Begins
<1>2. /\ Len(s) = Len(t) + Len(r) /\ Len(t) \in Nat /\ Len(r) \in Nat
      /\ \A k \in 1 .. Len(t) : s[k] = t[k]
  BY <1>1, ConcatIs
<1>3. Len(t) <= Len(s)
  BY <1>2
<1>4. SubSeq(s, 1, Len(t)) \in Text /\ Len(SubSeq(s, 1, Len(t))) = Len(t)
      /\ \A k \in 1 .. Len(t) : SubSeq(s, 1, Len(t))[k] = s[k]
  BY <1>2, <1>3 DEF Text
<1> DEFINE u == SubSeq(s, 1, Len(t))
<1>5. u \in Text /\ Len(u) = Len(t) /\ \A k \in 1 .. Len(t) : u[k] = t[k]
  BY <1>2, <1>4
<1> HIDE DEF u
<1>6. t = u
  BY <1>5, TextsEqual
<1> QED
  BY <1>3, <1>6 DEF IsPrefix, u

\* What IInv says of a buffer that is finished or overrun.
LEMMA OutFacts ==
  ASSUME IInv
  PROVE  /\ signature \in Signatures /\ Encoding(signature) \in Text
         /\ out.holds = "name" =>
              /\ out.text = mangled.text /\ Matches(mangled, Encoding(signature))
              /\ mangled.cut <=> LongPiece(signature)
              /\ Len(Encoding(signature)) < Buffer
         /\ out.holds = "overrun" => Len(Encoding(signature)) >= Buffer
<1> DEFINE L == Len(signature.args)
           e == Encoding(signature)
<1>1. signature \in Signatures /\ arg \in 0 .. L + 1
  BY DEF IInv, BufferInv
<1>2. /\ L \in Nat /\ DOMAIN signature.args = 1 .. L /\ e = Written(signature, L + 1)
      /\ \A n \in Nat : Written(signature, n) \in Text
  BY <1>1, SignatureFacts, WrittenFacts
<1>3. e \in Text
  BY <1>2
<1>4. ASSUME out.holds = "name"
      PROVE  /\ out.text = mangled.text /\ Matches(mangled, e)
             /\ mangled.cut <=> LongPiece(signature)
             /\ Len(e) < Buffer
  <2>1. out.text = mangled.text /\ arg = L + 1 /\ Len(Written(signature, arg)) < Buffer
    BY <1>4 DEF IInv, OutInv, Working, Overrun, Name
  <2>2. Matches(mangled, e) /\ (mangled.cut <=> LongSoFar(signature, L + 1))
    BY <1>2, <2>1 DEF IInv, BufferInv
  <2>3. LongSoFar(signature, L + 1) <=> LongPiece(signature)
    <3>1. L + 1 > 0 /\ \A k \in DOMAIN signature.args : k < L + 1
      BY <1>2
    <3> QED
      BY <3>1 DEF LongSoFar, LongPiece
  <2> QED
    BY <1>2, <2>1, <2>2, <2>3
<1>5. ASSUME out.holds = "overrun"
      PROVE  Len(e) >= Buffer
  <2> DEFINE w == Written(signature, arg)
  <2>1. Len(w) >= Buffer
    BY <1>5 DEF IInv, OutInv, Working, Overrun, Name
  <2>2. PICK r \in Text : e = w \o r
    BY <1>1, WrittenGrows
  <2>3. w \in Text
    <3>1. arg \in Nat
      BY <1>1, <1>2
    <3> QED
      BY <1>2, <3>1
  <2> HIDE DEF w, e
  <2>4. Len(e) = Len(w) + Len(r) /\ Len(w) \in Nat /\ Len(r) \in Nat /\ Buffer \in Nat
    BY <2>2, <2>3, ConcatIs, MangleAssumption
  <2> QED
    BY <2>1, <2>4
<1> QED
  BY <1>1, <1>3, <1>4, <1>5

LEMMA InvEncoding == IInv => NameIsTheEncoding
<1> SUFFICES ASSUME IInv PROVE NameIsTheEncoding
  OBVIOUS
<1> DEFINE e == Encoding(signature)
<1>1. /\ e \in Text
      /\ out.holds = "overrun" => Len(e) >= Buffer
      /\ out.holds = "name" => Len(e) < Buffer
  BY OutFacts
<1> HIDE DEF e
<1>2. ASSUME out.holds = "name"
      PROVE  IsPrefix(out.text, e) /\ (out.text = e <=> ~LongPiece(signature))
  <2>1. out.text = mangled.text /\ Matches(mangled, e) /\ (mangled.cut <=> LongPiece(signature))
    BY <1>2, OutFacts DEF e
  <2>2. /\ mangled.text \in Text /\ Begins(mangled.text, e)
        /\ IF mangled.cut THEN Len(mangled.text) < Len(e) ELSE mangled.text = e
    BY <2>1 DEF Matches
  <2>3. IsPrefix(mangled.text, e)
    BY <1>1, <2>2, BeginsIsPrefix
  <2>4. mangled.text = e <=> ~mangled.cut
    <3>1. Len(e) \in Nat
      BY <1>1 DEF Text
    <3>2. ~(Len(e) < Len(e))
      BY <3>1
    <3> QED
      BY <2>2, <3>2
  <2> QED
    BY <2>1, <2>3, <2>4
<1> QED
  BY <1>1, <1>2 DEF NameIsTheEncoding, e

\* A name is the encoding of the signature, or a beginning of it if snprintf has
\* cut a piece; the buffer is overrun exactly by what is too long for it.
THEOREM EncodingCorrect == Spec => []NameIsTheEncoding
BY Invariant, InvEncoding, PTL

LEMMA InvOverloads == IInv => OverloadsDiffer
<1> SUFFICES ASSUME IInv, out.holds = "name", ~mangled.cut,
                    NEW other \in Signatures, Encoding(other) = out.text
             PROVE  SameSignature(other, signature)
  BY DEF OverloadsDiffer
<1>1. signature \in Signatures /\ out.text = mangled.text /\ Matches(mangled, Encoding(signature))
  BY OutFacts
<1>2. mangled.text = Encoding(signature)
  BY <1>1 DEF Matches
<1> QED
  BY <1>1, <1>2, EncodingUnique

\* No signature has the encoding that another one's name is, if nothing was cut.
THEOREM OverloadsCorrect == Spec => []OverloadsDiffer
BY Invariant, InvOverloads, PTL
=============================================================================
