------------------------------ MODULE Induction ------------------------------
(***************************************************************************)
(* Induction over the natural numbers and recursive functions on them,     *)
(* without operators as parameters: what is to be shown of every number is *)
(* that it lies in a set, and the step of a recursion is a function.       *)
(***************************************************************************)
EXTENDS Integers, WellFoundedInduction, TLAPS

\* A set of numbers that is not empty has a least element.
LEMMA LeastElement ==
  ASSUME NEW T, T \subseteq Nat, T # {}
  PROVE  \E n \in T : \A m \in T : n <= m
<1> DEFINE R == OpToRel(<, Nat)
<1>1. PICK n \in T : \A m \in T : ~(<<m, n>> \in R)
  <2> HIDE DEF R
  <2>1. IsWellFoundedOn(R, Nat)
    BY NatLessThanWellFounded DEF R
  <2> QED
    BY <2>1, WFMin
<1>2. \A m, k \in Nat : m < k => <<m, k>> \in R
  BY DEF OpToRel
<1> HIDE DEF R
<1>3. \A m \in T : ~(m < n)
  BY <1>1, <1>2
<1>4. n \in Nat /\ \A m \in T : n <= m
  BY <1>3
<1> QED
  BY <1>4

LEMMA InductionOnNat ==
  ASSUME NEW S, 0 \in S, \A n \in Nat : n \in S => n + 1 \in S
  PROVE  \A n \in Nat : n \in S
<1> DEFINE T == {n \in Nat : n \notin S}
<1>1. SUFFICES ASSUME T # {} PROVE FALSE
  OBVIOUS
<1>2. PICK n \in T : \A m \in T : n <= m
  BY <1>1, LeastElement
<1>3. n \in Nat /\ n # 0 /\ n - 1 \in Nat /\ ~(n <= n - 1) /\ n - 1 + 1 = n
  OBVIOUS
<1>4. n - 1 \notin T
  BY <1>2, <1>3
<1> QED
  BY <1>3, <1>4

\* A recursion has a solution, and one only.
Solves(f, a, step, n) ==
  f[0] = a /\ \A m \in Nat : m < n => f[m + 1] = step[<<m, f[m]>>]

LEMMA SolutionsAgree ==
  ASSUME NEW a, NEW step, NEW f, NEW g, NEW n \in Nat, NEW k \in Nat,
         Solves(f, a, step, n), Solves(g, a, step, k)
  PROVE  \A m \in Nat : m <= n /\ m <= k => f[m] = g[m]
<1> DEFINE S == {m \in Nat : m <= n /\ m <= k => f[m] = g[m]}
<1>1. 0 \in S
  BY DEF Solves
<1>2. ASSUME NEW m \in Nat, m \in S PROVE m + 1 \in S
  <2> SUFFICES ASSUME m + 1 <= n, m + 1 <= k PROVE f[m + 1] = g[m + 1]
    OBVIOUS
  <2>1. m < n /\ m < k /\ f[m] = g[m]
    BY <1>2
  <2> QED
    BY <2>1 DEF Solves
<1> HIDE DEF S
<1>3. \A m \in Nat : m \in S
  BY <1>1, <1>2, InductionOnNat
<1> QED
  BY <1>3 DEF S

LEMMA SolutionUpTo ==
  ASSUME NEW V, NEW a \in V, NEW step \in [Nat \X V -> V], NEW n \in Nat
  PROVE  \E f \in [Nat -> V] : Solves(f, a, step, n)
<1> DEFINE S == {m \in Nat : \E f \in [Nat -> V] : Solves(f, a, step, m)}
<1>1. 0 \in S
  <2> DEFINE f == [m \in Nat |-> a]
  <2>1. f \in [Nat -> V] /\ Solves(f, a, step, 0)
    BY DEF Solves
  <2> QED
    BY <2>1
<1>2. ASSUME NEW m \in Nat, m \in S PROVE m + 1 \in S
  <2>1. PICK f \in [Nat -> V] : Solves(f, a, step, m)
    BY <1>2
  <2> DEFINE g == [k \in Nat |-> IF k = m + 1 THEN step[<<m, f[m]>>] ELSE f[k]]
  <2>2. g \in [Nat -> V]
    OBVIOUS
  <2>3. g[0] = f[0] /\ \A k \in Nat : k < m + 1 => g[k] = f[k] /\ (k < m => g[k + 1] = f[k + 1])
    OBVIOUS
  <2>4. g[m + 1] = step[<<m, f[m]>>]
    OBVIOUS
  <2> HIDE DEF g
  <2>5. ASSUME NEW k \in Nat, k < m + 1 PROVE g[k + 1] = step[<<k, g[k]>>]
    <3>1. CASE k < m
      BY <2>1, <2>3, <2>5, <3>1 DEF Solves
    <3>2. CASE k = m
      BY <2>3, <2>4, <2>5, <3>2
    <3> QED
      BY <2>5, <3>1, <3>2
  <2>6. Solves(g, a, step, m + 1)
    BY <2>1, <2>3, <2>5 DEF Solves
  <2> QED
    BY <2>2, <2>6
<1> HIDE DEF S
<1>3. n \in S
  BY <1>1, <1>2, InductionOnNat
<1> QED
  BY <1>3 DEF S

Steps(V) == [Nat \X V -> V]

Iterates(f, a, step) == f[0] = a /\ \A n \in Nat : f[n + 1] = step[<<n, f[n]>>]

LEMMA Recursion ==
  ASSUME NEW V, NEW a \in V, NEW step \in Steps(V)
  PROVE  \E f \in [Nat -> V] : Iterates(f, a, step)
<1> DEFINE g(n) == CHOOSE f \in [Nat -> V] : Solves(f, a, step, n)
           f    == [n \in Nat |-> g(n)[n]]
<1>1. \A n \in Nat : g(n) \in [Nat -> V] /\ Solves(g(n), a, step, n)
  BY SolutionUpTo DEF Steps
<1> HIDE DEF g
<1>2. f \in [Nat -> V]
  BY <1>1
<1>3. f[0] = a
  BY <1>1 DEF Solves
<1>4. ASSUME NEW n \in Nat PROVE f[n + 1] = step[<<n, f[n]>>]
  <2>1. g(n + 1)[n + 1] = step[<<n, g(n + 1)[n]>>]
    BY <1>1 DEF Solves
  <2>2. g(n + 1)[n] = g(n)[n]
    <3>1. Solves(g(n + 1), a, step, n + 1) /\ Solves(g(n), a, step, n)
      BY <1>1
    <3>2. \A m \in Nat : m <= n + 1 /\ m <= n => g(n + 1)[m] = g(n)[m]
      <4>1. n + 1 \in Nat
        OBVIOUS
      <4> DEFINE p == g(n + 1)
                 q == g(n)
      <4>2. Solves(p, a, step, n + 1) /\ Solves(q, a, step, n)
        BY <3>1
      <4> HIDE DEF p, q
      <4>3. \A m \in Nat : m <= n + 1 /\ m <= n => p[m] = q[m]
        BY <4>1, <4>2, SolutionsAgree
      <4> QED
        BY <4>3 DEF p, q
    <3> QED
      BY <3>2
  <2> QED
    BY <2>1, <2>2
<1> QED
  BY <1>2, <1>3, <1>4 DEF Iterates

=============================================================================
