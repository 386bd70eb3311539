-------------------------- MODULE InductionLemmas --------------------------
(***************************************************************************)
(* Induction and recursion over the naturals, stated about sets instead of *)
(* predicates: a proof takes the set of numbers for which its claim holds. *)
(***************************************************************************)
EXTENDS WellFoundedInduction, TLAPS

LEMMA Least == ASSUME NEW T, T \subseteq Nat, T # {} PROVE \E x \in T : \A y \in T : x <= y
<1> DEFINE R == OpToRel(<, Nat)
<1>1. PICK x \in T : \A y \in T : ~(<<y, x>> \in R)
  BY WFMin, NatLessThanWellFounded
<1>2. ASSUME NEW y \in T, y < x PROVE <<y, x>> \in R
  BY <1>2 DEF OpToRel
<1> HIDE DEF R
<1>3. ASSUME NEW y \in T PROVE ~(y < x)
  BY <1>1, <1>2
<1>4. ASSUME NEW y \in T PROVE x <= y
  BY <1>3
<1>5. QED
  BY <1>4

LEMMA Greatest ==
  ASSUME NEW n \in Nat, NEW T, T \subseteq 0..n, T # {}
  PROVE  \E x \in T : \A y \in T : x >= y
<1> DEFINE U == {n - y : y \in T}
<1>1. U \subseteq Nat /\ U # {}
  <2>1. ASSUME NEW y \in T PROVE n - y \in Nat
    OBVIOUS
  <2>2. QED
    BY <2>1
<1>2. PICK u \in U : \A w \in U : u <= w
  BY <1>1, Least
<1>3. PICK x \in T : u = n - x
  OBVIOUS
<1>4. ASSUME NEW y \in T PROVE x >= y
  <2>1. u <= n - y
    BY <1>2
  <2>2. x \in 0..n /\ y \in 0..n
    BY Zenon
  <2>3. QED
    BY <1>3, <2>1, <2>2
<1>5. QED
  BY <1>4

\* If T holds m and, with each number below n, its successor, it holds m..n.
LEMMA Climb ==
  ASSUME NEW m \in Int, NEW n \in Int, NEW T, m \in T,
         \A i \in m..(n - 1) : i \in T => i + 1 \in T
  PROVE  m..n \subseteq T
<1> SUFFICES ASSUME NEW k \in m..n, k \notin T PROVE FALSE
  OBVIOUS
<1> DEFINE Missing == {d \in Nat : m + d \in m..n /\ m + d \notin T}
<1>1. k - m \in Missing
  OBVIOUS
<1>2. PICK d \in Missing : \A e \in Missing : d <= e
  BY <1>1, Least
<1>3. d # 0
  <2> SUFFICES ASSUME d = 0 PROVE FALSE
    OBVIOUS
  <2>1. m + d = m
    OBVIOUS
  <2> QED BY <2>1
<1>4. d - 1 \in Nat /\ d - 1 \notin Missing /\ m + (d - 1) \in m..(n - 1)
  BY <1>2, <1>3
<1>5. m + (d - 1) \in T
  BY <1>4
<1>6. (m + (d - 1)) + 1 \in T
  BY <1>4, <1>5
<1>7. (m + (d - 1)) + 1 = m + d
  OBVIOUS
<1> QED BY <1>6, <1>7

\* g takes n steps of F in U from the start.
Unfolds(g, U, start, F, n) ==
  g \in [0..n -> U] /\ g[0] = start /\ \A i \in 1..n : g[i] = F[g[i - 1]]

\* A recursion over 0..n whose step is a function on U defines a function into U.
LEMMA Recursion ==
  ASSUME NEW U, NEW start \in U, NEW F \in [U -> U], NEW n \in Nat
  PROVE  \E g : Unfolds(g, U, start, F, n)
<1> DEFINE Solves(g, m) == g[0] = start /\ \A i \in 1..m : g[i] = F[g[i - 1]]
           T == {m \in Nat : \E g \in [0..m -> U] : Solves(g, m)}
<1>1. 0 \in T
  <2> DEFINE g == [i \in 0..0 |-> start]
  <2>1. g \in [0..0 -> U] /\ Solves(g, 0)
    OBVIOUS
  <2> QED BY <2>1
<1>2. ASSUME NEW m \in 0..(n - 1), m \in T PROVE m + 1 \in T
  <2>1. PICK g \in [0..m -> U] : Solves(g, m)
    BY <1>2
  <2> DEFINE h == [i \in 0..(m + 1) |-> IF i = m + 1 THEN F[g[m]] ELSE g[i]]
  <2>2. m \in Nat /\ g[m] \in U
    OBVIOUS
  <2>3. h \in [0..(m + 1) -> U]
    BY <2>2
  <2>4. Solves(h, m + 1)
    <3>1. ASSUME NEW i \in 1..(m + 1) PROVE h[i] = F[h[i - 1]]
      <4>1. CASE i = m + 1
        BY <2>2, <4>1
      <4>2. CASE i \in 1..m
        BY <2>1, <2>2, <4>2
      <4> QED BY <2>2, <4>1, <4>2
    <3>2. h[0] = start
      BY <2>1, <2>2
    <3> QED BY <3>1, <3>2
  <2> HIDE DEF h, Solves
  <2> QED BY <2>2, <2>3, <2>4
<1> HIDE DEF T, Solves
<1>3. 0..n \subseteq T
  BY <1>1, <1>2, Climb
<1>4. n \in T
  BY <1>3
<1>5. PICK g \in [0..n -> U] : Solves(g, n)
  BY <1>4 DEF T
<1> QED BY <1>5 DEF Solves, Unfolds
=============================================================================
