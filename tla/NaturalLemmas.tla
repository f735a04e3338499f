--------------------------- MODULE NaturalLemmas ---------------------------
(***************************************************************************)
(* What the other proof modules need to know of the naturals: every set of *)
(* them has a least member, so induction over a set of them is sound, a    *)
(* recursive function over an initial segment exists, and a finite set in  *)
(* an order has a first element, a second, and so on.  All of it is        *)
(* first-order: sets and functions stand where the library's induction     *)
(* theorems take an operator.                                              *)
(***************************************************************************)
EXTENDS Integers, FiniteSets, FiniteSetTheorems, FunctionTheorems, TLAPS

\* Every set of naturals that is not empty has a least member: the finite sets
\* 0..x are well founded under strict inclusion.
THEOREM LeastNumber ==
  ASSUME NEW T, T \subseteq Nat, T # {}
  PROVE  \E x \in T : \A y \in T : x <= y
  <1> DEFINE Below == {0..x : x \in T}
  <1>1. IsWellFoundedOn(StrictSubsetOrdering(Nat), FiniteSubsetsOf(Nat))
    BY FS_StrictSubsetOrderingWellFounded
  <1>2. ASSUME NEW x \in T
        PROVE  0..x \in FiniteSubsetsOf(Nat)
    <2>1. x \in Nat /\ 0 \in Int
      OBVIOUS
    <2>2. IsFiniteSet(0..x)
      BY <2>1, FS_Interval
    <2>3. 0..x \subseteq Nat
      BY <2>1
    <2>4. QED
      BY <2>2, <2>3 DEF FiniteSubsetsOf
  <1>3. Below \subseteq FiniteSubsetsOf(Nat) /\ Below # {}
    BY <1>2
  <1>4. PICK b \in Below : \A c \in Below : ~(<<c, b>> \in StrictSubsetOrdering(Nat))
    <2> HIDE DEF Below
    <2>1. QED
      BY <1>1, <1>3, WFMin
  <1>5. PICK x \in T : b = 0..x
    OBVIOUS
  <1>6. ASSUME NEW y \in T
        PROVE  x <= y
    <2>1. x \in Nat /\ y \in Nat
      OBVIOUS
    <2>2. SUFFICES ASSUME y < x
                   PROVE  FALSE
      BY <2>1
    <2>3. 0..y \in Below
      OBVIOUS
    <2>4. 0..y \subseteq 0..x
      BY <2>1, <2>2
    <2>5. x \in 0..x /\ x \notin 0..y
      BY <2>1, <2>2
    <2>6. 0..y \in SUBSET Nat /\ 0..x \in SUBSET Nat
      BY <2>1
    <2>7. <<0..y, 0..x>> \in StrictSubsetOrdering(Nat)
      BY <2>4, <2>5, <2>6 DEF StrictSubsetOrdering
    <2>8. QED
      BY <1>4, <1>5, <2>3, <2>7
  <1>7. QED
    BY <1>6

\* A set that contains zero and the successor of each of its members contains
\* every natural: what holds for the members of such a set holds for all.
THEOREM SetInduction ==
  ASSUME NEW T, T \subseteq Nat, 0 \in T, \A n \in T : n + 1 \in T
  PROVE  T = Nat
  <1>1. SUFFICES ASSUME Nat \ T # {}
                 PROVE  FALSE
    OBVIOUS
  <1>2. PICK x \in Nat \ T : \A y \in Nat \ T : x <= y
    BY <1>1, LeastNumber
  <1>3. x # 0 /\ x - 1 \in Nat /\ x - 1 + 1 = x
    BY <1>2
  <1>4. x - 1 \in T
    BY <1>2, <1>3
  <1>5. QED
    BY <1>2, <1>3, <1>4

\* A set of naturals with a bound has a greatest member, unless it is empty.
THEOREM GreatestNumber ==
  ASSUME NEW T, T \subseteq Nat, T # {}, NEW bound \in Nat, \A x \in T : x <= bound
  PROVE  \E x \in T : \A y \in T : y <= x
  <1> DEFINE Rest == {bound - x : x \in T}
  <1>1. Rest \subseteq Nat /\ Rest # {}
    <2>1. ASSUME NEW x \in T
          PROVE  bound - x \in Nat
      <3>1. x \in Nat /\ x <= bound
        OBVIOUS
      <3>2. QED
        BY <3>1
    <2>2. QED
      BY <2>1
  <1>2. PICK r \in Rest : \A q \in Rest : r <= q
    <2> HIDE DEF Rest
    <2>1. QED
      BY <1>1, LeastNumber
  <1>3. PICK x \in T : r = bound - x
    OBVIOUS
  <1>4. ASSUME NEW y \in T
        PROVE  y <= x
    <2>1. bound - y \in Rest
      OBVIOUS
    <2>2. bound - x <= bound - y
      BY <1>2, <1>3, <2>1
    <2>3. QED
      BY <2>2
  <1>5. QED
    BY <1>4

-----------------------------------------------------------------------------
(* Recursion *)

\* A step from each number up to L to the next, on values in S.
IsStep(step, L, S) == \A n \in 1..L, s \in S : step[n][s] \in S

\* The function that starts at base and goes on with step.
IsRecursion(f, L, S, base, step) ==
  /\ f \in [0..L -> S]
  /\ f[0] = base
  /\ \A n \in 1..L : f[n] = step[n][f[n - 1]]

\* A function defined by its value at zero and by a step from each number to the
\* next exists.
THEOREM RecursiveFunction ==
  ASSUME NEW L \in Nat, NEW S, NEW base \in S, NEW step, IsStep(step, L, S)
  PROVE  \E f : IsRecursion(f, L, S, base, step)
  <1> DEFINE Solved == {m \in Nat : m <= L => \E f : IsRecursion(f, m, S, base, step)}
  <1>1. 0 \in Solved
    <2>1. IsRecursion([n \in 0..0 |-> base], 0, S, base, step)
      BY DEF IsRecursion
    <2>2. QED
      BY <2>1
  <1>2. ASSUME NEW m \in Solved
        PROVE  m + 1 \in Solved
    <2>1. m \in Nat /\ m + 1 \in Nat
      OBVIOUS
    <2>2. SUFFICES ASSUME m + 1 <= L
                   PROVE  \E f : IsRecursion(f, m + 1, S, base, step)
      BY <2>1
    <2>3. PICK f : IsRecursion(f, m, S, base, step)
      BY <2>1, <2>2
    <2>4. f \in [0..m -> S] /\ f[0] = base /\ \A n \in 1..m : f[n] = step[n][f[n - 1]]
      BY <2>3 DEF IsRecursion
    <2> DEFINE g == [n \in 0..(m + 1) |-> IF n = m + 1 THEN step[m + 1][f[m]] ELSE f[n]]
    <2>5. step[m + 1][f[m]] \in S
      BY <2>1, <2>2, <2>4 DEF IsStep
    <2>6. g \in [0..(m + 1) -> S]
      BY <2>1, <2>4, <2>5
    <2>7. g[0] = base
      BY <2>1, <2>4
    <2>8. ASSUME NEW n \in 1..(m + 1)
          PROVE  g[n] = step[n][g[n - 1]]
      <3>1. CASE n \in 1..m
        <4>1. n - 1 \in 0..m
          BY <2>1, <3>1
        <4>2. g[n] = f[n] /\ g[n - 1] = f[n - 1]
          BY <2>1, <3>1, <4>1
        <4>3. QED
          BY <2>4, <3>1, <4>2
      <3>2. CASE n = m + 1
        <4>1. g[n] = step[n][f[m]] /\ g[n - 1] = f[m]
          BY <2>1, <3>2
        <4>2. QED
          BY <4>1
      <3>3. QED
        BY <2>1, <3>1, <3>2
    <2>9. IsRecursion(g, m + 1, S, base, step)
      <3> HIDE DEF g
      <3>1. QED
        BY <2>6, <2>7, <2>8 DEF IsRecursion
    <2>10. QED
      BY <2>9
  <1>3. Solved = Nat
    <2>1. Solved \subseteq Nat
      OBVIOUS
    <2> HIDE DEF Solved
    <2>2. QED
      BY <1>1, <1>2, <2>1, SetInduction
  <1>4. QED
    BY <1>3

-----------------------------------------------------------------------------
(* Orders of finite sets *)

\* The elements of a finite set in a total order, each given by the set of those
\* before it, have as many before them as their places 0, 1, 2, ... say.
THEOREM Places ==
  ASSUME NEW S, IsFiniteSet(S), NEW before \in [S -> SUBSET S],
         \A e \in S : e \notin before[e],
         \A d, e \in S : d \in before[e] => before[d] \subseteq before[e],
         \A d, e \in S : d /= e => d \in before[e] \/ e \in before[d]
  PROVE  /\ Cardinality(S) \in Nat
         /\ \A e \in S : /\ Cardinality(before[e]) \in 0..(Cardinality(S) - 1)
                         /\ IsFiniteSet(before[e])
         /\ \A d, e \in S : d \in before[e] <=> Cardinality(before[d]) < Cardinality(before[e])
         /\ \A n \in 0..(Cardinality(S) - 1) : \E e \in S : Cardinality(before[e]) = n
         /\ \A d, e \in S : Cardinality(before[d]) = Cardinality(before[e]) => d = e
  <1> DEFINE place == [e \in S |-> Cardinality(before[e])]
             size == Cardinality(S)
             places == 0..(size - 1)
  <1>1. size \in Nat
    BY FS_CardinalityType
  <1>2. ASSUME NEW e \in S
        PROVE  IsFiniteSet(before[e]) /\ Cardinality(before[e]) \in Nat
    BY FS_Subset, FS_CardinalityType
  <1>3. ASSUME NEW d \in S, NEW T \in SUBSET S, d \notin before[d], d \in T, before[d] \subseteq T
        PROVE  Cardinality(before[d]) + 1 <= Cardinality(T)
    <2>1. IsFiniteSet(T) /\ Cardinality(T) \in Nat
      BY FS_Subset, FS_CardinalityType
    <2>2. before[d] \union {d} \in SUBSET T
      BY <1>3
    <2>3. Cardinality(before[d] \union {d}) = Cardinality(before[d]) + 1
      BY <1>2, <1>3, FS_AddElement
    <2>4. QED
      BY <2>1, <2>2, <2>3, FS_Subset
  <1>4. ASSUME NEW d \in S, NEW e \in S, d \in before[e]
        PROVE  Cardinality(before[d]) < Cardinality(before[e])
    <2>1. before[d] \subseteq before[e] /\ before[e] \in SUBSET S
      BY <1>4
    <2>2. Cardinality(before[d]) + 1 <= Cardinality(before[e])
      BY <1>3, <1>4, <2>1
    <2>3. QED
      BY <1>2, <2>2
  <1>5. ASSUME NEW d \in S, NEW e \in S
        PROVE  /\ Cardinality(before[d]) < Cardinality(before[e]) => d \in before[e]
               /\ Cardinality(before[d]) = Cardinality(before[e]) => d = e
    BY <1>2, <1>4
  <1>6. ASSUME NEW e \in S
        PROVE  Cardinality(before[e]) \in places
    <2>1. Cardinality(before[e]) + 1 <= size
      BY <1>3
    <2>2. QED
      BY <1>1, <1>2, <2>1
  <1>7. place \in Injection(S, places)
    <2>1. place \in [S -> places]
      BY <1>6
    <2>2. \A d, e \in S : place[d] = place[e] => d = e
      BY <1>5
    <2>3. QED
      BY <2>1, <2>2, Fun_IsInj
  <1>8. IsFiniteSet(places) /\ Cardinality(places) = size
    BY <1>1, FS_Interval
  <1>9. \A e \in S : place[e] = Cardinality(before[e])
    OBVIOUS
  <1> HIDE DEF place
  <1>10. place \in Surjection(S, places)
    BY <1>7, <1>8, FS_Injection
  <1>11. ASSUME NEW n \in places
         PROVE  \E e \in S : Cardinality(before[e]) = n
    <2> HIDE DEF places
    <2>1. \A t \in places : \E s \in S : place[s] = t
      BY <1>10, Fun_SurjectionProperties
    <2>2. QED
      BY <1>9, <1>11, <2>1
  <1>12. QED
    BY <1>1, <1>2, <1>4, <1>5, <1>6, <1>11
=============================================================================
